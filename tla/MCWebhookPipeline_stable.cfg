\* One event with one id: redeliveries, retention, rescue, operator retry,
\* a worker crash and a lost write, in every interleaving.
SPECIFICATION Spec
CONSTANTS
    pay = pay
    dodoPay = dodoPay
    other = other
    badSig = badSig
    idPay = idPay
    idDodoHeader = idDodoHeader
    idDodo = idDodo
    idOther = idOther
    idBad = idBad
    Events = {pay}
    Logs = {l1, l2}
    Anon = {a1}
    NoEvent = NoEvent
    NoLog = NoLog
    NoId = NoId
    Ids <- MCIds
    IngressId <- MCIngressId
    VerifiedId <- MCVerifiedId
    Genuine <- MCGenuine
    Restorable <- MCAllRestorable
    Payment <- MCPayment
    Attempts = 2
    MaxStalls = 1
    RescueMax = 1
    MaxDeliveries = 2
    MaxRetries = 1
    MaxCrashes = 1
    MaxFaults = 1
SYMMETRY LogSymmetry
INVARIANTS OneHandlerPerEvent EffectsOnceInWindow InFlightRowHasJob
PROPERTIES ImplementsWindow
CHECK_DEADLOCK FALSE
