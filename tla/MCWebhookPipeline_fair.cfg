\* A Dodo event whose deliveries hold two rows, beside one no configuration
\* verifies and one without payment: whatever was answered 200 settles.
SPECIFICATION FairSpec
CONSTANTS
    pay = pay
    dodoPay = dodoPay
    other = other
    badSig = badSig
    idPay = idPay
    idDodoHeader = idDodoHeader
    idDodo = idDodo
    idOther = idOther
    idBad = idBad
    Events = {dodoPay, badSig, other}
    Logs = {l1, l2}
    Anon = {a1}
    NoEvent = NoEvent
    NoLog = NoLog
    NoId = NoId
    Ids <- MCIds
    IngressId <- MCIngressId
    VerifiedId <- MCVerifiedId
    Genuine <- MCGenuine
    Restorable <- MCRestorable
    Payment <- MCPayment
    Attempts = 2
    MaxStalls = 1
    RescueMax = 0
    MaxDeliveries = 2
    MaxRetries = 0
    MaxCrashes = 1
    MaxFaults = 0
PROPERTIES AckedIsSettled
CHECK_DEADLOCK FALSE
