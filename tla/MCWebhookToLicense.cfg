\* Providers, operators and customers stop in the end, so the system may stop.
SPECIFICATION FocusSpec
CONSTANTS
    pay = pay
    again = again
    dodoPay = dodoPay
    bad = bad
    other = other
    forged = forged
    u1 = u1
    p1 = p1
    t1 = t1
    s1 = s1
    Events = {pay, again, dodoPay, bad, other, forged}
    Logs = {l1, l2}
    Anon = {}
    NoEvent = NoEvent
    NoLog = NoLog
    NoId = NoId
    Ids <- MCIds
    IngressId <- MCIngressId
    VerifiedId <- MCVerifiedId
    Genuine = {pay, again, dodoPay, bad, other}
    Restorable <- MCRestorable
    Payment <- MCPayment
    Attempts = 2
    MaxStalls = 1
    RescueMax = 1
    MaxDeliveries = 2
    MaxRetries = 1
    MaxCrashes = 1
    MaxFaults = 0
    Users = {u1}
    Purchases = {p1}
    Txns = {t1}
    Subs = {s1}
    NoUser = NoUser
    NoTxn = NoTxn
    NoSub = NoSub
    Buyer <- MCBuyer
    Discounted = {p1}
    Kind <- MCKind
    PurchaseOf <- MCPurchaseOf
    Tagged = {pay, again, dodoPay, bad, forged}
    TxnOf <- MCTxnOf
    SubOf <- MCSubOf
    Payer <- MCPayer
    MaxRuns = 2
    MaxFailures = 1
    MaxReads = 0
SYMMETRY RowSymmetry
INVARIANTS CompletedLeavesRecords CountedOncePerWindow
PROPERTIES ImplementsPromise
CHECK_DEADLOCK FALSE
