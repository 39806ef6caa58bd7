\* The provider and the customer stop in the end, so the system may stop.
SPECIFICATION FairSpec
CONSTANTS
    u1 = u1
    u2 = u2
    p1 = p1
    p2 = p2
    pay = pay
    act = act
    gone = gone
    bad = bad
    refund = refund
    other = other
    t1 = t1
    t2 = t2
    t3 = t3
    t4 = t4
    s1 = s1
    s2 = s2
    NoUser = NoUser
    NoTxn = NoTxn
    NoSub = NoSub
    Users = {u1}
    Purchases = {p1}
    Events = {pay, bad}
    Txns = {t1, t2, t3, t4}
    Subs = {}
    Buyer <- MCBuyer
    Discounted = {}
    Kind <- MCKind
    PurchaseOf <- MCPurchaseOf
    Tagged <- MCTagged
    TxnOf <- MCTxnOf
    SubOf <- MCOneOff
    Payer <- MCPayer
    MaxRuns <- MCAttempts
    MaxFaults = 1
    MaxReads = 1
PROPERTIES
    
    EventuallyFresh
CHECK_DEADLOCK FALSE
