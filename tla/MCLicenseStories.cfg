\* The provider and the customer stop in the end, so the system may stop.
SPECIFICATION Spec
CONSTANTS
    u1 = u1
    u2 = u2
    p1 = p1
    p2 = p2
    pay = pay
    act = act
    gone = gone
    bad = bad
    refund = refund
    other = other
    t1 = t1
    t2 = t2
    t3 = t3
    t4 = t4
    s1 = s1
    s2 = s2
    NoUser = NoUser
    NoTxn = NoTxn
    NoSub = NoSub
    Users = {u1, u2}
    Purchases = {p1, p2}
    Events = {pay, act, other, gone, bad, refund}
    Txns = {t1, t2, t3, t4}
    Subs = {s1, s2}
    Buyer <- MCBuyer
    Discounted = {p1}
    Kind <- MCKind
    PurchaseOf <- MCStoryOf
    Tagged <- MCTagged
    TxnOf <- MCStoryTxn
    SubOf <- MCStorySub
    Payer <- MCStoryPayer
    MaxRuns <- MCStoryRuns
    MaxFaults = 1
    MaxReads = 0
CONSTRAINT OneStory
INVARIANTS
    FulfilledIsComplete
    OneCreation
    CountersAgree
    DoubleCountHasCause
PROPERTIES
    OnlyOwnLicense
CHECK_DEADLOCK FALSE
