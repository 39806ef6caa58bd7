SPECIFICATION OperationsSpec
CONSTANTS
    Calls = {x1, x2}
    Devices = {z1, z2}
    Sessions = {s1}
    Caps = {1}
    Unlimited = Unlimited
    NoDevice = NoDevice
    MaxCalls = 5
    Refunders = {x1, x2}
    MaxRefunds = 4
    MaxRefundFaults = 1
    MaxFulfilments = 2
    Hooks = {z1, z2, h3}
    DELIVERY_CONCURRENCY = 2
    ATTEMPTS = 3
    MAX_STALLED = 1
    MaxTroubles = 2
    MaxEdits = 1
    Prices = {z1, z2}
    Providers = {q1}
    Syncs = {x1, x2}
    NoProvider = NoProvider
    NoPrice = NoPrice
    MAX_RETRIES = 1
    MaxSyncs = 2
    MaxSyncFaults = 1
    Configs = {z1, z2}
    Managers = {x1, x2}
    NoConfig = NoConfig
    MaxPromoCalls = 4
    MaxCouponFaults = 1
    People = {founder, z1, z2}
    Founder = founder
    Staff = {x1, x2}
    Invites = {i1, i2}
    Nobody = Nobody
    NoInvite = NoInvite
    MaxRequests = 3
SYMMETRY Alike
INVARIANTS SeatsBounded RemovedLeavesNothing RefundsBounded
           DoneReachesAll CopiesExplained  
           UndisturbedNamed  SweepLeavesNone
           RolesGiven
PROPERTIES SeatGivenBack OwnerStays LastAdminStays
CHECK_DEADLOCK FALSE
