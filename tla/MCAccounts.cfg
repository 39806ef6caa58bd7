SPECIFICATION AccountsSpec
CONSTANTS
    requestLimit = 1
    verifyLimit = 2
    Clients = {x1, x2}
    Otps = {v1, v2}
    Codes = {k1, k2}
    Accounts = {a1, a2}
    NoOtp = NoOtp
    NoCode = NoCode
    NoAccount = NoAccount
    WrongCode = WrongCode
    OTP_MAX_ATTEMPTS = 2
    Limit <- Limits
    MaxTries = 3
    MaxErrors = 1
    Visits = {x1, x2}
    States = {v1, v2}
    Consents = {k1, k2}
    Persons = {a1, a2}
    NoState = NoState
    NoConsent = NoConsent
    NoPerson = NoPerson
    MaxCrashes = 1
SYMMETRY Alike
INVARIANTS CodeUsesBounded  WindowBounded CounterEnds
           StateUsesBounded OneAccountServed UsersBounded
PROPERTY LockHolds
CHECK_DEADLOCK FALSE
