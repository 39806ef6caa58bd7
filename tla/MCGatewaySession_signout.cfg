\* Two core sessions of one user, two gateway sessions, two requests; nothing
\* fails, so the exception SignedOutStaysOut makes for errors is not used.
SPECIFICATION Spec
CONSTANTS
    a = a
    k1 = k1
    k2 = k2
    Users = {a}
    Cores = {k1, k2}
    Tokens = {t1, t2}
    Requests = {r1, r2}
    Owner <- MCOwner
    NoCore = NoCore
    NoToken = NoToken
    NoSession = NoSession
    ADMIN_INACTIVITY_TIMEOUT = 1
    SESSION_TTL = 1
    LoginTtl <- MCTtl
    MaxTime = 0
    MaxFaults = 0
SYMMETRY MCSymmetry
PROPERTY SignedOutStaysOut
