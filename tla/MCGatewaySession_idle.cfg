\* One core session named by a user's and an admin's gateway session, two
\* requests, two units of time, one swallowed error.
SPECIFICATION Spec
CONSTANTS
    a = a
    k1 = k1
    k2 = k2
    Users = {a}
    Cores = {k1}
    Tokens = {t1, t2}
    Requests = {r1, r2}
    Owner <- MCOneOwner
    NoCore = NoCore
    NoToken = NoToken
    NoSession = NoSession
    ADMIN_INACTIVITY_TIMEOUT = 1
    SESSION_TTL = 1
    LoginTtl <- MCTtl
    MaxTime = 2
    MaxFaults = 1
SYMMETRY MCSymmetry
PROPERTIES
    DroppedStaysOut
    IdleAdminRefused
