\* RevokeIsFinal: a request of an admin session writes it back after its owner
\* revoked it from another browser.
SPECIFICATION Spec
CONSTANTS
    a = a
    k1 = k1
    k2 = k2
    Users = {a}
    Cores = {k1}
    Tokens = {t1, t2}
    Requests = {r1, r2}
    Owner <- MCOneOwner
    NoCore = NoCore
    NoToken = NoToken
    NoSession = NoSession
    ADMIN_INACTIVITY_TIMEOUT = 1
    SESSION_TTL = 1
    LoginTtl <- MCTtl
    MaxTime = 0
    MaxFaults = 0
SYMMETRY MCSymmetry
PROPERTY RevokeIsFinal
