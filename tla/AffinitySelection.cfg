\* Two requests with any of two signals, two auths, a catalog that may name one
\* of them, a binding that expires, one change of an auth or clear by an operator.
SPECIFICATION SelectionSpec
CONSTANTS
    Digests = {0, 1}
    Auths = {a1, a2}
    Requests = {r1, r2}
    Expiry = 2
    Renewal = 1
    CleanupInterval = 1
    BatchSize = 1
    Fractions = 2
    Units = {2}
    MaxTime = 2
    Catalogs = {{a1}, {a2}}
    MaxRetries = 0
    MaxDisturbances = 1
    NoAuth = NoAuth
    NoBinding = NoBinding
SYMMETRY SelectionSymmetry
INVARIANTS
    SessionsStick
PROPERTIES
    MovesOnlyOffUnusable
CHECK_DEADLOCK FALSE
