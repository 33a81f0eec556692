\* Two requests of any kind on two users, over a database that may fail.
SPECIFICATION UserSpec
CONSTANTS
    Requests = {r1, r2}
    Users = {u1, u2}
    Names = {n1, n2}
    MaxKeys = 3
    Keep = Keep
    NoRequest = NoRequest
SYMMETRY UserSymmetry
INVARIANTS
    OneActiveKey
    ResetCutsOff
CHECK_DEADLOCK FALSE
