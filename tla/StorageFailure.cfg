\* Three requests with any statements.
SPECIFICATION StorageFairSpec
CONSTANTS
    Requests = {r1, r2, r3}
    NoRequest = NoRequest
INVARIANTS
    FirstFailureForAll
PROPERTIES
    NoSuccessAfterFatal
    FatalStopsProcess
CHECK_DEADLOCK FALSE
