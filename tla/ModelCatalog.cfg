\* Two requests for two versions, of which one is kept, while an auth comes and goes.
SPECIFICATION CatalogSpec
CONSTANTS
    Versions = {v1, v2}
    Auths = {a1}
    Callers = {c1, c2}
    Tasks = {t1, t2}
    Entries = {e1, e2, e3}
    NoEntry = NoEntry
    NoTask = NoTask
    NoAuth = NoAuth
    NoState = NoState
    MaxVersions = 1
    Retries = 1
    MaxEpoch = 1
    MaxRevision = 2
SYMMETRY CatalogSymmetry
INVARIANTS
    MarksHaveFetches
    OneFetch
    NoneForgotten
    CallsWillClose
PROPERTIES
    SnapshotsOnlyAdvance
CHECK_DEADLOCK FALSE
