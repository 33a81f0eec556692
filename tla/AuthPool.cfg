\* Two callers of the store and two files, while an operator edits one.
SPECIFICATION PoolSpec
CONSTANTS
    Files = {1, 2}
    Accounts = {A}
    NoAccount = NoAccount
    Absent = Absent
    Broken = Broken
    NoFile = NoFile
    Callers = {c1, c2}
    NoCaller = NoCaller
    Initial <- EnabledFiles
    MaxIssued = 2
    MaxEdits = 1
SYMMETRY PoolSymmetry
INVARIANTS
    ChangesStand
    GraceServes
    RemovalsHeard
PROPERTIES
    TokensNeverGoBack
CHECK_DEADLOCK FALSE
