\* Three signals of a session, two auths, an expiry of two ticks renewed after
\* one, and a cleanup that removes one row at a time.
SPECIFICATION Spec
CONSTANTS
    Digests = {0, 1, 2}
    Auths = {a1, a2}
    Expiry = 2
    Renewal = 1
    CleanupInterval = 1
    BatchSize = 1
    Fractions = 2
    Units = {2}
    MaxTime = 3
SYMMETRY AuthSymmetry
INVARIANTS
    ActiveGroupsAgree
    GroupsRooted
PROPERTIES
    ImplementsPromise
    CleanupSparesLasting
CHECK_DEADLOCK FALSE
