\* Times in half seconds: a cleanup meets a binding in its last second.
SPECIFICATION Spec
CONSTANTS
    Digests = {0, 1}
    Auths = {a1, a2}
    Expiry = 2
    Renewal = 1
    CleanupInterval = 1
    BatchSize = 1
    Fractions = 2
    Units = {2}
    MaxTime = 3
SYMMETRY AuthSymmetry
PROPERTIES
    CleanupSparesLive
CHECK_DEADLOCK FALSE
