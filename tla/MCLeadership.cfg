SPECIFICATION Spec
CONSTANTS
    Member = {m1, m2}
    None = None
    TTL = 1
    MaxDelay = 1
    MaxNow = 3
    MaxLease = 2
    MaxRenewal = 2
VIEW View
SYMMETRY Symmetry
CHECK_DEADLOCK FALSE
PROPERTY
    KeepsContract
