CONSTANTS
    Stores = {s1, s2, s3, s4}
    StartSets <- Sets
    Dispatchers = {d1, d2}
    MaxReplicas = 3
    MaxConfVer = 4
    MaxOperators = 2
    MaxFaults = 1
    MaxCmds = 1
SPECIFICATION Spec
INVARIANTS ReplacedAfterCatchUp OneOutcome SuccessIsReal
PROPERTIES ReplicasKept
SYMMETRY Symmetry
