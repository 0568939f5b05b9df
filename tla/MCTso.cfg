SPECIFICATION Spec
CONSTANTS
    Member = {1, 2}
    None = None
    Client = {c1}
    Count = {1}
    MaxLease = 3
    Turn <- Alternately
    Wall = {2, 3, 5}
    Ms = 2
    SaveInterval = 3
    MaxLogical = 2
    MaxPhysical = 12
    MaxObj = 3
CONSTRAINT InTurn
VIEW View
CHECK_DEADLOCK FALSE
INVARIANTS
    LeaseGuardsKey
    TimestampsIncreaseInTerm
    ObjectsDiffer
    OneServes
PROPERTY
    SavedIncreases
