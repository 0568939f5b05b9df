SPECIFICATION Spec
CONSTANTS
    a = a
    b = b
    Stores = {a, b}
    Follower <- Swap
    NoRegion = NoRegion
    MaxTries = 1
    Crashing = {a}
    MaxCrashes = 1
    MaxRounds = 1
CHECK_DEADLOCK FALSE
INVARIANTS
    NoMissingApply
    RegisteredKept
    WholeOrDeleted
PROPERTY
    OnlyTheseStop
