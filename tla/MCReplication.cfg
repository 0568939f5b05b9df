SPECIFICATION Spec
CONSTANTS
    Server = {1, 2, 3}
    None = 0
    Data = {d1}
    NoData = NoData
    ProposeType = {"EntryNormal"}
    MaxUint64 = 15
    Leader = 1
    Follower = 2
    Term = 3
    StartLogs <- OldLogs
    MaxLog = 4
    MaxInFlight = 2
INVARIANT
    MatchIsReplicated
PROPERTIES
    ReliableCatchesUp
    ReliableCommitReaches
    OnlyUnderflowStops
