SPECIFICATION EagerSpec
CONSTANTS
    Server = {1, 2, 3}
    None = 0
    Data = {}
    NoData = NoData
    ProposeType = {"EntryNormal"}
    MaxUint64 = 15
    MaxTerm = 3
    MaxLog = 3
    BeatTerms = {}
    Campaigner <- InTurn
VIEW View
CHECK_DEADLOCK FALSE
INVARIANTS
    LeaderCompleteness
PROPERTY
    ImplementsCommittedLog
