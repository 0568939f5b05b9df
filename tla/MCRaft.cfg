SPECIFICATION EagerSpec
CONSTANTS
    Server = {s1, s2, s3}
    None = None
    Data = {d1}
    NoData = NoData
    ProposeType = {"EntryNormal"}
    MaxUint64 = 15
    MaxTerm = 2
    MaxLog = 2
    BeatTerms = {}
    Campaigner <- Anyone
SYMMETRY Symmetry
VIEW View
CHECK_DEADLOCK FALSE
INVARIANTS
    ElectionSafety
    LeadIsElected
    LogMatching
    StateMachineSafety
    CommittedIsStable
