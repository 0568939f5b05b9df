SPECIFICATION FullSpec
CONSTANTS
    Server = {s1, s2}
    None = None
    Data = {d1}
    NoData = NoData
    ProposeType = {"EntryNormal"}
    MaxUint64 = 15
    MaxTerm = 2
    MaxLog = 2
    BeatTerms = {1, 2}
    Campaigner <- Anyone
SYMMETRY Symmetry
VIEW View
CHECK_DEADLOCK FALSE
PROPERTY
    CommitNeverRegresses
