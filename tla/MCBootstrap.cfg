CONSTANTS
    Members = {m1, m2}
    NoMember = NoMember
    Stores = {s1, s2}
    NoStore = NoStore
    MaxTerms = 2
    MaxCrashes = 1
    MaxLosses = 1
SPECIFICATION FairSpec
INVARIANTS OneFirstRegion EnginesAgree FirstRegionKept
PROPERTIES StoresComeUp
CHECK_DEADLOCK FALSE
