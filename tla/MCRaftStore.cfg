CONSTANTS
    MemberAt <- MCMemberAt
    Cap = 2
    Interval = 1
    MaxCrashes = 1
    MaxInFlight = 2
SPECIFICATION FairSpec
INVARIANTS NoMetaCorruption TombstoneClean
PROPERTIES OnlyRemovedDestroyed PeersTick MemberHosted StoreHeartbeats
CHECK_DEADLOCK FALSE
