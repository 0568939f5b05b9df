CONSTANTS
    t1 = t1
    t2 = t2
    t3 = t3
    Threads <- MCThreads
    NoThread = NoThread
    Keys <- MCKeys
    Requests <- MCRequests
SPECIFICATION FairSpec
INVARIANTS Exclusive BlockedOnHolder
PROPERTIES OnlyTrafficStarves
