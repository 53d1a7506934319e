SPECIFICATION FairSpec
CONSTANTS
    Proc = {p1, p2}
    NoLock = NoLock
    Child = Child
    SignalWindows <- OnlyEarly
    MayKill = TRUE
CHECK_DEADLOCK FALSE
INVARIANTS MutualExclusion ReadersSeeWholeFile NoLostUpdate 
PROPERTIES RefinesAtomicUpdate LockIsReleased
