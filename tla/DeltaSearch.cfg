SPECIFICATION FairSpec
CONSTANTS
    N = 10
    Threads = 3
    Window = 1
    Inputs <- Lists
INVARIANTS TakenOnce DeltaCount
PROPERTIES SearchEnds
