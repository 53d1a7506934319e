SPECIFICATION Spec
CONSTANTS
    k = k
    o1 = o1
    o2 = o2
    main = main
    topic = topic
    branch = branch
    None = None
    g1 = g1
    g2 = g2
    Object = {k, o1, o2}
    Ref = {main, topic, branch}
    Gc = {g1, g2}
    Client = {c1}
    Wanted = k
    MayKill = TRUE
    Reaches <- MCReaches
    Stores <- MCStores
    Plans <- MCPlans
SYMMETRY GcSymmetry
CHECK_DEADLOCK FALSE
INVARIANTS NothingIsLost LookupsSucceed
PROPERTIES GarbageIsCollected
