CONSTANTS
    Paths = {p1}
    Commands = {c1, c2}
    None = None
    Contents = {a, b, empty}
    Empty = empty
    Size <- Sizes
    SkipHash = FALSE
    MaxTime = 3
SPECIFICATION Spec
SYMMETRY Symmetry
INVARIANTS ModificationsAreSeen
PROPERTIES StagingIsNeverUndone
CHECK_DEADLOCK FALSE
