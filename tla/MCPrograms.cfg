SPECIFICATION MCSpec
CONSTANTS
    N = 2
    MaxRounds = 3
    Instances <- RightInstances
    MallocStart = 4
    MallocLimit = 100
    Sizes = {1, 8, 16}
    Aligns = {8, 16}
    MaxUsed = 3
    LFSR_BITS = 2
    Values = {0, 1}
INVARIANTS
    InBounds
    NoRace
    ExitsZero
    NobodyEarly
    Tiled
    Counted
    Served
    MemoryTransparent
    NoAssertionFails
