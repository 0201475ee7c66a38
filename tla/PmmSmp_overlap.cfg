\* Two cores initialise the lists and allocate twice.
CONSTANTS
    Cores = {c1, c2}
    NoCore = NoCore
    MemMap <- SmallMap
    NUM_BLOCKS = 4
    Requests <- TwoRequests
    Width = 32
SPECIFICATION Spec
INVARIANT GrantsDisjoint
CHECK_DEADLOCK FALSE
