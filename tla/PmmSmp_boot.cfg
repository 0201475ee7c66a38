\* Three cores initialise the lists and allocate, once more than there is.
CONSTANTS
    Cores = {c1, c2, c3}
    NoCore = NoCore
    MemMap <- SmallMap
    NUM_BLOCKS = 7
    Requests <- LargeRequest
    Width = 32
SPECIFICATION FairSpec
INVARIANT EveryPassRecorded
PROPERTIES UsesSpinlock EveryCoreHalts
CHECK_DEADLOCK FALSE
