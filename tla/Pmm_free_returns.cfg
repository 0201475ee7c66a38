\* A caller frees what it allocated.
CONSTANTS
    MemMap <- PcMap
    NUM_BLOCKS = 7
    PtrSize = 2
    Sizes = {1, 3}
    Alignments = {2}
    Reclaimable = {}
    MaxInits = 1
    MaxGrants = 3
SPECIFICATION Spec
PROPERTY FreeReturnsBlock
CHECK_DEADLOCK FALSE
