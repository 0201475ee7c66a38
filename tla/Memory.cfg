\* One init_blocks, callers that allocate, free and write to their blocks; any
\* five calls of paging.
CONSTANTS
    MemMap <- PcMap
    NUM_BLOCKS = 4
    PtrSize = 2
    Sizes = {1, 2, 4}
    Alignments = {1, 3, 4}
    Reclaimable = {}
    MaxInits = 1
    MaxGrants = 4
    Entries = 4
    Unit = 4
    Pointer = 1
    Frames = 32
    Pages <- PcPages
    FirstFree = 1
    EndFree = 80
    LoaderTables <- PcTables
    LoaderCr3 = 24
    LowMemory <- PcLowMemory
    Devices <- PcDevices
    ProgramStart = 16
    ProgramPages = 2
    StackPage = 127
    Mappings <- PcMappings
    LargeMappings <- PcLargeMappings
    Unmappings <- PcUnmappings
    OtherSizes = {1, 4}
    MaxOps = 5
SPECIFICATION AllSpec
INVARIANTS GrantsDisjoint GrantsUsable BytesConserved AlignedBlockFits 
    StoredPointersIntact FramesGivenOnce TranslateIsWalk 
PROPERTIES ImplementsAllocator CallsAreLocal NewPagingKeepsPages LoaderTablesKept
CHECK_DEADLOCK FALSE
