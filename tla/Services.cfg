\* Small instances of the eight systems.
CONSTANTS
    \* Phys: three regions, one too small for a page, runs of up to three pages.
    MemMap <- RegionsMap
    PAGE_SIZE = 4
    BITS_PER_WORD = 2
    WordSize = 2
    Runs = {2, 3}
    \* Pmm: reserved regions are freed, and freed again, between allocations.
    BlockMap <- GapMap
    NUM_BLOCKS = 7
    PtrSize = 2
    Sizes = {1, 3}
    Alignments = {2}
    Reclaimable = {5, 16, 20}
    MaxInits = 1
    MaxGrants = 3
    \* Ata: registers of one bit each, transfers of up to three sectors.
    DriveKinds <- Channels
    Low = 2
    CountLow = 2
    Limit = 4
    Lbas = {0, 2}
    Counts = {0, 2, 3}
    \* Fsz: two files, three blocks and one bit behind the last, two failures.
    Files = {1, 2}
    Blocks = 3
    Byte = 2
    Inline = 2
    Sector = 3
    Lengths = {1, 3, 4}
    MaxWrites = 4
    MaxFaults = 2
    \* Scheduler: two processes of up to three threads.
    TableSize = 2
    MaxThreads = 3
    MaxCreated = 1
    \* Desktop: two windows, two thirds of the screen wide and high.
    ScreenWidth = 3
    ScreenHeight = 3
    Modulus = 16
    MAX_WINDOWS = 2
    Windows <- SmallWindow
    Stagger = 1
    Home = 1
    Buttons = {0, 1}
    Moves <- SignedMoves
    Ack = 0
    \* Snake: a board of six places, two games.
    WIDTH = 3
    HEIGHT = 2
    MaxGames = 2
    \* CLib: a memory of five bytes, ints of four bits.
    MemorySize = 5
    Chars = {0, 1, 2}
    IntBits = 4
SPECIFICATION AllSpec
INVARIANTS PagesAccounted ScanFindsFirstRun  
     BlocksAccounted  OneRunning
    ReadyThreadsGetTurns WindowsStayOnScreen SnakeIsAPath 
PROPERTY PagesImplementAllocator
CHECK_DEADLOCK FALSE
