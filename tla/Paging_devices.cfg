\* The devices and programs alone.
CONSTANTS
    Entries = 4
    Unit = 4
    Pointer = 1
    Frames = 32
    Pages <- PcPages
    FirstFree = 1
    EndFree = 80
    LoaderTables <- PcTables
    LoaderCr3 = 24
    LowMemory <- PcLowMemory
    Devices <- PcDevices
    ProgramStart = 16
    ProgramPages = 2
    StackPage = 127
    Mappings = {}
    LargeMappings = {}
    Unmappings = {}
    OtherSizes = {}
    MaxOps = 4
SPECIFICATION Spec
PROPERTIES DevicesStayMapped
CHECK_DEADLOCK FALSE
