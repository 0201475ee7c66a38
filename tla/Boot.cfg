\* A machine of one or two cores, with one disk.
CONSTANTS
    Cores = {c1, c2}
    LastIrq = 2
    Bsp = c1
    AtaIrqs = {2}
SPECIFICATION FairSpec
INVARIANT BusyMeansLoaded
PROPERTIES SingleCoreBoots SomeCoreBoots
CHECK_DEADLOCK FALSE
