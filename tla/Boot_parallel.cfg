\* Two cores on their way through the tables.
CONSTANTS
    Cores = {c1, c2}
    LastIrq = 2
    Bsp = c1
    AtaIrqs = {2}
SPECIFICATION Spec
INVARIANT EveryCoreComesUp
CHECK_DEADLOCK FALSE
