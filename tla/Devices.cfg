\* One to three cores count, the boot core sleeps and the disk interrupts it;
\* three cores and five firmwares.
CONSTANTS
    Cores = {c1, c2, c3}
    Sleepers = {c1}
    Bsp = c1
    Ticks = 2
    AtaInterrupts = 1
    MaxTicks = 3
    MaxPeriods = 1
    Processors = {0, 1, 2}
    BootCore = 0
    Firmwares <- Machines
SPECIFICATION AllFairSpec
 
PROPERTIES SleepReturns SleepsLongEnough
CHECK_DEADLOCK FALSE
