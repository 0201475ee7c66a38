\* Four cores contend; no symmetry, it is unsound for the liveness property.
CONSTANTS
    Cores = {c1, c2, c3, c4}
    NoCore = NoCore
SPECIFICATION FairSpec
INVARIANT MutualExclusion
PROPERTIES ImplementsMutex Progress
