\* one package from master to slave, tasks switched anywhere
SPECIFICATION FairSpec
CONSTANTS
    PartLen = 3
    FrameLen = 3
    BufferSize = 3
    FifoDepth = 3
    QueueLen = 3
    MaxPkg = 1
    Preempt = TRUE
    MasterLens = {3}
    SlaveLens = {}
    InTurns = TRUE
PROPERTIES
    MasterTxBlockEnds
\* both ends rest for good once MaxPkg packages are through
CHECK_DEADLOCK FALSE
