\* one chip writes without waiting for the other's application
SPECIFICATION Spec
CONSTANTS
    PartLen = 3
    FrameLen = 6
    BufferSize = 7
    FifoDepth = 3
    QueueLen = 3
    MaxPkg = 2
    Preempt = FALSE
    MasterLens = {1, 3, 7}
    SlaveLens = {1, 3, 7}
    InTurns = FALSE
INVARIANTS
    TypeOK
    EdgesDoNotPileUp
    PartFits
\* both ends rest for good once MaxPkg packages are through
CHECK_DEADLOCK FALSE
