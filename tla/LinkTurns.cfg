\* the chips take turns, under fairness; up to four frames to the slave, two to the master
SPECIFICATION FairSpec
CONSTANTS
    PartLen = 3
    FrameLen = 6
    BufferSize = 19
    FifoDepth = 3
    QueueLen = 3
    MaxPkg = 2
    Preempt = FALSE
    MasterLens = {1, 7, 19}
    SlaveLens = {3, 12}
    InTurns = TRUE
INVARIANTS
    EdgeMeansReady
PROPERTIES
    ChannelsLive
\* both ends rest for good once MaxPkg packages are through
CHECK_DEADLOCK FALSE
