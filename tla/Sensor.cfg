SPECIFICATION FairSpec
CONSTANTS
    QueueLen = 3
    NoPackage = NoPackage
    Boards = {"standalone", "cascade"}
    Strategies <- MCStrategies
    Counts <- MCCounts
    Orderly = TRUE
    IsrLen = 8
INVARIANTS
    TypeOK
    ChirpsAreShared
    MergesThisFrame
    LinkInTurns
    StopSameFrame
    ScanRunsItsFrames
    RestIsOff
PROPERTIES
    FramesEnd
    ScansEnd
CHECK_DEADLOCK FALSE
