SPECIFICATION Spec
CONSTANTS
    QueueLen = 3
    NoPackage = NoPackage
    Boards = {"standalone"}
    Strategies <- MCStrategies
    Counts <- MCCounts
    Orderly = FALSE
    IsrLen = 8
INVARIANTS
    RestIsOff
CHECK_DEADLOCK FALSE
