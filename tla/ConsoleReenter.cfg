SPECIFICATION Spec
CONSTANTS
    Cli = cli
    tracker = tracker
    dump = dump
    Nobody = Nobody
    Printers <- MCPrinters
    Dumpers <- MCDumpers
    TaskBufs = 2
    UserBufs = 1
    MaxPrints = 1
    Preempt = TRUE
    Size = 3
    QueueLen = 2
    LineLen = 2
    MaxTyped = 2
INVARIANTS
    InstalledIsSent
CHECK_DEADLOCK FALSE
