SPECIFICATION FairSpec
CONSTANTS
    Cli = cli
    tracker = tracker
    dump = dump
    Nobody = Nobody
    Printers <- MCPrinters
    Dumpers <- MCDumpers
    TaskBufs = 2
    UserBufs = 1
    MaxPrints = 1
    Preempt = FALSE
    Size = 3
    QueueLen = 2
    LineLen = 2
    MaxTyped = 4
INVARIANTS
    TypeOK
    InputInOrder
    NeverDeaf
    SentInOrder
    InstalledIsSent
PROPERTIES
    AllSent
\* all is typed, printed and sent
CHECK_DEADLOCK FALSE
