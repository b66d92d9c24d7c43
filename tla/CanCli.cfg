SPECIFICATION Spec
CONSTANTS
    BufferLen = 3
    QueueLen = 3
    Msg = {m1, m2}
    NoMsg = NoMsg
INVARIANTS
    TypeOK
    NoStrandedFrame
    RingInv
PROPERTIES
    ServesMailbox

