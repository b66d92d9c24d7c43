\* every length, with the sizes of the real link
SPECIFICATION Spec
CONSTANTS
    FrameLen = 1024
    PartLen = 32
    BufferSize = 5000
INVARIANTS
    EndsAgree
    PartsInPlace
    WholePackage
PROPERTIES
    WalkEnds
\* a walk ends with its package
CHECK_DEADLOCK FALSE
