SPECIFICATION Spec
CONSTANTS
    Images <- MCRagged
    NoImage = NoImage
    NoVersion = NoVersion
    Misread = {0, 3}
    Pages = 4
    SectorPages = 2
    ChunkWords = 4
    MaxFaults = 0
    MaxBoots = 1
INVARIANTS
    GoodImageIsAccepted
CHECK_DEADLOCK FALSE
