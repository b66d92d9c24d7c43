SPECIFICATION Spec
CONSTANTS
    Images <- MCImages
    NoImage = NoImage
    NoVersion = NoVersion
    Misread = {0, 3}
    Pages = 4
    SectorPages = 2
    ChunkWords = 4
    MaxFaults = 2
    MaxBoots = 3
INVARIANTS
    TypeOK
    ImageInOrder
    PagesInPlace
    AckTellsTruth
    BootedIsWhole
PROPERTIES
    NoDowngrade
\* an image that runs, or a boot loader that is stuck, rests once no boot is left
CHECK_DEADLOCK FALSE
