SPECIFICATION Spec
CONSTANTS
    NumTrk = 3
    NumCdi = 2
    Far = 2
    ThresPre = 2
    ThresVal = 2
    Leave = TRUE
INVARIANTS
    TypeOK
    PairsAgree
    NearestKept
    FilterHasInput
    LivesOnItsHits
PROPERTIES
    OnlyProven
