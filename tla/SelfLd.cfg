SPECIFICATION FairSpec
CONSTANTS
    Objects <- MCObjects
    Main = "main"
    Sonames <- MCSonames
    Symbols <- MCSymbols
    Uses <- MCUses
    Programs <- MCPrograms
    LIBS_MAX = 3
    MaxRefusals = 2
    NONE = "none"
INVARIANTS
    TypeOK
    EnteredFullyBound
    OneMeaningPerSymbol
    PreloadInterposes
    ClosureIsComplete
PROPERTIES
    LinksInOneStep
    LoadingEnds
