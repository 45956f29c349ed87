SPECIFICATION Spec
CONSTANTS
    Objects <- MCObjects
    Main = "main"
    Sonames <- MCSonames
    Symbols <- MCSymbols
    Uses <- MCUses
    Programs <- MCPrograms
    LIBS_MAX = 3
    MaxRefusals = 0
    NONE = "none"
INVARIANTS
    BindsInScopeOrder
