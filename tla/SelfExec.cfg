SPECIFICATION Spec
CONSTANTS
    EHDR_SIZE = 2
    PHDR_SIZE = 1
    META_KEYS = 7
    PAGE = 4
    SPACE = 36
    UserPages <- MCUserPages
    HostPages <- MCHostPages
    StackArgs <- MCStackArgs
    Elfs <- MCElfs
    MaxConversions = 2
INVARIANTS
    TypeOK
    WritesStayInImage
    InterruptedConversionNeverRuns
    ImageIsNeverPartial
    ImageRunsAsOriginal
    TwinsRunAlike
    ReservationHolds
    NativeRunsAsOriginal
    UndisturbedRunIsWhole
    StackIsWellFormed
