SPECIFICATION Spec
CONSTANTS
    WORKER_COUNT = 2
    p1 = p1
    p2 = p2
    p3 = p3
    Pids <- MCPids
    Parent = Parent
    NONE = NONE
    FORK_FAILED = FORK_FAILED
    LISTEN_BACKLOG = 1
    MaxMishaps = 2
    MaxForkFailures = 2
    MaxStrangers = 1
SYMMETRY PidSymmetry
INVARIANTS
    TypeOK
    KillsOnlyOwnWorkers
    EveryChildHasOneSlot
    EveryWorkerIsTold
    NoWorkerOutlivesServer
