SPECIFICATION FairSpec
CONSTANTS
    WORKER_COUNT = 2
    p1 = p1
    p2 = p2
    p3 = p3
    Pids <- MCTwoPids
    Parent = Parent
    NONE = NONE
    FORK_FAILED = FORK_FAILED
    LISTEN_BACKLOG = 1
    MaxMishaps = 2
    MaxForkFailures = 1
    MaxStrangers = 0
PROPERTIES
    DeadWorkerIsReplaced
    BacklogIsRelieved
    StopsUnlessWakeupLost
