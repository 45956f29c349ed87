SPECIFICATION FairSpec
CONSTANTS
    w1 = w1
    w2 = w2
    w3 = w3
    Workers <- MCTwoWorkers
    Connections <- MCTwoWorkers
    Modes = {"delete", "wal"}
    Requests <- MCRequests
    MaxRequests = 2
    MaxEdits = 1
INVARIANTS
    TypeOK
    NoLockWhileWaitingForClient
    PressAnswerIsTruthful
    CountIncludesOwnPress
    StatsAreFresh
    SlowClientIsIsolatedInWal
    PageIsOneSnapshot
PROPERTIES
    EveryRequestIsAnswered
