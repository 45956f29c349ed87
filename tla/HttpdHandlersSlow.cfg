SPECIFICATION Spec
CONSTANTS
    w1 = w1
    w2 = w2
    w3 = w3
    Workers <- MCWorkers
    Connections <- MCWorkers
    Modes = {"delete"}
    Requests <- MCContention
    MaxRequests = 3
    MaxEdits = 1
SYMMETRY WorkerSymmetry
INVARIANTS
    SlowClientOccupiesOneWorker
