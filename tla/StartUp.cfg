SPECIFICATION Spec
CONSTANTS
    Instances = {1, 2}
    Ports = {80, 81}
    WORKER_COUNT = 2
    MaxKills = 2
    NOBODY = NOBODY
INVARIANTS
    TypeOK
    OneFileAtRest
    
