\* Two engines, three workers with queues of two reports, a counter of eight values.
CONSTANTS
    Engines = {e1, e2}
    NUM_WORKERS = 3
    Slots = {s1, s2}
    QUEUE_SIZE = 2
    INT_RANGE = 8
    SIZE_RANGE = 16
    WorkerIds <- MCWorkerIds
    MaxSends = 5
SPECIFICATION Spec
SYMMETRY MCSymmetry
CHECK_DEADLOCK FALSE
INVARIANTS
    ReportIntact
    ReportsCounted
    RoundRobin
