\* Up to three messages of all types; chunks that hold one, cut it, or hold them all.
CONSTANTS
    MaxMessages = 3
    Files <- MCFiles
    Symbols <- MCSymbols
    Chunks     = {35, 36, 47, 69, 70}
    QUEUE_SIZE = 1
    POOL       = 2
SPECIFICATION Spec
CHECK_DEADLOCK FALSE
INVARIANTS
    InStep
    NothingLostSilently
PROPERTIES
    ReplayEnds
