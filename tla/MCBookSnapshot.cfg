\* The three nodes of the code, and as many readers as it has spare nodes:
\* both can be pinned, so that updates are skipped.
CONSTANTS
    NUM_NODES  = 3
    Readers    = {r1, r2}
    MaxChanges = 1
SPECIFICATION FairSpec
INVARIANTS
    RefCountsExact
    HeldNotOlderThanSequence
PROPERTIES
    SnapshotStable
    ImplementsRegister
    ChangesGetThrough
