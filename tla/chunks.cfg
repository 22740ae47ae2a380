CONSTANTS
    Calls <- MCCalls
SPECIFICATION Spec
CHECK_DEADLOCK FALSE
INVARIANTS
    ChunkTypeOK
    TextIsIndexed
    NeighboursOverlap
    CountIsExact
