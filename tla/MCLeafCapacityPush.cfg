CONSTANTS
    W = 8
    MaxBatch = 2

SPECIFICATION PushSpec
CHECK_DEADLOCK FALSE

INVARIANTS
    LeafNodesIntact
