CONSTANTS
    W = 3
    MaxBatch = 2

SPECIFICATION Spec

INVARIANTS
    LeafNodesIntact
