CONSTANTS
    v1 = v1
    v2 = v2
    Vals = {v1, v2}
    ExtraKeys = {}
    NoMeta = NoMeta
    TreeFullAt = 3
    MaxLeaves = 3
    MaxBatch = 2
SPECIFICATION Spec
PROPERTIES
    SharedAppendOnly
