CONSTANTS
    v1 = v1
    v2 = v2
    e1 = e1
    r1 = r1
    Vals <- MCVals
    ExtraKeys <- MCExtraKeys
    Readers <- MCReaders
    NoMeta = NoMeta
    TreeFullAt = 4
    MaxLeaves = 4
    MaxBatch = 3
SPECIFICATION Spec
SYMMETRY MCSymmetry
PROPERTIES
    RootReadConsistent
