CONSTANTS
    v1 = v1
    v2 = v2
    e1 = e1
    r1 = r1
    p1 = p1
    Vals <- MCOneVal
    ExtraKeys <- MCExtraKeys
    Readers <- MCNoReaders
    Provers <- MCProvers
    NoMeta = NoMeta
    TreeFullAt = 8
    MaxLeaves = 8
    MaxBatch = 3

SPECIFICATION ProverSpec


PROPERTIES
    CurrentSizeProofsCorrect
