-------------------------- MODULE MCProofGenerator --------------------------
EXTENDS ProofGenerator, TLC

CONSTANTS v1, v2, e1, r1, p1

MCVals == {v1, v2}
MCExtraKeys == {e1}
MCReaders == {r1}
MCProvers == {p1}

\* One payload and no root() readers suffice for the consistency run.
MCOneVal == {v1}
MCNoReaders == {}
MCNoExtraKeys == {}

MCSymmetry == Permutations(MCVals)
=============================================================================
