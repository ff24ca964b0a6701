---------------------------- MODULE MCSlateDbTree ----------------------------
(***************************************************************************)
(* Small instances of SlateDbTree for TLC.                                 *)
(***************************************************************************)
EXTENDS SlateDbTree, TLC

CONSTANTS v1, v2, e1, r1

MCVals == {v1, v2}
MCExtraKeys == {e1}
MCReaders == {r1}

\* Leaf payloads are only compared for equality: any renaming is a symmetry.
MCSymmetry == Permutations(MCVals)
=============================================================================
