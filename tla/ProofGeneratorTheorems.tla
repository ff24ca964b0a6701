----------------------- MODULE ProofGeneratorTheorems -----------------------
(***************************************************************************)
(* Proofs about the prover tasks of ProofGenerator running beside the     *)
(* writer and the root() readers of SlateDbTree, for every value of the   *)
(* constants: the provers only read the store, so the composed system     *)
(* keeps every result proved of the tree.  The proof indices come out of  *)
(* CHOOSE-based Level / CeilLog2 and the recursive ConsistencyRanges,     *)
(* which the provers cannot evaluate, so ProverTypeOK and the proof-      *)
(* correctness properties stay with TLC.                                  *)
(***************************************************************************)
EXTENDS ProofGenerator, SlateDbTreeTheorems, TLAPS

-----------------------------------------------------------------------------
\* A step of the composed system is a step, or a stutter, of SlateDbTree.
LEMMA ProverNextIsNext ==
    ASSUME [ProverNext]_allVars
    PROVE  [Next]_vars
<1>1. CASE ProverCrash
    BY <1>1 DEF ProverCrash, Next
<1>2. CASE TaskStep /\ UNCHANGED proverVars
    BY <1>2 DEF Next
<1>3. CASE (ProverStep /\ UNCHANGED vars) \/ UNCHANGED allVars
    BY <1>3 DEF allVars
<1>. QED
    BY <1>1, <1>2, <1>3 DEF ProverNext

(***************************************************************************)
(* The proof operations only read the store: the tree with prover tasks   *)
(* running beside it behaves as SlateDbTree alone, so TypeCorrect,        *)
(* WriterSeesStoredSizeHolds and Refinement hold of it as well.           *)
(***************************************************************************)
THEOREM ProversReadOnly == ProverSpec => Spec
<1>1. ProverInit => Init
    BY DEF ProverInit
<1>2. [ProverNext]_allVars => [Next]_vars
    BY ProverNextIsNext
<1>. QED
    BY <1>1, <1>2, PTL DEF ProverSpec, Spec
=============================================================================
