------------------------ MODULE LeafCapacityTheorems ------------------------
(***************************************************************************)
(* Proof that push's tree-full check is enough for the u64 leaf-to-node   *)
(* arithmetic at every word width: appending with push alone, the node    *)
(* 2i of every stored leaf i holds that leaf.  batch_push_with_data has   *)
(* no such check and the run batch_index_wrap finds the wrap.             *)
(***************************************************************************)
EXTENDS LeafCapacity, TLAPS

(***************************************************************************)
(* The inductive invariant: the count is within push's bound, the leaf    *)
(* nodes written are exactly 2i for the stored leaves i, each holding i.  *)
(* LeafNodesIntact alone is not inductive: it says nothing of the nodes   *)
(* beyond the stored leaves, nor that the count stays below half a word, *)
(* which is what makes 2i fit in it.                                      *)
(***************************************************************************)
PushInv ==
    /\ numLeaves \in 0..(U64Max \div 2)
    /\ DOMAIN leafAt = {2 * i : i \in 0..numLeaves - 1}
    /\ \A i \in 0..numLeaves - 1 : leafAt[2 * i] = i

\* A word holds twice a count within push's bound.
LEMMA DoubleFits ==
    ASSUME NEW n \in 0..(U64Max \div 2)
    PROVE  /\ \A i \in 0..n - 1 : LeafToInternalW(i) = 2 * i
           /\ n < Word
BY WidthAssumption DEF U64Max, Word, LeafToInternalW

LEMMA PushInvInit == Init => PushInv
BY WidthAssumption DEF Init, PushInv, U64Max, Word

\* push writes the node 2N of leaf N = num_leaves and counts it.
LEMMA PushStep ==
    ASSUME PushInv, Push
    PROVE  PushInv'
<1> DEFINE N == numLeaves
<1>1. N \in Nat /\ N < U64Max \div 2
    BY DEF PushInv, Push
<1>2. 2 * N + 1 < Word /\ (2 * N) % Word = 2 * N /\ (N + 1) % Word = N + 1 /\ N % Word = N
    BY <1>1, WidthAssumption DEF U64Max, Word
<1>3. numLeaves' = N + 1 /\ N + 1 \in 0..(U64Max \div 2)
    BY <1>1, <1>2, WidthAssumption DEF Push, U64Max, Word
<1>4. leafAt' = [x \in DOMAIN leafAt \cup {2 * N} |->
                    IF x = 2 * N THEN N ELSE leafAt[x]]
    <2>1. {(N + i) % Word : i \in 0..0} = {N}
        <3>1. 0..0 = {0}
            OBVIOUS
        <3>. QED
            BY <1>1, <1>2, <3>1
    <2>2. {LeafToInternalW(j) : j \in {N}} = {2 * N}
        BY <1>2 DEF LeafToInternalW
    <2>3. (CHOOSE j \in {N} : LeafToInternalW(j) = 2 * N) = N
        BY <1>2 DEF LeafToInternalW
    <2>. QED
        BY <2>1, <2>2, <2>3 DEF Push, WriteLeaves
<1>5. DOMAIN leafAt' = {2 * i : i \in 0..N}
    BY <1>1, <1>4 DEF PushInv
<1>6. \A i \in 0..N : leafAt'[2 * i] = i
    <2>1. SUFFICES ASSUME NEW i \in 0..N PROVE leafAt'[2 * i] = i
        OBVIOUS
    <2>2. CASE i = N
        BY <1>1, <1>4, <2>2
    <2>3. CASE i # N
        <3>1. i \in 0..N - 1 /\ 2 * i # 2 * N /\ 2 * i \in DOMAIN leafAt
            BY <1>1, <2>3 DEF PushInv
        <3>2. leafAt[2 * i] = i
            BY <3>1 DEF PushInv
        <3>. QED
            BY <1>4, <3>1, <3>2
    <2>. QED
        BY <2>2, <2>3
<1>. QED
    BY <1>3, <1>5, <1>6 DEF PushInv

LEMMA PushInvStep == PushInv /\ [Push]_vars => PushInv'
BY PushStep DEF PushInv, vars

(***************************************************************************)
(* Spec section 4: for every word width W, a client appending with push  *)
(* alone never has a leaf's node index 2i wrap onto another leaf's; the  *)
(* run push_capacity checks it at W = 8.                                  *)
(***************************************************************************)
THEOREM PushKeepsLeafNodes == PushSpec => []LeafNodesIntact
<1>1. PushInv => LeafNodesIntact
    BY DoubleFits DEF PushInv, LeafNodesIntact
<1>2. PushSpec => []PushInv
    BY PushInvInit, PushInvStep, PTL DEF PushSpec
<1>. QED
    BY <1>1, <1>2, PTL
=============================================================================
