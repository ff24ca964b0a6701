----------------------------- MODULE LeafCapacity -----------------------------
(***************************************************************************)
(* The leaf count and the leaf-to-node index arithmetic of push and       *)
(* batch_push_with_data at their word width.  Leaf i is stored at         *)
(* internal index 2i, computed in u64; the model keeps the width as the   *)
(* constant W (64 in the code) so that the boundary is reachable.  Only    *)
(* the leaf nodes are tracked: the question is whether a leaf's node can  *)
(* be written by another leaf.  A release build wraps an overflowing      *)
(* multiplication; a debug build panics, the task is aborted before the   *)
(* write batch and nothing changes, which is the absence of a step.       *)
(***************************************************************************)
EXTENDS Naturals

CONSTANTS
    W,        \* the width of the index words (64)
    MaxBatch  \* the largest batch a caller passes, at most 2^(W-1)

(***************************************************************************)
(* The width is a number of bits and the batch bound a count; 2^W is     *)
(* stated to be a positive number because the provers do not evaluate ^  *)
(* at a symbolic exponent (it follows from W \in Nat).                   *)
(***************************************************************************)
ASSUME WidthAssumption ==
    /\ W \in Nat
    /\ MaxBatch \in Nat
    /\ 2^W \in Nat \ {0}

Word == 2^W
U64Max == Word - 1

VARIABLES
    numLeaves, \* the meta key
    leafAt     \* internal index -> the leaf whose hash the node holds

vars == <<numLeaves, leafAt>>

\* LeafIdx -> InternalIdx: 2 * i in a word.
LeafToInternalW(i) == (2 * i) % Word

\* The leaf nodes of positions start .. start + k - 1 written over f; the
\* positions of one batch fall on distinct nodes.
WriteLeaves(f, start, k) ==
    LET new == {(start + i) % Word : i \in 0..k - 1}
        nodes == {LeafToInternalW(j) : j \in new}
    IN [x \in DOMAIN f \cup nodes |->
            IF x \in nodes THEN CHOOSE j \in new : LeafToInternalW(j) = x ELSE f[x]]

\* Fault: push without its tree-full check.
PushNoBound ==
    /\ leafAt' = WriteLeaves(leafAt, numLeaves, 1)
    /\ numLeaves' = (numLeaves + 1) % Word

(***************************************************************************)
(* push: refuses a tree with num_leaves >= u64::MAX / 2, otherwise writes *)
(* leaf num_leaves and meta num_leaves + 1.                               *)
(***************************************************************************)
Push ==
    /\ numLeaves < U64Max \div 2
    /\ leafAt' = WriteLeaves(leafAt, numLeaves, 1)
    /\ numLeaves' = (numLeaves + 1) % Word

(***************************************************************************)
(* batch_push_with_data with k items: no capacity check; positions        *)
(* starting_index + i and meta starting_index + k, in words.             *)
(***************************************************************************)
BatchPush(k) ==
    /\ leafAt' = WriteLeaves(leafAt, numLeaves, k)
    /\ numLeaves' = (numLeaves + k) % Word

Init ==
    /\ numLeaves = 0
    /\ leafAt = [x \in {} |-> 0]

Next == Push \/ \E k \in 1..MaxBatch : BatchPush(k)

Spec == Init /\ [][Next]_vars

\* A client that appends with push alone, as the tree's own tests do.
PushSpec == Init /\ [][Push]_vars

(***************************************************************************)
(* Spec section 4 (open question) keeps push's bound so that the 2 * i    *)
(* index arithmetic has headroom: the node of every stored leaf holds     *)
(* that leaf, never a later one whose index wrapped onto it.              *)
(***************************************************************************)
LeafNodesIntact ==
    \A i \in 0..numLeaves - 1 :
        /\ LeafToInternalW(i) \in DOMAIN leafAt
        /\ leafAt[LeafToInternalW(i)] = i
=============================================================================
