----------------------------- MODULE MerkleIndex -----------------------------
(***************************************************************************)
(* Index algebra of the in-order numbered Merkle tree used by ct-merkle,   *)
(* the hash pipeline and the RFC 6962 reference hash.                      *)
(*                                                                         *)
(* Leaf i has internal index 2*i.  A node at level k has k trailing one    *)
(* bits and covers the 2^k leaves starting at SubtreeLo(x).  In a tree of  *)
(* n leaves only the "realized" nodes exist: the parent of a node on the   *)
(* right frontier is its lowest ancestor whose index is below 2*n - 1      *)
(* (the idealized parent may not exist), and a right child descends to     *)
(* its leftmost descendant that exists.  The ct-merkle crate holding these *)
(* operators is not part of the sources, so they follow spec section 4.1.  *)
(*                                                                         *)
(* Hashes are terms: LeafHash and ParentHash build distinct tuples, so two *)
(* hashes are equal iff they were built from equal inputs, the property a  *)
(* collision-resistant hash is relied on for.                              *)
(***************************************************************************)
EXTENDS Naturals, Sequences

(***************************************************************************)
(* Hash pipeline (spec 4.3): domain-separated leaf and interior hashes,    *)
(* the all-zero digest used for a missing sibling, and H("") for the       *)
(* empty tree.                                                             *)
(***************************************************************************)
LeafHash(v) == <<"leaf", v>>
ParentHash(l, r) == <<"node", l, r>>
ZeroHash == <<"zero">>
EmptyHash == <<"empty">>

(***************************************************************************)
(* Finite maps, as the BTreeMap / key-value entries of the code: Put is    *)
(* insert (a later put of a key replaces the earlier value) and Merge      *)
(* applies all entries of g over f.                                        *)
(***************************************************************************)
EmptyMap == [x \in {} |-> ZeroHash]
Put(f, k, v) == [x \in DOMAIN f \cup {k} |-> IF x = k THEN v ELSE f[x]]
Merge(f, g) == [x \in DOMAIN f \cup DOMAIN g |-> IF x \in DOMAIN g THEN g[x] ELSE f[x]]

(***************************************************************************)
(* Level of an internal index: its number of trailing one bits.            *)
(***************************************************************************)
Level(x) == CHOOSE k \in 0..x + 1 : (x + 1) % (2^k) = 0 /\ (x + 1) % (2^(k + 1)) # 0

\* Smallest k with 2^k >= n.
CeilLog2(n) == CHOOSE k \in 0..n : 2^k >= n /\ \A j \in 0..k - 1 : 2^j < n

NumInternalNodes(n) == IF n = 0 THEN 0 ELSE 2 * n - 1

\* Leaf i sits at internal index 2*i.
LeafToInternal(i) == 2 * i

\* First leaf covered by node x, and the node of level l starting at leaf lo.
SubtreeLo(x) == (x + 1 - 2^Level(x)) \div 2
NodeAt(lo, l) == 2 * lo + 2^l - 1

\* The idealized ancestor of x at level l >= Level(x).
Ancestor(x, l) == NodeAt((SubtreeLo(x) \div 2^l) * 2^l, l)

(***************************************************************************)
(* root_idx(n): the node at level ceil(log2 n) covering leaf 0.            *)
(***************************************************************************)
RootIdx(n) == 2^CeilLog2(n) - 1

(***************************************************************************)
(* parent(x, n): the lowest idealized ancestor of x that exists in the     *)
(* tree of n leaves (ct-merkle repeats parent_naive while the index is     *)
(* >= num_internal_nodes(n)).  Defined for x # RootIdx(n).                 *)
(***************************************************************************)
ParentLevel(x, n) ==
    CHOOSE l \in Level(x) + 1..CeilLog2(n) :
        /\ Ancestor(x, l) < NumInternalNodes(n)
        /\ \A m \in Level(x) + 1..l - 1 : Ancestor(x, m) >= NumInternalNodes(n)

Parent(x, n) == Ancestor(x, ParentLevel(x, n))

LeftChild(p) == p - 2^(Level(p) - 1)

\* The idealized right child, then its left child while it does not exist.
RightChild(p, n) ==
    LET lo == SubtreeLo(p) + 2^(Level(p) - 1)
        m  == CHOOSE j \in 0..Level(p) - 1 :
                 /\ NodeAt(lo, j) < NumInternalNodes(n)
                 /\ \A i \in j + 1..Level(p) - 1 : NodeAt(lo, i) >= NumInternalNodes(n)
    IN  NodeAt(lo, m)

IsLeft(x, n) == x < Parent(x, n)

Sibling(x, n) ==
    IF IsLeft(x, n) THEN RightChild(Parent(x, n), n) ELSE LeftChild(Parent(x, n))

(***************************************************************************)
(* The nodes visited by the loop "while cur_idx != root_idx { ... cur_idx *)
(* = cur_idx.parent(n) }" from leaf p: every idealized ancestor of 2*p up  *)
(* to the root that exists in the tree of n leaves.                        *)
(***************************************************************************)
LeafPath(p, n) ==
    {a \in {Ancestor(LeafToInternal(p), l) : l \in 0..CeilLog2(n)} : a < NumInternalNodes(n)}

(***************************************************************************)
(* The nodes of the tree of n leaves: a leaf below n, or an interior node  *)
(* whose right half holds at least one leaf.                               *)
(***************************************************************************)
Realized(x, n) ==
    IF Level(x) = 0 THEN SubtreeLo(x) < n
                    ELSE SubtreeLo(x) + 2^(Level(x) - 1) < n

RealizedNodes(n) == {x \in 0..NumInternalNodes(n) - 1 : Realized(x, n)}

(***************************************************************************)
(* indices_for_inclusion_proof(n, i): the siblings of the nodes on the    *)
(* path from leaf i to the root of the tree of n leaves.  The proof        *)
(* vector lists them bottom to top; the model keeps the set.              *)
(***************************************************************************)
IndicesForInclusionProof(n, i) ==
    {Sibling(c, n) : c \in LeafPath(i, n) \ {RootIdx(n)}}

(***************************************************************************)
(* indices_for_consistency_proof(m, k): RFC 6962 2.1.2 SUBPROOF(m, D[0:n], *)
(* true) with n = m + k, as the leaf ranges [lo, hi) of the subtrees whose *)
(* hashes form the proof, then the node covering each range.              *)
(***************************************************************************)
ConsistencyRanges(m, n) ==
    LET sub[lo \in Nat, hi \in Nat, mm \in Nat, b \in BOOLEAN] ==
            IF mm = hi - lo
            THEN IF b THEN <<>> ELSE <<<<lo, hi>>>>
            ELSE LET k == 2^(CeilLog2(hi - lo) - 1)
                 IN  IF mm <= k
                     THEN Append(sub[lo, lo + k, mm, b], <<lo + k, hi>>)
                     ELSE Append(sub[lo + k, hi, mm - k, FALSE], <<lo, lo + k>>)
    IN  sub[0, n, m, TRUE]

RangeNode(r) == NodeAt(r[1], CeilLog2(r[2] - r[1]))

IndicesForConsistencyProof(m, k) ==
    LET R == ConsistencyRanges(m, m + k) IN {RangeNode(R[j]) : j \in 1..Len(R)}

(***************************************************************************)
(* RFC 6962 Merkle Tree Hash of the leaves D[lo..hi-1], written as in the  *)
(* RFC (split at the largest power of two below the size), independently  *)
(* of the index algebra above; D is a function from leaf positions.        *)
(***************************************************************************)
MTH(D, lo, hi) ==
    LET h[a \in Nat, b \in Nat] ==
            IF b - a = 1 THEN LeafHash(D[a])
            ELSE LET k == 2^(CeilLog2(b - a) - 1)
                 IN  ParentHash(h[a, a + k], h[a + k, b])
    IN  IF hi = lo THEN EmptyHash ELSE h[lo, hi]

\* The hash node x must have in the tree formed by the first n leaves of D.
RefNodeHash(D, x, n) ==
    MTH(D, SubtreeLo(x), IF SubtreeLo(x) + 2^Level(x) <= n
                         THEN SubtreeLo(x) + 2^Level(x) ELSE n)
=============================================================================
