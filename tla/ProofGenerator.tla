--------------------------- MODULE ProofGenerator ---------------------------
(***************************************************************************)
(* The proof operations of SlateDbBackedTree, run by prover tasks         *)
(* concurrently with the writer and the root() readers of SlateDbTree:     *)
(* prove_inclusion, prove_inclusion_at_size, prove_consistency and         *)
(* prove_consistency_between, behind the argument checks of                *)
(* StorageBackedMerkleTree (src/src/merkle_storage.rs).  Each reads len(), *)
(* then fetches the hash of every proof index with its own get (the code   *)
(* joins the futures, so the gets interleave with other tasks' steps); a  *)
(* missing node fails the whole proof.  A proof is modelled as the map    *)
(* from its indices to the hashes fetched.                                *)
(***************************************************************************)
EXTENDS SlateDbTree

CONSTANT Provers

VARIABLES
    ppc,    \* prover: "idle" or "fetch"
    pOp,    \* "incl", "incl_at", "cons" or "cons_between"
    pSize,  \* the tree size the proof is for
    pTodo,  \* proof indices not fetched yet
    pGot    \* proof indices fetched so far -> hash

proverVars == <<ppc, pOp, pSize, pTodo, pGot>>
allVars == <<vars, proverVars>>

\* Sizes and indices a request may name.
Sizes == 0..MaxLeaves

(***************************************************************************)
(* The argument checks of StorageBackedMerkleTree, made before and after  *)
(* reading the current size cur; a request failing them returns an error  *)
(* and changes nothing.                                                   *)
(***************************************************************************)
InclusionRequestValid(i, n, cur) == i < n /\ n <= cur

\* An old size equal to the new one returns an empty proof without a read.
ConsistencyRequestValid(m, n, cur) ==
    /\ m <= n
    /\ m # n
    /\ m # 0
    /\ m <= cur
    /\ n <= cur

\* A call returns or fails: its locals are dropped.
ProverReturns(p) ==
    /\ ppc' = [ppc EXCEPT ![p] = "idle"]
    /\ pOp' = [pOp EXCEPT ![p] = "incl"]
    /\ pSize' = [pSize EXCEPT ![p] = 0]
    /\ pTodo' = [pTodo EXCEPT ![p] = {}]
    /\ pGot' = [pGot EXCEPT ![p] = EmptyMap]

\* A proof request is accepted: the size is read, the indices are known.
StartFetch(p, op, n, idxs) ==
    /\ ppc' = [ppc EXCEPT ![p] = "fetch"]
    /\ pOp' = [pOp EXCEPT ![p] = op]
    /\ pSize' = [pSize EXCEPT ![p] = n]
    /\ pTodo' = [pTodo EXCEPT ![p] = idxs]
    /\ pGot' = [pGot EXCEPT ![p] = EmptyMap]

Begins(p) == mode # "closed" /\ ppc[p] = "idle"

\* prove_inclusion(i): the siblings at the current size, current nodes.
ProveInclusion(p, i) ==
    LET cur == Len0(meta) IN
    /\ Begins(p)
    /\ i < cur
    /\ StartFetch(p, "incl", cur, IndicesForInclusionProof(cur, i))

\* prove_inclusion_efficient(n, i) -> prove_inclusion_at_size(i, n).
ProveInclusionAtSize(p, i, n) ==
    LET cur == Len0(meta) IN
    /\ Begins(p)
    /\ InclusionRequestValid(i, n, cur)
    /\ StartFetch(p, "incl_at", n, IndicesForInclusionProof(n, i))

\* prove_consistency(m): from size m to the current size.
ProveConsistency(p, m) ==
    LET cur == Len0(meta) IN
    /\ Begins(p)
    /\ m # 0
    /\ m < cur
    /\ StartFetch(p, "cons", cur, IndicesForConsistencyProof(m, cur - m))

\* consistency_proof_between_sizes(m, n) -> prove_consistency_between.
ProveConsistencyBetween(p, m, n) ==
    LET cur == Len0(meta) IN
    /\ Begins(p)
    /\ ConsistencyRequestValid(m, n, cur)
    /\ StartFetch(p, "cons_between", n, IndicesForConsistencyProof(m, n - m))

(***************************************************************************)
(* The node each operation reads: prove_inclusion_at_size goes through    *)
(* get_node_hash_at_version(x, n); the three others through              *)
(* get_node_hash(x), the current node.                                    *)
(***************************************************************************)
\* Fault: every operation reads the current node, as prove_inclusion does.
ProofNodeHashCurrent(op, x, n) ==
    IF x \in DOMAIN nodeKV THEN nodeKV[x] ELSE NoMeta

ProofNodeHash(op, x, n) ==
    IF op = "incl_at" THEN VersionedNodeHash(x, n)
    ELSE IF x \in DOMAIN nodeKV THEN nodeKV[x] ELSE NoMeta

\* Fault: a fetched index is recorded but left among those to fetch.
FetchHashKeepTodo(p, x) ==
    LET h == ProofNodeHash(pOp[p], x, pSize[p]) IN
    /\ ppc[p] = "fetch"
    /\ x \in pTodo[p]
    /\ IF h = NoMeta
       THEN ProverReturns(p)
       ELSE /\ pGot' = [pGot EXCEPT ![p] = Put(@, x, h)]
            /\ UNCHANGED <<ppc, pOp, pSize, pTodo>>

\* One get of the joined futures; a missing node fails the proof.
FetchHash(p, x) ==
    LET h == ProofNodeHash(pOp[p], x, pSize[p]) IN
    /\ ppc[p] = "fetch"
    /\ x \in pTodo[p]
    /\ IF h = NoMeta
       THEN ProverReturns(p)
       ELSE /\ pTodo' = [pTodo EXCEPT ![p] = @ \ {x}]
            /\ pGot' = [pGot EXCEPT ![p] = Put(@, x, h)]
            /\ UNCHANGED <<ppc, pOp, pSize>>

\* All gets are done: the proof is returned.
ProofReturn(p) ==
    /\ ppc[p] = "fetch"
    /\ pTodo[p] = {}
    /\ ProverReturns(p)

\* A get returns a KV error: try_join_all fails the proof.
ProverFail(p) ==
    /\ ppc[p] = "fetch"
    /\ ProverReturns(p)

ProverStep ==
    \E p \in Provers :
        \/ \E i \in Sizes : ProveInclusion(p, i)
        \/ \E i, n \in Sizes : ProveInclusionAtSize(p, i, n)
        \/ \E m \in Sizes : ProveConsistency(p, m)
        \/ \E m, n \in Sizes : ProveConsistencyBetween(p, m, n)
        \/ \E x \in pTodo[p] : FetchHash(p, x)
        \/ ProofReturn(p)
        \/ ProverFail(p)

\* A crash also ends the provers' calls.
ProverCrash ==
    /\ Crash
    /\ ppc' = [p \in Provers |-> "idle"]
    /\ pOp' = [p \in Provers |-> "incl"]
    /\ pSize' = [p \in Provers |-> 0]
    /\ pTodo' = [p \in Provers |-> {}]
    /\ pGot' = [p \in Provers |-> EmptyMap]

ProverInit ==
    /\ Init
    /\ ppc = [p \in Provers |-> "idle"]
    /\ pOp = [p \in Provers |-> "incl"]
    /\ pSize = [p \in Provers |-> 0]
    /\ pTodo = [p \in Provers |-> {}]
    /\ pGot = [p \in Provers |-> EmptyMap]

ProverNext ==
    \/ ProverCrash
    \/ (TaskStep /\ UNCHANGED proverVars)
    \/ (ProverStep /\ UNCHANGED vars)

ProverSpec == ProverInit /\ [][ProverNext]_allVars

-----------------------------------------------------------------------------
(***************************************************************************)
(* Types of the prover locals; a proof index is either fetched or still   *)
(* to fetch, never both (each future of try_join_all resolves once).      *)
(***************************************************************************)
ProverTypeOK ==
    /\ TypeOK
    /\ ppc \in [Provers -> {"idle", "fetch"}]
    /\ pOp \in [Provers -> {"incl", "incl_at", "cons", "cons_between"}]
    /\ pSize \in [Provers -> Nat]
    /\ pTodo \in [Provers -> SUBSET Nat]
    /\ \A p \in Provers : IsMap(pGot[p]) /\ DOMAIN pGot[p] \cap pTodo[p] = {}

\* The proof p returns: each hash is the one its node has at the proof's size.
ProofCorrect(p) ==
    \A x \in DOMAIN pGot[p] : pGot[p][x] = RefNodeHash(leafKV, x, pSize[p])

(***************************************************************************)
(* Spec 4.5 and property 8.5: an inclusion proof for a past size n        *)
(* (get-proof-by-hash, get-entry-and-proof) holds the hashes the nodes    *)
(* had at size n, even while appends commit between its gets: versioned  *)
(* entries are never rewritten and a node with none at n is unchanged.   *)
(***************************************************************************)
HistoricalInclusionProofsCorrect ==
    [][\A p \in Provers : ProofReturn(p) /\ pOp[p] = "incl_at" => ProofCorrect(p)]_allVars

(***************************************************************************)
(* Spec section 5 lets reads overlap appends: prove_inclusion(i) and      *)
(* prove_consistency(m) return the hashes of the tree of the size they    *)
(* read with len(), even when an append commits between that read and     *)
(* their gets of the current nodes.                                       *)
(***************************************************************************)
CurrentSizeProofsCorrect ==
    [][\A p \in Provers : ProofReturn(p) /\ pOp[p] \in {"incl", "cons"} => ProofCorrect(p)]_allVars

(***************************************************************************)
(* Spec 4.5 and property 8.6: prove_consistency_between(m, n) (get-sth-   *)
(* consistency) returns the hashes the proof nodes had at size n, so that *)
(* the proof verifies the root at m against the root at n.                *)
(***************************************************************************)
ConsistencyBetweenProofsCorrect ==
    [][\A p \in Provers : ProofReturn(p) /\ pOp[p] = "cons_between" => ProofCorrect(p)]_allVars
=============================================================================
