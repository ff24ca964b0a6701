----------------------------- MODULE SlateDbTree -----------------------------
(***************************************************************************)
(* SlateDbBackedTree (ct-merkle/src/slatedb_backed_tree.rs): an append-    *)
(* only Merkle tree kept in a key-value store.  The durable state is the   *)
(* store's four namespaces: "meta" (number of leaves), "leaf:i",           *)
(* "node:x" (current hash of node x) and "vnode:x@n" (hash of x when the   *)
(* tree reached size n), plus the caller's extra keys co-committed by      *)
(* batch_push_with_data.                                                   *)
(*                                                                         *)
(* One writer task runs push / batch_push_with_data, as the code requires  *)
(* (spec 5: appends are serialized by the caller); reader tasks run root() *)
(* concurrently with it.  Every await of the code is a step boundary: the  *)
(* in-memory hash computation between two awaits is part of one step, and  *)
(* the write batch is committed atomically in one step.  Any awaited KV    *)
(* operation may fail, and the process may crash, losing only task-local   *)
(* state.                                                                  *)
(***************************************************************************)
EXTENDS Naturals, Sequences, FiniteSets, MerkleIndex

CONSTANTS
    Vals,        \* leaf payloads (Certificate bytes), as model values
    ExtraKeys,   \* keys the caller co-commits with a batch
    Readers,     \* reader tasks calling root()
    NoMeta,      \* "meta" key absent
    TreeFullAt,  \* push's capacity bound, u64::MAX / 2 in the code
    MaxLeaves,   \* model bound on the number of leaves
    MaxBatch     \* model bound on the items of one batch

ASSUME ConstAssumption ==
    /\ NoMeta \notin Nat
    /\ TreeFullAt \in Nat
    /\ MaxLeaves \in Nat
    /\ MaxBatch \in Nat

VARIABLES
    mode,        \* handle: "closed", "rw" (SlateDbBackedTree::new), "ro" (from_reader)
    meta,        \* value under "meta": a number of leaves, or NoMeta
    leafKV,      \* "leaf:i" -> leaf value
    nodeKV,      \* "node:x" -> hash
    vnodeKV,     \* "vnode:x@n", keyed <<x, n>> -> hash
    extraKV,     \* caller keys written by batch_push_with_data
    wpc,         \* writer: "idle", "bp_prefetch", "bp_commit", "push_commit"
    wStart,      \* starting_index / num_leaves read by the writer
    wItems,      \* the items of the call in progress
    wExtras,     \* its additional_data
    wPrefetched, \* prefetched_nodes of batch_push_with_data
    rpc,         \* reader: "idle" or "root_node"
    rSize        \* num_leaves read by root()

storeVars  == <<meta, leafKV, nodeKV, vnodeKV, extraKV>>
writerVars == <<wpc, wStart, wItems, wExtras, wPrefetched>>
readerVars == <<rpc, rSize>>
vars == <<mode, storeVars, writerVars, readerVars>>

\* len(): get_num_leaves().unwrap_or(0)
Len0(m) == IF m = NoMeta THEN 0 ELSE m

\* Items of one call: sequences of at most MaxBatch values.
Batches == UNION {[1..k -> Vals] : k \in 0..MaxBatch}

(***************************************************************************)
(* Siblings batch_push_with_data pre-fetches: those of every node on the   *)
(* path of each new leaf that lie in the tree before the call (< 2*S).     *)
(***************************************************************************)
ToPrefetch(S, k) ==
    UNION {{Sibling(c, p + 1) : c \in LeafPath(p, p + 1) \ {RootIdx(p + 1)}} : p \in S..S + k - 1}
        \cap 0..(2 * S - 1)

\* A node read from "node:x", the all-zero digest when absent.
StoredOrZero(s) == IF s \in DOMAIN nodeKV THEN nodeKV[s] ELSE ZeroHash

(***************************************************************************)
(* batch_push_with_data's sibling lookup while adding leaf p: computed,    *)
(* then a zero "ghost" for s >= 2 * current_num_leaves, then the          *)
(* prefetched map, then a direct read falling back to zero.               *)
(***************************************************************************)
BatchSiblingHash(s, computed, p, pre) ==
    IF s \in DOMAIN computed THEN computed[s]
    ELSE IF s >= 2 * p THEN ZeroHash
    ELSE IF s \in DOMAIN pre THEN pre[s]
    ELSE StoredOrZero(s)

\* recalculate_path_batch's lookup: computed, else a read, else zero.
PushSiblingHash(s, computed) ==
    IF s \in DOMAIN computed THEN computed[s] ELSE StoredOrZero(s)

(***************************************************************************)
(* The sibling lookup of the calling operation: batch_push_with_data's    *)
(* while adding leaf p with prefetched map pre, or push's.               *)
(***************************************************************************)
SiblingHash(s, computed, p, pre, isBatch) ==
    IF isBatch THEN BatchSiblingHash(s, computed, p, pre) ELSE PushSiblingHash(s, computed)

(***************************************************************************)
(* Plausible faults of the path walk, for checking that the properties    *)
(* notice them: the versioned entry keyed by the old size instead of the  *)
(* new one.                                                               *)
(***************************************************************************)
WalkOldVersion(p, item, computed0, pre, isBatch) ==
    LET h0 == LeafHash(item)
        step[j \in 0..CeilLog2(p + 1)] ==
            IF j = 0
            THEN [cur |-> LeafToInternal(p), hash |-> h0,
                  computed |-> Put(computed0, LeafToInternal(p), h0),
                  vnodes |-> Put(EmptyMap, <<LeafToInternal(p), p>>, h0)]
            ELSE LET st == step[j - 1]
                 IN  IF st.cur = RootIdx(p + 1) THEN st
                     ELSE LET par == Parent(st.cur, p + 1)
                              sib == SiblingHash(Sibling(st.cur, p + 1), st.computed, p, pre, isBatch)
                              ph  == IF IsLeft(st.cur, p + 1) THEN ParentHash(st.hash, sib)
                                                              ELSE ParentHash(sib, st.hash)
                          IN  [cur |-> par, hash |-> ph,
                               computed |-> Put(st.computed, par, ph),
                               vnodes |-> Put(st.vnodes, <<par, p>>, ph)]
    IN  step[CeilLog2(p + 1)]

(***************************************************************************)
(* The loop that walks from the leaf 2*p to root_idx(p + 1), hashing the  *)
(* current node with its sibling on the side IsLeft says and recording    *)
(* every node in the computed map and a versioned entry for size p + 1.   *)
(***************************************************************************)
Walk(p, item, computed0, pre, isBatch) ==
    LET n  == p + 1
        h0 == LeafHash(item)
        step[j \in 0..CeilLog2(n)] ==
            IF j = 0
            THEN [cur |-> LeafToInternal(p), hash |-> h0,
                  computed |-> Put(computed0, LeafToInternal(p), h0),
                  vnodes |-> Put(EmptyMap, <<LeafToInternal(p), n>>, h0)]
            ELSE LET st == step[j - 1]
                 IN  IF st.cur = RootIdx(n) THEN st
                     ELSE LET par == Parent(st.cur, n)
                              sib == SiblingHash(Sibling(st.cur, n), st.computed, p, pre, isBatch)
                              ph  == IF IsLeft(st.cur, n) THEN ParentHash(st.hash, sib)
                                                          ELSE ParentHash(sib, st.hash)
                          IN  [cur |-> par, hash |-> ph,
                               computed |-> Put(st.computed, par, ph),
                               vnodes |-> Put(st.vnodes, <<par, n>>, ph)]
    IN  step[CeilLog2(n)]

\* Fault: computed_hashes started afresh for every item, as push does.
BatchWritesFreshComputed(S, items, pre) ==
    LET acc[k \in 0..Len(items)] ==
            IF k = 0 THEN [computed |-> EmptyMap, vnodes |-> EmptyMap]
            ELSE LET p == S + k - 1
                     w == Walk(p, items[k], EmptyMap, pre, TRUE)
                 IN  [computed |-> Merge(acc[k - 1].computed, w.computed),
                      vnodes |-> Merge(acc[k - 1].vnodes, w.vnodes)]
    IN  acc[Len(items)]

(***************************************************************************)
(* The node and versioned-node writes of a batch of items appended at S:  *)
(* the loop over items threads the computed map from leaf to leaf.        *)
(***************************************************************************)
BatchWrites(S, items, pre) ==
    LET acc[k \in 0..Len(items)] ==
            IF k = 0 THEN [computed |-> EmptyMap, vnodes |-> EmptyMap]
            ELSE LET p == S + k - 1
                     w == Walk(p, items[k], acc[k - 1].computed, pre, TRUE)
                 IN  [computed |-> w.computed, vnodes |-> Merge(acc[k - 1].vnodes, w.vnodes)]
    IN  acc[Len(items)]

\* Fault: every leaf key one position early.
LeafWritesEarly(S, items) == [i \in S - 1..S + Len(items) - 2 |-> items[i - S + 2]]

\* The leaf writes of items appended at S.
LeafWrites(S, items) == [i \in S..S + Len(items) - 1 |-> items[i - S + 1]]

-----------------------------------------------------------------------------
(***************************************************************************)
(* Handles.                                                                *)
(***************************************************************************)

\* Fault: new() writes meta = 0 without reading it first.
OpenRWReset ==
    /\ mode = "closed"
    /\ mode' = "rw"
    /\ meta' = 0
    /\ UNCHANGED <<leafKV, nodeKV, vnodeKV, extraKV, writerVars, readerVars>>

\* SlateDbBackedTree::new: first use writes meta = 0, otherwise keeps it.
OpenRW ==
    /\ mode = "closed"
    /\ mode' = "rw"
    /\ meta' = IF meta = NoMeta THEN 0 ELSE meta
    /\ UNCHANGED <<leafKV, nodeKV, vnodeKV, extraKV, writerVars, readerVars>>

\* SlateDbBackedTree::from_reader: no initialization, no cache.
OpenRO ==
    /\ mode = "closed"
    /\ mode' = "ro"
    /\ UNCHANGED <<storeVars, writerVars, readerVars>>

\* A call returns: its locals are dropped.
WriterReturns ==
    /\ wpc' = "idle"
    /\ wStart' = 0
    /\ wItems' = <<>>
    /\ wExtras' = {}
    /\ wPrefetched' = EmptyMap

\* The process stops: tasks in flight are lost, the store is untouched.
Crash ==
    /\ mode # "closed"
    /\ mode' = "closed"
    /\ WriterReturns
    /\ rpc' = [r \in Readers |-> "idle"]
    /\ rSize' = [r \in Readers |-> 0]
    /\ UNCHANGED storeVars

-----------------------------------------------------------------------------
(***************************************************************************)
(* Writer: batch_push_with_data (batch_push passes no extras).  A call    *)
(* with no items and no extras returns len() and changes nothing, so it   *)
(* is no step of the model.                                               *)
(***************************************************************************)

\* Reads len() as starting_index.
BPBegin(items, extras) ==
    LET S == Len0(meta) IN
    /\ mode # "closed"
    /\ wpc = "idle"
    /\ items # <<>> \/ extras # {}
    /\ S + Len(items) <= MaxLeaves
    /\ wpc' = "bp_prefetch"
    /\ wStart' = S
    /\ wItems' = items
    /\ wExtras' = extras
    /\ UNCHANGED <<mode, storeVars, wPrefetched, readerVars>>

\* The parallel reads of the pre-existing siblings.
BPPrefetch ==
    LET P == {x \in ToPrefetch(wStart, Len(wItems)) : x \in DOMAIN nodeKV} IN
    /\ wpc = "bp_prefetch"
    /\ wpc' = "bp_commit"
    /\ wPrefetched' = [x \in P |-> nodeKV[x]]
    /\ UNCHANGED <<mode, storeVars, wStart, wItems, wExtras, readerVars>>

(***************************************************************************)
(* The in-memory recomputation and the atomic write of leaves, nodes,     *)
(* versioned nodes, meta and extras; a read-only handle refuses it.       *)
(***************************************************************************)
BPCommit ==
    LET W == BatchWrites(wStart, wItems, wPrefetched) IN
    /\ wpc = "bp_commit"
    /\ WriterReturns
    /\ IF mode = "ro"
       THEN UNCHANGED storeVars
       ELSE /\ leafKV' = Merge(leafKV, LeafWrites(wStart, wItems))
            /\ nodeKV' = Merge(nodeKV, W.computed)
            /\ vnodeKV' = Merge(vnodeKV, W.vnodes)
            /\ meta' = wStart + Len(wItems)
            /\ extraKV' = extraKV \cup wExtras
    /\ UNCHANGED <<mode, readerVars>>

(***************************************************************************)
(* Writer: push.                                                           *)
(***************************************************************************)

\* Reads len(); a full tree is refused with InconsistentState.
PushBegin(item) ==
    LET N == Len0(meta) IN
    /\ mode # "closed"
    /\ wpc = "idle"
    /\ N + 1 <= MaxLeaves
    /\ N < TreeFullAt
    /\ wpc' = "push_commit"
    /\ wStart' = N
    /\ wItems' = <<item>>
    /\ UNCHANGED <<mode, storeVars, wExtras, wPrefetched, readerVars>>

\* recalculate_path_batch with its sibling reads, then the atomic write.
PushCommit ==
    LET N == wStart
        W == Walk(N, wItems[1], EmptyMap, EmptyMap, FALSE)
    IN
    /\ wpc = "push_commit"
    /\ WriterReturns
    /\ IF mode = "ro"
       THEN UNCHANGED storeVars
       ELSE /\ leafKV' = Merge(leafKV, LeafWrites(N, wItems))
            /\ nodeKV' = Merge(nodeKV, W.computed)
            /\ vnodeKV' = Merge(vnodeKV, W.vnodes)
            /\ meta' = N + 1
            /\ UNCHANGED extraKV
    /\ UNCHANGED <<mode, readerVars>>

\* A KV read or the batch write returns an error: the call returns it.
WriterFail ==
    /\ wpc # "idle"
    /\ WriterReturns
    /\ UNCHANGED <<mode, storeVars, readerVars>>

-----------------------------------------------------------------------------
(***************************************************************************)
(* Readers: root().  An empty tree returns H("") after the first read, so *)
(* only a non-empty size leads to the second read.                        *)
(***************************************************************************)

\* Reads len().
RootBegin(r) ==
    /\ mode # "closed"
    /\ rpc[r] = "idle"
    /\ Len0(meta) > 0
    /\ rpc' = [rpc EXCEPT ![r] = "root_node"]
    /\ rSize' = [rSize EXCEPT ![r] = Len0(meta)]
    /\ UNCHANGED <<mode, storeVars, writerVars>>

\* get_node_hash(root_idx(N)), returned with N; or an error.
RootRead(r) ==
    /\ rpc[r] = "root_node"
    /\ rpc' = [rpc EXCEPT ![r] = "idle"]
    /\ rSize' = [rSize EXCEPT ![r] = 0]
    /\ UNCHANGED <<mode, storeVars, writerVars>>

\* What RootRead(r) returns: the stored root hash of size rSize[r].
RootResult(r) ==
    IF RootIdx(rSize[r]) \in DOMAIN nodeKV
    THEN [hash |-> nodeKV[RootIdx(rSize[r])], size |-> rSize[r]]
    ELSE NoMeta

ReaderFail(r) ==
    /\ rpc[r] # "idle"
    /\ rpc' = [rpc EXCEPT ![r] = "idle"]
    /\ rSize' = [rSize EXCEPT ![r] = 0]
    /\ UNCHANGED <<mode, storeVars, writerVars>>

-----------------------------------------------------------------------------
\* A fresh store: no key at all.
Init ==
    /\ mode = "closed"
    /\ meta = NoMeta
    /\ leafKV = [i \in {} |-> NoMeta]
    /\ nodeKV = EmptyMap
    /\ vnodeKV = EmptyMap
    /\ extraKV = {}
    /\ wpc = "idle"
    /\ wStart = 0
    /\ wItems = <<>>
    /\ wExtras = {}
    /\ wPrefetched = EmptyMap
    /\ rpc = [r \in Readers |-> "idle"]
    /\ rSize = [r \in Readers |-> 0]

\* A call of batch_push_with_data, the append that takes &self.
BatchAppendStep ==
    \/ \E items \in Batches, extras \in SUBSET ExtraKeys : BPBegin(items, extras)
    \/ BPPrefetch \/ BPCommit
    \/ WriterFail

\* The operations of the appending task; push takes &mut self.
WriterStep ==
    \/ BatchAppendStep
    \/ \E v \in Vals : PushBegin(v)
    \/ PushCommit

\* Every step but a crash.
TaskStep ==
    \/ OpenRW \/ OpenRO
    \/ WriterStep
    \/ \E r \in Readers : RootBegin(r) \/ RootRead(r) \/ ReaderFail(r)

Next == Crash \/ TaskStep

Spec == Init /\ [][Next]_vars

-----------------------------------------------------------------------------
(***************************************************************************)
(* get_node_hash_at_version(x, n): the versioned entry "vnode:x@n", else  *)
(* the current "node:x" (the node has not changed since n), else missing. *)
(***************************************************************************)
VersionedNodeHash(x, n) ==
    IF <<x, n>> \in DOMAIN vnodeKV THEN vnodeKV[<<x, n>>]
    ELSE IF x \in DOMAIN nodeKV THEN nodeKV[x]
    ELSE NoMeta

\* The leaves as the log the tree promises: leaf i - 1 at position i.
LogView == [i \in 1..Len0(meta) |-> leafKV[i - 1]]

Log == INSTANCE AppendOnlyLog WITH log <- LogView

-----------------------------------------------------------------------------
IsMap(f) == f = [x \in DOMAIN f |-> f[x]]

\* Every variable holds a value of its type.
TypeOK ==
    /\ mode \in {"closed", "rw", "ro"}
    /\ meta \in Nat \cup {NoMeta}
    /\ DOMAIN leafKV \subseteq Nat
    /\ leafKV \in [DOMAIN leafKV -> Vals]
    /\ IsMap(nodeKV)
    /\ IsMap(vnodeKV)
    /\ extraKV \subseteq ExtraKeys
    /\ wpc \in {"idle", "bp_prefetch", "bp_commit", "push_commit"}
    /\ wStart \in Nat
    /\ wItems \in Seq(Vals)
    /\ wExtras \subseteq ExtraKeys
    /\ IsMap(wPrefetched)
    /\ rpc \in [Readers -> {"idle", "root_node"}]
    /\ rSize \in [Readers -> Nat]

(***************************************************************************)
(* Spec 5, appends serialized by the caller: while push or               *)
(* batch_push_with_data is in flight, the num_leaves / starting_index it *)
(* read is still the stored size, so its leaf keys start right after the *)
(* stored leaves; every leaf below the stored size is present; a closed  *)
(* handle has no call in flight; and push carries exactly one item.      *)
(***************************************************************************)
WriterSeesStoredSize ==
    /\ \A i \in 0..Len0(meta) - 1 : i \in DOMAIN leafKV
    /\ mode = "closed" => wpc = "idle"
    /\ wpc # "idle" => wStart = Len0(meta)
    /\ wpc = "push_commit" => Len(wItems) = 1

(***************************************************************************)
(* Spec invariant 3 and property 8.1: every node of the current tree is   *)
(* stored under "node:x" with the RFC 6962 hash of the leaves it covers;  *)
(* in particular the root matches a reference tree.  It rests on the      *)
(* batch loop's sibling lookup order (computed map, ghost, prefetched,    *)
(* direct read) and left/right orientation, for any split into batches.   *)
(***************************************************************************)
CurrentNodesCorrect ==
    \A x \in RealizedNodes(Len0(meta)) :
        /\ x \in DOMAIN nodeKV
        /\ nodeKV[x] = RefNodeHash(leafKV, x, Len0(meta))

(***************************************************************************)
(* Spec invariant 4 and property 8.5: for every size n the tree has had,  *)
(* get_node_hash_at_version(x, n) returns the hash x had at size n, for   *)
(* every node x of that tree: a versioned entry was written when x        *)
(* changed, otherwise the current node still holds it.  Historical        *)
(* inclusion proofs read only such nodes.                                *)
(***************************************************************************)
HistoricalNodesRecoverable ==
    \A n \in 1..Len0(meta) : \A x \in RealizedNodes(n) :
        VersionedNodeHash(x, n) = RefNodeHash(leafKV, x, n)

(***************************************************************************)
(* Spec invariant 1 and the lifecycle of section 3, as a property of      *)
(* steps: the stored size never decreases, a leaf below it is never       *)
(* rewritten and a versioned entry, once written, never changes, across   *)
(* failures, crashes and reopening.                                       *)
(***************************************************************************)
AppendOnly ==
    [][ /\ Len0(meta') >= Len0(meta)
        /\ \A i \in 0..Len0(meta) - 1 : i \in DOMAIN leafKV' /\ leafKV'[i] = leafKV[i]
        /\ \A k \in DOMAIN vnodeKV : k \in DOMAIN vnodeKV' /\ vnodeKV'[k] = vnodeKV[k]
      ]_vars

\* The leaves behave as the append-only log of AppendOnlyLog.
RefinesAppendOnlyLog == Log!Spec

(***************************************************************************)
(* Spec 5: "read operations are safe to overlap with appends".  When      *)
(* root() returns a (hash, size) pair, the hash is the RFC 6962 root of   *)
(* the first size leaves.                                                 *)
(***************************************************************************)
RootReadConsistent ==
    [][\A r \in Readers :
          RootRead(r) /\ RootResult(r) # NoMeta =>
              RootResult(r).hash = MTH(leafKV, 0, RootResult(r).size)
      ]_vars
=============================================================================
