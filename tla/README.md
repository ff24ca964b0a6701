# Formal model of the compact_log Merkle tree

This directory holds TLA+ models of the storage-backed Merkle tree that
compact_log uses for its Certificate Transparency log. It contains:

- TLC configurations that check the models on small instances;
- TLAPS proofs of the properties that hold for every instance;
- `PROJECT.json`, which lists:
  - the components and the runs;
  - the mutants that show each checked property can fail;
  - which source lines each definition translates;
  - findings, hazards and theorems.

## 1. The system

| Part | Source | What it does |
|------|--------|--------------|
| `SlateDbBackedTree` | `src/ct-merkle/src/slatedb_backed_tree.rs` | An append-only RFC 6962 Merkle tree stored in SlateDB. |
| `DbHandle` | same, lines 45-79 | The read-write `Db` or the read-only `DbReader`. Writes through a reader fail. |
| Index algebra (`tree_math`) | ct-merkle crate, not under `src/` | In-order node numbering: leaf i is node 2i, root_idx, parent, sibling, children, and the proof index sets. |
| `StorageBackedMerkleTree` | `src/src/merkle_storage.rs` | A cloneable `Arc` wrapper. It checks the arguments of proof requests, then calls the tree. |
| API state and router | `src/src/api/mod.rs` | `ApiState::new` builds the signers from the private key. `create_router` routes the CT endpoints, `/health` and `/metrics` through `metrics_middleware`, which keeps the Prometheus gauge `ACTIVE_CONNECTIONS`, the duration histogram and the request counter. |

**Durable state.** The store holds these keys:
- `meta`: the number of leaves, big-endian;
- `leaf:i`: the serialized leaf;
- `node:x`: the current hash of node x;
- `vnode:x@n`: the hash of node x when the tree reached n leaves;
- the caller's own keys, which `batch_push_with_data` co-commits.

A small node cache (moka) is written by the prefetch and never read.

**Operations, in the order of their awaits.**

Writes:
- `push`: reads `len()`, checks `num_leaves >= u64::MAX/2`, then runs `recalculate_path_batch`. Each sibling it needs is taken from the nodes computed in the same call, else read from the store, else zero. Last comes one atomic write batch.
- `batch_push_with_data`: reads `len()`. It returns early if there are no items and no extra keys. Otherwise it prefetches the siblings that exist before the call. It then walks every item's path, threading `computed_hashes` across items. A sibling is looked up in this order: the computed map; the zero "ghost" if its index is at least `2*current_num_leaves`; the prefetched map; a direct read, falling back to zero. Last comes one atomic write batch: leaves, nodes, versioned nodes, meta and the extra keys.

Reads:
- `root`: reads `len()`, then the current root node.
- `prove_inclusion(i)` and `prove_consistency(m)`: read `len()`, then current nodes.
- `prove_inclusion_at_size(i, n)`: reads `len()`, then the versioned nodes of size n, falling back to the current node.
- `prove_consistency_between(m, n)`: reads `len()`, then current nodes.

In the last three, the per-index reads run as joined futures.

**Interaction.** The spec (section 5) requires the caller to serialize appends. Reads may overlap with appends. `push` and `batch_push` take `&mut self`, so the borrow checker serializes them. `batch_push_with_data` takes `&self`. The wrapper is `Clone` over an `Arc` of the tree, and `ApiState` hands one wrapper to every request, so many tasks share one tree. Nothing under `src/` serializes their calls of `batch_push_with_data`.

## 2. Modules

| Module | Models |
|--------|--------|
| `MerkleIndex` | The index algebra, the hash terms, finite maps, and the reference hash `MTH` (RFC 6962 section 2.1). |
| `AppendOnlyLog` | The abstract promise: a sequence that only grows at its end. |
| `SlateDbTree` | The store, the handle lifecycle, the writer (push, batch push), and `root()` readers. |
| `ProofGenerator` | The four proof operations as prover tasks running alongside `SlateDbTree`. |
| `ConcurrentAppends` | Two tasks calling `batch_push_with_data` at once through the shared wrapper, as two instances of `SlateDbTree` over one store. |
| `SlateDbTreeTheorems` | TLAPS proofs about `SlateDbTree`. |
| `HttpMetrics` | `ApiState::new`, the router and `metrics_middleware`, with concurrent requests that may be dropped at the await. |
| `HttpMetricsTheorems` | TLAPS proofs about `HttpMetrics`. |
| `LeafCapacity` | The tree-full check and the leaf-to-node index arithmetic of the appends, at a word width `W`. |
| `ProofGeneratorTheorems` | TLAPS proofs about the provers and readers beside the writer. |
| `LeafCapacityTheorems` | TLAPS proof of `push`'s bound at every word width. |
| `MCSlateDbTree`, `MCProofGenerator`, `MCHttpMetrics`, `MCLeafCapacity` | Model values and symmetry for TLC. |

### MerkleIndex

This module is spec-modelled, because the crate is not in `src/`.

- **Hashes.** `LeafHash` and `ParentHash` build distinct tuples, so equal hashes mean equal inputs. This is the property collision resistance is relied on for. `ZeroHash` is the all-zero digest and `EmptyHash` is `H("")`.
- **Index helpers.** `Level` (the number of trailing ones), `RootIdx`, `Parent` (the lowest ancestor that exists in a tree of n leaves), `RightChild`, `Sibling`, `IsLeft`, `IndicesForInclusionProof`, and `IndicesForConsistencyProof` (the RFC SUBPROOF recursion, as a recursive function).
- **Reference hash.** `MTH` is written independently of the index algebra. `RefNodeHash(D, x, n)` is the hash node x must have in the tree of the first n leaves.
- **Cross-checks.** During development the algebra was checked against `MTH` for every tree up to 12 leaves: a parent's hash combines its children's hashes, and the root equals `MTH`. The proof index sets were checked to name only nodes that exist, for trees up to 10 leaves.

### SlateDbTree

**Variables.**
- The handle: `mode`, which is `closed`, `rw` or `ro`.
- The store, one variable per namespace: `meta`, `leafKV`, `nodeKV`, `vnodeKV`, `extraKV`.
- The writer's locals: `wpc`, `wStart`, `wItems`, `wExtras`, `wPrefetched`.
- The readers' locals: `rpc`, `rSize`.

**Actions, one per await of the code.**

| Action | Code |
|--------|------|
| `OpenRW` | `new`: writes meta = 0 on first use only |
| `OpenRO` | `from_reader` |
| `BPBegin` | the `len()` of `batch_push_with_data` and its early return |
| `BPPrefetch` | the parallel prefetch |
| `BPCommit` | the whole in-memory recomputation and the atomic write; a read-only handle refuses the write |
| `PushBegin` | `len()` and the full check |
| `PushCommit` | `recalculate_path_batch` and the write |
| `WriterFail` | any awaited KV error |
| `RootBegin`, `RootRead`, `ReaderFail` | `root()` |
| `Crash` | the process stops: tasks lose their locals and the store is untouched |

**Why the path walk is atomic.** The direct sibling reads inside the path loops are awaits too. The model folds them into the commit step, because only the single writer changes the store. A read made at any point between the writer's `len()` and its commit therefore sees the same values.

**Recursion.** The path walk (`Walk`) and the batch loop (`BatchWrites`) are recursive functions. They follow the code's loop and its lookup order line by line.

### ProofGenerator

**Variables.** Prover tasks hold `ppc`, `pOp`, `pSize`, `pTodo` (indices not yet fetched) and `pGot` (index → hash).

**Actions.**

| Action | Code |
|--------|------|
| `ProveInclusion` | `prove_inclusion` |
| `ProveInclusionAtSize` | `prove_inclusion_at_size`, with the checks of `prove_inclusion_efficient` |
| `ProveConsistency` | `prove_consistency` |
| `ProveConsistencyBetween` | `prove_consistency_between`, with the checks of `consistency_proof_between_sizes` |
| `FetchHash` | one get of the joined futures. It reads the current node, or `get_node_hash_at_version` for `incl_at`. A missing node fails the whole proof. |
| `ProofReturn`, `ProverFail` | the proof is returned, or fails with a KV error |

`ProverCrash` is `Crash` with the provers' locals dropped as well.

**Two `len()` reads folded into one.** The wrapper's `size()` check and the inner `len()` check are modelled as one check. Sizes only grow, so the inner check passes whenever the wrapper's did.

### ConcurrentAppends

`T1` and `T2` are instances of `SlateDbTree`. They share the handle and the four namespaces, and each has its own writer locals (`wpc1`, `wStart1`, ... and `wpc2`, ...). A task's steps are `BatchAppendStep` of its instance: `BPBegin`, `BPPrefetch`, `BPCommit` and `WriterFail`, unchanged. `push` is left out because it takes `&mut self`. Opening the handle is `T1!OpenRW` or `T1!OpenRO`. A crash is `T1!Crash`, and it ends the other task's call as well. The instances have no readers.

The commit step still folds the direct sibling reads into the write. With two writers that hides further interleavings, but the run needs none of them: the two tasks already disagree at their first `len()`.

### HttpMetrics

**Variables.**
- `api`: `init`, `serving`, or `failed` when `ApiState::new` returned an error.
- Per request: `qpc` (`idle`, `running`, `responded`, `dropped`), `qPath`, `qMethod`, `qStatus`.
- The metrics: `active` (`ACTIVE_CONNECTIONS`), `observed` (observations of the duration histogram per path and method), `total` (`HTTP_REQUESTS_TOTAL` per path, method and status).

**Actions.**

| Action | Code |
|--------|------|
| `NewApiState` | `ApiState::new`: the SCT and STH signers parse the key, or the call returns the error |
| `MiddlewareEnter` | `metrics_middleware` up to `next.run(req).await`: `ACTIVE_CONNECTIONS.inc()` |
| `MiddlewareExit` | the handler's answer and the rest of the middleware: for a `/ct/v1/` path one observation and one count under the status, then `dec()` |
| `RequestDropped` | the server drops the request's future at the await, so nothing after it runs |

`HandlerStatuses` gives the statuses a request can end with. A method the route is not registered for gets 405. `/health` gets 200. `/metrics` gets 200, or 500 when encoding fails. The CT handlers, which are outside `src/`, may answer with any status. Request ids are used once, so each run has a fixed number of requests.

### LeafCapacity

`numLeaves` is the meta key and `leafAt` maps each leaf node to the leaf whose hash it holds. Arithmetic is modulo `2^W`: u64 is `W = 64`, and the run uses `W = 3`. `Push` keeps the check `num_leaves >= u64::MAX / 2`. `BatchPush` has no check, as in the code. A release build wraps `2 * i`, which is what `LeafToInternalW` computes. A debug build panics before the write batch, and that is the absence of a step. `PushSpec` is a client that appends with `push` alone, as the tree's own tests do. Its runs stop where `push` refuses every further append. `MCLeafCapacity` extends the module for both runs, so TLC evaluates `WidthAssumption`.

## 3. Runs

| Run | Config | Result | What it shows |
|-----|--------|--------|---------------|
| `tree_core` | `MCSlateDbTree.cfg` | pass, 28 749 states | For any interleaving of pushes, batches of up to 3 items, an extra key, failures, crashes, reopening read-write or read-only, and a concurrent `root()`: see the list below. |
| `root_read_race` | `MCSlateDbTreeRootRead.cfg` | violation | `RootReadConsistent` fails. A reader reads size 3. A push commits leaf 4. The reader then returns the 4-leaf root with size 3. |
| `historical_proofs` | `MCProofGenerator.cfg` | pass, 64 517 states | A proof from `prove_inclusion_at_size` holds the hashes of size n, even when appends commit between its gets. The property is `HistoricalInclusionProofsCorrect`. `ProverTypeOK` also says each index is fetched or pending, never both. |
| `consistency_between_current_nodes` | `MCProofGeneratorConsistency.cfg` | violation | `prove_consistency_between(4, 7)` after the tree reached 8 leaves. It returns the 8-leaf hash of node 11, which covers leaves 4-7, instead of the 7-leaf hash. |
| `current_size_proof_race` | `MCProofGeneratorCurrent.cfg` | violation | `CurrentSizeProofsCorrect` fails. `prove_inclusion` reads size 7. The eighth leaf commits. The proof then carries the 8-leaf hash of node 11. |
| `http_metrics` | `MCHttpMetrics.cfg` | pass, 12 343 states | Three concurrent requests on every route and method, answered or dropped in any order. The gauge never counts fewer than the running handlers (`GaugeCoversRunning`). The counter and the histogram count exactly the answered CT requests (`CountersMatchResponses`). |
| `gauge_leak_on_cancel` | `MCHttpMetricsGauge.cfg` | violation | `GaugeCountsRunning` fails. A request is dropped at the await, its `dec()` never runs, and the gauge stays one too high for good. |
| `concurrent_appends` | `ConcurrentAppends.cfg` | violation | `SharedAppendOnly` fails. Two requests call `batch_push_with_data` on the shared wrapper, and both read `len() = 0`. The first commits `v1` at leaf 0. The second then commits `v2` at leaf 0, which rewrites a committed leaf. |
| `push_capacity` | `MCLeafCapacityPush.cfg` | pass, 128 states | With `W = 8`, `push` alone fills the tree up to its refusal at 127 leaves. No leaf's node index wraps onto another leaf (`LeafNodesIntact`). |
| `batch_index_wrap` | `MCLeafCapacity.cfg` | violation | `LeafNodesIntact` fails with `W = 3`. Pushes stop at 3 leaves, but a batch of 2 then writes leaf 4, whose node index 8 wraps to 0. That overwrites the node of leaf 0. |

What `tree_core` shows, property by property:
- every current node holds its RFC 6962 hash (`CurrentNodesCorrect`);
- for every past size n, `get_node_hash_at_version(x, n)` gives the hash x had at n (`HistoricalNodesRecoverable`);
- the writer's start index is the stored size (`WriterSeesStoredSize`);
- the size never decreases, and leaves and versioned entries are never rewritten (`AppendOnly`);
- the leaves refine `AppendOnlyLog` (`RefinesAppendOnlyLog`).

**Bounds.**
- `http_metrics` uses three requests. That is enough for a request to be dropped while a second runs and a third is answered. Two CT routes, one GET and one POST, give both the 405 path and the counted path. `CHECK_DEADLOCK FALSE` is set there because a failed `ApiState::new` really ends the process, and a run ends once its fixed set of requests is done.
- `concurrent_appends` uses 3 leaves, batches of up to 2 items and two values. One leaf per task is enough for the second commit to rewrite the first.
- `push_capacity` uses `W = 8`, so push reaches its bound after more than 100 appends. `CHECK_DEADLOCK FALSE` is set because a full tree really refuses every `push`.
- `batch_index_wrap` needs only the width: with `W = 3`, pushes stop at 3 leaves and the fifth leaf wraps.
- `tree_core` goes up to 7 leaves. This covers:
  - every shape of unbalanced tree up to depth 3;
  - batches that cross a perfect subtree, where the lookup order matters;
  - the full check: `TreeFullAt = 4` refuses push at 4 leaves while batches continue.
- The two proof runs need 8 leaves. Size 7 is the smallest size with a partial right sibling (node 11), and that sibling changes when leaf 8 arrives. To stay within minutes, these runs use a single payload value. Hashes still differ by the shape of the tree, which is what current and versioned nodes disagree on. Leaf contents are covered by `tree_core`, which uses two values under symmetry.

**Mutants.** Each property of the passing runs is shown to fail under a plausible fault of the code. The faults are defined next to the code they change; `PROJECT.json` lists the pairs.
- leaf keys written one position early;
- `computed_hashes` reset for each item;
- versioned entries keyed by the old size;
- `new()` resetting meta;
- a fetched proof index left pending;
- historical proofs reading current nodes;
- `ACTIVE_CONNECTIONS.inc()` missing;
- the `/ct/v1/` filter of the middleware dropped;
- `push` without its tree-full check.

**Fairness.** No run assumes any. Every append may fail or be cut off by a crash, so nothing in the tree must happen. A proof call returns once the store answers each of its gets. That is an assumption about the store, not something the code does, so the project states no liveness property for it.

## 4. Proofs (checked by tlapm)

### SlateDbTreeTheorems

- **`TypeCorrect`**: `Spec => []TypeOK`.
- **`WriterSeesStoredSizeHolds`**: `Spec => []WriterSeesStoredSize`.
  - The inductive invariant is `IInv == TypeOK /\ WriterSeesStoredSize`.
  - `WriterSeesStoredSize` says four things:
    - every leaf below the stored size exists;
    - a closed handle has no call in flight;
    - a call in flight still sees the stored size it read;
    - a push carries one item.
  - The type part is needed: a commit must know that `wItems` is a sequence and `wStart` is a number.
- **`Refinement`**: `Spec => RefinesAppendOnlyLog`, which is `Log!Spec` with `log <- LogView`.
  - Initial states map to the empty log.
  - A commit extends the log by exactly its items. The lemmas `CommitLeaves` and `CommitExtendsLog` carry this step: the leaf writes start at the stored size, so they leave the leaves below it untouched.
  - Every other step keeps the log unchanged.

The proofs assume only `ConstAssumption`: `NoMeta` is not a number, and the bounds are natural numbers.

### HttpMetricsTheorems

These proofs hold for any finite set of requests and any routes, methods and statuses. They assume `HttpAssumption`: the request set is finite and the CT routes are disjoint from the others.
- **`HttpTypeCorrect`**: `Spec => []TypeOK`. This includes that the gauge is never negative.
- **`GaugeCoversRunningHolds`**: `Spec => []GaugeCoversRunning`.
- **`CountersMatchResponsesHolds`**: `Spec => []CountersMatchResponses`.

All three rest on one inductive invariant. `IInv` says that the gauge equals the number of requests in `Entered`, the ones that entered the middleware and did not leave it (running or dropped). It also says that each counter equals the number of requests in its answered set. `GaugeCoversRunning` is not inductive by itself: a dropped request keeps the gauge above the running count, so the invariant must record by how much.

Each action gets its own lemma:
- an entry adds one request to `Entered`;
- an answer removes it from `Entered` and adds it to exactly one answered set;
- a drop and `ApiState::new` move nothing (the lemma `FrameIInv`).

The cardinality steps cite `FS_AddElement` and `FS_RemoveElement` from `FiniteSetTheorems`.

### ProofGeneratorTheorems

- **`ProversReadOnly`**: `ProverSpec => Spec`. The provers only read the store, so every behaviour of the composed system is a behaviour of `SlateDbTree`. `TypeCorrect`, `WriterSeesStoredSizeHolds` and `Refinement` therefore hold of it too.

### LeafCapacityTheorems

- **`PushKeepsLeafNodes`**: `PushSpec => []LeafNodesIntact`, for every word width `W`. So the 64-bit code is covered.
  - The inductive invariant `PushInv` has three parts:
    - the count is within `push`'s bound;
    - the leaf nodes written are exactly the `2i` of the stored leaves;
    - each of those nodes holds its leaf.
  - Under the bound, `2i` fits in the word, so the modulo does nothing.
  - `WidthAssumption` states that `2^W` is a positive number. This follows from `W \in Nat`, but the provers do not evaluate `^` at a symbolic exponent. TLC checks it on both runs.
  - TLC checked `PushInv` on the `push_capacity` instance before the proof.

### Left to TLC

**Node hashes.** The node-hash invariants (`CurrentNodesCorrect`, `HistoricalNodesRecoverable`) depend on what the recursive functions `Walk` and `BatchWrites` compute. Proving them would need induction over those definitions, which the installed provers cannot instantiate. The proofs therefore treat the node maps as opaque finite maps.

**Proof indices.** `ProverTypeOK` needs every proof index to be a number. The indices come from `Level` and `CeilLog2`, which are bounded CHOOSEs, and from the recursive `ConsistencyRanges`. Showing that those witnesses exist needs arithmetic on `2^k` at a symbolic `k`, which SMT does not do, and induction over a recursive function. `ProofGeneratorTheorems` therefore treats the index sets as opaque. The same holds for the proof-correctness properties, which also need the node-hash invariants.

**Versioned entries.** The leaf and meta parts of `AppendOnly` follow from `Refinement`. The part about versioned entries needs the keys that `Walk` writes, all of the form `<<x, n>>` with `n` the new size. Proving that is induction over `Walk`, so `AppendOnly` as a whole stays with TLC.

**Beyond the prover in general.** Liveness and ENABLED are out of the prover's reach. The project has no liveness property.

## 5. Not modelled

- **SHA-256, bincode and byte-level key encoding.** These are abstracted to injective terms and numeric keys.
- **Wrong-length values.** The code skips them on prefetch, or reports an encoding error on a direct read. The model never stores one.
- **The moka node cache.** It is never read.
- **The 64-bit boundary in the tree model.** `SlateDbTree` uses unbounded numbers. `LeafCapacity` models the boundary on its own, at a small width. `push`'s bound of `u64::MAX/2` (2^63 − 1, where spec 4.4 says 2^63) is one leaf stricter, and no property depends on it.
- **Concurrent appends, beyond the run that shows them.** `SlateDbTree` and its proofs have one writer task, as spec 5 asks of the caller, and `WriterSeesStoredSize` states that precondition. `ConcurrentAppends` shows what happens without it. Whether the CT handlers, which are outside `src/`, serialize their appends cannot be seen from this repository.
- **The base64 serialization helpers** of `merkle_storage.rs`, and the wrapper's pass-through `size`, `root` and `batch_push_with_data`. They hold no state, and the operations they forward are modelled.
- **The CT handlers** (`api/handlers`). They are not under `src/`, so they appear only through the statuses they answer with. The `/metrics` scrape body is not modelled.
- **Unrouted paths.** Whether axum's 404 fallback runs inside the metrics layer depends on a crate version that the repository does not pin. The model serves only routed paths.

## 6. Plan

Done:
- the index algebra and the append engine;
- the proof generator, with its three divergences;
- type, invariant and refinement proofs of the tree;
- the HTTP metrics, with proofs of the gauge and counter invariants;
- the word-boundary arithmetic;
- two concurrent `batch_push_with_data` calls through the shared wrapper;
- a proof of `push`'s bound at every width.

Next:
- A "verifiable log" abstract specification, whose reads return a root or a proof for one size. The root and current-size proofs would be the steps that fail to refine it.
- Lemmas giving `Level` and `CeilLog2` their witnesses (least elements by `WFMin`), toward `ProverTypeOK` for the inclusion operations.
