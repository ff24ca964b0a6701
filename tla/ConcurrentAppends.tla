-------------------------- MODULE ConcurrentAppends --------------------------
(***************************************************************************)
(* Two appending tasks over one store.  StorageBackedMerkleTree           *)
(* (src/src/merkle_storage.rs) is Clone over an Arc of the tree and its   *)
(* batch_push_with_data takes &self, with no lock: the ApiState handed to *)
(* every request (src/src/api/mod.rs) holds one, so two requests can be   *)
(* inside batch_push_with_data at once.  SlateDbBackedTree does not       *)
(* serialize appends itself (spec 5).                                     *)
(*                                                                         *)
(* Each task is an instance of SlateDbTree with its own writer locals and *)
(* the shared handle and namespaces; its steps are exactly the steps of   *)
(* batch_push_with_data in SlateDbTree (push and batch_push take &mut     *)
(* self, so they cannot run concurrently through the Arc).  A crash ends  *)
(* both calls.  Readers play no part here, so the instances have none.    *)
(***************************************************************************)
CONSTANTS Vals, ExtraKeys, NoMeta, TreeFullAt, MaxLeaves, MaxBatch

VARIABLES
    mode, meta, leafKV, nodeKV, vnodeKV, extraKV,         \* shared
    rpc, rSize,                                           \* no readers
    wpc1, wStart1, wItems1, wExtras1, wPrefetched1,       \* task 1
    wpc2, wStart2, wItems2, wExtras2, wPrefetched2        \* task 2

T1 == INSTANCE SlateDbTree
        WITH Readers <- {},
             wpc <- wpc1, wStart <- wStart1, wItems <- wItems1,
             wExtras <- wExtras1, wPrefetched <- wPrefetched1

T2 == INSTANCE SlateDbTree
        WITH Readers <- {},
             wpc <- wpc2, wStart <- wStart2, wItems <- wItems2,
             wExtras <- wExtras2, wPrefetched <- wPrefetched2

task1Vars == <<wpc1, wStart1, wItems1, wExtras1, wPrefetched1>>
task2Vars == <<wpc2, wStart2, wItems2, wExtras2, wPrefetched2>>
vars == <<mode, meta, leafKV, nodeKV, vnodeKV, extraKV, rpc, rSize, task1Vars, task2Vars>>

Init == T1!Init /\ T2!Init

Next ==
    \/ (T1!OpenRW \/ T1!OpenRO) /\ UNCHANGED task2Vars
    \/ T1!Crash /\ T2!WriterReturns
    \/ T1!BatchAppendStep /\ UNCHANGED task2Vars
    \/ T2!BatchAppendStep /\ UNCHANGED task1Vars

Spec == Init /\ [][Next]_vars

(***************************************************************************)
(* Spec invariant 1 and property 8.3: the size never decreases and a      *)
(* stored leaf is never rewritten, whatever the requests appending        *)
(* through the shared StorageBackedMerkleTree do.  Both tasks read len() *)
(* before either commits, so the second batch is written at the same      *)
(* starting_index as the first.                                           *)
(***************************************************************************)
SharedAppendOnly == T1!AppendOnly
=============================================================================
