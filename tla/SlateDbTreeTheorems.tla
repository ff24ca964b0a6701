------------------------- MODULE SlateDbTreeTheorems -------------------------
(***************************************************************************)
(* Proofs about SlateDbTree for every value of the constants: the type    *)
(* invariant, the inductive invariant of the single writer, and that the  *)
(* stored leaves implement the append-only log.  The hashes the writer    *)
(* computes come out of recursive functions (Walk, BatchWrites), which    *)
(* the provers cannot unfold, so the proofs treat the node maps as opaque *)
(* finite maps and the hash invariants stay with TLC.                     *)
(***************************************************************************)
EXTENDS SlateDbTree, TLAPS

-----------------------------------------------------------------------------
(***************************************************************************)
(* Lemmas about the map and batch helpers.                                *)
(***************************************************************************)

\* Merging two maps, as applying a write batch, gives a map.
LEMMA MergeIsMap ==
    ASSUME NEW f, NEW g
    PROVE  IsMap(Merge(f, g))
BY DEF IsMap, Merge

\* The empty map is a map.
LEMMA EmptyMapIsMap == IsMap(EmptyMap)
BY DEF IsMap, EmptyMap

\* The leaf writes of a call put a value under each new position.
LEMMA LeafWritesType ==
    ASSUME NEW S \in Nat, NEW items \in Seq(Vals)
    PROVE  LeafWrites(S, items) \in [S..S + Len(items) - 1 -> Vals]
BY DEF LeafWrites

\* Merging value maps over positions keeps a value map over positions.
LEMMA MergeLeaves ==
    ASSUME NEW D, NEW E, NEW f \in [D -> Vals], NEW g \in [E -> Vals]
    PROVE  Merge(f, g) \in [D \cup E -> Vals]
BY DEF Merge

\* The items of a call form a sequence of payloads.
LEMMA BatchesAreSequences == Batches \subseteq Seq(Vals)
<1>1. SUFFICES ASSUME NEW k \in 0..MaxBatch PROVE [1..k -> Vals] \subseteq Seq(Vals)
    BY DEF Batches
<1>2. k \in Nat
    BY ConstAssumption
<1>. QED
    BY <1>2

-----------------------------------------------------------------------------
(***************************************************************************)
(* Type correctness: every step of the handle, the writer and the         *)
(* readers keeps every variable in its type.                              *)
(***************************************************************************)
LEMMA WriterReturnsType ==
    ASSUME WriterReturns
    PROVE  /\ wpc' \in {"idle", "bp_prefetch", "bp_commit", "push_commit"}
           /\ wStart' \in Nat
           /\ wItems' \in Seq(Vals)
           /\ wExtras' \subseteq ExtraKeys
           /\ IsMap(wPrefetched')
BY EmptyMapIsMap DEF WriterReturns

LEMMA TypeInit == Init => TypeOK
BY EmptyMapIsMap DEF Init, TypeOK, IsMap

\* The write of a commit: leaves merged in, meta set past them.
LEMMA CommitType ==
    ASSUME TypeOK, NEW items \in Seq(Vals), NEW S \in Nat,
           NEW C, NEW V, NEW M \in Nat,
           leafKV' = Merge(leafKV, LeafWrites(S, items)),
           nodeKV' = Merge(nodeKV, C),
           vnodeKV' = Merge(vnodeKV, V),
           meta' = M
    PROVE  /\ meta' \in Nat \cup {NoMeta}
           /\ DOMAIN leafKV' \subseteq Nat
           /\ leafKV' \in [DOMAIN leafKV' -> Vals]
           /\ IsMap(nodeKV')
           /\ IsMap(vnodeKV')
<1>1. LeafWrites(S, items) \in [S..S + Len(items) - 1 -> Vals]
    BY LeafWritesType
<1>2. leafKV' \in [DOMAIN leafKV \cup (S..S + Len(items) - 1) -> Vals]
    BY <1>1, MergeLeaves DEF TypeOK
<1>3. DOMAIN leafKV' = DOMAIN leafKV \cup (S..S + Len(items) - 1)
    BY <1>2
<1>4. DOMAIN leafKV' \subseteq Nat
    BY <1>3 DEF TypeOK
<1>. QED
    BY <1>2, <1>3, <1>4, MergeIsMap

LEMMA TypeStep == TypeOK /\ [Next]_vars => TypeOK'
<1> SUFFICES ASSUME TypeOK, [Next]_vars PROVE TypeOK'
    OBVIOUS
<1> USE ConstAssumption DEF storeVars, writerVars, readerVars
<1>1. CASE OpenRW
    BY <1>1 DEF OpenRW, TypeOK, writerVars, readerVars
<1>2. CASE OpenRO
    BY <1>2 DEF OpenRO, TypeOK, storeVars
<1>3. CASE Crash
    BY <1>3, WriterReturnsType DEF Crash, TypeOK, storeVars
<1>4. ASSUME NEW items \in Batches, NEW extras \in SUBSET ExtraKeys,
             BPBegin(items, extras)
      PROVE  TypeOK'
    BY <1>4, BatchesAreSequences DEF BPBegin, TypeOK, storeVars, Len0
<1>5. CASE BPPrefetch
    BY <1>5 DEF BPPrefetch, TypeOK, storeVars, IsMap
<1>6. CASE BPCommit
    <2>1. CASE mode = "ro"
        BY <1>6, <2>1, WriterReturnsType DEF BPCommit, TypeOK, storeVars
    <2>2. CASE mode # "ro"
        <3>1. /\ meta' \in Nat \cup {NoMeta}
              /\ DOMAIN leafKV' \subseteq Nat
              /\ leafKV' \in [DOMAIN leafKV' -> Vals]
              /\ IsMap(nodeKV')
              /\ IsMap(vnodeKV')
            <4>1. PICK C, V : nodeKV' = Merge(nodeKV, C) /\ vnodeKV' = Merge(vnodeKV, V)
                BY <1>6, <2>2 DEF BPCommit
            <4>2. /\ leafKV' = Merge(leafKV, LeafWrites(wStart, wItems))
                  /\ meta' = wStart + Len(wItems)
                BY <1>6, <2>2 DEF BPCommit
            <4>3. wStart \in Nat /\ wItems \in Seq(Vals) /\ wStart + Len(wItems) \in Nat
                BY DEF TypeOK
            <4>. QED
                BY <4>1, <4>2, <4>3, CommitType
        <3>. QED
            BY <1>6, <2>2, <3>1, WriterReturnsType DEF BPCommit, TypeOK
    <2>. QED
        BY <2>1, <2>2
<1>7. ASSUME NEW v \in Vals, PushBegin(v)
      PROVE  TypeOK'
    BY <1>7 DEF PushBegin, TypeOK, storeVars, Len0
<1>8. CASE PushCommit
    <2>1. CASE mode = "ro"
        BY <1>8, <2>1, WriterReturnsType DEF PushCommit, TypeOK, storeVars
    <2>2. CASE mode # "ro"
        <3>1. /\ meta' \in Nat \cup {NoMeta}
              /\ DOMAIN leafKV' \subseteq Nat
              /\ leafKV' \in [DOMAIN leafKV' -> Vals]
              /\ IsMap(nodeKV')
              /\ IsMap(vnodeKV')
            <4>1. PICK C, V : nodeKV' = Merge(nodeKV, C) /\ vnodeKV' = Merge(vnodeKV, V)
                BY <1>8, <2>2 DEF PushCommit
            <4>2. /\ leafKV' = Merge(leafKV, LeafWrites(wStart, wItems))
                  /\ meta' = wStart + 1
                BY <1>8, <2>2 DEF PushCommit
            <4>3. wStart \in Nat /\ wItems \in Seq(Vals) /\ wStart + 1 \in Nat
                BY DEF TypeOK
            <4>. QED
                BY <4>1, <4>2, <4>3, CommitType
        <3>. QED
            BY <1>8, <2>2, <3>1, WriterReturnsType DEF PushCommit, TypeOK
    <2>. QED
        BY <2>1, <2>2
<1>9. CASE WriterFail
    BY <1>9, WriterReturnsType DEF WriterFail, TypeOK, storeVars
<1>10. ASSUME NEW r \in Readers, RootBegin(r) PROVE TypeOK'
    BY <1>10 DEF RootBegin, TypeOK, Len0
<1>11. ASSUME NEW r \in Readers, RootRead(r) PROVE TypeOK'
    BY <1>11 DEF RootRead, TypeOK
<1>12. ASSUME NEW r \in Readers, ReaderFail(r) PROVE TypeOK'
    BY <1>12 DEF ReaderFail, TypeOK
<1>13. CASE UNCHANGED vars
    BY <1>13 DEF vars, storeVars, writerVars, readerVars, TypeOK
<1>. QED
    BY <1>1, <1>2, <1>3, <1>4, <1>5, <1>6, <1>7, <1>8, <1>9, <1>10, <1>11,
       <1>12, <1>13
       DEF Next, TaskStep, WriterStep, BatchAppendStep

(***************************************************************************)
(* Every reachable state of the tree handle, the writer and the root()    *)
(* readers is well typed (the run MCSlateDbTree checks TypeOK on a small  *)
(* instance).                                                             *)
(***************************************************************************)
THEOREM TypeCorrect == Spec => []TypeOK
BY TypeInit, TypeStep, PTL DEF Spec

-----------------------------------------------------------------------------
(***************************************************************************)
(* The inductive invariant: the type together with WriterSeesStoredSize.  *)
(* WriterSeesStoredSize alone is not inductive (a commit needs wItems to   *)
(* be a sequence and wStart a number), and TypeOK alone does not give the *)
(* leaf positions a commit relies on.                                     *)
(***************************************************************************)
IInv == TypeOK /\ WriterSeesStoredSize

\* The leaves after a commit of items at the stored size S.
LEMMA CommitLeaves ==
    ASSUME NEW S \in Nat, NEW items \in Seq(Vals), NEW f, NEW L,
           \A i \in 0..S - 1 : i \in DOMAIN f,
           L = Merge(f, LeafWrites(S, items))
    PROVE  /\ \A i \in 0..S + Len(items) - 1 : i \in DOMAIN L
           /\ \A i \in 0..S - 1 : L[i] = f[i]
BY DEF Merge, LeafWrites

LEMMA Len0Nat == TypeOK => Len0(meta) \in Nat
BY DEF TypeOK, Len0

LEMMA IInvInit == Init => IInv
BY TypeInit DEF Init, IInv, WriterSeesStoredSize, Len0

LEMMA IInvStep == IInv /\ [Next]_vars => IInv'
<1> SUFFICES ASSUME IInv, [Next]_vars PROVE IInv'
    OBVIOUS
<1> USE ConstAssumption DEF storeVars, writerVars, readerVars
<1>0. TypeOK /\ TypeOK' /\ Len0(meta) \in Nat
    BY TypeStep, Len0Nat DEF IInv
<1> DEFINE WS == WriterSeesStoredSize
<1> SUFFICES WS'
    BY <1>0 DEF IInv
<1>1. CASE OpenRW
    BY <1>1 DEF OpenRW, IInv, WriterSeesStoredSize, Len0
<1>2. CASE OpenRO
    BY <1>2 DEF OpenRO, IInv, WriterSeesStoredSize
<1>3. CASE Crash
    BY <1>3 DEF Crash, WriterReturns, IInv, WriterSeesStoredSize
<1>4. ASSUME NEW items \in Batches, NEW extras \in SUBSET ExtraKeys,
             BPBegin(items, extras)
      PROVE  WS'
    BY <1>4 DEF BPBegin, IInv, WriterSeesStoredSize
<1>5. CASE BPPrefetch
    BY <1>5 DEF BPPrefetch, IInv, WriterSeesStoredSize
<1>6. CASE BPCommit
    <2>1. CASE mode = "ro"
        BY <1>6, <2>1 DEF BPCommit, WriterReturns, IInv, WriterSeesStoredSize
    <2>2. CASE mode # "ro"
        <3>1. wStart = Len0(meta) /\ wItems \in Seq(Vals)
            BY <1>6 DEF BPCommit, IInv, WriterSeesStoredSize, TypeOK
        <3>2. \A i \in 0..Len0(meta') - 1 : i \in DOMAIN leafKV'
            <4>1. Len0(meta') = Len0(meta) + Len(wItems)
                BY <1>0, <1>6, <2>2, <3>1 DEF BPCommit, Len0
            <4>2. leafKV' = Merge(leafKV, LeafWrites(Len0(meta), wItems))
                BY <1>6, <2>2, <3>1 DEF BPCommit
            <4>3. \A i \in 0..Len0(meta) + Len(wItems) - 1 : i \in DOMAIN leafKV'
                <5>1. \A i \in 0..Len0(meta) - 1 : i \in DOMAIN leafKV
                    BY DEF IInv, WriterSeesStoredSize
                <5>. QED
                    BY <1>0, <3>1, <4>2, <5>1, CommitLeaves
            <4>. QED
                BY <1>0, <4>1, <4>3 DEF Len0
        <3>3. wpc' = "idle"
            BY <1>6, <2>2 DEF BPCommit, WriterReturns
        <3>. QED
            BY <3>2, <3>3 DEF WriterSeesStoredSize
    <2>. QED
        BY <2>1, <2>2
<1>7. ASSUME NEW v \in Vals, PushBegin(v)
      PROVE  WS'
    BY <1>7 DEF PushBegin, IInv, WriterSeesStoredSize
<1>8. CASE PushCommit
    <2>1. CASE mode = "ro"
        BY <1>8, <2>1 DEF PushCommit, WriterReturns, IInv, WriterSeesStoredSize
    <2>2. CASE mode # "ro"
        <3>1. wStart = Len0(meta) /\ wItems \in Seq(Vals) /\ Len(wItems) = 1
            BY <1>8 DEF PushCommit, IInv, WriterSeesStoredSize, TypeOK
        <3>2. \A i \in 0..Len0(meta') - 1 : i \in DOMAIN leafKV'
            <4>1. Len0(meta') = Len0(meta) + Len(wItems)
                BY <1>0, <1>8, <2>2, <3>1 DEF PushCommit, Len0
            <4>2. leafKV' = Merge(leafKV, LeafWrites(Len0(meta), wItems))
                BY <1>8, <2>2, <3>1 DEF PushCommit
            <4>3. \A i \in 0..Len0(meta) + Len(wItems) - 1 : i \in DOMAIN leafKV'
                <5>1. \A i \in 0..Len0(meta) - 1 : i \in DOMAIN leafKV
                    BY DEF IInv, WriterSeesStoredSize
                <5>. QED
                    BY <1>0, <3>1, <4>2, <5>1, CommitLeaves
            <4>. QED
                BY <1>0, <4>1, <4>3 DEF Len0
        <3>3. wpc' = "idle"
            BY <1>8, <2>2 DEF PushCommit, WriterReturns
        <3>. QED
            BY <3>2, <3>3 DEF WriterSeesStoredSize
    <2>. QED
        BY <2>1, <2>2
<1>9. CASE WriterFail
    BY <1>9 DEF WriterFail, WriterReturns, IInv, WriterSeesStoredSize
<1>10. ASSUME NEW r \in Readers,
              RootBegin(r) \/ RootRead(r) \/ ReaderFail(r)
       PROVE  WS'
    BY <1>10 DEF RootBegin, RootRead, ReaderFail, IInv, WriterSeesStoredSize
<1>11. CASE UNCHANGED vars
    BY <1>11 DEF vars, IInv, WriterSeesStoredSize
<1>. QED
    BY <1>1, <1>2, <1>3, <1>4, <1>5, <1>6, <1>7, <1>8, <1>9, <1>10, <1>11
       DEF Next, TaskStep, WriterStep, BatchAppendStep

(***************************************************************************)
(* Appends are serialized (spec 5): in every reachable state, a push or  *)
(* batch_push_with_data in flight still sees the stored size it read, and *)
(* every leaf below the stored size is present.                          *)
(***************************************************************************)
THEOREM WriterSeesStoredSizeHolds == Spec => []WriterSeesStoredSize
BY IInvInit, IInvStep, PTL DEF Spec, IInv

-----------------------------------------------------------------------------
(***************************************************************************)
(* Refinement: the leaves below the stored size, read as a sequence       *)
(* (LogView), implement AppendOnlyLog.                                    *)
(***************************************************************************)

\* The log starts empty: a fresh store has no meta key.
LEMMA RefInit == Init => Log!Init
BY DEF Init, Log!Init, LogView, Len0

\* A step that keeps the stored size and the leaves keeps the log.
LEMMA LogUnchanged ==
    ASSUME Len0(meta') = Len0(meta), leafKV' = leafKV
    PROVE  UNCHANGED LogView
BY DEF LogView

\* A commit of items at the stored size extends the log by them.
LEMMA CommitExtendsLog ==
    ASSUME IInv, IInv', NEW items \in Seq(Vals),
           leafKV' = Merge(leafKV, LeafWrites(Len0(meta), items)),
           Len0(meta') = Len0(meta) + Len(items)
    PROVE  Log!Extend
<1> DEFINE S == Len0(meta)
<1>1. S \in Nat
    BY Len0Nat DEF IInv
<1>2. \A i \in 0..S - 1 : i \in DOMAIN leafKV /\ leafKV[i] \in Vals
    BY DEF IInv, TypeOK, WriterSeesStoredSize
<1>3. \A i \in 0..S - 1 : leafKV'[i] = leafKV[i]
    BY <1>1, <1>2, CommitLeaves
<1>4. \A i \in 0..Len0(meta') - 1 : i \in DOMAIN leafKV' /\ leafKV'[i] \in Vals
    BY DEF IInv, TypeOK, WriterSeesStoredSize
<1>5. Len0(meta') \in Nat
    BY <1>1
<1>6. LogView' \in Seq(Vals) /\ Len(LogView') = Len0(meta')
    BY <1>4, <1>5 DEF LogView
<1>7. LogView \in Seq(Vals) /\ Len(LogView) = S
    BY <1>1, <1>2 DEF LogView
<1>8. SubSeq(LogView', 1, S) = LogView
    <2>1. S <= Len0(meta')
        BY <1>1 DEF IInv, TypeOK
    <2>2. SubSeq(LogView', 1, S) = [i \in 1..S |-> LogView'[i]]
        BY <1>1, <1>6, <2>1
    <2>3. \A i \in 1..S : LogView'[i] = leafKV[i - 1]
        BY <1>1, <1>3, <1>5, <2>1 DEF LogView
    <2>. QED
        BY <2>2, <2>3 DEF LogView
<1>. QED
    BY <1>1, <1>5, <1>6, <1>7, <1>8 DEF Log!Extend

LEMMA RefStep == IInv /\ IInv' /\ [Next]_vars => [Log!Extend]_LogView
<1> SUFFICES ASSUME IInv, IInv', [Next]_vars PROVE [Log!Extend]_LogView
    OBVIOUS
<1> USE ConstAssumption DEF storeVars, writerVars, readerVars
<1>1. CASE OpenRW
    BY <1>1, LogUnchanged DEF OpenRW, Len0
<1>2. CASE BPCommit /\ mode # "ro"
    <2>1. wStart = Len0(meta) /\ wItems \in Seq(Vals)
        BY <1>2 DEF BPCommit, IInv, WriterSeesStoredSize, TypeOK
    <2>2. leafKV' = Merge(leafKV, LeafWrites(Len0(meta), wItems))
        BY <1>2, <2>1 DEF BPCommit
    <2>3. Len0(meta') = Len0(meta) + Len(wItems)
        BY <1>2, <2>1, Len0Nat DEF BPCommit, Len0, IInv
    <2>. QED
        BY <2>1, <2>2, <2>3, CommitExtendsLog
<1>3. CASE PushCommit /\ mode # "ro"
    <2>1. wStart = Len0(meta) /\ wItems \in Seq(Vals) /\ Len(wItems) = 1
        BY <1>3 DEF PushCommit, IInv, WriterSeesStoredSize, TypeOK
    <2>2. leafKV' = Merge(leafKV, LeafWrites(Len0(meta), wItems))
        BY <1>3, <2>1 DEF PushCommit
    <2>3. Len0(meta') = Len0(meta) + Len(wItems)
        BY <1>3, <2>1, Len0Nat DEF PushCommit, Len0, IInv
    <2>. QED
        BY <2>1, <2>2, <2>3, CommitExtendsLog
<1>4. CASE (BPCommit \/ PushCommit) /\ mode = "ro"
    BY <1>4, LogUnchanged DEF BPCommit, PushCommit
<1>5. CASE \/ OpenRO \/ Crash \/ BPPrefetch \/ WriterFail
           \/ \E items \in Batches, extras \in SUBSET ExtraKeys : BPBegin(items, extras)
           \/ \E v \in Vals : PushBegin(v)
           \/ \E r \in Readers : RootBegin(r) \/ RootRead(r) \/ ReaderFail(r)
           \/ UNCHANGED vars
    BY <1>5, LogUnchanged DEF OpenRO, Crash, BPPrefetch, WriterFail, BPBegin,
                              PushBegin, RootBegin, RootRead, ReaderFail, vars
<1>. QED
    BY <1>1, <1>2, <1>3, <1>4, <1>5 DEF Next, TaskStep, WriterStep, BatchAppendStep

(***************************************************************************)
(* The stored leaves behave as an append-only log (spec invariant 1 and  *)
(* section 3), across failures, crashes and reopening with new() or      *)
(* from_reader(); the run MCSlateDbTree checks RefinesAppendOnlyLog on a *)
(* small instance.                                                        *)
(***************************************************************************)
THEOREM Refinement == Spec => RefinesAppendOnlyLog
<1>1. Spec => []IInv
    BY IInvInit, IInvStep, PTL DEF Spec
<1>. QED
    BY <1>1, RefInit, RefStep, PTL DEF Spec, RefinesAppendOnlyLog, Log!Spec
=============================================================================
