------------------------- MODULE HttpMetricsTheorems -------------------------
(***************************************************************************)
(* Proofs about HttpMetrics for every set of requests, routes, methods    *)
(* and statuses.  The gauge and the counters are sums over the requests   *)
(* in some state, so the inductive invariant states each as the           *)
(* cardinality of the set of requests it counts: ACTIVE_CONNECTIONS is    *)
(* the number that entered the middleware and did not leave it (running  *)
(* or dropped), each counter the number answered under its labels.        *)
(***************************************************************************)
EXTENDS HttpMetrics, FiniteSetTheorems, TLAPS

IInv ==
    /\ TypeOK
    /\ active = Cardinality(Entered)
    /\ CountersMatchResponses

\* Every set of requests is finite.
LEMMA RequestSetFinite ==
    ASSUME NEW S \in SUBSET Requests
    PROVE  IsFiniteSet(S) /\ Cardinality(S) \in Nat
BY HttpAssumption, FS_Subset, FS_CardinalityType

\* Adding a request not yet counted adds one.
LEMMA CountOneMore ==
    ASSUME NEW S \in SUBSET Requests, NEW q \in Requests, q \notin S
    PROVE  Cardinality(S \cup {q}) = Cardinality(S) + 1
BY RequestSetFinite, FS_AddElement

\* Removing a counted request removes one.
LEMMA CountOneLess ==
    ASSUME NEW S \in SUBSET Requests, NEW q \in S
    PROVE  Cardinality(S \ {q}) = Cardinality(S) - 1
BY RequestSetFinite, FS_RemoveElement

LEMMA InitIInv == Init => IInv
<1> SUFFICES ASSUME Init PROVE IInv
    OBVIOUS
<1>1. /\ Entered = {}
      /\ \A l \in Labels : AnsweredWith(l) = {}
      /\ \A p \in Paths, m \in Methods : AnsweredOn(p, m) = {}
    BY DEF Init, Entered, AnsweredWith, AnsweredOn
<1>2. TypeOK
    BY HttpAssumption DEF Init, TypeOK, Paths, Labels
<1>3. Cardinality({}) = 0
    BY FS_EmptySet
<1>4. \A l \in Labels :
          total[l] = IF l[1] \in CtPaths THEN Cardinality(AnsweredWith(l)) ELSE 0
    BY <1>1, <1>3 DEF Init
<1>5. \A p \in Paths, m \in Methods :
          observed[<<p, m>>] = IF p \in CtPaths THEN Cardinality(AnsweredOn(p, m)) ELSE 0
    BY <1>1, <1>3 DEF Init
<1> QED
    BY <1>1, <1>2, <1>3, <1>4, <1>5 DEF Init, IInv, CountersMatchResponses

(***************************************************************************)
(* A step that moves no request into or out of a counted set, and leaves  *)
(* the gauge and the counters alone, keeps the invariant.                 *)
(***************************************************************************)
LEMMA FrameIInv ==
    ASSUME IInv, TypeOK',
           active' = active, observed' = observed, total' = total,
           Entered' = Entered,
           \A l \in Labels : AnsweredWith(l)' = AnsweredWith(l),
           \A p \in Paths, m \in Methods : AnsweredOn(p, m)' = AnsweredOn(p, m)
    PROVE  IInv'
<1>1. active' = Cardinality(Entered')
    BY DEF IInv
<1>2. \A l \in Labels :
          total'[l] = IF l[1] \in CtPaths THEN Cardinality(AnsweredWith(l)') ELSE 0
    BY DEF IInv, CountersMatchResponses
<1>3. \A p \in Paths, m \in Methods :
          observed'[<<p, m>>] = IF p \in CtPaths THEN Cardinality(AnsweredOn(p, m)') ELSE 0
    BY DEF IInv, CountersMatchResponses
<1> QED
    BY <1>1, <1>2, <1>3 DEF IInv, CountersMatchResponses

(***************************************************************************)
(* A request entering the middleware joins Entered and no answered set.   *)
(***************************************************************************)
LEMMA EnterIInv ==
    ASSUME IInv, NEW q \in Requests, NEW path \in Paths, NEW method \in Methods,
           MiddlewareEnter(q, path, method)
    PROVE  IInv'
<1>0. TypeOK
    BY DEF IInv
<1>1. TypeOK'
    BY <1>0 DEF MiddlewareEnter, TypeOK
<1>2. Entered' = Entered \cup {q} /\ q \notin Entered /\ Entered \in SUBSET Requests
    BY <1>0 DEF MiddlewareEnter, TypeOK, Entered
<1>3. active' = Cardinality(Entered')
    BY <1>2, CountOneMore DEF IInv, MiddlewareEnter
<1>4. /\ \A l \in Labels : AnsweredWith(l)' = AnsweredWith(l)
      /\ \A p \in Paths, m \in Methods : AnsweredOn(p, m)' = AnsweredOn(p, m)
    BY <1>0 DEF MiddlewareEnter, TypeOK, AnsweredWith, AnsweredOn
<1>5. CountersMatchResponses'
    BY <1>4 DEF IInv, MiddlewareEnter, CountersMatchResponses
<1> QED
    BY <1>1, <1>3, <1>5 DEF IInv

(***************************************************************************)
(* A request answered leaves Entered and, on a CT route, joins exactly    *)
(* the answered sets of its labels.                                       *)
(***************************************************************************)
LEMMA ExitIInv ==
    ASSUME IInv, NEW q \in Requests, NEW status \in Statuses,
           MiddlewareExit(q, status)
    PROVE  IInv'
<1> DEFINE lq == <<qPath[q], qMethod[q], status>>
           pm == <<qPath[q], qMethod[q]>>
<1>0. TypeOK /\ qpc[q] = "running"
    BY DEF IInv, MiddlewareExit
<1>1. q \in Entered /\ Entered' = Entered \ {q} /\ Entered \in SUBSET Requests
    BY <1>0 DEF MiddlewareExit, TypeOK, Entered
<1>2. active' = Cardinality(Entered')
    BY <1>1, CountOneLess DEF IInv, MiddlewareExit
<1>3. active' \in Nat
    BY <1>1, <1>2, RequestSetFinite
<1>4. lq \in Labels /\ pm \in Paths \X Methods
    BY <1>0 DEF TypeOK, Labels
<1>5. \A l \in Labels :
          AnsweredWith(l)' = IF l = lq THEN AnsweredWith(l) \cup {q} ELSE AnsweredWith(l)
    BY <1>0 DEF MiddlewareExit, TypeOK, AnsweredWith
<1>6. \A p \in Paths, m \in Methods :
          AnsweredOn(p, m)' = IF <<p, m>> = pm THEN AnsweredOn(p, m) \cup {q} ELSE AnsweredOn(p, m)
    BY <1>0 DEF MiddlewareExit, TypeOK, AnsweredOn
<1>7. /\ q \notin AnsweredWith(lq) /\ AnsweredWith(lq) \in SUBSET Requests
      /\ q \notin AnsweredOn(qPath[q], qMethod[q])
      /\ AnsweredOn(qPath[q], qMethod[q]) \in SUBSET Requests
    BY <1>0 DEF AnsweredWith, AnsweredOn
<1>8. CASE qPath[q] \in CtPaths
  <2>1. total' = [total EXCEPT ![lq] = @ + 1]
        /\ observed' = [observed EXCEPT ![pm] = @ + 1]
    BY <1>8 DEF MiddlewareExit
  <2>2. TypeOK'
    BY <1>0, <1>3, <1>4, <2>1 DEF MiddlewareExit, TypeOK, Labels
  <2>3. \A l \in Labels :
           total'[l] = IF l[1] \in CtPaths THEN Cardinality(AnsweredWith(l)') ELSE 0
    <3> SUFFICES ASSUME NEW l \in Labels
                 PROVE  total'[l] = IF l[1] \in CtPaths THEN Cardinality(AnsweredWith(l)') ELSE 0
        OBVIOUS
    <3>1. CASE l = lq
      <4>1. total'[l] = total[l] + 1
          BY <3>1, <2>1, <1>0, <1>4 DEF TypeOK
      <4>2. total[l] = Cardinality(AnsweredWith(l))
          BY <3>1, <1>8 DEF IInv, CountersMatchResponses
      <4>3. Cardinality(AnsweredWith(l)') = Cardinality(AnsweredWith(l)) + 1
          BY <3>1, <1>5, <1>7, CountOneMore
      <4> QED
          BY <3>1, <1>8, <4>1, <4>2, <4>3
    <3>2. CASE l # lq
      <4>1. total'[l] = total[l] /\ AnsweredWith(l)' = AnsweredWith(l)
          BY <3>2, <2>1, <1>5, <1>0 DEF TypeOK
      <4> QED
          BY <4>1 DEF IInv, CountersMatchResponses
    <3> QED
        BY <3>1, <3>2
  <2>4. \A p \in Paths, m \in Methods :
           observed'[<<p, m>>] = IF p \in CtPaths THEN Cardinality(AnsweredOn(p, m)') ELSE 0
    <3> SUFFICES ASSUME NEW p \in Paths, NEW m \in Methods
                 PROVE  observed'[<<p, m>>] = IF p \in CtPaths THEN Cardinality(AnsweredOn(p, m)') ELSE 0
        OBVIOUS
    <3>1. CASE <<p, m>> = pm
      <4>1. p = qPath[q] /\ m = qMethod[q]
          BY <3>1
      <4>2. observed'[<<p, m>>] = observed[<<p, m>>] + 1
          BY <3>1, <2>1, <1>0, <1>4 DEF TypeOK
      <4>3. observed[<<p, m>>] = Cardinality(AnsweredOn(p, m))
          BY <4>1, <1>8 DEF IInv, CountersMatchResponses
      <4>4. Cardinality(AnsweredOn(p, m)') = Cardinality(AnsweredOn(p, m)) + 1
          BY <3>1, <4>1, <1>6, <1>7, CountOneMore
      <4> QED
          BY <4>1, <1>8, <4>2, <4>3, <4>4
    <3>2. CASE <<p, m>> # pm
      <4>1. observed'[<<p, m>>] = observed[<<p, m>>] /\ AnsweredOn(p, m)' = AnsweredOn(p, m)
          BY <3>2, <2>1, <1>6, <1>0 DEF TypeOK
      <4> QED
          BY <4>1 DEF IInv, CountersMatchResponses
    <3> QED
        BY <3>1, <3>2
  <2> QED
    BY <1>2, <2>2, <2>3, <2>4 DEF IInv, CountersMatchResponses
<1>9. CASE qPath[q] \notin CtPaths
  <2>1. total' = total /\ observed' = observed
    BY <1>9 DEF MiddlewareExit
  <2>2. TypeOK'
    BY <1>0, <1>3, <2>1 DEF MiddlewareExit, TypeOK
  <2>3. \A l \in Labels :
           total'[l] = IF l[1] \in CtPaths THEN Cardinality(AnsweredWith(l)') ELSE 0
    <3> SUFFICES ASSUME NEW l \in Labels
                 PROVE  total'[l] = IF l[1] \in CtPaths THEN Cardinality(AnsweredWith(l)') ELSE 0
        OBVIOUS
    <3>1. l = lq => l[1] \notin CtPaths
        BY <1>9
    <3> QED
        BY <3>1, <2>1, <1>5 DEF IInv, CountersMatchResponses
  <2>4. \A p \in Paths, m \in Methods :
           observed'[<<p, m>>] = IF p \in CtPaths THEN Cardinality(AnsweredOn(p, m)') ELSE 0
    <3> SUFFICES ASSUME NEW p \in Paths, NEW m \in Methods
                 PROVE  observed'[<<p, m>>] = IF p \in CtPaths THEN Cardinality(AnsweredOn(p, m)') ELSE 0
        OBVIOUS
    <3>1. <<p, m>> = pm => p \notin CtPaths
        BY <1>9
    <3> QED
        BY <3>1, <2>1, <1>6 DEF IInv, CountersMatchResponses
  <2> QED
    BY <1>2, <2>2, <2>3, <2>4 DEF IInv, CountersMatchResponses
<1> QED
    BY <1>8, <1>9

\* A dropped request stays in Entered and is answered under no label.
LEMMA DroppedIInv ==
    ASSUME IInv, NEW q \in Requests, RequestDropped(q)
    PROVE  IInv'
<1>0. TypeOK /\ qpc[q] = "running"
    BY DEF IInv, RequestDropped
<1>1. TypeOK'
    BY <1>0 DEF RequestDropped, TypeOK
<1>2. Entered' = Entered
    BY <1>0 DEF RequestDropped, TypeOK, Entered
<1>3. /\ \A l \in Labels : AnsweredWith(l)' = AnsweredWith(l)
      /\ \A p \in Paths, m \in Methods : AnsweredOn(p, m)' = AnsweredOn(p, m)
    BY <1>0 DEF RequestDropped, TypeOK, AnsweredWith, AnsweredOn
<1> QED
    BY <1>1, <1>2, <1>3, FrameIInv DEF RequestDropped

\* ApiState::new only decides whether requests are served.
LEMMA NewApiStateIInv ==
    ASSUME IInv, NEW keyOk \in BOOLEAN, NewApiState(keyOk)
    PROVE  IInv'
<1>1. TypeOK'
    BY DEF IInv, NewApiState, TypeOK
<1>2. Entered' = Entered
    BY DEF NewApiState, Entered
<1>3. /\ \A l \in Labels : AnsweredWith(l)' = AnsweredWith(l)
      /\ \A p \in Paths, m \in Methods : AnsweredOn(p, m)' = AnsweredOn(p, m)
    BY DEF NewApiState, AnsweredWith, AnsweredOn
<1> QED
    BY <1>1, <1>2, <1>3, FrameIInv DEF NewApiState

LEMMA StepIInv == IInv /\ [Next]_vars => IInv'
<1> SUFFICES ASSUME IInv, [Next]_vars PROVE IInv'
    OBVIOUS
<1>1. CASE \E keyOk \in BOOLEAN : NewApiState(keyOk)
    BY <1>1, NewApiStateIInv
<1>2. CASE \E q \in Requests, path \in Paths, method \in Methods :
               MiddlewareEnter(q, path, method)
    BY <1>2, EnterIInv
<1>3. CASE \E q \in Requests, status \in Statuses : MiddlewareExit(q, status)
    BY <1>3, ExitIInv
<1>4. CASE \E q \in Requests : RequestDropped(q)
    BY <1>4, DroppedIInv
<1>5. CASE UNCHANGED vars
  <2>1. TypeOK'
    BY <1>5 DEF vars, IInv, TypeOK
  <2>2. Entered' = Entered
    BY <1>5 DEF vars, Entered
  <2>3. /\ \A l \in Labels : AnsweredWith(l)' = AnsweredWith(l)
        /\ \A p \in Paths, m \in Methods : AnsweredOn(p, m)' = AnsweredOn(p, m)
    BY <1>5 DEF vars, AnsweredWith, AnsweredOn
  <2> QED
    BY <1>5, <2>1, <2>2, <2>3, FrameIInv DEF vars
<1> QED
    BY <1>1, <1>2, <1>3, <1>4, <1>5 DEF Next

LEMMA IInvHolds == Spec => []IInv
BY InitIInv, StepIInv, PTL DEF Spec

(***************************************************************************)
(* The types hold in every reachable state; in particular the             *)
(* ACTIVE_CONNECTIONS gauge never goes below zero.                        *)
(***************************************************************************)
THEOREM HttpTypeCorrect == Spec => []TypeOK
BY IInvHolds, PTL DEF IInv

(***************************************************************************)
(* ACTIVE_CONNECTIONS never under-counts the requests whose handler runs, *)
(* for any number of concurrent requests.                                 *)
(***************************************************************************)
THEOREM GaugeCoversRunningHolds == Spec => []GaugeCoversRunning
<1>1. IInv => GaugeCoversRunning
  <2> SUFFICES ASSUME IInv PROVE GaugeCoversRunning
      OBVIOUS
  <2>1. Running \subseteq Entered /\ Entered \in SUBSET Requests
      BY DEF Running, Entered
  <2> QED
      BY <2>1, RequestSetFinite, FS_Subset DEF IInv, GaugeCoversRunning
<1> QED
    BY <1>1, IInvHolds, PTL

(***************************************************************************)
(* HTTP_REQUESTS_TOTAL and the duration histogram count exactly the CT    *)
(* requests answered, under their path, method and status.                *)
(***************************************************************************)
THEOREM CountersMatchResponsesHolds == Spec => []CountersMatchResponses
BY IInvHolds, PTL DEF IInv
=============================================================================
