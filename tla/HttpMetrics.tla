----------------------------- MODULE HttpMetrics -----------------------------
(***************************************************************************)
(* The HTTP front of compact_log (src/src/api/mod.rs): ApiState::new, the *)
(* router and the metrics_middleware layered over every route.  Requests  *)
(* are served concurrently; each runs the middleware up to the await on   *)
(* next.run(req), the handler, then the rest of the middleware.  The      *)
(* server drops a request's future when its client goes away, so a        *)
(* request may stop at that await and never run the code after it.       *)
(* The handlers behind the CT routes are outside src/; only the status    *)
(* they answer with matters to the metrics.                               *)
(***************************************************************************)
EXTENDS Integers, FiniteSets

CONSTANTS
    Requests,     \* request ids; each id is one request
    CtPaths,      \* the routes under /ct/v1/
    HealthPath,   \* /health
    MetricsPath,  \* /metrics
    InclusionPath,\* /inclusion_request.json
    AddChainPaths,\* the POST routes: add-chain, add-pre-chain
    Methods,      \* request methods, "GET" and "POST" among them
    Statuses      \* statuses a CT handler or an error path may answer with

ASSUME HttpAssumption ==
    /\ IsFiniteSet(Requests)
    /\ AddChainPaths \subseteq CtPaths
    /\ {HealthPath, MetricsPath, InclusionPath} \cap CtPaths = {}
    /\ {"GET", "POST"} \subseteq Methods
    /\ {200, 405, 500} \subseteq Statuses

Paths == CtPaths \cup {HealthPath, MetricsPath, InclusionPath}
Labels == Paths \X Methods \X Statuses

VARIABLES
    api,      \* "init", "serving" or "failed" (ApiState::new returned Err)
    qpc,      \* request: "idle", "running", "responded" or "dropped"
    qPath,    \* its path
    qMethod,  \* its method
    qStatus,  \* the status it was answered with
    active,   \* ACTIVE_CONNECTIONS
    observed, \* HTTP_REQUEST_DURATION_SECONDS: observations per (path, method)
    total     \* HTTP_REQUESTS_TOTAL per (path, method, status)

vars == <<api, qpc, qPath, qMethod, qStatus, active, observed, total>>

(***************************************************************************)
(* ApiState::new builds the SCT and STH signers from the private key; a   *)
(* key neither parser accepts makes it return the error and no router is *)
(* built.  keyOk is whether the key parses.                              *)
(***************************************************************************)
NewApiState(keyOk) ==
    /\ api = "init"
    /\ api' = IF keyOk THEN "serving" ELSE "failed"
    /\ UNCHANGED <<qpc, qPath, qMethod, qStatus, active, observed, total>>

\* The method each route of create_router is registered for.
RouteMethod(path) == IF path \in AddChainPaths THEN "POST" ELSE "GET"

(***************************************************************************)
(* The statuses a request can be answered with: the method router answers *)
(* 405 to a method the route is not registered for; /health always 200;  *)
(* metrics_handler 200, or 500 when encoding or UTF-8 conversion fails;  *)
(* the other handlers any status.                                        *)
(***************************************************************************)
HandlerStatuses(path, method) ==
    IF method # RouteMethod(path) THEN {405}
    ELSE IF path = HealthPath THEN {200}
    ELSE IF path = MetricsPath THEN {200, 500}
    ELSE Statuses

\* Fault: the ACTIVE_CONNECTIONS.inc() before the await is missing.
MiddlewareEnterNoInc(q, path, method) ==
    /\ api = "serving"
    /\ qpc[q] = "idle"
    /\ qpc' = [qpc EXCEPT ![q] = "running"]
    /\ qPath' = [qPath EXCEPT ![q] = path]
    /\ qMethod' = [qMethod EXCEPT ![q] = method]
    /\ UNCHANGED <<api, qStatus, active, observed, total>>

\* metrics_middleware up to next.run(req).await: ACTIVE_CONNECTIONS.inc().
MiddlewareEnter(q, path, method) ==
    /\ api = "serving"
    /\ qpc[q] = "idle"
    /\ qpc' = [qpc EXCEPT ![q] = "running"]
    /\ qPath' = [qPath EXCEPT ![q] = path]
    /\ qMethod' = [qMethod EXCEPT ![q] = method]
    /\ active' = active + 1
    /\ UNCHANGED <<api, qStatus, observed, total>>

\* Fault: the path filter is dropped, /health and /metrics are counted too.
MiddlewareExitUnfiltered(q, status) ==
    LET l == <<qPath[q], qMethod[q], status>> IN
    /\ qpc[q] = "running"
    /\ status \in HandlerStatuses(qPath[q], qMethod[q])
    /\ qpc' = [qpc EXCEPT ![q] = "responded"]
    /\ qStatus' = [qStatus EXCEPT ![q] = status]
    /\ observed' = [observed EXCEPT ![<<qPath[q], qMethod[q]>>] = @ + 1]
    /\ total' = [total EXCEPT ![l] = @ + 1]
    /\ active' = active - 1
    /\ UNCHANGED <<api, qPath, qMethod>>

(***************************************************************************)
(* The handler answers and the middleware resumes: a path starting with   *)
(* /ct/v1/ gets a duration observation and a request count under its     *)
(* status, then ACTIVE_CONNECTIONS.dec().                                 *)
(***************************************************************************)
MiddlewareExit(q, status) ==
    LET l == <<qPath[q], qMethod[q], status>> IN
    /\ qpc[q] = "running"
    /\ status \in HandlerStatuses(qPath[q], qMethod[q])
    /\ qpc' = [qpc EXCEPT ![q] = "responded"]
    /\ qStatus' = [qStatus EXCEPT ![q] = status]
    /\ IF qPath[q] \in CtPaths
       THEN /\ observed' = [observed EXCEPT ![<<qPath[q], qMethod[q]>>] = @ + 1]
            /\ total' = [total EXCEPT ![l] = @ + 1]
       ELSE UNCHANGED <<observed, total>>
    /\ active' = active - 1
    /\ UNCHANGED <<api, qPath, qMethod>>

\* The client goes away while the handler runs: the future is dropped at
\* the await and nothing after it runs.
RequestDropped(q) ==
    /\ qpc[q] = "running"
    /\ qpc' = [qpc EXCEPT ![q] = "dropped"]
    /\ UNCHANGED <<api, qPath, qMethod, qStatus, active, observed, total>>

Init ==
    /\ api = "init"
    /\ qpc = [q \in Requests |-> "idle"]
    /\ qPath = [q \in Requests |-> HealthPath]
    /\ qMethod = [q \in Requests |-> "GET"]
    /\ qStatus = [q \in Requests |-> 200]
    /\ active = 0
    /\ observed = [pm \in Paths \X Methods |-> 0]
    /\ total = [l \in Labels |-> 0]

Next ==
    \/ \E keyOk \in BOOLEAN : NewApiState(keyOk)
    \/ \E q \in Requests :
          \/ \E path \in Paths, method \in Methods : MiddlewareEnter(q, path, method)
          \/ \E status \in Statuses : MiddlewareExit(q, status)
          \/ RequestDropped(q)

Spec == Init /\ [][Next]_vars

-----------------------------------------------------------------------------
Running == {q \in Requests : qpc[q] = "running"}
Entered == {q \in Requests : qpc[q] \in {"running", "dropped"}}

\* The requests answered under a label.
AnsweredWith(l) ==
    {q \in Requests : qpc[q] = "responded" /\ <<qPath[q], qMethod[q], qStatus[q]>> = l}

\* The requests answered on a route with a method, whatever the status.
AnsweredOn(p, m) ==
    {q \in Requests : qpc[q] = "responded" /\ qPath[q] = p /\ qMethod[q] = m}

TypeOK ==
    /\ api \in {"init", "serving", "failed"}
    /\ qpc \in [Requests -> {"idle", "running", "responded", "dropped"}]
    /\ qPath \in [Requests -> Paths]
    /\ qMethod \in [Requests -> Methods]
    /\ qStatus \in [Requests -> Statuses]
    /\ active \in Nat
    /\ observed \in [Paths \X Methods -> Nat]
    /\ total \in [Labels -> Nat]

(***************************************************************************)
(* ACTIVE_CONNECTIONS, incremented before next.run(req).await and         *)
(* decremented after it, is never below the number of requests whose      *)
(* handler is running, whatever order concurrent requests enter, answer   *)
(* and are dropped in.                                                    *)
(***************************************************************************)
GaugeCoversRunning == active >= Cardinality(Running)

(***************************************************************************)
(* ACTIVE_CONNECTIONS is the number of requests in flight: a request that *)
(* incremented it has decremented it once its handler no longer runs,    *)
(* also when its future is cancelled at the await (spec section 5).       *)
(***************************************************************************)
GaugeCountsRunning == active = Cardinality(Running)

(***************************************************************************)
(* HTTP_REQUESTS_TOTAL counts, for each CT route, method and status, the  *)
(* requests answered so (dropped ones are not, /health, /metrics and      *)
(* /inclusion_request.json never), and the duration histogram holds one  *)
(* observation per counted request.                                       *)
(***************************************************************************)
CountersMatchResponses ==
    /\ \A l \in Labels :
          total[l] = IF l[1] \in CtPaths THEN Cardinality(AnsweredWith(l)) ELSE 0
    /\ \A p \in Paths, m \in Methods :
          observed[<<p, m>>] = IF p \in CtPaths THEN Cardinality(AnsweredOn(p, m)) ELSE 0
=============================================================================
