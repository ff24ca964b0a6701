---------------------------- MODULE MCHttpMetrics ----------------------------
EXTENDS HttpMetrics, TLC

CONSTANTS q1, q2, q3, sth, addChain, health, metrics, inclusion

\* Three concurrent requests; one GET and one POST CT route.
MCRequests == {q1, q2, q3}
MCCtPaths == {sth, addChain}
MCAddChainPaths == {addChain}
MCMethods == {"GET", "POST"}
MCStatuses == {200, 400, 405, 500}

MCSymmetry == Permutations(MCRequests)
=============================================================================
