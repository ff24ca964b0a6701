CONSTANTS
    q1 = q1
    q2 = q2
    q3 = q3
    sth = sth
    addChain = addChain
    health = health
    metrics = metrics
    inclusion = inclusion
    Requests <- MCRequests
    CtPaths <- MCCtPaths
    HealthPath = health
    MetricsPath = metrics
    InclusionPath = inclusion
    AddChainPaths <- MCAddChainPaths
    Methods <- MCMethods
    Statuses <- MCStatuses

SPECIFICATION Spec
CHECK_DEADLOCK FALSE
SYMMETRY MCSymmetry

INVARIANTS
    GaugeCountsRunning

