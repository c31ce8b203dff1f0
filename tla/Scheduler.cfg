SPECIFICATION MCSpec
CONSTANTS
    Actions <- MCActions
    Batch <- MCBatch
    RouteAway <- MCRouteAway
    Workers <- MCWorkers
    Score <- MCScore
    U64_MAX = 2
    Adverts <- MCAdverts
    AGENT_VERSION = "v1"
    MAX_TRUSTED_CPU = 2
    LocalFloor = 1
    NoCpuSignal = NoCpuSignal
    NoWorker = NoWorker
    NotLive = NotLive
    Local = Local
    MaxChanges = 1
INVARIANTS SchedInv BurstSpreads
PROPERTIES Completes
CHECK_DEADLOCK FALSE
