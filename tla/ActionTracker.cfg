SPECIFICATION Spec
CONSTANTS
    a1 = a1  a2 = a2  a3 = a3  a4 = a4
    w1 = w1  w2 = w2
    Keys <- MCKeys
    Workers <- MCWorkers
    NoWorker = NoWorker
    MaxAttempts = 3
SYMMETRY TrackerSymmetry
CHECK_DEADLOCK FALSE
INVARIANTS TrackerInv LanesDistinct LanesBounded TableBounded
PROPERTY MovesForward
