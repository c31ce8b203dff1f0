SPECIFICATION Spec
CONSTANTS
    Writers = {w1, w2}
    Outputs = {o1}
    Chunks = 2
    MayOutliveTtl = TRUE
CHECK_DEADLOCK FALSE
INVARIANT FinishedIsClosed
