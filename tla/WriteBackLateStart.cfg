SPECIFICATION Spec
CONSTANTS
    Writers = {w1, w2}
    Outputs = {o1}
    Chunks = 2
    MayOutliveTtl = FALSE
CHECK_DEADLOCK FALSE
INVARIANT NoTempLeftBehind
