SPECIFICATION Spec
CONSTANTS
    Writers = {w1, w2}
    Outputs = {o1, o2}
    Chunks = 2
    MayOutliveTtl = FALSE
SYMMETRY WriterSymmetry
CHECK_DEADLOCK FALSE
INVARIANTS TypeOK WholeOutputs NoMixedOutputs LastAcknowledgedWins NothingStagedAfterDiscard TempsAreOwned
