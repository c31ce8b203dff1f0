SPECIFICATION Spec
CONSTANTS
    p0 = p0
    p1 = p1
    p2 = p2
    Procs <- MCProcs
    Top = p0
    Barrier = Barrier
    Worlds <- MCWorlds
INVARIANTS TypeOK NaturalEndIsAudited NeverUncontained
PROPERTIES ImplementsPhase ForceSettles ExitSettles
CHECK_DEADLOCK FALSE
