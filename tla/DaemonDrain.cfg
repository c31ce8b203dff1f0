SPECIFICATION MCSpec
CONSTANTS
    s1 = s1
    s2 = s2
    r1 = r1
    Subs <- MCSubs
    Requests <- MCRequests
INVARIANTS DrainInv QuietAfterDrain RetryIsSafe
PROPERTIES PhasesFollow ShutdownCompletes
CHECK_DEADLOCK FALSE
