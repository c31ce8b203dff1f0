SPECIFICATION MCSpec
CONSTANTS
    s1 = s1
    s2 = s2
    Tasks = {t1, t2}
    Sessions = {s1, s2}
    Paths = {p1}
    MaxEdits = 1
CHECK_DEADLOCK FALSE
INVARIANTS PinInv NoCleanupUnderGuard AnswersAgree
PROPERTIES PinsAreFrozen DaemonStops
