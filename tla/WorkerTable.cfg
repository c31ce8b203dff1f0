SPECIFICATION FairSpec
CONSTANTS
    p1 = p1
    p2 = p2
    p3 = p3
    p4 = p4
    a = a
    b = b
    Procs = {p1, p2, p3, p4}
    Ids = {a, b}
    Id <- MCId
    Trusted = {p1, p2, p3}
    DeadTimeout = 1
    REAP_FACTOR = 2
    Keepalive = 1
    NoEntry = NoEntry
    MaxFaults = 1
INVARIANTS TableInv AgesOut
PROPERTIES OwnersKept Rejoins
