---------------------------- MODULE MCActionTracker ----------------------------
(* Small instance of ActionTracker for TLC.                                *)
EXTENDS ActionTracker, TLC

CONSTANTS a1, a2, a3, a4, w1, w2

MCKeys == {a1, a2, a3, a4}
MCWorkers == {w1, w2}
TrackerSymmetry == Permutations(MCKeys) \cup Permutations(MCWorkers)

====
