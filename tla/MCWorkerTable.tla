--------------------------- MODULE MCWorkerTable ---------------------------
(* A small cluster for TLC: p1 and p2 present the same worker_id, p3 has   *)
(* one of its own, and p4, which does not hold the token, presents p3's.   *)
EXTENDS WorkerTable, TLC

CONSTANTS p1, p2, p3, p4, a, b

MCId == (p1 :> a) @@ (p2 :> a) @@ (p3 :> b) @@ (p4 :> b)
=============================================================================
