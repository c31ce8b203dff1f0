---------------------------- MODULE MCScheduler ----------------------------
(***************************************************************************)
(* A small instance of Scheduler: two workers of different appeal to each  *)
(* action, and adverts for one and two processors, a busy host, an opted   *)
(* out worker and another version.  Worker 2, which every action prefers,  *)
(* starts out admissible, with a good endpoint or a malformed one.  Of the *)
(* two inadmissible adverts, which no dispatch tells apart, worker 1 is    *)
(* given the one and worker 2 the other.                                   *)
(***************************************************************************)
EXTENDS Scheduler

MCAdvert(version, mode, cpus, pct) ==
    [worker_version |-> version, participation_mode |-> mode,
     cpu_count |-> cpus, idle_cpu_pct |-> pct]

MCAdverts ==
    {MCAdvert("v1", "on", 1, NoCpuSignal),
     MCAdvert("v1", "on", 9, 150),
     MCAdvert("v1", "on", 0, 40),
     MCAdvert("v1", "off", 2, NoCpuSignal),
     MCAdvert("v0", "on", 2, NoCpuSignal)}

MCActions == {"b1", "b2", "s1"}
MCBatch == {"b1", "b2"}
MCRouteAway == {"b2"}
MCWorkers == {1, 2}
MCScore == [a \in MCActions |-> [w \in MCWorkers |-> w]]

Advertises(w, e) ==
    e = NotLive \/ (IF w = 1 THEN e.worker_version = "v1"
                            ELSE e.participation_mode = "on")

MCInit ==
    /\ Init
    /\ table[1] # NotLive /\ Advertises(1, table[1])
    /\ table[2] \in {e \in Adverts : e.worker_version = "v1" /\ e.participation_mode = "on"}
    /\ malformed = {} \/ (malformed = {2} /\ table[1].cpu_count = 1)
MCSpec ==
    /\ MCInit
    /\ [][Next /\ \A w \in Workers : Advertises(w, table'[w])]_vars
    /\ Fairness
=============================================================================
