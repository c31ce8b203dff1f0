----------------------------- MODULE Scheduler -----------------------------
(***************************************************************************)
(* The agent's scheduler (agent/src/scheduler.rs): each action is          *)
(* dispatched to one worker after the other, each tried at most once, and  *)
(* run locally when none is left.  Dispatches run concurrently; a build    *)
(* (run_build) throttles its own behind a semaphore, submissions of the    *)
(* intake come as they please and may be aborted.  The worker table is the *)
(* environment here (WorkerTable models it): its live entries change at    *)
(* any time, also between a dispatcher's snapshot and its reservation.     *)
(* Workers are numbered in the order of their ids.                         *)
(***************************************************************************)
EXTENDS Integers, FiniteSets

CONSTANTS
    Actions,
    Batch,            \* the actions of a run_build; the others are submitted
    RouteAway,        \* actions that route_away_reason keeps local
    Workers,
    Score,            \* the rendezvous score of an action and a worker
    U64_MAX,
    Adverts,          \* what a live worker may advertise
    AGENT_VERSION,
    MAX_TRUSTED_CPU,
    LocalFloor,       \* available_parallelism() of the agent's host
    NoCpuSignal,      \* idle_cpu_pct = None
    NoWorker,
    NotLive,
    Local,            \* the "worker" of a local attempt
    MaxChanges        \* bound: changes of the worker table

ASSUME Scores ==
    /\ U64_MAX \in Nat
    /\ Score \in [Actions -> [Workers -> 0..U64_MAX]]
    /\ \A a \in Actions : \A v, w \in Workers :
           Score[a][v] = Score[a][w] => v = w
ASSUME WorkerNumbers ==
    Workers \subseteq Nat /\ Workers # {} /\ IsFiniteSet(Workers)
ASSUME ActionSets ==
    Batch \subseteq Actions /\ RouteAway \subseteq Actions /\ IsFiniteSet(Actions)
ASSUME Advertised ==
    Adverts \subseteq [worker_version : STRING, participation_mode : STRING,
                       cpu_count : Nat, idle_cpu_pct : Nat \cup {NoCpuSignal}]
ASSUME NoneValues ==
    /\ NotLive \notin Adverts /\ NoWorker \notin Workers /\ Local \notin Workers
    /\ NoCpuSignal \notin Nat
ASSUME Limits ==
    MAX_TRUSTED_CPU \in Nat \ {0} /\ LocalFloor \in Nat \ {0} /\ MaxChanges \in Nat

VARIABLES
    table,      \* the live entries of the worker table
    malformed,  \* workers whose execution endpoint is not a valid URI
    changes,
    in_flight,  \* the agent's count of assignments per worker
    channels,   \* workers whose channel is cached
    build,      \* "waiting" or "started": run_build
    cap,        \* the size of its semaphore
    permits,    \* its free permits
    pc,         \* where each dispatch is
    live,       \* its filtered snapshot: effective capacity, 0 = filtered out
    tried,
    on,         \* the worker its guard is for
    attempt_no,
    reason,     \* why it fell back, and at the end what became of it
    attempts    \* every <<action, attempt_no, worker>> the tracker was told of

world == <<table, malformed, changes>>
vars == <<world, in_flight, channels, build, cap, permits, pc, live, tried,
          on, attempt_no, reason, attempts>>

Holding == {"reserved", "executing"}
Ended == {"done", "aborted"}
Steps == {"idle", "choosing", "picking", "local", "publish", "republish"}
             \cup Holding \cup Ended
Reasons == {"NoWorker", "RemoteExhausted", "RouteAway", "Remote"}

(***************************************************************************)
(* What a worker's entry is worth.                                         *)
(***************************************************************************)
AtMost(n, limit) == IF n < limit THEN n ELSE limit
AtLeast(n, floor) == IF n > floor THEN n ELSE floor

version_matched(e) == e.worker_version = AGENT_VERSION
mode_participating(e) == e.participation_mode # "off"
admissible(e) == version_matched(e) /\ mode_participating(e)
trusted_cpus(e) == AtLeast(AtMost(e.cpu_count, MAX_TRUSTED_CPU), 1)

effective_capacity(e) ==
    IF e.idle_cpu_pct = NoCpuSignal
    THEN trusted_cpus(e)
    ELSE (trusted_cpus(e) * AtMost(e.idle_cpu_pct, 100)) \div 100

\* The capacity a dispatcher may use of a worker; 0 keeps it from being tried.
Willing(w) ==
    IF table[w] # NotLive /\ admissible(table[w])
    THEN effective_capacity(table[w])
    ELSE 0

\* cluster_capacity: the admissible workers' processors, busy or not.
ClusterSlots ==
    {s \in Workers \X (1..MAX_TRUSTED_CPU) :
        /\ table[s[1]] # NotLive
        /\ admissible(table[s[1]])
        /\ s[2] <= trusted_cpus(table[s[1]])}
cluster_capacity == Cardinality(ClusterSlots)

\* run_build: twice the cluster's capacity, and never below the local cores.
MutFanOut == cluster_capacity * 2
fan_out == AtLeast(cluster_capacity * 2, LocalFloor)

(***************************************************************************)
(* Choosing among the workers of a snapshot.                               *)
(***************************************************************************)
Candidates(a) == {w \in Workers : live[a][w] > 0}

MutIdle(a, w) == live[a][w]
effective_idle(a, w) ==
    IF in_flight[w] < live[a][w] THEN live[a][w] - in_flight[w] ELSE 0

preferred_index(a) ==
    CHOOSE w \in Candidates(a) :
        \A v \in Candidates(a) : Score[a][v] <= Score[a][w]

least_loaded(a) ==
    CHOOSE w \in Candidates(a) :
        \A v \in Candidates(a) :
            \/ effective_idle(a, v) < effective_idle(a, w)
            \/ effective_idle(a, v) = effective_idle(a, w) /\ w <= v

chosen(a) ==
    IF effective_idle(a, preferred_index(a)) > 0
    THEN preferred_index(a)
    ELSE least_loaded(a)

(***************************************************************************)
(* The initial state, and the worker table.                                *)
(***************************************************************************)
Init ==
    /\ table \in [Workers -> Adverts \cup {NotLive}]
    /\ malformed \in SUBSET Workers
    /\ changes = 0
    /\ in_flight = [w \in Workers |-> 0]
    /\ channels = {}
    /\ build = "waiting"
    /\ cap = 0
    /\ permits = 0
    /\ pc = [a \in Actions |-> "idle"]
    /\ live = [a \in Actions |-> [w \in Workers |-> 0]]
    /\ tried = [a \in Actions |-> {}]
    /\ on = [a \in Actions |-> NoWorker]
    /\ attempt_no = [a \in Actions |-> 0]
    /\ reason = [a \in Actions |-> "NoWorker"]
    /\ attempts = {}

\* A worker registers, ages out, or pings with another idle CPU share.
TableChanges(w, e) ==
    /\ changes < MaxChanges
    /\ table[w] # e
    /\ table' = [table EXCEPT ![w] = e]
    /\ changes' = changes + 1
    /\ UNCHANGED <<malformed, in_flight, channels, build, cap, permits, pc,
                   live, tried, on, attempt_no, reason, attempts>>

(***************************************************************************)
(* Starting: run_build's fan-out and the intake's submissions.             *)
(***************************************************************************)
prune_channels == {w \in channels : table[w] # NotLive}

\* run_build drops the channels of workers that are not live and sizes its
\* semaphore.
run_build ==
    /\ build = "waiting"
    /\ build' = "started"
    /\ channels' = prune_channels
    /\ cap' = fan_out
    /\ permits' = fan_out
    /\ UNCHANGED <<world, in_flight, pc, live, tried, on, attempt_no,
                   reason, attempts>>

\* The head of dispatch_observed_with_context.
Dispatch(a) ==
    /\ pc[a] = "idle"
    /\ IF a \in RouteAway
       THEN /\ pc' = [pc EXCEPT ![a] = "local"]
            /\ reason' = [reason EXCEPT ![a] = "RouteAway"]
            /\ attempts' = attempts \cup {<<a, attempt_no[a], Local>>}
       ELSE /\ pc' = [pc EXCEPT ![a] = "choosing"]
            /\ UNCHANGED <<reason, attempts>>
    /\ UNCHANGED <<world, in_flight, channels, build, cap, live, tried, on,
                   attempt_no>>

\* The build spawns one dispatch per permit; any order of its actions.
Spawn(a) ==
    /\ a \in Batch
    /\ permits > 0
    /\ Dispatch(a)
    /\ permits' = permits - 1

Submit(a) ==
    /\ a \notin Batch
    /\ Dispatch(a)
    /\ UNCHANGED permits

(***************************************************************************)
(* One attempt.                                                            *)
(***************************************************************************)
\* pick_and_reserve reads the table before it takes the in_flight lock.  With
\* no candidate the action falls back to a local run.
live_snapshot(a) ==
    /\ pc[a] = "choosing"
    /\ live' = [live EXCEPT ![a] =
                   [w \in Workers |-> IF w \in tried[a] THEN 0 ELSE Willing(w)]]
    /\ IF \E w \in Workers : live'[a][w] > 0
       THEN /\ pc' = [pc EXCEPT ![a] = "picking"]
            /\ UNCHANGED attempts
       ELSE /\ pc' = [pc EXCEPT ![a] = "local"]
            /\ attempts' = attempts \cup {<<a, attempt_no[a], Local>>}
    /\ UNCHANGED <<world, in_flight, channels, build, cap, permits, tried, on,
                   attempt_no, reason>>

\* The choice and the reservation, under the in_flight lock, and the lease.
pick_and_reserve(a) ==
    /\ pc[a] = "picking"
    /\ on' = [on EXCEPT ![a] = chosen(a)]
    /\ in_flight' = [in_flight EXCEPT ![chosen(a)] = @ + 1]
    /\ tried' = [tried EXCEPT ![a] = @ \cup {chosen(a)}]
    /\ attempts' = attempts \cup {<<a, attempt_no[a], chosen(a)>>}
    /\ live' = [live EXCEPT ![a] = [w \in Workers |-> 0]]
    /\ pc' = [pc EXCEPT ![a] = "reserved"]
    /\ UNCHANGED <<world, channels, build, cap, permits, attempt_no, reason>>

\* Drop for AssignGuard.
MutRelease(a) ==
    /\ in_flight' = [in_flight EXCEPT ![on[a]] = 0]
    /\ on' = [on EXCEPT ![a] = NoWorker]
Release(a) ==
    /\ in_flight' = [in_flight EXCEPT ![on[a]] = IF @ > 0 THEN @ - 1 ELSE 0]
    /\ on' = [on EXCEPT ![a] = NoWorker]

\* Every failed attempt: no exit code, a broken stream, the latency budget, an
\* endpoint that is no URI.  The guard goes before the next worker is chosen.
Reassign(a) ==
    /\ Release(a)
    /\ attempt_no' = [attempt_no EXCEPT ![a] = @ + 1]
    /\ reason' = [reason EXCEPT ![a] = "RemoteExhausted"]
    /\ pc' = [pc EXCEPT ![a] = "choosing"]
    /\ UNCHANGED <<world, build, cap, permits, live, tried, attempts>>

channel_for(a) ==
    /\ pc[a] = "reserved"
    /\ on[a] \notin malformed
    /\ channels' = channels \cup {on[a]}
    /\ pc' = [pc EXCEPT ![a] = "executing"]
    /\ UNCHANGED <<world, in_flight, build, cap, permits, live, tried, on,
                   attempt_no, reason, attempts>>

Unreachable(a) ==
    /\ pc[a] = "reserved"
    /\ on[a] \in malformed
    /\ Reassign(a)
    /\ UNCHANGED channels

\* The latency budget bounds the wait, whatever the worker does.
AttemptFails(a) ==
    /\ pc[a] = "executing"
    /\ Reassign(a)
    /\ UNCHANGED channels

\* The last act of a dispatch; a build's task then drops its permit.
Return(a) ==
    permits' = IF a \in Batch THEN permits + 1 ELSE permits

\* The worker reported an exit code.  The intake goes on to publish.
Answered(a) ==
    /\ pc[a] = "executing"
    /\ Release(a)
    /\ attempt_no' = [attempt_no EXCEPT ![a] = @ + 1]
    /\ reason' = [reason EXCEPT ![a] = "Remote"]
    /\ pc' = [pc EXCEPT ![a] = IF a \in Batch THEN "done" ELSE "publish"]
    /\ Return(a)
    /\ UNCHANGED <<world, channels, build, cap, live, tried, attempts>>

run_local(a) ==
    /\ pc[a] = "local"
    /\ attempt_no' = [attempt_no EXCEPT ![a] = @ + 1]
    /\ pc' = [pc EXCEPT ![a] = "done"]
    /\ Return(a)
    /\ UNCHANGED <<world, in_flight, channels, build, cap, live, tried, on,
                   reason, attempts>>

(***************************************************************************)
(* The intake around a dispatch.                                           *)
(***************************************************************************)
\* publish_remote_or_fallback: a non-zero exit, or all outputs published.
Published(a) ==
    /\ pc[a] = "publish"
    /\ pc' = [pc EXCEPT ![a] = "done"]
    /\ UNCHANGED <<world, in_flight, channels, build, cap, permits, live,
                   tried, on, attempt_no, reason, attempts>>

\* Publishing failed: one more attempt, local, under next_attempt_no.
PublishFails(a) ==
    /\ pc[a] = "publish"
    /\ attempts' = attempts \cup {<<a, attempt_no[a], Local>>}
    /\ pc' = [pc EXCEPT ![a] = "republish"]
    /\ UNCHANGED <<world, in_flight, channels, build, cap, permits, live,
                   tried, on, attempt_no, reason>>

FallbackRun(a) ==
    /\ pc[a] = "republish"
    /\ reason' = [reason EXCEPT ![a] = "RemoteExhausted"]
    /\ pc' = [pc EXCEPT ![a] = "done"]
    /\ UNCHANGED <<world, in_flight, channels, build, cap, permits, live,
                   tried, on, attempt_no, attempts>>

\* A forced submission without a child is aborted while it awaits the worker:
\* its future is dropped, and the guard with it.
Abort(a) ==
    /\ a \notin Batch
    /\ pc[a] = "executing"
    /\ Release(a)
    /\ pc' = [pc EXCEPT ![a] = "aborted"]
    /\ UNCHANGED <<world, channels, build, cap, permits, live, tried,
                   attempt_no, reason, attempts>>

\* The same at the submission's other awaits: its local run was refused or not
\* begun, or its session is being closed and published.
AbortIdle(a) ==
    /\ a \notin Batch
    /\ pc[a] \in {"local", "publish", "republish"}
    /\ pc' = [pc EXCEPT ![a] = "aborted"]
    /\ UNCHANGED <<world, in_flight, channels, build, cap, permits, live,
                   tried, on, attempt_no, reason, attempts>>

Attempt(a) ==
    \/ live_snapshot(a)
    \/ pick_and_reserve(a)
    \/ channel_for(a)
    \/ Unreachable(a)
    \/ AttemptFails(a)

Next ==
    \/ \E w \in Workers, e \in Adverts \cup {NotLive} : TableChanges(w, e)
    \/ run_build
    \/ \E a \in Actions :
           \/ Spawn(a) \/ Submit(a)
           \/ Attempt(a)
           \/ Answered(a) \/ run_local(a)
           \/ Published(a) \/ PublishFails(a) \/ FallbackRun(a)
           \/ Abort(a) \/ AbortIdle(a)

\* The build's loop and the dispatch tasks are polled, the latency budget
\* expires, local processes end.  Nothing obliges a worker to answer or a
\* submission to arrive.
Fairness ==
    /\ WF_vars(\E a \in Batch : Spawn(a))
    /\ \A a \in Actions :
           WF_vars(Attempt(a) \/ run_local(a) \/ Published(a) \/ FallbackRun(a))

Spec == Init /\ [][Next]_vars
FairSpec == Spec /\ Fairness

(***************************************************************************)
(* Properties.                                                             *)
(***************************************************************************)
Guards(w) == {a \in Actions : on[a] = w}
InGate == {a \in Batch : pc[a] \notin {"idle", "done"}}

TypeOK ==
    /\ table \in [Workers -> Adverts \cup {NotLive}]
    /\ malformed \subseteq Workers
    /\ changes \in 0..MaxChanges
    /\ in_flight \in [Workers -> Nat]
    /\ channels \subseteq Workers
    /\ build \in {"waiting", "started"}
    /\ cap \in Nat /\ permits \in Nat
    /\ pc \in [Actions -> Steps]
    /\ live \in [Actions -> [Workers -> 0..MAX_TRUSTED_CPU]]
    /\ tried \in [Actions -> SUBSET Workers]
    /\ on \in [Actions -> Workers \cup {NoWorker}]
    /\ attempt_no \in [Actions -> Nat]
    /\ reason \in [Actions -> Reasons]
    /\ attempts \subseteq Actions \X Nat \X (Workers \cup {Local})

\* A guard is held exactly during an attempt, on a worker already marked tried;
\* a dispatcher about to pick has a candidate, and candidates are untried.
GuardPart ==
    \A a \in Actions :
        /\ on[a] \in Workers <=> pc[a] \in Holding
        /\ pc[a] \in Holding => on[a] \in tried[a]
        /\ pc[a] = "picking" => Candidates(a) # {}
        /\ Candidates(a) \cap tried[a] = {}
        /\ pc[a] \in {"publish", "republish", "aborted"} => a \notin Batch

\* Unless the table has changed, a dispatcher's snapshot is still what the
\* table says when it picks.
SnapPart ==
    changes = 0 =>
        \A a \in Actions, w \in Workers :
            pc[a] = "picking" =>
                live[a][w] = IF w \in tried[a] THEN 0 ELSE Willing(w)

\* AssignGuard's comment, "the accounting cannot leak a slot": a worker's
\* in-flight count is the number of guards held on it.
LoadPart == \A w \in Workers : in_flight[w] = Cardinality(Guards(w))

\* The permits of a build that are not free belong to its running dispatches.
PermitPart ==
    /\ permits + Cardinality(InGate) = cap
    /\ build = "waiting" => cap = 0

\* The number under which an action's next attempt will be tracked is fresh,
\* and no worker is given an action twice.
AttemptPart ==
    /\ \A t \in attempts :
        /\ t[2] <= attempt_no[t[1]]
        /\ pc[t[1]] \in {"choosing", "picking", "publish"} =>
               t[2] < attempt_no[t[1]]
        /\ pc[t[1]] # "idle"
        /\ t[3] \in Workers => t[3] \in tried[t[1]]
    /\ \A s, t \in attempts :
        s[1] = t[1] /\ (s[2] = t[2] \/ (s[3] = t[3] /\ s[3] \in Workers)) => s = t

\* The scheduler's inductive invariant: counts equal what is held after any
\* interleaving of reservations, failures, aborts and returns; attempt numbers
\* (also the one the intake's own fallback uses) never collide in the tracker.
SchedInv ==
    TypeOK /\ GuardPart /\ SnapPart /\ LoadPart /\ PermitPart /\ AttemptPart

\* The comment on effective_idle, "concurrent dispatchers spread instead of
\* piling onto one worker": in a first burst, before any attempt has ended or
\* the table has changed, no worker is over its capacity while another one has
\* a free slot.
Burst ==
    /\ changes = 0
    /\ \A a \in Actions :
           tried[a] # {} => pc[a] \in Holding /\ tried[a] = {on[a]}
BurstSpreads ==
    Burst => \A v, w \in Workers :
                 in_flight[w] > Willing(w) => in_flight[v] >= Willing(v)

\* dispatch's comment, "The build always completes": every action of a started
\* build, and every submission, ends whatever the workers and the table do.
Completes ==
    \A a \in Actions :
        (pc[a] # "idle" \/ (a \in Batch /\ build = "started")) ~> pc[a] \in Ended
=============================================================================
