----------------------------- MODULE ActionTracker -----------------------------
(***************************************************************************)
(* The attempts the daemon shows (agent/src/action_tracker.rs).            *)
(*                                                                         *)
(* Every attempt to run an action has one key and one lease, held by the   *)
(* task that makes the attempt.  A running attempt occupies a lane of its  *)
(* worker; a terminal one stays visible until it expires, is pruned, or    *)
(* makes room for a new one.  All operations hold one mutex, so each is    *)
(* one action; the tasks interleave between them.                          *)
(***************************************************************************)
EXTENDS Integers, Sequences, FiniteSets

CONSTANTS Keys,         \* attempts: action id and attempt number
          Workers,      \* worker ids, "local" included
          NoWorker,     \* no record yet
          MaxAttempts   \* MAX_ACTIVITY_ATTEMPTS

ASSUME MaxAttemptsPositive == MaxAttempts \in Nat \ {0}

VARIABLES
    state,    \* key -> ActivityState, or "absent"
    worker,   \* key -> worker_id of the attempt's record
    lane,     \* key -> lane_index, 0 before it runs
    order,    \* terminal_order
    expired,  \* terminal attempts older than ACTIVITY_TTL
    lanes,    \* worker -> LaneAllocator; a missing one is a default one
    lease     \* key -> "new", "held", "untracked", "dropped"

vars == <<state, worker, lane, order, expired, lanes, lease>>

Terminal == {"Completed", "Failed", "Interrupted"}
Live == {"Created", "Queued", "Preparing", "Running"}

state_rank(s) == CASE s = "Created" -> 0 [] s = "Queued" -> 1
                   [] s = "Preparing" -> 2 [] s = "Running" -> 3 [] OTHER -> 4

DefaultAllocator == [next_lane |-> 1, free_lanes |-> {}, active |-> 0]

Init ==
    /\ state = [k \in Keys |-> "absent"]
    /\ worker = [k \in Keys |-> NoWorker]
    /\ lane = [k \in Keys |-> 0]
    /\ order = <<>> /\ expired = {}
    /\ lanes = [w \in Workers |-> DefaultAllocator]
    /\ lease = [k \in Keys |-> "new"]

-----------------------------------------------------------------------------
(* allocate_lane: the smallest free lane, or a new one.                    *)
NextLane(a) ==
    IF a.free_lanes = {} THEN a.next_lane
    ELSE CHOOSE l \in a.free_lanes : \A m \in a.free_lanes : l <= m

\* Mutation: the lane stays in the heap.
MutAllocate(a) ==
    [next_lane |-> IF a.free_lanes = {} THEN a.next_lane + 1 ELSE a.next_lane,
     free_lanes |-> a.free_lanes,
     active |-> a.active + 1]

allocate_lane(a) ==
    [next_lane |-> IF a.free_lanes = {} THEN a.next_lane + 1 ELSE a.next_lane,
     free_lanes |-> a.free_lanes \ {NextLane(a)},
     active |-> a.active + 1]

\* Mutation: a released lane is not put back.
MutRelease(a, l) == IF a.active - 1 = 0 THEN DefaultAllocator
                    ELSE [a EXCEPT !.active = @ - 1]

(* release_lane: the last lane released removes the allocator.             *)
release_lane(a, l) ==
    IF a.active - 1 = 0 THEN DefaultAllocator
    ELSE [a EXCEPT !.active = @ - 1, !.free_lanes = @ \cup {l}]

-----------------------------------------------------------------------------
(* prune_locked pops the first n queued keys: the longest expired prefix.  *)
Prunes(n) ==
    /\ \A i \in 1..n : order[i] \in expired
    /\ n < Len(order) => order[n + 1] \notin expired

Popped(n) == {order[i] : i \in 1..n}

(* What is left of the records and of the queue without its first n keys.  *)
Forget(n) ==
    /\ order' = SubSeq(order, n + 1, Len(order))
    /\ expired' = expired \ Popped(n)

Kept(n) == [k \in Keys |-> IF k \in Popped(n) THEN "absent" ELSE state[k]]

Records(s) == {k \in Keys : s[k] # "absent"}

\* Mutation: the table may grow one past its limit.
MutFull(s) == Cardinality(Records(s)) > MaxAttempts

Full(s) == Cardinality(Records(s)) >= MaxAttempts

(* A record for attempt k on worker w, in the room of the first n queued.  *)
Start(k, w, n) ==
    /\ Forget(n)
    /\ state' = [Kept(n) EXCEPT ![k] = "Created"]
    /\ worker' = [worker EXCEPT ![k] = w]
    /\ lease' = [lease EXCEPT ![k] = "held"]

(* begin_attempt_lease: prune, then evict the oldest terminal attempt of a *)
(* full table (one is enough: the table never exceeds its limit).  Without *)
(* one the attempt runs untracked.  Keys are fresh: an action's attempts   *)
(* are numbered and its id is minted once.                                 *)
begin_attempt_lease(k, w) ==
    /\ lease[k] = "new"
    /\ \E n \in 0..Len(order) :
          /\ Prunes(n)
          /\ \/ ~Full(Kept(n)) /\ Start(k, w, n)
             \/ Full(Kept(n)) /\ n < Len(order) /\ Start(k, w, n + 1)
             \/ /\ Full(Kept(n)) /\ n = Len(order)
                /\ Forget(n) /\ state' = Kept(n)
                /\ lease' = [lease EXCEPT ![k] = "untracked"]
                /\ UNCHANGED worker
    /\ UNCHANGED <<lane, lanes>>

(* snapshot_at prunes before it lists.                                     *)
snapshot ==
    /\ \E n \in 1..Len(order) : Prunes(n) /\ Forget(n) /\ state' = Kept(n)
    /\ UNCHANGED <<worker, lane, lanes, lease>>

\* Mutation: a transition is accepted in any direction.
MutAccepts(k, next) == state[k] \in Live /\ next # state[k]

(* The early returns of transition_locked.                                 *)
Accepts(k, next) ==
    /\ state[k] \in Live /\ next # state[k]
    /\ next \in Terminal \/ state_rank(next) >= state_rank(state[k])

(* transition_locked to a state that is not terminal: what the worker's    *)
(* event stream (ActionObserver) or a local run reports while the lease is *)
(* held, in any order and any number of times.                             *)
transition(k, next) ==
    /\ lease[k] = "held" /\ Accepts(k, next)
    /\ state' = [state EXCEPT ![k] = next]
    /\ IF next = "Running"
       THEN /\ lane' = [lane EXCEPT ![k] = NextLane(lanes[worker[k]])]
            /\ lanes' = [lanes EXCEPT ![worker[k]] = allocate_lane(@)]
       ELSE UNCHANGED <<lane, lanes>>
    /\ UNCHANGED <<worker, order, expired, lease>>

\* Mutation: a dropped lease leaves the attempt as it is.
MutFinish(k, terminal) ==
    /\ lease[k] = "held"
    /\ lease' = [lease EXCEPT ![k] = "dropped"]
    /\ UNCHANGED <<state, worker, lane, order, expired, lanes>>

(* AttemptLease::finish, and AttemptLease::drop, which finishes as         *)
(* Interrupted when the task ended or was cancelled before.                *)
finish(k, terminal) ==
    /\ lease[k] = "held"
    /\ lease' = [lease EXCEPT ![k] = "dropped"]
    /\ IF Accepts(k, terminal)
       THEN /\ state' = [state EXCEPT ![k] = terminal]
            /\ order' = Append(order, k)
            /\ lanes' = IF lane[k] = 0 THEN lanes
                        ELSE [lanes EXCEPT ![worker[k]] = release_lane(@, lane[k])]
       ELSE UNCHANGED <<state, order, lanes>>
    /\ UNCHANGED <<worker, lane, expired>>

(* ACTIVITY_TTL passes.  The clock is read before the mutex is taken, so   *)
(* attempts need not expire in the order in which they were queued.        *)
Expire(k) ==
    /\ state[k] \in Terminal /\ k \notin expired
    /\ expired' = expired \cup {k}
    /\ UNCHANGED <<state, worker, lane, order, lanes, lease>>

Next ==
    \/ \E k \in Keys :
          \/ \E w \in Workers : begin_attempt_lease(k, w)
          \/ \E next \in Live : transition(k, next)
          \/ \E terminal \in Terminal : finish(k, terminal)
          \/ Expire(k)
    \/ snapshot

Spec == Init /\ [][Next]_vars

-----------------------------------------------------------------------------
RunningOn(w) == {k \in Keys : state[k] = "Running" /\ worker[k] = w}

TypeOK ==
    /\ state \in [Keys -> Live \cup Terminal \cup {"absent"}]
    /\ worker \in [Keys -> Workers \cup {NoWorker}]
    /\ lane \in [Keys -> Nat]
    /\ order \in Seq(Keys) /\ expired \subseteq Keys
    /\ lanes \in [Workers -> [next_lane : Nat, free_lanes : SUBSET Nat, active : Nat]]
    /\ lease \in [Keys -> {"new", "held", "untracked", "dropped"}]

(* terminal_order lists each terminal attempt once and nothing else.       *)
QueueInv ==
    /\ \A k \in Keys : state[k] \in Terminal <=> \E i \in 1..Len(order) : order[i] = k
    /\ \A i, j \in 1..Len(order) : order[i] = order[j] => i = j
    /\ \A k \in expired : state[k] \in Terminal

(* An attempt whose lease is held has a live record, so its lane is given  *)
(* back; no other record is live.                                          *)
LeaseInv ==
    \A k \in Keys : /\ lease[k] = "held" <=> state[k] \in Live
                    /\ state[k] \in Live => worker[k] \in Workers
                    /\ lease[k] \in {"new", "untracked"} => state[k] = "absent"
                    /\ lease[k] = "new" => lane[k] = 0
                    /\ state[k] \in Live => (lane[k] = 0 <=> state[k] # "Running")

(* The lanes of w below next_lane are divided between the free ones and    *)
(* the attempts that run on w, one each.                                   *)
LanesOf(w) ==
    /\ lanes[w].active = Cardinality(RunningOn(w))
    /\ lanes[w].next_lane \in 1..(MaxAttempts + 1)
    /\ \A k \in RunningOn(w) : /\ lane[k] \in 1..(lanes[w].next_lane - 1)
                               /\ lane[k] \notin lanes[w].free_lanes
    /\ \A j, k \in RunningOn(w) : lane[j] = lane[k] => j = k
    /\ lanes[w].free_lanes \subseteq 1..(lanes[w].next_lane - 1)
    /\ lanes[w].next_lane - 1 = Cardinality(lanes[w].free_lanes) + lanes[w].active
    /\ lanes[w].active = 0 => lanes[w] = DefaultAllocator

LaneInv == \A w \in Workers : LanesOf(w)

(* The table keeps its limit, and so does every lane index.                *)
SizeInv ==
    /\ IsFiniteSet(Records(state)) /\ Cardinality(Records(state)) <= MaxAttempts
    /\ \A k \in Keys : lane[k] <= MaxAttempts

(* The inductive invariant behind the properties below.                    *)
TrackerInv == TypeOK /\ QueueInv /\ LeaseInv /\ LaneInv /\ SizeInv

(* Two attempts that run on one worker are never shown on the same lane.   *)
LanesDistinct ==
    \A w \in Workers : \A j, k \in RunningOn(w) : lane[j] = lane[k] => j = k

(* Lanes are reused: no lane index exceeds the size of the table, however  *)
(* many attempts have come and gone, and a worker without a running        *)
(* attempt starts again at lane 1.                                         *)
LanesBounded ==
    /\ \A k \in Keys : lane[k] <= MaxAttempts
    /\ \A w \in Workers : RunningOn(w) = {} => lanes[w] = DefaultAllocator

(* The table keeps its limit, and neither the limit nor a prune ever takes *)
(* an attempt from under its lease; a lease that is gone leaves no attempt *)
(* live.                                                                   *)
TableBounded ==
    /\ Cardinality(Records(state)) <= MaxAttempts
    /\ \A k \in Keys : lease[k] = "held" <=> state[k] \in Live

(* What one step may do to the state of one attempt.                       *)
Moves(k) ==
    \/ state'[k] = state[k]
    \/ state[k] = "absent" /\ state'[k] = "Created"
    \/ state[k] \in Terminal /\ state'[k] = "absent"
    \/ /\ state[k] \in Live /\ state'[k] \in Live \cup Terminal
       /\ state_rank(state'[k]) > state_rank(state[k])

(* A record moves forward through its states, a terminal state is final    *)
(* until the record is removed, and a live record is never removed.        *)
MovesForward == [][\A k \in Keys : Moves(k)]_state
====
