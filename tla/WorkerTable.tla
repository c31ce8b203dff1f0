---------------------------- MODULE WorkerTable ----------------------------
(***************************************************************************)
(* The agent's table of workers (agent/src/coordination.rs) and the worker *)
(* processes that register with it, ping it and reconnect                  *)
(* (worker/src/coordination.rs).  A process is its own execution endpoint; *)
(* Id gives the worker_id it registers under, which two processes may      *)
(* share.  Liveness is derived on read from the age of the last ping, so   *)
(* time is explicit: Tick ages every entry.  Ages stop counting at         *)
(* ReapAfter, and the silence of a process at Keepalive, because no        *)
(* comparison tells larger ones apart.                                     *)
(***************************************************************************)
EXTENDS Integers, FiniteSets

CONSTANTS
    Procs,        \* worker processes, each with an endpoint of its own
    Ids,          \* worker_id strings
    Id,           \* the worker_id of each process
    Trusted,      \* processes that hold the cluster token
    DeadTimeout,  \* dead_timeout, in ticks
    REAP_FACTOR,
    Keepalive,    \* ticks of silence after which HTTP/2 closes a connection
    NoEntry,
    MaxFaults     \* bound: connections broken, answers lost, agent restarts

ReapAfter == DeadTimeout * REAP_FACTOR

ASSUME Identities == Id \in [Procs -> Ids] /\ Trusted \subseteq Procs
ASSUME Durations ==
    /\ DeadTimeout \in Nat \ {0}
    /\ REAP_FACTOR \in Nat \ {0}
    /\ Keepalive \in Nat \ {0}
    /\ DeadTimeout <= Keepalive /\ Keepalive < ReapAfter
ASSUME FaultBound == MaxFaults \in Nat

VARIABLES
    table,   \* the WorkerTable: one entry per worker_id, or NoEntry
    conn,    \* where each process is in its reconnect loop
    streams, \* the heartbeat streams the agent holds open
    strays,  \* those that opened on a table that did not know their worker
    quiet,   \* ticks since the agent last accepted a call of each process
    faults

vars == <<table, conn, streams, strays, quiet, faults>>

Entries == [ep : Procs, age : 0..ReapAfter]
ASSUME NoEntryIsNone == NoEntry \notin Entries
Conns == {"dialing", "registered", "beating", "backoff", "rejected", "left"}

TypeOK ==
    /\ table \in [Ids -> Entries \cup {NoEntry}]
    /\ conn \in [Procs -> Conns]
    /\ streams \subseteq Procs
    /\ strays \subseteq streams
    /\ quiet \in [Procs -> 0..Keepalive]
    /\ faults \in 0..MaxFaults

Init ==
    /\ table = [i \in Ids |-> NoEntry]
    /\ conn = [p \in Procs |-> "dialing"]
    /\ streams = {}
    /\ strays = {}
    /\ quiet = [p \in Procs |-> Keepalive]
    /\ faults = 0

Fault == faults < MaxFaults /\ faults' = faults + 1

-----------------------------------------------------------------------------
(* The table. *)

is_live(i) == table[i] # NoEntry /\ table[i].age < DeadTimeout

\* Mutation: reap on the dead timeout instead of REAP_FACTOR times it.
MutReaps(e) == e.age >= DeadTimeout
Reaps(e) == e.age >= ReapAfter

Reaped ==
    [i \in Ids |-> IF table[i] # NoEntry /\ ~Reaps(table[i])
                   THEN table[i] ELSE NoEntry]

\* Mutation: an entry counts as owned one tick less than it counts as live.
MutOwned(p) == /\ Reaped[Id[p]] # NoEntry
               /\ Reaped[Id[p]].ep # p
               /\ Reaped[Id[p]].age + 1 < DeadTimeout
\* A live worker already owns this identity with a different endpoint.
Owned(p) == /\ Reaped[Id[p]] # NoEntry
            /\ Reaped[Id[p]].ep # p
            /\ Reaped[Id[p]].age < DeadTimeout

check(p) == p \in Trusted

Accepted(p) == check(p) /\ ~Owned(p)

upsert_register(p) ==
    table' = IF ~check(p) THEN table
             ELSE IF Owned(p) THEN Reaped
             ELSE [Reaped EXCEPT ![Id[p]] = [ep |-> p, age |-> 0]]

-----------------------------------------------------------------------------
(* A process registers.  The agent answers, or the answer is lost. *)

Heard(p) == quiet' = [quiet EXCEPT ![p] = IF Accepted(p) THEN 0 ELSE @]

\* Rejected: the reconnect loop returns the error and the worker stays
\* unregistered.
register(p) ==
    /\ conn[p] = "dialing"
    /\ upsert_register(p)
    /\ Heard(p)
    /\ conn' = [conn EXCEPT ![p] = IF Accepted(p) THEN "registered" ELSE "rejected"]
    /\ UNCHANGED <<streams, strays, faults>>

RegisterLost(p) ==
    /\ conn[p] = "dialing"
    /\ Fault
    /\ upsert_register(p)
    /\ Heard(p)
    /\ conn' = [conn EXCEPT ![p] = "backoff"]
    /\ UNCHANGED <<streams, strays>>

DialFails(p) ==
    /\ conn[p] = "dialing"
    /\ Fault
    /\ conn' = [conn EXCEPT ![p] = "backoff"]
    /\ UNCHANGED <<table, streams, strays, quiet>>

Retry(p) ==
    /\ conn[p] = "backoff"
    /\ conn' = [conn EXCEPT ![p] = "dialing"]
    /\ UNCHANGED <<table, streams, strays, quiet, faults>>

-----------------------------------------------------------------------------
(* Heartbeats. *)

Refreshed(e) == [e EXCEPT !.age = 0]

\* Unknown workers are ignored.
Pinged(i) == [table EXCEPT ![i] = IF @ = NoEntry THEN @ ELSE Refreshed(@)]

\* The stream is opened and its first ping, which the interval sends at once,
\* arrives.  The channel redials by itself, so the agent it reaches need not be
\* the one that took the registration, nor the entry still be there.
heartbeat(p) ==
    /\ conn[p] = "registered"
    /\ conn' = [conn EXCEPT ![p] = "beating"]
    /\ streams' = streams \cup {p}
    /\ strays' = IF table[Id[p]] = NoEntry THEN strays \cup {p} ELSE strays \ {p}
    /\ table' = Pinged(Id[p])
    /\ quiet' = [quiet EXCEPT ![p] = 0]
    /\ UNCHANGED faults

HeartbeatFails(p) ==
    /\ conn[p] = "registered"
    /\ Fault
    /\ conn' = [conn EXCEPT ![p] = "backoff"]
    /\ UNCHANGED <<table, streams, strays, quiet>>

\* The service takes a heartbeat stream from any client, one that was refused
\* because it does not hold the token included.
StrangerHeartbeat(p) ==
    /\ p \notin Trusted
    /\ p \notin streams
    /\ conn[p] = "rejected"
    /\ streams' = streams \cup {p}
    /\ UNCHANGED <<table, conn, strays, quiet, faults>>

\* Mutation: pings are not checked, only registrations are.
MutPingCheck(p) == TRUE
ping_check(p) == p \in Trusted

\* A ping arrives on an open stream.  It may have been on the way when the
\* process broke off or left.  Every ping carries the token; one that carries
\* another ends the agent's side of the stream before the table is touched.
on_ping(p) ==
    /\ p \in streams
    /\ \/ /\ ping_check(p)
          /\ table' = Pinged(Id[p])
          /\ quiet' = [quiet EXCEPT ![p] = 0]
          /\ UNCHANGED <<streams, strays>>
       \/ /\ ~ping_check(p)
          /\ streams' = streams \ {p}
          /\ strays' = strays \ {p}
          /\ UNCHANGED <<table, quiet>>
    /\ UNCHANGED <<conn, faults>>

\* The agent's side of a stream ends: the worker ended it, or HTTP/2
\* keepalive gave up on a silent peer.
CloseStream(p) ==
    /\ p \in streams
    /\ conn[p] # "beating" \/ quiet[p] >= Keepalive
    /\ streams' = streams \ {p}
    /\ strays' = strays \ {p}
    /\ UNCHANGED <<table, conn, quiet, faults>>

\* The connection breaks: the worker notices and starts over while the agent
\* still holds a half-open stream.
Break(p) ==
    /\ conn[p] = "beating"
    /\ Fault
    /\ conn' = [conn EXCEPT ![p] = "backoff"]
    /\ UNCHANGED <<table, streams, strays, quiet>>

\* The pong stream has closed: a retryable error, or (mutation) taken for an
\* answer that ends the reconnect loop.
MutAfterClose == "rejected"
AfterClose == "backoff"

PongsClosed(p) ==
    /\ conn[p] = "beating"
    /\ p \notin streams
    /\ conn' = [conn EXCEPT ![p] = AfterClose]
    /\ UNCHANGED <<table, streams, strays, quiet, faults>>

\* The process shuts down or dies.
Leave(p) ==
    /\ conn[p] \in {"dialing", "registered", "beating", "backoff"}
    /\ conn' = [conn EXCEPT ![p] = "left"]
    /\ UNCHANGED <<table, streams, strays, quiet, faults>>

-----------------------------------------------------------------------------

\* The daemon restarts with an empty table.
AgentRestart ==
    /\ Fault
    /\ table' = [i \in Ids |-> NoEntry]
    /\ streams' = {}
    /\ strays' = {}
    /\ UNCHANGED <<conn, quiet>>

Older(n, cap) == IF n < cap THEN n + 1 ELSE n

\* A worker silent for Keepalive is disconnected before more time passes.
Tick ==
    /\ \A p \in streams \cap Trusted : quiet[p] < Keepalive
    /\ table' = [i \in Ids |->
                    IF table[i] = NoEntry THEN NoEntry
                    ELSE [table[i] EXCEPT !.age = Older(@, ReapAfter)]]
    /\ quiet' = [p \in Procs |-> Older(quiet[p], Keepalive)]
    /\ UNCHANGED <<conn, streams, strays, faults>>

Worker(p) ==
    \/ register(p)
    \/ RegisterLost(p)
    \/ DialFails(p)
    \/ Retry(p)
    \/ heartbeat(p)
    \/ HeartbeatFails(p)
    \/ StrangerHeartbeat(p)
    \/ on_ping(p)
    \/ CloseStream(p)
    \/ Break(p)
    \/ PongsClosed(p)
    \/ Leave(p)

Next ==
    \/ \E p \in Procs : Worker(p)
    \/ AgentRestart
    \/ Tick

Spec == Init /\ [][Next]_vars

\* What agent and worker do unasked: the reconnect loop goes on (it registers,
\* opens its stream, notices that it closed and retries after its backoff), the
\* ping interval fires, the transport delivers what it does not lose, and
\* keepalive reports a dead stream to the agent.
Loop(p) == register(p) \/ heartbeat(p) \/ Retry(p) \/ PongsClosed(p)

Fairness ==
    /\ \A p \in Trusted :
        /\ WF_vars(Loop(p))
        /\ WF_vars(on_ping(p))
        /\ WF_vars(CloseStream(p))
    /\ WF_vars(Tick)

FairSpec == Spec /\ Fairness

-----------------------------------------------------------------------------
(* Properties. *)

\* A stream whose first ping found its worker never loses it: later pings are
\* not ignored as unknown, because an entry is at most as old as the silence of
\* any stream that pings it, and keepalive cuts that silence off before the
\* reaper would look at the entry.
KnownInv ==
    \A p \in streams \cap Trusted :
        /\ quiet[p] <= Keepalive
        /\ p \notin strays => table[Id[p]] # NoEntry
        /\ table[Id[p]] # NoEntry => table[Id[p]].age <= quiet[p]

\* No other process with the cluster token presents the same worker_id.
SoleOwner(p) == p \in Trusted /\ \A q \in Trusted : Id[q] = Id[p] => q = p

\* An entry is filed under the id of its endpoint, and some holder of the token
\* that presents this id has been silent for no longer than the entry is old.
HeardInv ==
    \A i \in Ids : table[i] # NoEntry =>
        /\ Id[table[i].ep] = i
        /\ \E p \in Trusted : Id[p] = i /\ quiet[p] <= table[i].age

\* Only the holders of the token get as far as the heartbeat stream.
CheckedInv == \A p \in Procs : conn[p] = "registered" => p \in Trusted

\* The inductive invariant of the worker table.
TableInv == TypeOK /\ KnownInv /\ HeardInv /\ CheckedInv

\* While an entry is live it keeps its endpoint and stays in the table,
\* whatever registers, pings or is reaped: only a restart of the agent removes
\* it ("first registrant wins while live").
OwnerKept(i) ==
    is_live(i) => \/ table'[i] # NoEntry /\ table'[i].ep = table[i].ep
                  \/ faults' > faults /\ table' = [j \in Ids |-> NoEntry]
OwnersKept == [][\A i \in Ids : OwnerKept(i)]_vars

\* A worker that stops heartbeating ages out: an id is live only while a process
\* that presents it and holds the cluster token was heard from within the dead
\* timeout, whatever else registers or pings under that id.  Without a namesake
\* this is the worker itself.
AgesOut ==
    \A i \in Ids :
        is_live(i) => \E p \in Trusted : Id[p] = i /\ quiet[p] < DeadTimeout

\* A worker process that keeps running gets (back) into the live set: after a
\* broken connection, a lost answer or a restart of the agent, the reconnect
\* loop registers it again.  The exception is a stray, see PingedIsLive.
Rejoins ==
    \A p \in {q \in Procs : SoleOwner(q)} :
        conn[p] \in {"dialing", "backoff", "registered", "beating"}
            ~> is_live(Id[p]) \/ conn[p] = "left" \/ p \in strays

\* "a worker is live iff its last ping is younger than dead_timeout": a process
\* whose pings arrive on an open stream is in the live set.
PingedIsLive ==
    \A p \in streams : SoleOwner(p) /\ quiet[p] < DeadTimeout => is_live(Id[p])
=============================================================================
