---------------------------- MODULE SessionPins ----------------------------
(***************************************************************************)
(* The pinned-input side of the agent's data-plane sessions                *)
(* (crates/agent/src/session_registry.rs): single-flight pin cells, the    *)
(* allowed-digest list of each session, and the PinPersistOwner that       *)
(* removes the shared ephemeral content store once it is closed and the    *)
(* last pin guard is gone.                                                 *)
(*                                                                         *)
(* A file's bytes and their digest are one small number, the file's        *)
(* version: a digest is a function of the bytes, without collisions.       *)
(***************************************************************************)
EXTENDS Naturals, FiniteSets

CONSTANTS
    Tasks,            \* data-plane request tasks of the file server
    Sessions,         \* session capabilities
    Paths,            \* requested logical paths
    MaxEdits          \* bound: how often each file is edited

ASSUME FiniteConstants ==
    IsFiniteSet(Tasks) /\ IsFiniteSet(Sessions) /\ IsFiniteSet(Paths)
ASSUME MaxEditsNat == MaxEdits \in Nat

Cells == Sessions \X Paths
ASSUME TasksAreNotCells == Tasks \cap Cells = {}

Digests == 0 .. MaxEdits
NoDigest == MaxEdits + 1
NoCell == <<>>

VARIABLES
    accepting, active,   \* PinPersistState
    guards,     \* who holds a live PinPersistGuard: a task or a pin cell
    cleanup,    \* the removal: "none" | "job" (thread runs) | "ok" | "failed"
    blobs,      \* digests in the ephemeral store
    file,       \* current bytes of each path
    sess,       \* "new" | "live" (in the registry) | "gone" (out of it)
    held,       \* the intake task or a connection holds the capability
    closed,     \* SessionCapability.closed
    allowed,    \* SessionCapability.allowed_digests
    cell,       \* pin cells: "none" | "empty" | "busy" | "set" | "dropped"
    value,      \* the digest a set cell froze
    task,       \* request tasks: [pc, on (cell), digest]
    stage       \* run_daemon_at

ownerVars == <<accepting, active, guards, cleanup>>
sessVars == <<sess, held, closed>>
vars == <<ownerVars, blobs, file, sessVars, allowed, cell, value, task, stage>>

Idle == [pc |-> "idle", on |-> NoCell, digest |-> NoDigest]
Stages == {"serving", "stopping", "drained", "sessions", "closed", "exited"}
\* pcs of a task that holds the initialisation permit of its cell
Initialising == {"read", "put", "commit"}

TypeOK ==
    /\ accepting \in BOOLEAN /\ active \in Nat
    /\ guards \in SUBSET (Tasks \cup Cells)
    /\ cleanup \in {"none", "job", "ok", "failed"}
    /\ blobs \in SUBSET Digests
    /\ file \in [Paths -> Digests]
    /\ sess \in [Sessions -> {"new", "live", "gone"}]
    /\ held \in [Sessions -> BOOLEAN]
    /\ closed \in [Sessions -> BOOLEAN]
    /\ allowed \in [Sessions -> SUBSET Digests]
    /\ cell \in [Cells -> {"none", "empty", "busy", "set", "dropped"}]
    /\ value \in [Cells -> Digests \cup {NoDigest}]
    /\ task \in [Tasks -> [pc : {"idle", "lock", "cell", "orphan", "done"} \cup Initialising,
                           on : Cells \cup {NoCell},
                           digest : Digests \cup {NoDigest}]]
    /\ stage \in Stages

Init ==
    /\ accepting = TRUE /\ active = 0
    /\ guards = {} /\ cleanup = "none" /\ blobs = {}
    /\ file = [p \in Paths |-> 0]
    /\ sess = [s \in Sessions |-> "new"]
    /\ held = [s \in Sessions |-> FALSE]
    /\ closed = [s \in Sessions |-> FALSE]
    /\ allowed = [s \in Sessions |-> {}]
    /\ cell = [c \in Cells |-> "none"]
    /\ value = [c \in Cells |-> NoDigest]
    /\ task = [t \in Tasks |-> Idle]
    /\ stage = "serving"
----------------------------------------------------------------------------
(* PinPersistOwner *)

\* PinPersistState.cleanup_started: its flag is set where cleanup() is called.
cleanupStarted == cleanup # "none"

\* cleanup(): revoke the store and hand its removal to a thread; the thread may
\* fail to start.
StartCleanup == cleanup' \in {"job", "failed"}

\* Mutation: the guard is handed out without being counted.
MutRegisterGuard(g) ==
    /\ accepting
    /\ guards' = guards \cup {g}
    /\ UNCHANGED <<accepting, active, cleanup>>

RegisterGuard(g) ==
    /\ accepting
    /\ active' = active + 1
    /\ guards' = guards \cup {g}
    /\ UNCHANGED <<accepting, cleanup>>

\* Mutation: dropping the last guard does not start the cleanup.
MutDropGuardSilent(g) ==
    /\ guards' = guards \ {g}
    /\ active' = active - 1
    /\ UNCHANGED <<accepting, cleanup>>

\* Drop for PinPersistGuard.
DropGuard(g) ==
    /\ guards' = guards \ {g}
    /\ active' = IF active = 0 THEN 0 ELSE active - 1
    /\ IF active = 1 /\ ~accepting /\ ~cleanupStarted THEN StartCleanup ELSE UNCHANGED cleanup
    /\ UNCHANGED accepting

\* Mutation: close cleans up without looking at the live guards.
MutCloseOwner ==
    /\ accepting' = FALSE
    /\ IF ~cleanupStarted THEN StartCleanup ELSE UNCHANGED cleanup
    /\ UNCHANGED <<active, guards>>

CloseOwner ==
    /\ accepting' = FALSE
    /\ IF active = 0 /\ ~cleanupStarted THEN StartCleanup ELSE UNCHANGED cleanup
    /\ UNCHANGED <<active, guards>>

\* The cleanup thread: removal succeeds, or fails part-way.
CleanupJob ==
    /\ cleanup = "job"
    /\ \/ cleanup' = "ok" /\ blobs' = {}
       \/ cleanup' = "failed" /\ blobs' \in SUBSET blobs
    /\ UNCHANGED <<accepting, active, guards, file, sessVars,
                   allowed, cell, value, task, stage>>
----------------------------------------------------------------------------
(* SessionCapability::pin_contained, run by one request task *)

Goto(t, pc) == task' = [task EXCEPT ![t].pc = pc]
End(t) == task' = [task EXCEPT ![t] = Idle]

\* The file server dispatches a request of a bound connection; its only closed
\* check before pin_contained is the one at the top of dispatch.
StartRequest(t, s, p) ==
    /\ stage = "serving"
    /\ task[t].pc = "idle"
    /\ held[s] /\ ~closed[s]
    /\ task' = [task EXCEPT ![t] = [pc |-> "lock", on |-> <<s, p>>, digest |-> NoDigest]]
    /\ UNCHANGED <<ownerVars, blobs, file, sessVars, allowed, cell, value, stage>>

\* Under the pinned lock: refuse on a closed session, else find or make the cell.
LockPinned(t) ==
    LET c == task[t].on IN
    /\ task[t].pc = "lock"
    /\ \/ closed[c[1]] /\ End(t) /\ UNCHANGED cell
       \/ /\ ~closed[c[1]]
          /\ Goto(t, "cell")
          /\ cell' = [cell EXCEPT ![c] = IF @ = "none" THEN "empty" ELSE @]
    /\ UNCHANGED <<ownerVars, blobs, file, sessVars, allowed, value, stage>>

\* Mutation: no single flight, a second task initialises a busy cell.
MutEnterCell(t) ==
    LET c == task[t].on IN
    /\ task[t].pc = "cell"
    /\ \/ /\ cell[c] = "set"
          /\ task' = [task EXCEPT ![t].pc = "done", ![t].digest = value[c]]
          /\ UNCHANGED cell
       \/ /\ cell[c] \in {"empty", "busy"}
          /\ cell' = [cell EXCEPT ![c] = "busy"]
          /\ Goto(t, "read")
    /\ UNCHANGED <<ownerVars, blobs, file, sessVars, allowed, value, stage>>

\* OnceCell::get_or_try_init: take the value, or become the one initialiser.
EnterCell(t) ==
    LET c == task[t].on IN
    /\ task[t].pc = "cell"
    /\ \/ /\ cell[c] = "set"
          /\ task' = [task EXCEPT ![t].pc = "done", ![t].digest = value[c]]
          /\ UNCHANGED cell
       \/ /\ cell[c] = "empty"
          /\ cell' = [cell EXCEPT ![c] = "busy"]
          /\ Goto(t, "read")
    /\ UNCHANGED <<ownerVars, blobs, file, sessVars, allowed, value, stage>>

\* A failed initialiser leaves the cell empty for the next task and answers None.
GiveUp(t) ==
    /\ cell' = [cell EXCEPT ![task[t].on] = "empty"]
    /\ End(t)

\* Read the file, then persist_pin_bytes registers a guard and starts the put.
\* Either can fail: the file is unreadable, the owner is closed.
ReadAndRegister(t) ==
    /\ task[t].pc = "read"
    /\ \/ /\ RegisterGuard(t)
          /\ task' = [task EXCEPT ![t].pc = "put", ![t].digest = file[task[t].on[2]]]
          /\ UNCHANGED cell
       \/ GiveUp(t) /\ UNCHANGED ownerVars
    /\ UNCHANGED <<blobs, file, sessVars, allowed, value, stage>>

\* The blocking store.put returns. A revoked store refuses it. The result of a
\* cancelled task is dropped, guard included.
PutReturns(t) ==
    /\ task[t].pc \in {"put", "orphan"}
    /\ \/ /\ ~cleanupStarted
          /\ blobs' = blobs \cup {task[t].digest}
          /\ \/ task[t].pc = "put" /\ Goto(t, "commit") /\ UNCHANGED <<ownerVars, cell>>
             \/ task[t].pc = "orphan" /\ End(t) /\ DropGuard(t) /\ UNCHANGED cell
       \/ /\ UNCHANGED blobs
          /\ DropGuard(t)
          /\ \/ task[t].pc = "put" /\ GiveUp(t)
             \/ task[t].pc = "orphan" /\ End(t) /\ UNCHANGED cell
    /\ UNCHANGED <<file, sessVars, allowed, value, stage>>

\* commit_if_accepting inserts the digest in the list under the owner's lock;
\* the cell then freezes the value and keeps the guard.
Commit(t) ==
    LET c == task[t].on  d == task[t].digest IN
    /\ task[t].pc = "commit"
    /\ \/ /\ accepting
          /\ allowed' = [allowed EXCEPT ![c[1]] = @ \cup {d}]
          /\ cell' = [cell EXCEPT ![c] = "set"]
          /\ value' = [value EXCEPT ![c] = d]
          /\ guards' = (guards \ {t}) \cup {c}
          /\ Goto(t, "done")
          /\ UNCHANGED <<accepting, active, cleanup>>
       \/ /\ ~accepting
          /\ DropGuard(t)
          /\ GiveUp(t)
          /\ UNCHANGED <<allowed, value>>
    /\ UNCHANGED <<blobs, file, sessVars, stage>>

\* The response is written and the task ends.
Respond(t) ==
    /\ task[t].pc = "done"
    /\ End(t)
    /\ UNCHANGED <<ownerVars, blobs, file, sessVars, allowed, cell, value, stage>>

\* spawn_cancel drops the request's future at its await point. The blocking put
\* it waits for runs on and keeps the guard.
CancelRequest(t) ==
    /\ stage = "stopping"
    /\ \/ task[t].pc \in {"lock", "cell", "done"} /\ End(t) /\ UNCHANGED <<ownerVars, cell>>
       \/ task[t].pc = "read" /\ GiveUp(t) /\ UNCHANGED ownerVars
       \/ /\ task[t].pc = "put"
          /\ Goto(t, "orphan")
          /\ cell' = [cell EXCEPT ![task[t].on] = "empty"]
          /\ UNCHANGED ownerVars
       \/ task[t].pc = "commit" /\ GiveUp(t) /\ DropGuard(t)
    /\ UNCHANGED <<blobs, file, sessVars, allowed, value, stage>>
----------------------------------------------------------------------------
(* SessionRegistry and the daemon around it *)

CreateSession(s) ==
    /\ stage \in {"serving", "stopping"}
    /\ sess[s] = "new"
    /\ sess' = [sess EXCEPT ![s] = "live"]
    /\ held' = [held EXCEPT ![s] = TRUE]
    /\ UNCHANGED <<ownerVars, blobs, file, closed, allowed, cell, value, task, stage>>

\* A handshake finds a registered session whose earlier holders are gone.
BindConnection(s) ==
    /\ stage = "serving"
    /\ sess[s] = "live" /\ ~held[s]
    /\ held' = [held EXCEPT ![s] = TRUE]
    /\ UNCHANGED <<ownerVars, blobs, file, sess, closed, allowed, cell, value, task, stage>>

\* finish closes the capability it removes; sweep_idle (no connection, TTL
\* passed) removes without closing.
RemoveSession(s) ==
    /\ stage \in {"serving", "stopping"}
    /\ sess[s] = "live"
    /\ sess' = [sess EXCEPT ![s] = "gone"]
    /\ closed' \in {closed, [closed EXCEPT ![s] = TRUE]}
    /\ UNCHANGED <<ownerVars, blobs, file, held, allowed, cell, value, task, stage>>

\* The intake task has returned (or panicked) and the connections are closed.
ReleaseSession(s) ==
    /\ held[s]
    /\ held' = [held EXCEPT ![s] = FALSE]
    /\ UNCHANGED <<ownerVars, blobs, file, sess, closed, allowed, cell, value, task, stage>>

Running(t) == task[t].pc \notin {"idle", "orphan"}

\* shutdown_sessions clears the map of pins, or the last Arc of a finished or
\* swept capability is gone: each pinned value drops its guard.
DropCell(c) ==
    /\ cell[c] = "set"
    /\ sess[c[1]] = "gone" /\ ~held[c[1]]
    /\ \A t \in Tasks : Running(t) => task[t].on[1] # c[1]
    /\ cell' = [cell EXCEPT ![c] = "dropped"]
    /\ DropGuard(c)
    /\ UNCHANGED <<blobs, file, sessVars, allowed, value, task, stage>>

Edit(p) ==
    /\ file[p] < MaxEdits
    /\ file' = [file EXCEPT ![p] = @ + 1]
    /\ UNCHANGED <<ownerVars, blobs, sessVars, allowed, cell, value, task, stage>>

BeginShutdown ==
    /\ stage = "serving"
    /\ stage' = "stopping"
    /\ UNCHANGED <<ownerVars, blobs, file, sessVars, allowed, cell, value, task>>

\* wait_cancel and drain_until have returned: no request, connection or
\* submission task is left.
TasksDrained ==
    /\ stage = "stopping"
    /\ \A t \in Tasks : ~Running(t)
    /\ \A s \in Sessions : ~held[s]
    /\ stage' = "drained"
    /\ UNCHANGED <<ownerVars, blobs, file, sessVars, allowed, cell, value, task>>

ShutdownSessions ==
    /\ stage = "drained"
    /\ stage' = "sessions"
    /\ sess' = [s \in Sessions |-> IF sess[s] = "live" THEN "gone" ELSE sess[s]]
    /\ closed' = [s \in Sessions |-> sess[s] = "live" \/ closed[s]]
    /\ UNCHANGED <<ownerVars, blobs, file, held, allowed, cell, value, task>>

\* shutdown_cleanup_blocking, where run_daemon_at calls it.
Close ==
    /\ stage = "sessions" /\ \A c \in Cells : cell[c] # "set"
    /\ CloseOwner
    /\ stage' = "closed"
    /\ UNCHANGED <<blobs, file, sessVars, allowed, cell, value, task>>

\* Drop for SessionRegistry, or a shutdown_cleanup_blocking nobody ordered after
\* the tasks: close comes at any time, under capabilities that are still held.
DropRegistry ==
    /\ accepting
    /\ CloseOwner
    /\ UNCHANGED <<blobs, file, sessVars, allowed, cell, value, task, stage>>

\* wait_for_cleanup returns and run_daemon_at with it.
DaemonExits ==
    /\ stage = "closed"
    /\ cleanup \in {"ok", "failed"}
    /\ stage' = "exited"
    /\ UNCHANGED <<ownerVars, blobs, file, sessVars, allowed, cell, value, task>>

TaskStep(t) ==
    \/ LockPinned(t) \/ EnterCell(t) \/ ReadAndRegister(t)
    \/ PutReturns(t) \/ Commit(t) \/ Respond(t)

Next ==
    \/ CleanupJob
    \/ \E t \in Tasks :
          \/ \E s \in Sessions, p \in Paths : StartRequest(t, s, p)
          \/ TaskStep(t)
          \/ CancelRequest(t)
    \/ \E s \in Sessions : 
          CreateSession(s) \/ BindConnection(s) \/ RemoveSession(s) \/ ReleaseSession(s)
    \/ \E c \in Cells : DropCell(c)
    \/ \E p \in Paths : Edit(p)
    \/ BeginShutdown \/ TasksDrained \/ ShutdownSessions \/ Close
    \/ DropRegistry \/ DaemonExits

Spec == Init /\ [][Next]_vars

\* Tokio polls every runnable task and blocking threads terminate; capabilities
\* nobody can reach are dropped; run_daemon_at runs on once shutdown has begun.
Fairness ==
    /\ \A t \in Tasks : WF_vars(TaskStep(t)) /\ WF_vars(CancelRequest(t))
    /\ \A s \in Sessions : WF_vars(stage # "serving" /\ ReleaseSession(s))
    /\ \A c \in Cells : WF_vars(DropCell(c))
    /\ WF_vars(CleanupJob)
    /\ WF_vars(TasksDrained \/ ShutdownSessions \/ Close \/ DaemonExits)

FairSpec == Spec /\ Fairness
----------------------------------------------------------------------------
\* A request past the pinned lock names its cell, and one that has read the file
\* carries its digest.
TaskShape ==
    \A t \in Tasks :
        /\ task[t].pc # "idle" => task[t].on \in Cells
        /\ task[t].pc \in {"put", "orphan", "commit", "done"} => task[t].digest \in Digests
        /\ task[t].pc = "commit" => task[t].digest \in blobs

\* The cleanup tokens are taken only after close.
OwnerConsistent == cleanupStarted => ~accepting

\* A guard is held by the tasks between register and publication, by the orphaned
\* puts, and by the published cells, and by nobody else.
GuardHolders ==
    /\ \A t \in Tasks : t \in guards <=> task[t].pc \in {"put", "orphan", "commit"}
    /\ \A c \in Cells : c \in guards <=> cell[c] = "set"

\* A cell is busy for exactly one running initialiser.
SingleFlight ==
    /\ \A t \in Tasks : task[t].pc \in Initialising => cell[task[t].on] = "busy"
    /\ \A t, u \in Tasks : /\ task[t].pc \in Initialising
                          /\ task[u].pc \in Initialising
                          /\ task[t].on = task[u].on => t = u

\* The counter of PinPersistState is exactly the number of live guards.
GuardsCounted == active = Cardinality(guards)

\* The ephemeral store is never revoked or removed under a guard: no put is in
\* flight and no published pin is alive once cleanup has started.
NoCleanupUnderGuard == cleanupStarted => guards = {}

\* Every published pin of a reachable session is backed by the store and listed
\* in its session's allowed digests, so a Read or Has of it is answered.
PinsAreBacked ==
    \A c \in Cells : cell[c] = "set" => value[c] \in blobs /\ value[c] \in allowed[c[1]]

\* Snapshot consistency (pin's contract): all tasks answered for one path of one
\* session report the digest its cell froze, whatever happened to the file.
AnswersAgree ==
    \A t \in Tasks : task[t].pc = "done" =>
        cell[task[t].on] = "set" /\ task[t].digest = value[task[t].on]

\* The inductive invariant behind the safety properties of pins and owner.
PinInv ==
    /\ TypeOK
    /\ TaskShape
    /\ OwnerConsistent
    /\ GuardHolders
    /\ SingleFlight
    /\ GuardsCounted
    /\ NoCleanupUnderGuard
    /\ PinsAreBacked
    /\ AnswersAgree

\* A frozen pin is never replaced by a later read of an edited file.
PinsAreFrozen == [][\A c \in Cells : cell[c] = "set" => value'[c] = value[c]]_vars

\* Graceful shutdown always ends, and only after the store's removal was decided:
\* every guard is dropped, also those of puts orphaned by a cancelled request, and
\* the last drop starts the cleanup that wait_for_cleanup waits for.
DaemonStops == stage = "stopping" ~> stage = "exited"
============================================================================
