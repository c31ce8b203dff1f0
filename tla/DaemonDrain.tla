------------------------------ MODULE DaemonDrain ------------------------------
(***************************************************************************)
(* How the daemon stops (agent/src/session_registry.rs, DaemonTaskScope;   *)
(* agent/src/intake.rs, hold_eof_until_submission_is_safe; agent/src/run.rs,*)
(* supervise_daemon_servers_until_shutdown).                               *)
(*                                                                         *)
(* Each submission is an RPC handler that registers a drain task, an inner *)
(* task that runs the action, and a holder that keeps the launcher's       *)
(* stream open until the submission's phase is safe.  Requests are the     *)
(* data plane's cancel tasks.  A launcher whose stream ends without an     *)
(* exit event runs the command itself, so the stream must not end early.   *)
(* What a local run does to its phase is what SubmissionPhase promises and *)
(* LocalJob implements.                                                    *)
(***************************************************************************)
CONSTANTS Subs, Requests

ASSUME TasksDisjoint == Subs \cap Requests = {}

VARIABLES
    daemon,   \* "serving", "flagged", "closed", "draining", "forced",
              \* "drained", "stopped"
    handler,  \* submission -> "idle", "token", "admitted", "spawned", "refused"
    inner,    \* submission -> "none", "dispatch", "local", "post", "emit",
              \* "done", "failed"
    holder,   \* submission -> "none", "select", "join", "abort", "wait", "done"
    phase,    \* submission -> SubmissionDeadline.phase
    tree,     \* submission -> its local process tree
    forced,   \* submissions whose force token is cancelled
    known,    \* submissions in DaemonTaskScope.submissions
    sent,     \* submissions whose exit event was sent
    request   \* request -> "idle", "token", "running", "refused", "done"

taskVars == <<handler, inner, holder>>
localVars == <<phase, tree>>
vars == <<daemon, taskVars, localVars, forced, known, sent, request>>

P(s) == INSTANCE SubmissionPhase WITH phase <- phase[s], tree <- tree[s]

\* Mutation: the task takes its token when it is spawned.
MutTracked(s) == handler[s] = "spawned" /\ holder[s] # "done"

(* The tasks a tracker counts: a token is taken before the task is spawned *)
(* and dropped when the task ends.                                         *)
Tracked(s) == \/ handler[s] \in {"token", "admitted"}
              \/ handler[s] = "spawned" /\ holder[s] # "done"
TrackedRequest(r) == request[r] \in {"token", "running"}

ShuttingDown == daemon # "serving"

Init ==
    /\ daemon = "serving"
    /\ handler = [s \in Subs |-> "idle"]
    /\ inner = [s \in Subs |-> "none"]
    /\ holder = [s \in Subs |-> "none"]
    /\ phase = [s \in Subs |-> "Idle"]
    /\ tree = [s \in Subs |-> "none"]
    /\ forced = {} /\ known = {} /\ sent = {}
    /\ request = [r \in Requests |-> "idle"]

-----------------------------------------------------------------------------
(* submit_action and spawn_drain: the tracker token first, then the check  *)
(* of shutting_down, then registration and the spawn.                      *)

TakeToken(s) ==
    /\ handler[s] = "idle" /\ daemon # "stopped"
    /\ handler' = [handler EXCEPT ![s] = "token"]
    /\ UNCHANGED <<daemon, inner, holder, localVars, forced, known, sent, request>>

Admits == ~ShuttingDown

CheckOpen(s) ==
    /\ handler[s] = "token"
    /\ handler' = [handler EXCEPT ![s] = IF Admits THEN "admitted" ELSE "refused"]
    /\ UNCHANGED <<daemon, inner, holder, localVars, forced, known, sent, request>>

Spawn(s) ==
    /\ handler[s] = "admitted"
    /\ handler' = [handler EXCEPT ![s] = "spawned"]
    /\ inner' = [inner EXCEPT ![s] = "dispatch"]
    /\ holder' = [holder EXCEPT ![s] = "select"]
    /\ known' = known \cup {s}
    /\ UNCHANGED <<daemon, localVars, forced, sent, request>>

(* spawn_cancel: a data-plane request, and its end or its cancellation.    *)
RequestToken(r) ==
    /\ request[r] = "idle" /\ daemon # "stopped"
    /\ request' = [request EXCEPT ![r] = "token"]
    /\ UNCHANGED <<daemon, taskVars, localVars, forced, known, sent>>

RequestCheck(r) ==
    /\ request[r] = "token"
    /\ request' = [request EXCEPT ![r] = IF Admits THEN "running" ELSE "refused"]
    /\ UNCHANGED <<daemon, taskVars, localVars, forced, known, sent>>

RequestEnds(r) ==
    /\ request[r] = "running"
    /\ request' = [request EXCEPT ![r] = "done"]
    /\ UNCHANGED <<daemon, taskVars, localVars, forced, known, sent>>

-----------------------------------------------------------------------------
(* The inner task: run_submission.                                         *)

RemoteReturns(s) ==
    /\ inner[s] = "dispatch"
    /\ inner' = [inner EXCEPT ![s] = "post"]
    /\ UNCHANGED <<daemon, handler, holder, localVars, forced, known, sent, request>>

(* try_begin_setup, whose failure makes the local run return at once.      *)
BeginLocal(s) ==
    /\ inner[s] = "dispatch"
    /\ IF phase[s] = "Idle"
       THEN /\ phase' = [phase EXCEPT ![s] = "SettingUp"]
            /\ inner' = [inner EXCEPT ![s] = "local"]
       ELSE inner' = [inner EXCEPT ![s] = "post"] /\ UNCHANGED phase
    /\ UNCHANGED <<daemon, handler, holder, tree, forced, known, sent, request>>

(* The local run returns with a terminal phase; or it leaves early, on a   *)
(* handle it cannot read while setting up or an await of the child that    *)
(* failed, and the dropped guardian still has the tree to reap.            *)
LocalReturns(s) ==
    /\ inner[s] = "local" /\ P(s)!is_terminal(phase[s])
    /\ inner' = [inner EXCEPT ![s] = "post"]
    /\ UNCHANGED <<daemon, handler, holder, localVars, forced, known, sent, request>>

WaitFails(s) ==
    /\ inner[s] = "local" /\ phase[s] \in {"SettingUp", "Active"} /\ tree[s] # "none"
    /\ inner' = [inner EXCEPT ![s] = "post"]
    /\ UNCHANGED <<daemon, handler, holder, localVars, forced, known, sent, request>>

\* Mutation: only a failed force keeps the exit event back.
MutMayEmit(s) == phase[s] # "ForceFailed"

MayEmit(s) == phase[s] \in {"Idle", "NaturalReaped"}

CheckPhase(s) ==
    /\ inner[s] = "post"
    /\ inner' = [inner EXCEPT ![s] = IF MayEmit(s) THEN "emit" ELSE "done"]
    /\ UNCHANGED <<daemon, handler, holder, localVars, forced, known, sent, request>>

emit_outcome(s) ==
    /\ inner[s] = "emit"
    /\ sent' = sent \cup {s}
    /\ inner' = [inner EXCEPT ![s] = "done"]
    /\ UNCHANGED <<daemon, handler, holder, localVars, forced, known, request>>

InnerRuns(s) == inner[s] \in {"dispatch", "local", "post", "emit"}

InnerPanics(s) ==
    /\ InnerRuns(s)
    /\ inner' = [inner EXCEPT ![s] = "failed"]
    /\ UNCHANGED <<daemon, handler, holder, localVars, forced, known, sent, request>>

-----------------------------------------------------------------------------
(* The local process tree of s, as LocalJob leaves it to be seen.  The     *)
(* guardian is forced by the drain, and dropped when `inner' is no longer  *)
(* awaiting it.                                                            *)

Publish(s, from, to) ==
    /\ phase[s] \in from
    /\ phase' = [phase EXCEPT ![s] = to]
    /\ UNCHANGED <<daemon, taskVars, tree, forced, known, sent, request>>

TreeStarts(s) ==
    /\ phase[s] = "SettingUp" /\ tree[s] = "none" /\ inner[s] = "local"
    /\ tree' = [tree EXCEPT ![s] = "live"]
    /\ UNCHANGED <<daemon, taskVars, phase, forced, known, sent, request>>

TreeEnds(s) ==
    /\ tree[s] = "live"
    /\ tree' = [tree EXCEPT ![s] = "dead"]
    /\ UNCHANGED <<daemon, taskVars, phase, forced, known, sent, request>>

publish_active(s) ==
    inner[s] = "local" /\ tree[s] # "none" /\ Publish(s, {"SettingUp"}, "Active")

try_begin_terminating(s) ==
    \/ Publish(s, {"SettingUp"}, "Terminating")
    \/ (s \in forced \/ inner[s] # "local") /\ Publish(s, {"Active"}, "Terminating")

publish_natural_reaped(s) ==
    inner[s] = "local" /\ Publish(s, {"Active"}, "NaturalReaped")

PublishReaped(s) ==
    /\ tree[s] # "live"
    /\ \/ Publish(s, {"SettingUp", "Terminating"}, "RetrySafeReaped")
       \/ Publish(s, {"Terminating"}, "ForcedReaped")

publish_force_failed(s) == Publish(s, {"SettingUp", "Terminating", "Active"}, "ForceFailed")

-----------------------------------------------------------------------------
(* hold_eof_until_submission_is_safe.                                      *)

\* Mutation: the phase is overwritten without looking at it.
MutSettled(s) == IF inner[s] = "failed"
                 THEN [phase EXCEPT ![s] = "AbortedNoChild"] ELSE phase

(* The inner task's join handle is looked at first.  A task that failed    *)
(* before any local run is marked, so that the stream may end.             *)
Settled(s) == IF inner[s] = "failed" /\ phase[s] = "Idle"
              THEN [phase EXCEPT ![s] = "AbortedNoChild"] ELSE phase

InnerEnded(s) == inner[s] \in {"done", "failed"}

HolderJoins(s) ==
    /\ holder[s] \in {"select", "join", "abort"} /\ InnerEnded(s)
    /\ holder' = [holder EXCEPT ![s] = "wait"]
    /\ phase' = Settled(s)
    /\ UNCHANGED <<daemon, handler, inner, tree, forced, known, sent, request>>

\* Mutation: a forced holder only waits.
MutHolderForced(s) ==
    /\ holder[s] = "select" /\ s \in forced /\ ~InnerEnded(s)
    /\ holder' = [holder EXCEPT ![s] = "join"]
    /\ UNCHANGED <<daemon, handler, inner, localVars, forced, known, sent, request>>

HolderForced(s) ==
    /\ holder[s] = "select" /\ s \in forced /\ ~InnerEnded(s)
    /\ IF phase[s] = "Idle"
       THEN /\ phase' = [phase EXCEPT ![s] = "AbortedNoChild"]
            /\ holder' = [holder EXCEPT ![s] = "abort"]
       ELSE holder' = [holder EXCEPT ![s] = "join"] /\ UNCHANGED phase
    /\ UNCHANGED <<daemon, handler, inner, tree, forced, known, sent, request>>

(* The aborted task stops at its next await.                               *)
InnerAborted(s) ==
    /\ holder[s] = "abort" /\ InnerRuns(s)
    /\ inner' = [inner EXCEPT ![s] = "failed"]
    /\ UNCHANGED <<daemon, handler, holder, localVars, forced, known, sent, request>>

\* Mutation: a failed force ends the stream like any terminal phase.
MutSafeToEnd(s) == phase[s] \in {"Idle", "NaturalReaped", "RetrySafeReaped",
                                 "ForcedReaped", "ForceFailed", "AbortedNoChild"}

(* wait_for_safe_submission_terminal: ForceFailed holds the stream for     *)
(* ever.                                                                   *)
SafeToEnd(s) == phase[s] \in {"Idle", "NaturalReaped", "RetrySafeReaped",
                              "ForcedReaped", "AbortedNoChild"}

HolderReleases(s) ==
    /\ holder[s] = "wait" /\ SafeToEnd(s)
    /\ holder' = [holder EXCEPT ![s] = "done"]
    /\ UNCHANGED <<daemon, handler, inner, localVars, forced, known, sent, request>>

-----------------------------------------------------------------------------
(* supervise_daemon_servers_until_shutdown, from the shutdown request or   *)
(* the exit of a server on.                                                *)

DaemonMoves(from, to) == daemon = from /\ daemon' = to

(* begin_shutdown sets the flag, then cancels and closes the trackers.     *)
SetFlag ==
    /\ DaemonMoves("serving", "flagged")
    /\ UNCHANGED <<taskVars, localVars, forced, known, sent, request>>

CloseTrackers ==
    /\ DaemonMoves("flagged", "closed")
    /\ UNCHANGED <<taskVars, localVars, forced, known, sent, request>>

(* abort_and_drain of the servers, then wait_cancel.                       *)
WaitCancel ==
    /\ DaemonMoves("closed", "draining")
    /\ \A r \in Requests : ~TrackedRequest(r)
    /\ UNCHANGED <<taskVars, localVars, forced, known, sent, request>>

WaitDrain ==
    /\ DaemonMoves("draining", "drained") \/ DaemonMoves("forced", "drained")
    /\ \A s \in Subs : ~Tracked(s)
    /\ UNCHANGED <<taskVars, localVars, forced, known, sent, request>>

(* The 120 s of drain_until pass.  A handler takes a moment, not minutes,  *)
(* between its token and its registration, so none is in between.          *)
request_force_all ==
    /\ DaemonMoves("draining", "forced")
    /\ \A s \in Subs : handler[s] \notin {"token", "admitted"}
    /\ forced' = forced \cup known
    /\ UNCHANGED <<taskVars, localVars, known, sent, request>>

(* The intake server ends when its open streams have.                      *)
IntakeEnds ==
    /\ DaemonMoves("drained", "stopped")
    /\ \A s \in Subs : ~Tracked(s)
    /\ UNCHANGED <<taskVars, localVars, forced, known, sent, request>>

-----------------------------------------------------------------------------
HandlerStep(s) == TakeToken(s) \/ CheckOpen(s) \/ Spawn(s)

RequestStep(r) == RequestToken(r) \/ RequestCheck(r) \/ RequestEnds(r)

InnerStep(s) == \/ RemoteReturns(s) \/ BeginLocal(s) \/ LocalReturns(s)
                \/ WaitFails(s) \/ CheckPhase(s) \/ emit_outcome(s)
                \/ InnerPanics(s)

(* What the guardian does by itself: set up, and end what it must end.     *)
GuardianStep(s) == \/ TreeStarts(s) \/ publish_active(s)
                   \/ try_begin_terminating(s) \/ PublishReaped(s)
                   \/ phase[s] = "Terminating" /\ TreeEnds(s)

LocalStep(s) == \/ GuardianStep(s) \/ TreeEnds(s)
                \/ publish_natural_reaped(s) \/ publish_force_failed(s)

HolderStep(s) == \/ HolderJoins(s) \/ HolderForced(s) \/ InnerAborted(s)
                 \/ HolderReleases(s)

DaemonStep == \/ CloseTrackers \/ WaitCancel \/ WaitDrain \/ request_force_all
              \/ IntakeEnds

Next ==
    \/ \E s \in Subs : HandlerStep(s) \/ InnerStep(s) \/ LocalStep(s) \/ HolderStep(s)
    \/ \E r \in Requests : RequestStep(r)
    \/ SetFlag \/ DaemonStep

(* Handlers, holders, cancelled requests and the supervisor are scheduled; *)
(* a forced or dropped guardian reaps (LocalJob's ForceSettles); a task    *)
(* that has its outcome reports it.  Neither a remote attempt nor a local  *)
(* command is assumed to end by itself, and shutdown may never come.       *)
Fairness ==
    /\ \A s \in Subs :
          /\ WF_vars(CheckOpen(s) \/ Spawn(s)) /\ WF_vars(HolderStep(s))
          /\ WF_vars(GuardianStep(s))
          /\ WF_vars(LocalReturns(s) \/ CheckPhase(s) \/ emit_outcome(s))
    /\ \A r \in Requests : WF_vars(RequestCheck(r) \/ RequestEnds(r))
    /\ WF_vars(DaemonStep)

Spec == Init /\ [][Next]_vars /\ Fairness

-----------------------------------------------------------------------------
TypeOK ==
    /\ daemon \in {"serving", "flagged", "closed", "draining", "forced",
                   "drained", "stopped"}
    /\ handler \in [Subs -> {"idle", "token", "admitted", "spawned", "refused"}]
    /\ inner \in [Subs -> {"none", "dispatch", "local", "post", "emit", "done", "failed"}]
    /\ holder \in [Subs -> {"none", "select", "join", "abort", "wait", "done"}]
    /\ phase \in [Subs -> {"Idle", "SettingUp", "Active", "Terminating",
                           "NaturalReaped", "RetrySafeReaped", "ForcedReaped",
                           "ForceFailed", "AbortedNoChild"}]
    /\ tree \in [Subs -> {"none", "live", "dead"}]
    /\ request \in [Requests -> {"idle", "token", "running", "refused", "done"}]
    /\ forced \subseteq Subs /\ sent \subseteq Subs
    /\ known = {s \in Subs : handler[s] = "spawned"}

(* What ties the tasks, the phase and the tree of one submission together. *)
SubInv(s) ==
    /\ handler[s] # "spawned" => /\ inner[s] = "none" /\ holder[s] = "none"
                                 /\ phase[s] = "Idle"
    /\ handler[s] = "spawned" => inner[s] # "none" /\ holder[s] # "none"
    /\ holder[s] \in {"wait", "done"} => inner[s] \in {"done", "failed"}
    /\ holder[s] = "done" => phase[s] \in {"Idle", "NaturalReaped", "RetrySafeReaped",
                                           "ForcedReaped", "AbortedNoChild"}
    /\ phase[s] \in {"Idle", "AbortedNoChild"} => tree[s] = "none"
    /\ phase[s] \in {"RetrySafeReaped", "ForcedReaped"} => tree[s] # "live"
    /\ inner[s] = "emit" \/ s \in sent =>
          phase[s] \in {"Idle", "NaturalReaped", "AbortedNoChild"}
    /\ s \in sent => inner[s] = "done"

(* Where the two trackers stand once they have been waited for.            *)
DaemonInv ==
    /\ daemon \in {"draining", "forced", "drained", "stopped"} =>
          \A r \in Requests : request[r] # "running"
    /\ daemon \in {"drained", "stopped"} =>
          \A s \in Subs : /\ handler[s] # "admitted"
                          /\ handler[s] = "spawned" => holder[s] = "done"

(* The inductive invariant behind the three safety properties below: a     *)
(* stream is released only over an ended task and a safe phase, and a      *)
(* drained tracker stays empty because later tasks are refused.            *)
DrainInv == TypeOK /\ DaemonInv /\ \A s \in Subs : SubInv(s)

(* Once wait_cancel has returned, no data-plane request runs; once         *)
(* wait_drain has returned, no submission runs and no local tree is still  *)
(* being started, used or ended.  What follows in run_daemon (releasing    *)
(* the sessions, removing the ephemeral store) therefore has no rival.     *)
QuietAfterDrain ==
    /\ daemon \in {"draining", "forced", "drained", "stopped"} =>
          \A r \in Requests : request[r] # "running"
    /\ daemon \in {"drained", "stopped"} =>
          \A s \in Subs :
             ~InnerRuns(s) /\ phase[s] \notin {"SettingUp", "Active", "Terminating", "ForceFailed"}

(* The launcher of s has seen its stream end without an exit event, so it  *)
(* runs the command itself (submit_with_transport).                        *)
Retries(s) == handler[s] = "spawned" /\ holder[s] = "done" /\ s \notin sent

(* A launcher repeats a command only when no process the daemon started    *)
(* for it is alive; after a natural end, descendants that the command      *)
(* detached may be.                                                        *)
RetryIsSafe ==
    \A s \in Subs : Retries(s) => tree[s] # "live" \/ phase[s] = "NaturalReaped"

(* An exit event is sent only for a run that was not stopped: the phase    *)
(* never shows, before or after, that the tree was forced or rolled back.  *)
ExitIsEarned ==
    \A s \in Subs : s \in sent => phase[s] \in {"Idle", "NaturalReaped", "AbortedNoChild"}

(* The daemon uses the phase as SubmissionPhase says: no holder and no     *)
(* guardian overwrites what the other has published.                       *)
PhasesFollow ==
    [][\A s \in Subs : P(s)!PhaseNext \/ UNCHANGED <<phase[s], tree[s]>>]_localVars

(* A shutdown ends, or some tree could not be killed and its submission    *)
(* holds the stream of its launcher open on purpose.                       *)
ShutdownCompletes ==
    ShuttingDown ~> (daemon = "stopped" \/ \E s \in Subs : phase[s] = "ForceFailed")
====
