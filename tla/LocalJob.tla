------------------------------- MODULE LocalJob -------------------------------
(***************************************************************************)
(* The local process guardian (agent/src/lib.rs, mod local_job): one       *)
(* command is run as a process tree inside a Windows Job object, a monitor *)
(* thread counts the tree's processes from the Job's completion packets,   *)
(* and whoever ends the tree audits that count before it publishes the     *)
(* submission's phase.                                                     *)
(*                                                                         *)
(* run_inner and the thread that consumes the guardian's handles never run *)
(* at the same time (the handles are taken once), so both are one control  *)
(* point, `pc'.  The monitor thread, the processes of the tree, the        *)
(* daemon's force request and the operating system interleave with it.     *)
(***************************************************************************)
EXTENDS Naturals, Sequences, FiniteSets

CONSTANTS Procs,          \* process objects, Top among them
          Top,            \* the process run_inner spawns
          Barrier,        \* the OWNER_BARRIER packet
          Worlds          \* what the operating system may do to a run:
    \* pid   Procs -> pids; two processes may share one
    \* lost  NEW_PROCESS packets the Job may drop
    \* dup   NEW_PROCESS packets the Job may deliver twice
    \* fail  may ending or awaiting a process fail?

ASSUME ProcsAssumption ==
    IsFiniteSet(Procs) /\ Top \in Procs /\ Barrier \notin Procs
(* A run loses packets or repeats some, never both: a repeated packet of a *)
(* process whose retained handle is signalled is counted again, which      *)
(* would make up for a lost one.                                           *)
ASSUME WorldsAssumption ==
    \A w \in Worlds :
        /\ DOMAIN w.pid = Procs
        /\ \A p \in Procs \ {Top} : w.pid[p] # w.pid[Top]
        /\ w.lost \in Nat /\ w.dup \in Nat /\ w.fail \in BOOLEAN
        /\ w.lost = 0 \/ w.dup = 0

VARIABLES
    world,    \* the world of this run, chosen once
    phase,    \* SubmissionDeadline.phase
    force,    \* SubmissionDeadline.force is cancelled
    pc,       \* control point of run_inner, then of the guardian's consumer
    goal,     \* what the consumer publishes: "rollback", "forced", "natural"
    prev,     \* audit_until_stable's previous_candidate
    snap,     \* its MonitorSnapshot of this round
    job,      \* the Job: "none", "armed", "disarmed", and once its handle is
              \* closed, "closed" or (disarmed before) "released"
    inJob,    \* processes ever assigned to the Job (TotalProcesses)
    proc,     \* each process: "none", "suspended", "running", "exiting", "dead"
    queue,    \* the completion port
    lost, dup,
    monitor,  \* the monitor thread: "none", "up", "erred" (first_error), "down"
    seed,     \* "no", "ready", "aborted"
    topNew,   \* top_new_pending
    held,     \* processes with a Retained occurrence
    gone,     \* pids with a ConfirmedGone occurrence
    unique    \* unique_occurrences

deadlineVars == <<phase, force>>
ownerVars == <<pc, goal, prev, snap>>
osVars == <<world, job, inJob, proc, lost, dup>>
monitorVars == <<monitor, seed, topNew, held, gone, unique>>
vars == <<deadlineVars, ownerVars, osVars, queue, monitorVars>>

NoCounts == <<>>   \* previous_candidate = None

Live(p) == proc[p] \in {"suspended", "running", "exiting"}
Tree == IF \E p \in Procs : Live(p) THEN "live"
        ELSE IF proc[Top] = "none" THEN "none" ELSE "dead"

(* The phase automaton this component drives.                              *)
P == INSTANCE SubmissionPhase WITH tree <- Tree

ActiveProcesses == {p \in inJob : proc[p] \in {"suspended", "running"}}

Pid == world.pid
MaxLost == world.lost
MaxDup == world.dup
HandleCallsMayFail == world.fail

(* A process object exists while it runs or while a handle holds it, and   *)
(* only then can its pid be opened.                                        *)
Exists(p) == Live(p) \/ p \in held

Init ==
    /\ world \in Worlds
    /\ phase = "Idle" /\ force = FALSE
    /\ pc = "start" /\ goal = "rollback" /\ prev = NoCounts /\ snap = [unique |-> 0, signaled |-> FALSE]
    /\ job = "none" /\ inJob = {} /\ proc = [p \in Procs |-> "none"]
    /\ lost = 0 /\ dup = 0
    /\ queue = <<>>
    /\ monitor = "none" /\ seed = "no" /\ topNew = FALSE
    /\ held = {} /\ gone = {} /\ unique = 0

Kill(S) == [p \in Procs |-> IF p \in S /\ proc[p] \in {"suspended", "running"}
                            THEN "exiting" ELSE proc[p]]

(* Assigning p to the Job posts NEW_PROCESS; the Job may drop or repeat it. *)
Join(p) ==
    /\ inJob' = inJob \cup {p}
    /\ \/ queue' = Append(queue, p) /\ UNCHANGED <<lost, dup>>
       \/ lost < MaxLost /\ lost' = lost + 1 /\ UNCHANGED <<queue, dup>>
       \/ dup < MaxDup /\ dup' = dup + 1 /\ queue' = queue \o <<p, p>>
          /\ UNCHANGED lost

-----------------------------------------------------------------------------
(* The tree itself.                                                        *)

SpawnChild(p) ==
    /\ job \in {"armed", "disarmed"}
    /\ \E q \in inJob : proc[q] = "running"
    /\ proc[p] = "none" /\ p # Top
    /\ \A q \in Procs \ {p} : Pid[q] = Pid[p] => ~Exists(q)
    /\ proc' = [proc EXCEPT ![p] = "running"]
    /\ Join(p)
    /\ UNCHANGED <<world, deadlineVars, ownerVars, job, monitorVars>>

(* A process leaves the Job's active count before its handle is signalled. *)
ExitProcess(p) ==
    /\ proc[p] = "running"
    /\ proc' = [proc EXCEPT ![p] = "exiting"]
    /\ UNCHANGED <<world, deadlineVars, ownerVars, job, inJob, lost, dup, queue, monitorVars>>

SignalProcess(p) ==
    /\ proc[p] = "exiting"
    /\ proc' = [proc EXCEPT ![p] = "dead"]
    /\ UNCHANGED <<world, deadlineVars, ownerVars, job, inJob, lost, dup, queue, monitorVars>>

(* The daemon's drain deadline, and its abort of a submission that has not *)
(* reached its local run.                                                  *)
request_force ==
    /\ ~force /\ force' = TRUE
    /\ UNCHANGED <<phase, ownerVars, osVars, queue, monitorVars>>

try_abort_no_child ==
    /\ force /\ phase = "Idle" /\ phase' = "AbortedNoChild"
    /\ UNCHANGED <<force, ownerVars, osVars, queue, monitorVars>>
-----------------------------------------------------------------------------
(* The monitor thread.                                                     *)

MonitorUp == monitor \in {"up", "erred"}

(* What monitor_new_process does with the pid of one NEW_PROCESS packet,   *)
(* once the top process is seeded.  `owner' is the process of the Job that *)
(* OpenProcess finds behind the pid; when there is none, the pid is free or *)
(* belongs to a stranger, and both are recorded as ConfirmedGone.          *)
Occurrence(pid) ==
    LET owner == {q \in inJob : Pid[q] = pid /\ Exists(q)}
        known == pid \in gone \/ \E q \in held : Pid[q] = pid
    IN  \/ /\ topNew /\ pid = Pid[Top]
           /\ topNew' = FALSE
           /\ UNCHANGED <<held, gone, unique>>
        \/ /\ ~(topNew /\ pid = Pid[Top])
           /\ \/ /\ owner = {} /\ known
                 /\ UNCHANGED <<held, gone, unique>>
              \/ /\ owner = {} /\ ~known
                 /\ gone' = gone \cup {pid} /\ unique' = unique + 1
                 /\ UNCHANGED held
              \/ /\ \E q \in held : Pid[q] = pid /\ proc[q] # "dead"
                 /\ UNCHANGED <<held, gone, unique>>
              \/ /\ owner # {}
                 /\ ~\E q \in held : Pid[q] = pid /\ proc[q] # "dead"
                 /\ held' = held \cup owner /\ unique' = unique + 1
                 /\ UNCHANGED gone
           /\ UNCHANGED topNew

monitor_new_process ==
    /\ MonitorUp /\ queue # <<>> /\ Head(queue) # Barrier
    /\ seed # "no"
    /\ queue' = Tail(queue)
    /\ \/ seed = "ready" /\ Occurrence(Pid[Head(queue)]) /\ UNCHANGED monitor
       \* the seed was aborted, or a process call failed: record_error
       \/ monitor' = "erred" /\ UNCHANGED <<topNew, held, gone, unique>>
    /\ UNCHANGED <<deadlineVars, ownerVars, osVars, seed>>

AckBarrier ==
    /\ MonitorUp /\ queue # <<>> /\ Head(queue) = Barrier
    /\ queue' = Tail(queue)
    /\ UNCHANGED <<deadlineVars, ownerVars, osVars, monitorVars>>

(* GetQueuedCompletionStatus fails or the thread panics: record_error and  *)
(* mark_terminal.                                                          *)
MonitorDies ==
    /\ MonitorUp /\ monitor' = "down"
    /\ UNCHANGED <<deadlineVars, ownerVars, osVars, queue, seed, topNew, held, gone, unique>>

-----------------------------------------------------------------------------
(* run_inner up to the running child.                                      *)

try_begin_setup ==
    /\ pc = "start"
    /\ \/ phase = "Idle" /\ phase' = "SettingUp" /\ pc' = "setup"
       \/ phase # "Idle" /\ pc' = "done" /\ UNCHANGED phase
    /\ UNCHANGED <<force, goal, prev, snap, osVars, queue, monitorVars>>

(* create_job, create_port_and_associate and start_monitor.  A failure     *)
(* drops what was created, with nothing in the Job.                        *)
CreateJob ==
    /\ pc = "setup"
    /\ \/ job' = "armed" /\ monitor' = "up" /\ pc' = "spawn" /\ UNCHANGED phase
       \/ phase' = "RetrySafeReaped" /\ pc' = "done" /\ UNCHANGED <<job, monitor>>
    /\ UNCHANGED <<world, force, goal, prev, snap, inJob, proc, lost, dup, queue,
                   seed, topNew, held, gone, unique>>

(* close_after_monitor: the occurrences and the handles go.  Closing an    *)
(* armed Job kills what is left in it.                                     *)
CloseHandles ==
    /\ held' = {} /\ gone' = {} /\ monitor' = "down"
    /\ job' = IF job = "disarmed" THEN "released" ELSE "closed"
    /\ proc' = IF job = "armed" THEN Kill(inJob) ELSE proc

(* The child is created suspended, or spawning it fails.                   *)
SpawnTop ==
    /\ pc = "spawn"
    /\ \/ /\ proc' = [proc EXCEPT ![Top] = "suspended"] /\ pc' = "duplicate"
          /\ UNCHANGED <<phase, job, monitor, held, gone>>
       \/ CloseHandles /\ phase' = "RetrySafeReaped" /\ pc' = "done"
    /\ UNCHANGED <<world, force, goal, prev, snap, inJob, lost, dup, queue,
                   seed, topNew, unique>>

DuplicateProcess ==
    /\ pc = "duplicate"
    /\ \/ pc' = "assign" /\ UNCHANGED proc
       \/ pc' = "undo" /\ proc' = Kill({Top})
       \/ HandleCallsMayFail /\ pc' = "undo" /\ UNCHANGED proc
    /\ UNCHANGED <<world, deadlineVars, goal, prev, snap, job, inJob, lost, dup, queue,
                   monitorVars>>

(* terminate_and_wait after DuplicateHandle failed: the wait succeeds only *)
(* on a dead child.                                                        *)
UndoSpawn ==
    /\ pc = "undo"
    /\ \/ proc[Top] = "dead" /\ phase' = "RetrySafeReaped"
       \/ HandleCallsMayFail /\ phase' = "ForceFailed"
    /\ CloseHandles
    /\ pc' = "done"
    /\ UNCHANGED <<world, force, goal, prev, snap, inJob, lost, dup, queue, seed,
                   topNew, unique>>

(* Where the guardian is told to roll back: by force_reap(true), or by its *)
(* own drop, which finds the phase SettingUp.                              *)
RollBack == pc' = "reap" /\ goal' = "rollback"

AssignProcess ==
    /\ pc = "assign"
    /\ \/ Join(Top) /\ pc' = "seed" /\ UNCHANGED goal
       \/ RollBack /\ UNCHANGED <<inJob, lost, dup, queue>>
    /\ UNCHANGED <<world, deadlineVars, prev, snap, job, proc, monitorVars>>

seed_top ==
    /\ pc = "seed"
    /\ \/ /\ seed' = "ready" /\ topNew' = TRUE
          /\ held' = held \cup {Top} /\ unique' = unique + 1
          /\ pc' = "resume"
          /\ UNCHANGED <<goal, monitor>>
       \* seed_top_occurrence fails: abort_seed
       \/ /\ RollBack /\ seed' = "aborted"
          /\ monitor' = IF monitor = "up" THEN "erred" ELSE monitor
          /\ UNCHANGED <<topNew, held, unique>>
       \* child.pid() fails: the guardian is dropped with the seed pending
       \/ RollBack /\ UNCHANGED <<seed, topNew, held, unique, monitor>>
    /\ UNCHANGED <<deadlineVars, prev, snap, osVars, queue, gone>>

Resume ==
    /\ pc = "resume"
    /\ \/ /\ proc' = [proc EXCEPT ![Top] = IF @ = "suspended" THEN "running" ELSE @]
          /\ pc' = "resumed" /\ UNCHANGED goal
       \/ RollBack /\ UNCHANGED proc
    /\ UNCHANGED <<world, deadlineVars, prev, snap, job, inJob, lost, dup, queue, monitorVars>>

(* Nothing else leaves SettingUp, so the compare-exchange succeeds.        *)
publish_active ==
    /\ pc = "resumed" /\ phase = "SettingUp"
    /\ phase' = "Active" /\ pc' = "active"
    /\ UNCHANGED <<force, goal, prev, snap, osVars, queue, monitorVars>>

-----------------------------------------------------------------------------
(* The end of the tree.                                                    *)

(* The biased select: force, then child.wait.  A failing wait drops the    *)
(* guardian, whose drop reaps by force as well.                            *)
SelectForce ==
    /\ pc = "active" /\ (force \/ HandleCallsMayFail)
    /\ pc' = "reap" /\ goal' = "forced"
    /\ UNCHANGED <<deadlineVars, prev, snap, osVars, queue, monitorVars>>

SelectExit ==
    /\ pc = "active" /\ ~force /\ proc[Top] = "dead"
    /\ pc' = "natural" /\ goal' = "natural"
    /\ UNCHANGED <<deadlineVars, prev, snap, osVars, queue, monitorVars>>

(* try_begin_terminating, then the handles go to                           *)
(* terminate_wait_audit_and_close.                                         *)
BeginTerminating ==
    /\ phase \in {"Active", "SettingUp"} /\ phase' = "Terminating"
    /\ pc' = "terminate"

Reap ==
    /\ pc = "reap" /\ BeginTerminating
    /\ UNCHANGED <<force, goal, prev, snap, osVars, queue, monitorVars>>

\* Mutation: the Job is disarmed before the force request is looked at.
MutFinishNatural ==
    /\ pc = "natural" /\ job' = "disarmed"
    /\ \/ force /\ BeginTerminating /\ goal' = "forced"
       \/ ~force /\ pc' = "stop" /\ UNCHANGED <<phase, goal>>
    /\ UNCHANGED <<world, force, prev, snap, inJob, proc, lost, dup, queue, monitorVars>>

(* finish_after_top_exit: a force request wins; otherwise the Job is       *)
(* disarmed, or, when that fails, the tree is audited.                     *)
FinishNatural ==
    /\ pc = "natural"
    /\ \/ force /\ BeginTerminating /\ goal' = "forced" /\ UNCHANGED job
       \/ ~force /\ job' = "disarmed" /\ pc' = "stop" /\ UNCHANGED <<phase, goal>>
       \/ ~force /\ pc' = "drain" /\ UNCHANGED <<phase, goal, job>>
    /\ UNCHANGED <<world, force, prev, snap, inJob, proc, lost, dup, queue, monitorVars>>

(* The drain loop, between two audits.                                     *)
DrainNatural ==
    /\ pc = "drain"
    /\ \/ force /\ BeginTerminating /\ goal' = "forced"
       \/ ~force /\ pc' = "audit" /\ UNCHANGED <<phase, goal>>
    /\ prev' = NoCounts
    /\ UNCHANGED <<force, snap, osVars, queue, monitorVars>>

\* Mutation: a failed natural audit forgets publish_force_failed.
MutQuarantine ==
    /\ phase' = (IF goal = "natural" THEN phase ELSE "ForceFailed") /\ pc' = "done"
    /\ monitor' = IF monitor = "up" THEN "erred" ELSE monitor

(* quarantine: the handles are leaked, so the Job stays armed until the    *)
(* daemon exits, and the phase becomes ForceFailed.                        *)
Quarantine ==
    /\ phase' = "ForceFailed" /\ pc' = "done"
    /\ monitor' = IF monitor = "up" THEN "erred" ELSE monitor

(* TerminateJobObject and TerminateProcess; one of the two must succeed.   *)
Terminate ==
    /\ pc = "terminate"
    /\ \/ /\ \E S \in {inJob \cup {Top}} \cup
                      (IF HandleCallsMayFail THEN {inJob, {Top}} ELSE {}) :
                 proc' = Kill(S)
          /\ pc' = "topwait"
          /\ UNCHANGED <<phase, monitor>>
       \/ HandleCallsMayFail /\ Quarantine /\ UNCHANGED proc
    /\ UNCHANGED <<world, force, goal, prev, snap, job, inJob, lost, dup, queue, seed,
                   topNew, held, gone, unique>>

WaitTop ==
    /\ pc = "topwait" /\ proc[Top] = "dead"
    /\ pc' = "audit" /\ prev' = NoCounts
    /\ UNCHANGED <<deadlineVars, goal, snap, osVars, queue, monitorVars>>

\* Mutation: the packet posted is the bare token.
MutPostBarrier ==
    /\ pc = "audit" /\ pc' = "barrier" /\ queue' = Append(queue, 0)
    /\ UNCHANGED <<deadlineVars, goal, prev, snap, osVars, monitorVars>>

(* One round of audit_until_stable.  The natural audit watches force.      *)
post_barrier ==
    /\ pc = "audit"
    /\ \/ goal = "natural" /\ force /\ pc' = "drain" /\ UNCHANGED queue
       \/ ~(goal = "natural" /\ force)
          /\ pc' = "barrier" /\ queue' = Append(queue, Barrier)
    /\ UNCHANGED <<deadlineVars, goal, prev, snap, osVars, monitorVars>>

BarrierAcked == \A i \in DOMAIN queue : queue[i] # Barrier

monitor_snapshot ==
    /\ pc = "barrier" /\ BarrierAcked
    /\ \/ /\ monitor = "up"
          /\ snap' = [unique |-> unique,
                      signaled |-> \A p \in held : proc[p] = "dead"]
          /\ pc' = "account"
          /\ UNCHANGED <<phase, monitor>>
       \/ monitor # "up" /\ Quarantine /\ UNCHANGED snap
    /\ UNCHANGED <<force, goal, prev, osVars, queue, seed, topNew, held, gone, unique>>

\* Mutation: the audit has no deadline.
MutAuditFails ==
    /\ pc = "stop" /\ job = "armed"
    /\ Quarantine
    /\ UNCHANGED <<force, goal, prev, snap, osVars, queue, seed, topNew, held,
                   gone, unique>>

(* The barrier cannot be posted, or is not acknowledged in time, a process *)
(* or accounting query fails, or the audit deadline passes.                *)
AuditFails ==
    /\ \/ pc \in {"barrier", "account", "stop"} /\ job = "armed"
       \/ pc = "topwait" /\ HandleCallsMayFail
    /\ Quarantine
    /\ UNCHANGED <<force, goal, prev, snap, osVars, queue, seed, topNew, held,
                   gone, unique>>

\* Mutation: the occurrences are not compared with TotalProcesses.
MutUncounted(s) == ActiveProcesses = {} /\ s.signaled

\* Mutation: the retained handles are not waited for.
MutUnsignaled(s) == ActiveProcesses = {} /\ s.unique = Cardinality(inJob)

Candidate(s) == ActiveProcesses = {} /\ s.unique = Cardinality(inJob)
                /\ s.signaled

(* Two rounds in a row with the same counts.                               *)
Stable(s) == Candidate(s) /\ prev = <<Cardinality(inJob), s.unique>>

query_accounting ==
    /\ pc = "account"
    /\ pc' = IF Stable(snap) THEN "stop" ELSE "audit"
    /\ prev' = IF Candidate(snap) THEN <<Cardinality(inJob), snap.unique>>
               ELSE NoCounts
    /\ UNCHANGED <<deadlineVars, goal, snap, osVars, queue, monitorVars>>

(* stop_monitor joins the thread once it has read everything before the    *)
(* stop packet; then the handles close and the phase is published.  When   *)
(* stopping fails after the Job is disarmed, quarantine_natural leaks the  *)
(* handles and still publishes the natural end.                            *)
MonitorStopped == queue = <<>> \/ monitor = "down"

PublishReaped ==
    phase' = CASE goal = "rollback" -> "RetrySafeReaped"
               [] goal = "forced" -> "ForcedReaped"
               [] goal = "natural" -> "NaturalReaped"

StopMonitor ==
    /\ pc = "stop"
    /\ \/ MonitorStopped /\ CloseHandles
       \/ job = "disarmed" /\ UNCHANGED <<held, gone, job, monitor, proc>>
    /\ PublishReaped
    /\ pc' = "done"
    /\ UNCHANGED <<world, force, goal, prev, snap, inJob, lost, dup, queue, seed,
                   topNew, unique>>

-----------------------------------------------------------------------------
TreeStep == \E p \in Procs : SpawnChild(p) \/ ExitProcess(p) \/ SignalProcess(p)

MonitorStep == monitor_new_process \/ AckBarrier

OwnerStep ==
    \/ try_begin_setup \/ CreateJob \/ SpawnTop \/ DuplicateProcess \/ UndoSpawn
    \/ AssignProcess \/ seed_top \/ Resume \/ publish_active
    \/ SelectForce \/ SelectExit \/ Reap \/ FinishNatural \/ DrainNatural
    \/ Terminate \/ WaitTop \/ post_barrier \/ monitor_snapshot
    \/ query_accounting \/ AuditFails \/ StopMonitor

Next == TreeStep \/ request_force \/ try_abort_no_child
        \/ MonitorStep \/ MonitorDies \/ OwnerStep

(* The threads are scheduled, an exiting process is signalled, and the     *)
(* audit's deadline passes.  Nothing makes a process exit by itself.       *)
Fairness ==
    /\ WF_vars(OwnerStep) /\ WF_vars(MonitorStep)
    /\ SF_vars(AuditFails)
    /\ \A p \in Procs : WF_vars(SignalProcess(p))

Spec == Init /\ [][Next]_vars /\ Fairness

-----------------------------------------------------------------------------
TypeOK ==
    /\ phase \in P!Phases /\ force \in BOOLEAN
    /\ goal \in {"rollback", "forced", "natural"}
    /\ job \in {"none", "armed", "disarmed", "closed", "released"}
    /\ inJob \subseteq Procs /\ held \subseteq Procs
    /\ proc \in [Procs -> {"none", "suspended", "running", "exiting", "dead"}]
    /\ queue \in Seq(Procs \cup {Barrier})
    /\ monitor \in {"none", "up", "erred", "down"}
    /\ seed \in {"no", "ready", "aborted"} /\ topNew \in BOOLEAN
    /\ unique \in Nat /\ lost \in 0..MaxLost /\ dup \in 0..MaxDup

(* The guardian implements the phase automaton: every step of it is one    *)
(* compare-exchange of SubmissionDeadline or leaves the phase alone, a     *)
(* terminal phase is final, and the phases that let the launcher repeat    *)
(* the command are published only over a tree in which every process       *)
(* object is signalled, whatever packets the Job delivered late, and       *)
(* whatever packets it lost or, in another run, repeated                   *)
(* (terminate_wait_audit_and_close, lib.rs).  A run that does both is      *)
(* excluded by WorldsAssumption: there the audit can be deceived.          *)
ImplementsPhase == P!PhaseSpec

(* A natural end is published only after the top process is signalled, and *)
(* when the Job could not be disarmed, only after the whole tree is.       *)
NaturalEndIsAudited ==
    phase = "NaturalReaped" =>
        /\ proc[Top] = "dead"
        /\ job = "closed" => \A p \in Procs : ~Live(p)

(* No process of the tree outlives its containment: while one is alive,    *)
(* the Job handle is open and armed (so the daemon's own end kills it),    *)
(* unless the top process ended by itself and no force request was obeyed. *)
NeverUncontained ==
    (\E p \in inJob : Live(p)) =>
        \/ job = "armed"
        \/ /\ job \in {"disarmed", "released"} /\ proc[Top] = "dead"
           /\ phase \in {"Active", "NaturalReaped"}

(* A force request is always answered: whatever the guardian was doing,    *)
(* and whatever the monitor does, the phase becomes terminal.  This needs  *)
(* a TerminateProcess that works.                                          *)
ForceSettles == force /\ ~HandleCallsMayFail ~> P!is_terminal(phase)

(* So is the exit of the top process: its submission is never left         *)
(* waiting for a monitor thread that cannot be joined.                     *)
ExitSettles == proc[Top] = "dead" /\ ~HandleCallsMayFail ~> P!is_terminal(phase)
====
