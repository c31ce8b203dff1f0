--------------------------- MODULE DaemonDrainProofs ---------------------------
(* Proofs that DaemonDrain's safety properties hold for any number of      *)
(* submissions and requests.                                               *)
EXTENDS DaemonDrain, TLAPS

LEMMA InitDrain == Init => DrainInv
  BY DEF Init, DrainInv, TypeOK, DaemonInv, SubInv

(* The RPC handlers.                                                       *)
LEMMA HandlerKeeps ==
    ASSUME DrainInv, NEW s \in Subs, HandlerStep(s)
    PROVE  DrainInv'
  <1>1. CASE TakeToken(s)
    BY <1>1 DEF TakeToken, DrainInv, TypeOK, DaemonInv, SubInv, localVars
  <1>2. CASE CheckOpen(s)
    BY <1>2 DEF CheckOpen, Admits, ShuttingDown, DrainInv, TypeOK, DaemonInv, SubInv, localVars
  <1>3. CASE Spawn(s)
    BY <1>3 DEF Spawn, DrainInv, TypeOK, DaemonInv, SubInv, localVars
  <1> QED BY <1>1, <1>2, <1>3 DEF HandlerStep

(* The data-plane requests. *)
LEMMA RequestKeeps ==
    ASSUME DrainInv, NEW r \in Requests, RequestStep(r)
    PROVE  DrainInv'
  <1>1. CASE RequestToken(r)
    BY <1>1 DEF RequestToken, DrainInv, TypeOK, DaemonInv, SubInv,
                 taskVars, localVars
  <1>2. CASE RequestCheck(r)
    BY <1>2 DEF RequestCheck, Admits, ShuttingDown, DrainInv, TypeOK, DaemonInv, SubInv,
                 taskVars, localVars
  <1>3. CASE RequestEnds(r)
    BY <1>3 DEF RequestEnds, DrainInv, TypeOK, DaemonInv, SubInv,
                 taskVars, localVars
  <1> QED BY <1>1, <1>2, <1>3 DEF RequestStep

(* The inner task. *)
LEMMA InnerKeeps ==
    ASSUME DrainInv, NEW s \in Subs, InnerStep(s)
    PROVE  DrainInv'
  <1>1. CASE RemoteReturns(s)
    BY <1>1 DEF RemoteReturns, DrainInv, TypeOK, DaemonInv, SubInv,
                 taskVars, localVars
  <1>2. CASE BeginLocal(s)
    BY <1>2 DEF BeginLocal, DrainInv, TypeOK, DaemonInv, SubInv,
                 taskVars, localVars
  <1>3. CASE LocalReturns(s)
    BY <1>3 DEF LocalReturns, DrainInv, TypeOK, DaemonInv, SubInv,
                 taskVars, localVars
  <1>4. CASE WaitFails(s)
    BY <1>4 DEF WaitFails, DrainInv, TypeOK, DaemonInv, SubInv,
                 taskVars, localVars
  <1>5. CASE CheckPhase(s)
    BY <1>5 DEF CheckPhase, MayEmit, DrainInv, TypeOK, DaemonInv, SubInv,
                 taskVars, localVars
  <1>6. CASE emit_outcome(s)
    BY <1>6 DEF emit_outcome, DrainInv, TypeOK, DaemonInv, SubInv,
                 taskVars, localVars
  <1>7. CASE InnerPanics(s)
    BY <1>7 DEF InnerPanics, InnerRuns, DrainInv, TypeOK, DaemonInv, SubInv,
                 taskVars, localVars
  <1> QED BY <1>1, <1>2, <1>3, <1>4, <1>5, <1>6, <1>7 DEF InnerStep

(* The local process tree. *)
LEMMA LocalKeeps ==
    ASSUME DrainInv, NEW s \in Subs, LocalStep(s)
    PROVE  DrainInv'
  <1>1. CASE TreeStarts(s)
    BY <1>1 DEF TreeStarts, DrainInv, TypeOK, DaemonInv, SubInv,
                 taskVars, localVars
  <1>2. CASE TreeEnds(s)
    BY <1>2 DEF TreeEnds, DrainInv, TypeOK, DaemonInv, SubInv,
                 taskVars, localVars
  <1>3. CASE publish_active(s)
    BY <1>3 DEF publish_active, Publish, DrainInv, TypeOK, DaemonInv, SubInv,
                 taskVars, localVars
  <1>4. CASE try_begin_terminating(s)
    BY <1>4 DEF try_begin_terminating, Publish, DrainInv, TypeOK, DaemonInv, SubInv,
                 taskVars, localVars
  <1>5. CASE PublishReaped(s)
    BY <1>5 DEF PublishReaped, Publish, DrainInv, TypeOK, DaemonInv, SubInv,
                 taskVars, localVars
  <1>6. CASE publish_natural_reaped(s)
    BY <1>6 DEF publish_natural_reaped, Publish, DrainInv, TypeOK, DaemonInv, SubInv,
                 taskVars, localVars
  <1>7. CASE publish_force_failed(s)
    BY <1>7 DEF publish_force_failed, Publish, DrainInv, TypeOK, DaemonInv, SubInv,
                 taskVars, localVars
  <1> QED BY <1>1, <1>2, <1>3, <1>4, <1>5, <1>6, <1>7 DEF LocalStep, GuardianStep

(* The holder of the launcher's stream. *)
LEMMA HolderKeeps ==
    ASSUME DrainInv, NEW s \in Subs, HolderStep(s)
    PROVE  DrainInv'
  <1>1. CASE HolderJoins(s)
    BY <1>1 DEF HolderJoins, Settled, InnerEnded, DrainInv, TypeOK, DaemonInv, SubInv,
                 taskVars, localVars
  <1>2. CASE HolderForced(s)
    BY <1>2 DEF HolderForced, InnerEnded, DrainInv, TypeOK, DaemonInv, SubInv,
                 taskVars, localVars
  <1>3. CASE InnerAborted(s)
    BY <1>3 DEF InnerAborted, InnerRuns, DrainInv, TypeOK, DaemonInv, SubInv,
                 taskVars, localVars
  <1>4. CASE HolderReleases(s)
    BY <1>4 DEF HolderReleases, SafeToEnd, DrainInv, TypeOK, DaemonInv, SubInv,
                 taskVars, localVars
  <1> QED BY <1>1, <1>2, <1>3, <1>4 DEF HolderStep

(* The supervisor.                                                         *)
LEMMA SupervisorKeeps ==
    ASSUME DrainInv, SetFlag \/ DaemonStep
    PROVE  DrainInv'
  <1>1. CASE SetFlag
    BY <1>1 DEF SetFlag, DaemonMoves, DrainInv, TypeOK, DaemonInv, SubInv,
                 taskVars, localVars
  <1>2. CASE CloseTrackers
    BY <1>2 DEF CloseTrackers, DaemonMoves, DrainInv, TypeOK, DaemonInv, SubInv,
                 taskVars, localVars
  <1>3. CASE WaitCancel
    BY <1>3 DEF WaitCancel, DaemonMoves, TrackedRequest, DrainInv, TypeOK, DaemonInv, SubInv,
                 taskVars, localVars
  <1>4. CASE WaitDrain
    BY <1>4 DEF WaitDrain, DaemonMoves, Tracked, DrainInv, TypeOK, DaemonInv, SubInv,
                 taskVars, localVars
  <1>5. CASE request_force_all
    BY <1>5 DEF request_force_all, DaemonMoves, DrainInv, TypeOK, DaemonInv, SubInv,
                 taskVars, localVars
  <1>6. CASE IntakeEnds
    BY <1>6 DEF IntakeEnds, DaemonMoves, DrainInv, TypeOK, DaemonInv, SubInv,
                 taskVars, localVars
  <1> QED BY <1>1, <1>2, <1>3, <1>4, <1>5, <1>6 DEF DaemonStep

LEMMA StutterKeeps == DrainInv /\ UNCHANGED vars => DrainInv'
  BY DEF vars, taskVars, localVars, DrainInv, TypeOK, DaemonInv, SubInv

LEMMA NextKeeps == DrainInv /\ [Next]_vars => DrainInv'
  <1> SUFFICES ASSUME DrainInv, [Next]_vars PROVE DrainInv'
    OBVIOUS
  <1>1. CASE \E s \in Subs : HandlerStep(s) \/ InnerStep(s) \/ LocalStep(s) \/ HolderStep(s)
    BY <1>1, HandlerKeeps, InnerKeeps, LocalKeeps, HolderKeeps
  <1>2. CASE \E r \in Requests : RequestStep(r)
    BY <1>2, RequestKeeps
  <1>3. CASE SetFlag \/ DaemonStep
    BY <1>3, SupervisorKeeps
  <1>4. CASE UNCHANGED vars
    BY <1>4, StutterKeeps
  <1> QED BY <1>1, <1>2, <1>3, <1>4 DEF Next

(* DrainInv holds in every reachable state: no stream of DaemonDrain is    *)
(* released over a running task or an unsafe phase.                        *)
THEOREM DrainInvariant == Spec => []DrainInv
  BY InitDrain, NextKeeps, PTL DEF Spec

(* After wait_cancel and wait_drain nothing tracked runs (DaemonTaskScope).*)
THEOREM DrainIsQuiet == Spec => []QuietAfterDrain
  <1>1. DrainInv => QuietAfterDrain
    BY DEF DrainInv, TypeOK, DaemonInv, SubInv, QuietAfterDrain, InnerRuns
  <1> QED BY <1>1, DrainInvariant, PTL

(* A launcher that repeats its command (hold_eof_until_submission_is_safe  *)
(* let its stream end) has no live tree of the daemon beside it.           *)
THEOREM RetriesAreSafe == Spec => []RetryIsSafe
  <1>1. DrainInv => RetryIsSafe
    BY DEF DrainInv, TypeOK, SubInv, RetryIsSafe, Retries
  <1> QED BY <1>1, DrainInvariant, PTL

(* run_submission reports an exit code only for a run that was not stopped.*)
THEOREM ExitsAreEarned == Spec => []ExitIsEarned
  <1>1. DrainInv => ExitIsEarned
    BY DEF DrainInv, SubInv, ExitIsEarned
  <1> QED BY <1>1, DrainInvariant, PTL
====
