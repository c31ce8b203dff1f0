--------------------------- MODULE SubmissionPhase ---------------------------
(***************************************************************************)
(* What the phase of a submission promises to the rest of the daemon.      *)
(*                                                                         *)
(* A submission may run its command as a local process tree.  `phase' is   *)
(* the atomic of SubmissionDeadline (agent/src/session_registry.rs); each  *)
(* method of it is one compare-exchange, hence one action.  `tree' says    *)
(* whether a process of the local tree is alive; it is not stored anywhere *)
(* in the daemon, and the phase is how the daemon learns about it.  The    *)
(* promise is in the guards on `tree': the two "reaped" phases that let    *)
(* the launcher be told to retry are reached only over a dead tree.        *)
(* LocalJob implements this specification; DaemonDrain relies on it.       *)
(***************************************************************************)

VARIABLES phase, tree

phaseVars == <<phase, tree>>

Phases == {"Idle", "SettingUp", "Active", "Terminating", "NaturalReaped",
           "RetrySafeReaped", "ForcedReaped", "ForceFailed", "AbortedNoChild"}

is_terminal(ph) == ph \in {"NaturalReaped", "RetrySafeReaped", "ForcedReaped",
                           "ForceFailed", "AbortedNoChild"}

(* The phases after which no process of the tree may run: the launcher     *)
(* then repeats the command itself.                                        *)
RetrySafe == {"RetrySafeReaped", "ForcedReaped", "AbortedNoChild"}

PhaseTypeOK == phase \in Phases /\ tree \in {"none", "live", "dead"}

PhaseInit == phase = "Idle" /\ tree = "none"

transition(from, to) == phase \in from /\ phase' = to

(* The tree starts, and ends, while the phase stands still.                *)
TreeStarts == phase = "SettingUp" /\ tree = "none" /\ tree' = "live"
              /\ UNCHANGED phase

TreeEnds == tree = "live" /\ tree' = "dead" /\ UNCHANGED phase

try_begin_setup == transition({"Idle"}, "SettingUp") /\ UNCHANGED tree

publish_active == transition({"SettingUp"}, "Active") /\ UNCHANGED tree

try_begin_terminating ==
    transition({"Active", "SettingUp"}, "Terminating") /\ UNCHANGED tree

(* A natural end may leave detached descendants behind.                    *)
publish_natural_reaped == transition({"Active"}, "NaturalReaped") /\ UNCHANGED tree

publish_retry_safe_reaped ==
    /\ transition({"SettingUp", "Terminating"}, "RetrySafeReaped")
    /\ tree # "live"
    /\ UNCHANGED tree

publish_forced_reaped ==
    /\ transition({"Terminating"}, "ForcedReaped")
    /\ tree # "live"
    /\ UNCHANGED tree

publish_force_failed ==
    transition({"SettingUp", "Terminating", "Active"}, "ForceFailed")
    /\ UNCHANGED tree

try_abort_no_child == transition({"Idle"}, "AbortedNoChild") /\ UNCHANGED tree

PhaseNext == \/ TreeStarts \/ TreeEnds
             \/ try_begin_setup \/ publish_active \/ try_begin_terminating
             \/ publish_natural_reaped \/ publish_retry_safe_reaped
             \/ publish_forced_reaped \/ publish_force_failed
             \/ try_abort_no_child

PhaseSpec == PhaseInit /\ [][PhaseNext]_phaseVars
=============================================================================
