------------------------------ MODULE Outcome ------------------------------
(***************************************************************************)
(* How the supervisor decides: what ends the observation of a child, which *)
(* of several causes is reported, and which terminal result the evidence   *)
(* supports (settlement_triggered, choose_primary, classify,               *)
(* classify_managed and classify_exit of supervisor.rs).                   *)
(***************************************************************************)
EXTENDS Capture

(* Observations; error: observe_error is Some.                              *)
ObservationStates ==
  [cancelled : BOOLEAN, deadline : BOOLEAN, waitable : BOOLEAN, error : BOOLEAN]

NoObservations ==
  [cancelled |-> FALSE, deadline |-> FALSE, waitable |-> FALSE, error |-> FALSE]

Primaries == {"limitStdout", "limitStderr", "cancelled", "deadline",
              "captureFailure", "supervision", "exit"}

(* The terminal results: Ok, and the variants of Error by name.             *)
Refusals == {"supervisorStartFailed", "reaperStartFailed",
             "deadlineUnrepresentable", "spawnFailed"}
Outcomes == {"pending", "ok", "limitStdout", "limitStderr", "cancelled",
             "timeout", "captureFailed", "supervisionFailed",
             "cleanupIncomplete", "lifecycleFailed", "nonZeroExit"} \cup Refusals

(* LifecycleEvidence; reapFailed: reap.failures is not empty; unfinished    *)
(* and leaderUnsettled are the facts of CleanupIncompleteEvidence.          *)
Evidence(streams) ==
  [status          : {"none", "zero", "nonzero"},
   signal          : {"sent", "alreadyGone", "failed", "unknown"},
   disposition     : {"reaped", "backgroundReaper", "unreaped", "unknown"},
   reapFailed      : BOOLEAN,
   report          : [streams -> Reports],
   cleanup         : {"complete", "incomplete", "unknown"},
   unfinished      : SUBSET streams,
   leaderUnsettled : BOOLEAN]

UnknownEvidence(streams) ==
  [status |-> "none", signal |-> "unknown", disposition |-> "unknown",
   reapFailed |-> FALSE, report |-> [s \in streams |-> UnknownReport],
   cleanup |-> "unknown", unfinished |-> {}, leaderUnsettled |-> FALSE]

-----------------------------------------------------------------------------

(* Mutated triggers: one of the causes does not end the observation.        *)
TriggeredWithoutDeadline(obs, overflow, failed) ==
  overflow \/ obs.cancelled \/ failed \/ obs.error \/ obs.waitable

TriggeredWithoutCancel(obs, overflow, failed) ==
  overflow \/ obs.deadline \/ failed \/ obs.error \/ obs.waitable

SettlementTriggered(obs, overflow, failed) ==
  overflow \/ obs.cancelled \/ obs.deadline \/ failed \/ obs.error \/ obs.waitable

(* A mutated choice: the deadline is reported before a cancellation.        *)
DeadlineFirst(obs, stdoutOverflow, stderrOverflow) ==
  IF stdoutOverflow THEN "limitStdout"
  ELSE IF stderrOverflow THEN "limitStderr"
  ELSE IF obs.deadline THEN "deadline"
  ELSE IF obs.cancelled THEN "cancelled"
  ELSE IF obs.error THEN "supervision"
  ELSE "exit"

ChoosePrimary(obs, stdoutOverflow, stderrOverflow) ==
  IF stdoutOverflow THEN "limitStdout"
  ELSE IF stderrOverflow THEN "limitStderr"
  ELSE IF obs.cancelled THEN "cancelled"
  ELSE IF obs.deadline THEN "deadline"
  ELSE IF obs.error THEN "supervision"
  ELSE "exit"

-----------------------------------------------------------------------------

(* A mutated classify_exit: a status is enough to succeed.                  *)
StatusDecides(e) == IF e.status = "zero" THEN "ok" ELSE "nonZeroExit"

(* classify_exit: an exit is only reported when the cleanup is proved.      *)
ClassifyExit(e) ==
  IF e.cleanup = "incomplete" THEN "cleanupIncomplete"
  ELSE IF "unknown" \in {e.cleanup, e.signal, e.disposition} THEN "supervisionFailed"
  ELSE IF e.signal = "failed" \/ e.reapFailed \/ e.disposition = "unreaped"
       THEN "lifecycleFailed"
  ELSE IF e.status = "none" THEN "supervisionFailed"
  ELSE IF e.status = "zero" THEN "ok" ELSE "nonZeroExit"

(* The arms that classify and classify_managed share; `configured` says     *)
(* that the policy has a deadline to report.                                *)
Conclusion(primary, configured, e) ==
  CASE primary \in {"limitStdout", "limitStderr", "cancelled"} -> primary
    [] primary = "deadline" ->
         IF configured THEN "timeout" ELSE "supervisionFailed"
    [] primary = "captureFailure" -> "captureFailed"
    [] primary = "supervision" -> "supervisionFailed"
    [] primary = "exit" -> ClassifyExit(e)

CaptureFailureFound(e) == \E s \in DOMAIN e.report : e.report[s].failure # "none"

(* A mutated classify: a capture failure displaces every other cause.       *)
CaptureFailureFirst(primary, configured, e) ==
  Conclusion(IF CaptureFailureFound(e) THEN "captureFailure" ELSE primary, configured, e)

(* classify: a capture failure displaces only the causes ranked below it.   *)
Classify(primary, configured, e) ==
  LET final == IF CaptureFailureFound(e) /\ primary \in {"supervision", "exit"}
               THEN "captureFailure" ELSE primary
  IN  Conclusion(final, configured, e)

(* classify_managed: no stream is captured, so no limit is ever the cause.  *)
ClassifyManaged(primary, configured, e) ==
  Conclusion(IF primary \in {"limitStdout", "limitStderr"} THEN "captureFailure"
             ELSE primary, configured, e)

=============================================================================
