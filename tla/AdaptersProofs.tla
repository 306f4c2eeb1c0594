--------------------------- MODULE AdaptersProofs ---------------------------
(***************************************************************************)
(* Whatever the future and the runtime do, the supervisor behind them is a *)
(* CapturedRun, so what is proved of CapturedRun holds of every entry; and *)
(* what the caller is told is what that supervisor has proved.             *)
(***************************************************************************)
EXTENDS Adapters, LifecycleProofs

LEMMA GuardedStep ==
  ASSUME TypeOK, NEW armed \in BOOLEAN, Guarded(armed),
         armed => command.cancellable
  PROVE  [Next]_vars
<1>1. CASE cancelRequested' = cancelRequested
  BY <1>1 DEF Guarded, vars, runVars, turnVars, clockVars
<1>2. CASE cancelRequested' # cancelRequested
  <2>1. ~cancelRequested /\ cancelRequested' = TRUE /\ armed
    BY <1>2 DEF Guarded, TypeOK
  <2> QED
    BY <2>1 DEF Guarded, RequestCancel, Next
<1> QED
  BY <1>1, <1>2

(* The entry point and the flag it shares do not change during a call.      *)
EntryInv == entry \in {"run", "output", "spawn"} /\ (entry = "spawn" => command.cancellable)

LEMMA AdapterStep ==
  ASSUME TypeOK, EntryInv, [AdapterNext]_allVars
  PROVE  [Next]_vars /\ EntryInv'
<1>1. CASE Begin \/ StartWorker \/ DiscardWorker \/ AdapterFinished \/ UNCHANGED allVars
  BY <1>1 DEF Begin, StartWorker, DiscardWorker, AdapterFinished, allVars, adapterVars,
              vars, runVars, EntryInv
<1>2. CASE Execute
  <2>1. Supervise \/ Panic
    BY <1>2 DEF Execute
  <2>2. command' = command
    BY <2>1 DEF Supervise, Panic
  <2> QED
    BY <1>2, <2>1, <2>2 DEF Execute, Next, EntryInv, adapterVars
<1>3. CASE DropFuture
  <2>1. [Next]_vars
    BY <1>3, GuardedStep DEF DropFuture, EntryInv
  <2> QED
    BY <1>3, <2>1 DEF DropFuture, Guarded, EntryInv
<1>4. CASE Answer
  <2>1. [Next]_vars
    BY <1>4, GuardedStep DEF Answer, JoinFailed, EntryInv
  <2> QED
    BY <1>4, <2>1 DEF Answer, Guarded, EntryInv
<1>5. CASE World
  <2>1. command' = command
    BY <1>5 DEF World, BackgroundReaper, ChildWrite, ChildStep, DeadlinePasses,
                CleanupExpires, runVars
  <2> QED
    BY <1>5, <2>1 DEF World, Next, EntryInv, adapterVars
<1> QED
  BY <1>1, <1>2, <1>3, <1>4, <1>5 DEF AdapterNext

(* Every step of a call, of a future that is dropped or of a runtime that   *)
(* discards its queue is a step of CapturedRun or leaves it alone.          *)
THEOREM AdaptersImplementCapturedRun == AdapterSpec => SafeSpec
<1>1. AdapterInit => Init /\ EntryInv
  BY DEF AdapterInit, EntryInv
<1>2. Init => TypeOK
  BY InitType
<1>3. TypeOK /\ EntryInv /\ [AdapterNext]_allVars => [Next]_vars /\ EntryInv'
  BY AdapterStep
<1>4. TypeOK /\ [Next]_vars => TypeOK'
  BY TypeStep
<1> QED
  BY <1>1, <1>2, <1>3, <1>4, PTL DEF AdapterSpec, SafeSpec

(* The duty to reap has one owner behind every entry point, also when the   *)
(* future is gone or its runtime has discarded the task.                    *)
THEOREM AdaptersOneOwner == AdapterSpec => []LeaderHasOneOwner
BY AdaptersImplementCapturedRun, OwnerAlways

(* The group is doomed before its leader is reaped, behind every entry.     *)
THEOREM AdaptersDoomedFirst == AdapterSpec => []GroupDoomedBeforeReap
BY AdaptersImplementCapturedRun, DoomAlways

-----------------------------------------------------------------------------
(* What the caller is told.                                                 *)

(* AnswerIsProved says what an answer proves; the induction needs that an   *)
(* answer is final, that a task that never started has run nothing, and     *)
(* which results of the supervisor are answered with a success.             *)
Accepted ==
  \/ outcome = "ok"
  \/ entry = "output" /\ outcome = "nonZeroExit" /\ evidence.status # "none"

AnswerInv ==
  /\ AdapterTypeOK
  /\ call = "idle" => worker = "none"
  /\ pc # "start" => worker = "started"
  /\ answer # "pending" => call = "answered" /\ (worker = "discarded" \/ pc \in Ended)
  /\ answer = "ok" => pc = "returned" /\ Accepted
  /\ answer = "nonZeroExit" => entry # "output"

LEMMA AnswerStep ==
  ASSUME TypeOK, EntryInv, AnswerInv, [AdapterNext]_allVars
  PROVE  AnswerInv'
<1>0. [Next]_vars
  BY AdapterStep
<1>1. pc \in Ended => UNCHANGED <<pc, outcome, evidence>>
  BY <1>0, EndedStays
<1> USE DEF AnswerInv, AdapterTypeOK, Accepted, Ended
<1>2. CASE Begin \/ StartWorker \/ DiscardWorker \/ AdapterFinished \/ UNCHANGED allVars
  BY <1>2 DEF Begin, StartWorker, DiscardWorker, AdapterFinished, allVars, adapterVars,
              vars, runVars
<1>3. CASE Execute
  BY <1>1, <1>3 DEF Execute, adapterVars
<1>4. CASE DropFuture
  BY <1>4 DEF DropFuture, Guarded
<1>5. CASE World
  <2>1. pc' = pc /\ UNCHANGED adapterVars
    BY <1>5 DEF World, BackgroundReaper, ChildWrite, ChildStep, DeadlinePasses,
                CleanupExpires, runVars
  <2> QED
    BY <1>1, <2>1 DEF adapterVars
<1>6. CASE Answer
  <2>1. /\ call' = "answered"
        /\ worker = "discarded" \/ pc \in Ended
        /\ UNCHANGED <<pc, outcome, evidence, entry, worker>>
    BY <1>6 DEF Answer, Guarded
  <2>2. CASE JoinFailed
    <3>1. answer' \in {"supervisionFailed", "unwound"}
      BY <1>6, <2>2 DEF Answer
    <3> QED
      BY <1>6, <2>1, <3>1 DEF Answer, Outcomes
  <2>3. CASE ~JoinFailed
    <3>1. pc = "returned" /\ worker = "started"
      BY <2>1, <2>3 DEF JoinFailed
    <3>2. answer' = IF entry = "output" THEN OutputOf(outcome) ELSE outcome
      BY <1>6, <2>3 DEF Answer
    <3>3. answer' \in Outcomes
      BY <3>2 DEF OutputOf, Outcomes, TypeOK
    <3>4. answer' = "ok" => Accepted
      BY <3>2 DEF OutputOf
    <3>5. answer' = "nonZeroExit" => entry # "output"
      BY <3>2 DEF OutputOf
    <3> QED
      BY <1>6, <2>1, <3>1, <3>3, <3>4, <3>5 DEF Answer
  <2> QED
    BY <2>2, <2>3
<1> QED
  BY <1>2, <1>3, <1>4, <1>5, <1>6 DEF AdapterNext

LEMMA AnswerInState ==
  ASSUME TypeOK, OwnerInv, StreamInv, GroupInv, ResultInv, AnswerInv
  PROVE  AnswerIsProved
<1>1. answer # "pending" => /\ worker = "discarded" \/ pc \in Ended
                           /\ handle # "owned"
  BY DEF AnswerInv, OwnerInv, Main, Cleanup, Ended
<1>2. ASSUME answer = "ok"
      PROVE  /\ pc = "returned" /\ proc[Leader] = "gone" /\ handle = "closed"
             /\ evidence.cleanup = "complete" /\ evidence.signal # "failed"
             /\ evidence.status = "zero" \/ (entry = "output" /\ exit = "nonzero")
  <2>1. pc = "returned" /\ Accepted
    BY <1>2 DEF AnswerInv
  <2>2. Cleaning /\ SettledResult /\ LeaderEvidence
    BY <2>1 DEF ResultInv, Accepted, Refusals
  <2>3. /\ evidence.cleanup \notin {"incomplete", "unknown"} /\ evidence.signal # "failed"
        /\ outcome = "ok" => evidence.status = "zero"
        /\ outcome = "nonZeroExit" => evidence.status # "zero"
    BY <2>1, <2>2, OkNeeds, NonZeroNeeds DEF SettledResult, Accepted
  <2>4. evidence.status # "none"
    BY <2>1, <2>3 DEF Accepted
  <2>5. handle = "closed" /\ evidence.status = exit /\ proc[Leader] = "gone"
    BY <2>2, <2>4 DEF LeaderEvidence, OwnerInv, DutyInv
  <2>6. evidence.cleanup = "complete" /\ evidence.status \in {"none", "zero", "nonzero"}
    BY <2>3 DEF TypeOK, Evidence
  <2> QED
    BY <2>1, <2>3, <2>4, <2>5, <2>6 DEF Accepted
<1> QED
  BY <1>1, <1>2 DEF AnswerInv, AnswerIsProved

(* Behind every entry point an answer comes after the supervisor, or never  *)
(* had one, and a success is one that the supervisor has proved.            *)
THEOREM AdaptersAnswerIsProved == AdapterSpec => []AnswerIsProved
<1>1. AdapterInit => EntryInv /\ AnswerInv
  BY DEF AdapterInit, Init, EntryInv, AnswerInv, AdapterTypeOK, Outcomes
<1>2. AdapterSpec => [](TypeOK /\ OwnerInv /\ StreamInv /\ GroupInv /\ ResultInv)
  BY AdaptersImplementCapturedRun, SettledAlways
<1>3. TypeOK /\ EntryInv /\ AnswerInv /\ [AdapterNext]_allVars => EntryInv' /\ AnswerInv'
  BY AdapterStep, AnswerStep
<1> QED
  BY <1>1, <1>2, <1>3, AnswerInState, PTL DEF AdapterSpec

-----------------------------------------------------------------------------
(* What dropping the future does.                                           *)

(* A future that was polled leaves the flag behind it, set.                 *)
DropInv ==
  /\ call = "idle" => worker = "none"
  /\ call = "dropped" /\ worker # "none" => cancelRequested

LEMMA DropStep ==
  ASSUME TypeOK, StageInv, EntryInv, DropInv, [AdapterNext]_allVars
  PROVE  DropInv'
<1>1. cancelRequested => cancelRequested'
  BY AdapterStep, CausesStay
<1> USE DEF DropInv
<1>2. CASE Begin \/ StartWorker \/ DiscardWorker \/ Answer
  BY <1>1, <1>2 DEF Begin, StartWorker, DiscardWorker, Answer
<1>3. CASE DropFuture
  BY <1>3 DEF DropFuture, Guarded
<1>4. CASE Execute \/ World \/ AdapterFinished \/ UNCHANGED allVars
  BY <1>1, <1>4 DEF Execute, World, AdapterFinished, allVars, adapterVars
<1> QED
  BY <1>2, <1>3, <1>4 DEF AdapterNext

(* A future that was polled and is dropped before the signal cancels the    *)
(* run for good, whether its task has started or not.                       *)
THEOREM AdaptersDropCancels == AdapterSpec => DroppedIsCancelled
<1>1. AdapterInit => EntryInv /\ DropInv
  BY DEF AdapterInit, Init, EntryInv, DropInv
<1>2. AdapterSpec => [](TypeOK /\ StageInv) /\ EarlyTriggerNotLost
  BY AdaptersImplementCapturedRun, TypeAlways, StageAlways, EarlyTriggerAlways, PTL
<1>3. TypeOK /\ StageInv /\ EntryInv /\ DropInv /\ [AdapterNext]_allVars
        => EntryInv' /\ DropInv'
  BY AdapterStep, DropStep
<1>4. DropInv /\ call = "dropped" /\ worker # "none" => cancelRequested
  BY DEF DropInv
<1> QED
  BY <1>1, <1>2, <1>3, <1>4, PTL DEF AdapterSpec, EarlyTriggerNotLost, DroppedIsCancelled

(* The flag of a future that still waits is clear; once it was answered a   *)
(* set flag is one that no supervisor will look at.                         *)
ClearInv ==
  /\ cancelRequested =>
       \/ call = "dropped"
       \/ call = "answered" /\ (worker = "discarded" \/ pc \in Ended)
  /\ obs.cancelled => call = "dropped"

(* A supervisor that takes a step has not ended, and does not set the flag  *)
(* itself.                                                                  *)
LEMMA SupervisorRuns ==
  ASSUME Supervise \/ Panic
  PROVE  pc \notin Ended /\ cancelRequested' = cancelRequested
<1>1. CASE Panic
  BY <1>1 DEF Panic, Ended, Main, Cleanup, clockVars
<1>2. CASE Supervise
  <2>1. pc \notin Ended
    BY <1>2, PumpStage DEF Supervise, StartReaper, SpawnLeader, MakeNonblocking,
                           ObserveLeader, Control, PollStreams, SignalTheGroup, CheckExpiry,
                           ReapLeader, Settle, Ended
  <2> QED
    BY <1>2, <2>1 DEF Supervise, clockVars
<1> QED
  BY <1>1, <1>2

LEMMA ClearStep ==
  ASSUME TypeOK, StageInv, StageInv', EntryInv, AnswerInv, ClearInv,
         [AdapterNext]_allVars
  PROVE  ClearInv'
<1> USE DEF ClearInv
<1>1. CASE Begin \/ StartWorker \/ DiscardWorker \/ AdapterFinished \/ UNCHANGED allVars
  BY <1>1 DEF Begin, StartWorker, DiscardWorker, AdapterFinished, allVars, adapterVars,
              vars, runVars, clockVars
<1>2. CASE Execute
  <2>1. /\ worker = "started" /\ pc \notin Ended /\ cancelRequested' = cancelRequested
        /\ UNCHANGED <<call, worker>>
    BY <1>2, SupervisorRuns DEF Execute, adapterVars
  <2>2. cancelRequested => call = "dropped"
    BY <2>1
  <2>3. obs'.cancelled => cancelRequested'
    BY DEF StageInv
  <2> QED
    BY <2>1, <2>2, <2>3
<1>3. CASE DropFuture
  BY <1>3 DEF DropFuture, Guarded
<1>4. CASE Answer
  <2>1. /\ call = "waiting" /\ call' = "answered"
        /\ worker = "discarded" \/ pc \in Ended
        /\ UNCHANGED <<worker, pc, obs>>
    BY <1>4 DEF Answer, Guarded
  <2> QED
    BY <2>1
<1>5. CASE World
  <2>1. UNCHANGED <<call, worker, pc, obs, cancelRequested>>
    BY <1>5 DEF World, BackgroundReaper, ChildWrite, ChildStep, DeadlinePasses,
                CleanupExpires, runVars, clockVars, adapterVars
  <2> QED
    BY <2>1
<1> QED
  BY <1>1, <1>2, <1>3, <1>4, <1>5 DEF AdapterNext

(* Only a future that was dropped is ever cancelled: no awaited call sees   *)
(* its own guard go off.                                                    *)
THEOREM AdaptersOnlyDroppedCancelled == AdapterSpec => []OnlyDroppedIsCancelled
<1>1. AdapterInit => EntryInv /\ AnswerInv /\ ClearInv
  BY DEF AdapterInit, Init, NoObservations, EntryInv, AnswerInv, AdapterTypeOK, Outcomes,
         ClearInv
<1>2. AdapterSpec => [](TypeOK /\ StageInv)
  BY AdaptersImplementCapturedRun, TypeAlways, StageAlways, PTL
<1>3. TypeOK /\ EntryInv /\ AnswerInv /\ [AdapterNext]_allVars => EntryInv' /\ AnswerInv'
  BY AdapterStep, AnswerStep
<1>4. /\ TypeOK /\ StageInv /\ StageInv' /\ EntryInv /\ AnswerInv /\ ClearInv
      /\ [AdapterNext]_allVars
      => ClearInv'
  BY ClearStep
<1>5. ClearInv => OnlyDroppedIsCancelled
  BY DEF ClearInv, OnlyDroppedIsCancelled
<1> QED
  BY <1>1, <1>2, <1>3, <1>4, <1>5, PTL DEF AdapterSpec

(* Behind every entry point, whether its caller still waits or not, the     *)
(* leader has the same Lifecycle, if the host leaves its status alone.      *)
THEOREM AdaptersImplementLifecycle ==
  ASSUME "hostReap" \notin Faults
  PROVE  AdapterSpec => Lifecycle!Init /\ [][Lifecycle!Next]_(Lifecycle!vars)
BY AdaptersImplementCapturedRun, CapturedImplementsLifecycle, PTL

=============================================================================
