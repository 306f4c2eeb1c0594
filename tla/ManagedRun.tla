----------------------------- MODULE ManagedRun -----------------------------
(***************************************************************************)
(* A managed streaming child (managed.rs, and managed_supervisor and       *)
(* supervise_managed of supervisor.rs).  The caller holds a ManagedChild   *)
(* and the pipes; a supervisor thread owns the leader.  Three channels     *)
(* join them: startup (one message), cancel, whose disconnection counts as *)
(* a message, and result (one message).                                    *)
(***************************************************************************)
EXTENDS OwnedChild, Outcome

CONSTANT Commands  (* the streaming commands a behaviour may start with     *)

ASSUME ManagedRunAssumption ==
  Commands \subseteq [deadline : BOOLEAN,
                      piped    : SUBSET Streams,
                      filter   : BOOLEAN]  (* exits when its stdin ends      *)

VARIABLES
  command,
  pc,         (* the next call of the supervisor thread                     *)
  obs,        (* Observations                                               *)
  evidence,   (* LifecycleEvidence, as far as it is recorded                *)
  outcome,    (* the terminal result of the supervisor                      *)
  startup,    (* startup channel: "empty", "started", or the error sent     *)
  cancel,     (* cancel channel: a message is pending                       *)
  canceller,  (* its sender is alive, in the ManagedChild                   *)
  result,     (* result channel: "empty", "full", "received", "closed"      *)
  caller,     (* what the caller is doing with the ManagedChild             *)
  retained,   (* ManagedChild.result; "pending" for None                    *)
  answer,     (* what wait or cancel returned                               *)
  stdin,      (* who holds the write end of the child's stdin               *)
  stream,     (* stream[s]: who holds the read end of s                     *)
  deadlinePassed,
  cleanupExpired

clockVars      == <<deadlinePassed, cleanupExpired>>
channelVars    == <<startup, cancel, canceller, result>>
callerVars     == <<caller, retained, answer, stdin, stream>>
supervisorVars == <<pc, obs, evidence, outcome>>
runVars == <<command, supervisorVars, channelVars, callerVars, clockVars>>
vars    == <<osVars, childVars, runVars>>

Main    == {"announce", "observe", "control", "wait", "signal"}
Cleanup == {"expiry", "reap", "settle"}
Ended   == {"returned", "panicked"}            (* a join would return        *)
Left    == {"leave", "unwound"} \cup Ended     (* nothing of the run is left *)
Holders == {"handle", "taken", "closed"}

TypeOK ==
  /\ OsTypeOK
  /\ ChildTypeOK
  /\ command \in Commands
  /\ pc \in {"none", "start", "spawn", "publish"} \cup Main \cup Cleanup \cup Left
  /\ obs \in ObservationStates
  /\ evidence \in Evidence(Streams)
  /\ outcome \in Outcomes
  /\ startup \in {"empty", "started"} \cup Refusals
  /\ cancel \in BOOLEAN
  /\ canceller \in BOOLEAN
  /\ result \in {"empty", "full", "received", "closed"}
  /\ caller \in {"spawning", "holding", "waiting", "cancelling", "answered", "dropped"}
  /\ retained \in Outcomes
  /\ answer \in Outcomes
  /\ stdin \in Holders
  /\ stream \in [Streams -> Holders]
  /\ deadlinePassed \in BOOLEAN
  /\ cleanupExpired \in BOOLEAN

Init ==
  /\ OsInit
  /\ ChildInit
  /\ command \in Commands
  /\ pc = "none"
  /\ obs = NoObservations
  /\ evidence = UnknownEvidence(Streams)
  /\ outcome = "pending"
  /\ startup = "empty"
  /\ cancel = FALSE
  /\ canceller = TRUE
  /\ result = "empty"
  /\ caller = "spawning"
  /\ retained = "pending"
  /\ answer = "pending"
  /\ stdin = "closed"
  /\ stream = [s \in Streams |-> "closed"]
  /\ deadlinePassed = FALSE
  /\ cleanupExpired = FALSE

-----------------------------------------------------------------------------
(* managed_supervisor: startup.                                             *)

(* An error before the spawn is the startup message and the last act of the *)
(* thread, which has still to end: its sender to the reaper goes with it.   *)
Refuse(error) ==
  /\ startup' = error
  /\ pc' = "leave"

StartReaper ==
  /\ pc = "start"
  /\ \/ /\ StartBackgroundReaper
        /\ pc' = "spawn"
        /\ UNCHANGED startup
     \/ /\ "reaperStart" \in Faults
        /\ Refuse("reaperStartFailed")
        /\ UNCHANGED childVars
  /\ UNCHANGED <<osVars, obs, evidence, outcome, cancel, canceller, result, callerVars>>

SpawnRefusals ==
  (IF "deadline" \in Faults /\ command.deadline THEN {"deadlineUnrepresentable"} ELSE {})
  \cup (IF "spawn" \in Faults THEN {"spawnFailed"} ELSE {})

SpawnLeader ==
  /\ pc = "spawn"
  /\ \/ /\ LaunchLeader(command.piped)
        /\ handle' = "owned"
        /\ stdin' = IF command.filter THEN "handle" ELSE "closed"
        /\ stream' = [s \in Streams |-> IF s \in command.piped THEN "handle" ELSE "closed"]
        /\ pc' = "announce"
        /\ UNCHANGED startup
     \/ /\ \E error \in SpawnRefusals : Refuse(error)
        /\ UNCHANGED <<osVars, handle, stdin, stream>>
  /\ UNCHANGED <<sender, reaper, obs, evidence, outcome, cancel, canceller, result, caller,
                 retained, answer>>

(* The pipes travel to the caller with the message; the caller is blocked   *)
(* on the channel, so this send cannot fail.                                *)
Announce ==
  /\ pc = "announce"
  /\ startup' = "started"
  /\ pc' = "observe"
  /\ UNCHANGED <<osVars, childVars, obs, evidence, outcome, cancel, canceller, result,
                 callerVars>>

-----------------------------------------------------------------------------
(* supervise_managed.                                                       *)

Cleaning == evidence.signal # "unknown"

Unsettled == UNCHANGED <<outcome, startup, canceller, result, callerVars>>

ObserveLeader ==
  /\ pc = "observe"
  /\ obs' \in LeaderObservations(obs)
  /\ pc' = IF Cleaning THEN "reap" ELSE "control"
  /\ UNCHANGED <<osVars, childVars, evidence, cancel>> /\ Unsettled

(* What the cancel channel delivers: a message, or its disconnection.       *)
CancelReceived == cancel \/ ~canceller

(* A mutated look at the channel: it forgets a message that a wait took.    *)
ControlForgetting ==
  /\ pc = "control"
  /\ obs' = [obs EXCEPT !.cancelled = CancelReceived, !.deadline = deadlinePassed]
  /\ cancel' = FALSE
  /\ pc' = IF SettlementTriggered(obs', FALSE, FALSE) THEN "signal" ELSE "wait"
  /\ UNCHANGED <<osVars, childVars, evidence>> /\ Unsettled

Control ==
  /\ pc = "control"
  /\ obs' = [obs EXCEPT !.cancelled = @ \/ CancelReceived, !.deadline = deadlinePassed]
  /\ cancel' = FALSE
  /\ pc' = IF SettlementTriggered(obs', FALSE, FALSE) THEN "signal" ELSE "wait"
  /\ UNCHANGED <<osVars, childVars, evidence>> /\ Unsettled

(* cancel.recv_timeout, in the observation loop and in the cleanup loop.    *)
Wait ==
  /\ pc = "wait"
  /\ obs' = [obs EXCEPT !.cancelled = @ \/ CancelReceived]
  /\ cancel' = FALSE
  /\ pc' = IF Cleaning THEN "expiry" ELSE "observe"
  /\ UNCHANGED <<osVars, childVars, evidence>> /\ Unsettled

(* A mutated order: a waitable leader is reaped before its group is         *)
(* signalled.                                                               *)
ReapThenSignal ==
  /\ pc = "signal"
  /\ IF proc[Leader] = "zombie"
     THEN /\ proc' = [proc EXCEPT ![Leader] = "gone"]
          /\ handle' = "closed"
          /\ evidence' = [evidence EXCEPT !.signal = "alreadyGone", !.status = exit,
                                          !.disposition = "reaped"]
     ELSE /\ KillGroup
          /\ evidence' = [evidence EXCEPT !.signal = "sent", !.disposition = "unreaped"]
          /\ UNCHANGED handle
  /\ pc' = "expiry"
  /\ UNCHANGED <<escaped, exit, holders, pipe, sender, reaper, obs, cancel>> /\ Unsettled

SignalTheGroup ==
  /\ pc = "signal"
  /\ \E signalled \in SignalOutcomes :
       /\ SignalGroup(signalled)
       /\ evidence' = [evidence EXCEPT !.signal = signalled, !.disposition = "unreaped"]
  /\ pc' = "expiry"
  /\ UNCHANGED <<escaped, exit, holders, pipe, childVars, obs, cancel>> /\ Unsettled

(* The head of the cleanup loop.                                            *)
CheckExpiry ==
  /\ pc = "expiry"
  /\ pc' = IF handle = "owned" /\ ~cleanupExpired THEN "observe" ELSE "settle"
  /\ UNCHANGED <<osVars, childVars, obs, evidence, cancel>> /\ Unsettled

ReapLeader ==
  /\ pc = "reap"
  /\ \/ /\ obs.waitable
        /\ ReapWaitable
        /\ evidence' = [evidence EXCEPT !.status = exit, !.disposition = "reaped"]
        /\ pc' = "expiry"
     \/ /\ obs.waitable
        /\ proc[Leader] = "gone"
        /\ evidence' = [evidence EXCEPT !.reapFailed = TRUE]
        /\ pc' = "settle"
        /\ UNCHANGED <<proc, handle>>
     \/ /\ ~obs.waitable
        /\ pc' = "wait"
        /\ UNCHANGED <<proc, handle, evidence>>
  /\ UNCHANGED <<escaped, exit, holders, pipe, sender, reaper, obs, cancel>> /\ Unsettled

(* Both reports are redirected: the bytes are the caller's.                 *)
SettledEvidence ==
  LET unsettled == handle = "owned"
  IN  [evidence EXCEPT
         !.disposition = IF unsettled /\ HandoffSucceeds THEN "backgroundReaper" ELSE @,
         !.reapFailed = @ \/ ~HandoffSucceeds,
         !.report = [s \in Streams |-> Report(FreshStream(FALSE))],
         !.cleanup = IF unsettled THEN "incomplete" ELSE "complete",
         !.leaderUnsettled = unsettled]

Settle ==
  /\ pc = "settle"
  /\ evidence' = SettledEvidence
  /\ outcome' = ClassifyManaged(ChoosePrimary(obs, FALSE, FALSE), command.deadline,
                                evidence')
  /\ Handoff
  /\ sender' = FALSE
  /\ pc' = "publish"
  /\ UNCHANGED <<osVars, reaper, obs, channelVars, callerVars>>

(* result.send, whose failure is ignored.  The caller may receive the       *)
(* result before the thread that sent it is over.                           *)
Publish ==
  /\ pc = "publish"
  /\ result' = IF result = "closed" THEN "closed" ELSE "full"
  /\ pc' = "leave"
  /\ UNCHANGED <<osVars, childVars, obs, evidence, outcome, startup, cancel, canceller,
                 callerVars>>

(* The thread drops what it still holds and is over, after a return or an   *)
(* unwinding; join_after_result provides for a panic even here.             *)
EndThread ==
  /\ \/ /\ pc = "leave"
        /\ sender' = FALSE
        /\ pc' \in {"returned"} \cup
             (IF "panic" \in Faults /\ startup = "started" THEN {"panicked"} ELSE {})
     \/ pc = "unwound" /\ pc' = "panicked" /\ UNCHANGED sender
  /\ UNCHANGED <<osVars, handle, reaper, obs, evidence, outcome, channelVars, callerVars>>

Supervise ==
  /\ \/ StartReaper \/ SpawnLeader \/ Announce
     \/ ObserveLeader \/ Control \/ Wait
     \/ SignalTheGroup \/ CheckExpiry \/ ReapLeader \/ Settle \/ Publish
     \/ EndThread
  /\ UNCHANGED <<command, clockVars>>

(* The unwinding drops the OwnedChild, the thread's ends of the channels and*)
(* the pipes that no message carried to the caller.                         *)
Panic ==
  /\ "panic" \in Faults
  /\ pc \in Main \cup Cleanup
  /\ DropOwnedChild
  /\ IF pc = "announce"
     THEN stdin' = "closed" /\ stream' = [s \in Streams |-> "closed"]
     ELSE UNCHANGED <<stdin, stream>>
  /\ pc' = "unwound"
  /\ UNCHANGED <<escaped, exit, holders, pipe, obs, evidence, outcome, channelVars,
                 caller, retained, answer, command, clockVars>>

-----------------------------------------------------------------------------
(* spawn_managed and ManagedChild: the steps of the caller.                 *)

CallerOnly == UNCHANGED <<osVars, childVars, command, clockVars>>

StartSupervisor ==
  /\ pc = "none" /\ caller = "spawning"
  /\ \/ pc' = "start" /\ UNCHANGED <<caller, answer>>
     \/ /\ "supervisorStart" \in Faults
        /\ caller' = "answered" /\ answer' = "supervisorStartFailed"
        /\ UNCHANGED pc
  /\ UNCHANGED <<obs, evidence, outcome, channelVars, retained, stdin, stream>>
  /\ CallerOnly

(* startup_rx.recv; after an error or a panic the thread is joined.         *)
ReceiveStartup ==
  /\ caller = "spawning"
  /\ \/ startup = "started" /\ caller' = "holding" /\ UNCHANGED <<answer, canceller>>
     \/ /\ startup \in Refusals /\ pc \in Ended
        /\ caller' = "answered" /\ answer' = startup /\ canceller' = FALSE
     \/ /\ startup = "empty" /\ pc = "panicked"
        /\ caller' = "answered" /\ answer' = "supervisionFailed" /\ canceller' = FALSE
  /\ UNCHANGED <<supervisorVars, startup, cancel, result, retained, stdin, stream>>
  /\ CallerOnly

(* The result channel is disconnected once the thread let go of it unsent.  *)
Disconnected == result = "empty" /\ pc \in {"unwound"} \cup Ended

Receive ==
  /\ retained = "pending"
  /\ \/ result = "full" /\ retained' = outcome /\ result' = "received"
     \/ Disconnected /\ retained' = "supervisionFailed" /\ UNCHANGED result

(* poll, which reports Running when there is nothing to receive.            *)
Poll ==
  /\ caller = "holding"
  /\ Receive
  /\ UNCHANGED <<supervisorVars, startup, cancel, canceller, caller, answer, stdin,
                 stream>>
  /\ CallerOnly

(* A mutated wait: the retained stdin stays open.                           *)
CallWaitKeepingStdin ==
  /\ caller = "holding"
  /\ caller' = "waiting"
  /\ UNCHANGED <<supervisorVars, channelVars, retained, answer, stdin, stream>>
  /\ CallerOnly

(* A mutated wait: the sender of the cancel channel is let go first.        *)
CallWaitDroppingSender ==
  /\ caller = "holding"
  /\ caller' = "waiting"
  /\ stdin' = IF stdin = "handle" THEN "closed" ELSE stdin
  /\ canceller' = FALSE
  /\ UNCHANGED <<supervisorVars, startup, cancel, result, retained, answer, stream>>
  /\ CallerOnly

CloseRetainedStdin == stdin' = IF stdin = "handle" THEN "closed" ELSE stdin

CallWait ==
  /\ caller = "holding"
  /\ caller' = "waiting"
  /\ CloseRetainedStdin
  /\ UNCHANGED <<supervisorVars, channelVars, retained, answer, stream>>
  /\ CallerOnly

CallCancel ==
  /\ caller = "holding"
  /\ caller' = "cancelling"
  /\ cancel' = TRUE
  /\ CloseRetainedStdin
  /\ UNCHANGED <<supervisorVars, startup, canceller, result, retained, answer, stream>>
  /\ CallerOnly

ReceiveBlocking ==
  /\ caller \in {"waiting", "cancelling"}
  /\ Receive
  /\ UNCHANGED <<supervisorVars, startup, cancel, canceller, caller, answer, stdin,
                 stream>>
  /\ CallerOnly

(* Every pipe the caller did not take is closed with the handle.            *)
DropRetainedPipes ==
  stream' = [s \in Streams |-> IF stream[s] = "handle" THEN "closed" ELSE stream[s]]

(* A mutated cancel: every cancellation counts as settled.                  *)
CancelledIsSettled == retained = "cancelled"

(* cancellation_settled, for the error Cancelled.                           *)
CancellationSettled ==
  /\ retained = "cancelled"
  /\ evidence.cleanup = "complete"
  /\ evidence.signal \in {"sent", "alreadyGone"}
  /\ evidence.disposition = "reaped"
  /\ ~evidence.reapFailed

(* A mutated join: the result is returned while the supervisor still runs.  *)
ReturnUnjoined ==
  /\ caller \in {"waiting", "cancelling"}
  /\ retained # "pending"
  /\ caller' = "answered"
  /\ answer' = IF caller = "cancelling" /\ CancellationSettled THEN "ok" ELSE retained
  /\ canceller' = FALSE
  /\ DropRetainedPipes
  /\ UNCHANGED <<supervisorVars, startup, cancel, result, retained, stdin>>
  /\ CallerOnly

(* join_after_result, and the return of wait or cancel; the handle, and     *)
(* with it the sender of the cancel channel, is dropped.                    *)
JoinAndReturn ==
  /\ caller \in {"waiting", "cancelling"}
  /\ retained # "pending"
  /\ pc \in Ended
  /\ caller' = "answered"
  /\ answer' = IF pc = "panicked" /\ retained = "ok" THEN "supervisionFailed"
               ELSE IF caller = "cancelling" /\ CancellationSettled THEN "ok"
               ELSE retained
  /\ canceller' = FALSE
  /\ DropRetainedPipes
  /\ UNCHANGED <<supervisorVars, startup, cancel, result, retained, stdin>>
  /\ CallerOnly

DropHandle ==
  /\ caller = "holding"
  /\ caller' = "dropped"
  /\ cancel' = (cancel \/ retained = "pending")
  /\ canceller' = FALSE
  /\ result' = IF result = "empty" THEN "closed" ELSE result
  /\ stdin' = IF stdin = "handle" THEN "closed" ELSE stdin
  /\ DropRetainedPipes
  /\ UNCHANGED <<supervisorVars, startup, retained, answer>>
  /\ CallerOnly

(* The caller takes a pipe, reads it and closes it; a taken pipe outlives   *)
(* the handle.                                                              *)
UsePipes ==
  /\ \/ /\ caller = "holding" /\ stdin = "handle" /\ stdin' = "taken"
        /\ UNCHANGED <<stream, pipe>>
     \/ /\ stdin = "taken" /\ stdin' = "closed"
        /\ UNCHANGED <<stream, pipe>>
     \/ \E s \in Streams :
          /\ caller = "holding" /\ stream[s] = "handle"
          /\ stream' = [stream EXCEPT ![s] = "taken"]
          /\ UNCHANGED <<stdin, pipe>>
     \/ \E s \in Streams :
          /\ stream[s] = "taken" /\ pipe[s] > 0
          /\ pipe' = [pipe EXCEPT ![s] = @ - 1]
          /\ UNCHANGED <<stdin, stream>>
     \/ \E s \in Streams :
          /\ stream[s] = "taken"
          /\ stream' = [stream EXCEPT ![s] = "closed"]
          /\ UNCHANGED <<stdin, pipe>>
  /\ UNCHANGED <<proc, escaped, exit, holders, childVars, command, supervisorVars,
                 channelVars, caller, retained, answer, clockVars>>

(* What the caller does of its own accord, and the ends of blocking calls.  *)
CallerChoice == Poll \/ CallWait \/ CallCancel \/ DropHandle \/ UsePipes
CallerReturn == StartSupervisor \/ ReceiveStartup \/ ReceiveBlocking \/ JoinAndReturn

-----------------------------------------------------------------------------
(* The rest of the world.                                                   *)

BackgroundReaper == ReaperThread /\ UNCHANGED runVars

(* A filter waits for the end of its stdin before it exits by itself.       *)
MayExit == command.filter => stdin = "closed"

ChildStep ==
  /\ \/ ProcessStep
     \/ \E p \in Procs, s \in Streams : stream[s] # "closed" /\ Write(p, s)
  /\ exit' # exit /\ proc[Leader] = "running" => MayExit
  /\ UNCHANGED <<childVars, runVars>>

FilterExits ==
  /\ command.filter /\ stdin = "closed"
  /\ Exit(Leader)
  /\ UNCHANGED <<childVars, runVars>>

ChildDies(p) == Die(p) /\ UNCHANGED <<childVars, runVars>>

DeadlinePasses ==
  /\ command.deadline
  /\ pc \in Main \cup Cleanup
  /\ ~deadlinePassed
  /\ deadlinePassed' = TRUE
  /\ UNCHANGED <<osVars, childVars, command, supervisorVars, channelVars, callerVars,
                 cleanupExpired>>

CleanupExpires ==
  /\ Cleaning /\ pc \in Cleanup \cup Main
  /\ ~cleanupExpired
  /\ cleanupExpired' = TRUE
  /\ UNCHANGED <<osVars, childVars, command, supervisorVars, channelVars, callerVars,
                 deadlinePassed>>

Finished ==
  /\ caller \in {"answered", "dropped"}
  /\ pc \in {"none"} \cup Ended
  /\ reaper \in {"off", "done"}
  /\ UNCHANGED vars

Next == \/ Supervise \/ Panic \/ BackgroundReaper
        \/ CallerReturn \/ CallerChoice
        \/ ChildStep
        \/ DeadlinePasses \/ CleanupExpires
        \/ Finished

(* The threads are scheduled, a blocking call returns when it can, clocks   *)
(* advance, a killed process dies and a filter exits at the end of its      *)
(* input.  What the caller chooses to do, or never does, is not assumed.    *)
Fairness ==
  /\ WF_vars(Supervise)
  /\ WF_vars(BackgroundReaper)
  /\ WF_vars(CallerReturn)
  /\ WF_vars(DeadlinePasses)
  /\ WF_vars(CleanupExpires)
  /\ WF_vars(FilterExits)
  /\ \A p \in Procs : WF_vars(ChildDies(p))

Spec == Init /\ [][Next]_vars /\ Fairness

-----------------------------------------------------------------------------
(* Safety.                                                                  *)

(* The duty to reap is never lost, doubled or left with a supervisor that   *)
(* is gone, whatever the caller does with the handle and when.              *)
LeaderHasOneOwner == ReapDutyHeld(pc \in Main \cup Cleanup)

(* When wait or cancel returns Ok the supervisor reaped the leader, cleanup *)
(* is proved complete and nothing that stayed in the group runs on.         *)
AnswerOkIsSettled ==
  answer = "ok" =>
    /\ proc[Leader] = "gone" /\ handle = "closed"
    /\ evidence.cleanup = "complete" /\ evidence.disposition = "reaped"
    /\ evidence.status = exit
    /\ \A d \in Descendants \ escaped : proc[d] # "running"

(* The caller has no answer while the thread still runs, although the       *)
(* result, or the refusal, is in its channel before the thread is over.  So *)
(* the answer is final: behind it no Child is owned, no sender keeps the    *)
(* reaper waiting, and an Ok of the run is withdrawn if the thread unwound. *)
AnswerAfterSupervisor ==
  caller = "answered" =>
    /\ pc \in {"none"} \cup Ended
    /\ handle # "owned" /\ ~sender
    /\ answer # "pending"
    /\ pc = "panicked" => answer # "ok" \/ outcome # "ok"

(* A supervisor sees a cancellation only where the caller cancelled or      *)
(* dropped the handle.  A disconnected channel counts as a message, so this *)
(* asks that nothing lets the sender go while a wait is under way.          *)
OnlyCallerCancels ==
  obs.cancelled => caller \in {"cancelling", "answered", "dropped"}

(* A deadline that passes, or a handle that is cancelled or dropped, before *)
(* the supervisor decides to signal is never overtaken by the exit it races.*)
(* (Unlike execute, the cleanup loop does not look at the deadline again,   *)
(* and at the cancel channel only while it waits for the leader.)           *)
EarlyTriggerNotLost ==
  [](~Cleaning /\ pc # "signal" /\ (deadlinePassed \/ cancel \/ ~canceller)
       => [](outcome \notin {"ok", "nonZeroExit"}))

-----------------------------------------------------------------------------
(* Liveness.                                                                *)

(* The deadline is enforced for a caller that never polls or waits.         *)
DeadlineNeedsNoCaller == deadlinePassed ~> pc \in Ended

(* A dropped handle leaves nothing behind: the leader is reaped and both    *)
(* threads end.                                                             *)
DropLeavesNothing ==
  (caller = "dropped") ~>
    (pc \in Ended /\ reaper \in {"off", "done"} /\ ~LeaderUnreaped)

(* cancel returns, with or without a deadline, and whoever holds the pipes. *)
CancelReturns == (caller = "cancelling") ~> (caller = "answered")

(* wait returns for a command with a deadline, and for a filter whose stdin *)
(* the caller left in the handle, because wait closes it.                   *)
WaitReturns ==
  (caller = "waiting" /\ (command.deadline \/ (command.filter /\ stdin # "taken")))
    ~> (caller = "answered")

-----------------------------------------------------------------------------
(* The managed invocation is a Lifecycle.                                   *)

LifecycleStage ==
  IF pc \in Left \cup {"publish"} THEN "ended" ELSE IF Cleaning THEN "terminating"
  ELSE IF pc \in Main THEN "running" ELSE "idle"

LifecycleVerdict ==
  CASE outcome = "ok" -> "success"
    [] outcome \notin {"ok", "pending"} -> "failure"
    [] outcome = "pending" /\ pc \in {"unwound", "panicked"} -> "abandoned"
    [] outcome = "pending" /\ startup \in Refusals -> "refused"
    [] outcome = "pending" /\ pc \notin {"unwound", "panicked"}
         /\ startup \notin Refusals -> "pending"

Lifecycle == INSTANCE Lifecycle
  WITH stage <- LifecycleStage, leader <- LifecycleLeader,
       owner <- LifecycleOwner, verdict <- LifecycleVerdict

(* The managed invocation keeps the promise of Lifecycle.                   *)
IsLifecycle == Lifecycle!Spec

=============================================================================
