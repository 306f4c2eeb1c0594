---------------------------- MODULE CapturedRun ----------------------------
(***************************************************************************)
(* unix::execute (supervisor.rs): one captured invocation, from the start  *)
(* of the reaper thread to its terminal result.  A single thread observes  *)
(* the leader, the cancellation flag and the deadline, pumps two pipes in  *)
(* bounded turns, then signals the group, drains and reaps within the      *)
(* cleanup budget.  The child, its descendants, the host, the clock and    *)
(* the reaper thread run concurrently with it.                             *)
(***************************************************************************)
EXTENDS OwnedChild, Outcome

CONSTANTS
  Commands,      (* the prepared commands a behaviour may start with        *)
  MaxUnbounded   (* bound: bytes written to a stream with no capture limit  *)

ASSUME CapturedRunAssumption ==
  /\ Commands \subseteq [deadline    : BOOLEAN,  (* ExecutionPolicy           *)
                         cancellable : BOOLEAN,  (* run by the async adapter  *)
                         piped       : SUBSET Streams,
                         capture     : [Streams -> CapturePolicies]]
  /\ MaxUnbounded \in Nat

VARIABLES
  command,
  pc,              (* the next call of the supervisor                       *)
  cap,             (* the two CaptureStreams                                *)
  obs,             (* Observations                                          *)
  turn,            (* streams still to pump after the last poll             *)
  budget,          (* reads left to the stream being pumped                 *)
  stdoutFirst,
  evidence,        (* LifecycleEvidence, as far as it is recorded           *)
  outcome,
  cancelRequested, (* the shared Cancellation flag                          *)
  deadlinePassed,  (* the clock is past the deadline                        *)
  cleanupExpired   (* the clock is past cleanup_deadline                    *)

turnVars  == <<turn, budget, stdoutFirst>>
clockVars == <<cancelRequested, deadlinePassed, cleanupExpired>>
runVars   == <<command, pc, cap, obs, turnVars, evidence, outcome, clockVars>>
vars      == <<osVars, childVars, runVars>>

Main    == {"open", "observe", "control", "poll", "pump", "signal"}
Cleanup == {"expiry", "reap", "settle"}
Ended   == {"returned", "panicked"}

TypeOK ==
  /\ OsTypeOK
  /\ ChildTypeOK
  /\ command \in Commands
  /\ pc \in {"start", "spawn"} \cup Main \cup Cleanup \cup Ended
  /\ cap \in [Streams -> CaptureStates]
  /\ obs \in ObservationStates
  /\ turn \in SUBSET Streams
  /\ budget \in 1 .. ChunksPerTurn
  /\ stdoutFirst \in BOOLEAN
  /\ evidence \in Evidence(Streams)
  /\ outcome \in Outcomes
  /\ cancelRequested \in BOOLEAN
  /\ deadlinePassed \in BOOLEAN
  /\ cleanupExpired \in BOOLEAN

Init ==
  /\ OsInit
  /\ ChildInit
  /\ command \in Commands
  /\ pc = "start"
  /\ cap = [s \in Streams |-> FreshStream(FALSE)]
  /\ obs = NoObservations
  /\ turn = {}
  /\ budget = ChunksPerTurn
  /\ stdoutFirst = TRUE
  /\ evidence = UnknownEvidence(Streams)
  /\ outcome = "pending"
  /\ cancelRequested = FALSE
  /\ deadlinePassed = FALSE
  /\ cleanupExpired = FALSE

-----------------------------------------------------------------------------
(* Startup.                                                                 *)

(* An early return before the spawn drops the sender to the reaper.         *)
Refuse(error) ==
  /\ outcome' = error
  /\ pc' = "returned"
  /\ sender' = FALSE

StartReaper ==
  /\ pc = "start"
  /\ \/ /\ StartBackgroundReaper
        /\ pc' = "spawn"
        /\ UNCHANGED outcome
     \/ /\ "reaperStart" \in Faults
        /\ Refuse("reaperStartFailed")
        /\ UNCHANGED <<handle, reaper>>
  /\ UNCHANGED <<osVars, cap, obs, turnVars, evidence>>

SpawnRefusals ==
  (IF "deadline" \in Faults /\ command.deadline THEN {"deadlineUnrepresentable"} ELSE {})
  \cup (IF "spawn" \in Faults THEN {"spawnFailed"} ELSE {})

(* The deadline, the spawn, OwnedChild::new and CaptureStream::new.         *)
SpawnLeader ==
  /\ pc = "spawn"
  /\ \/ /\ LaunchLeader(command.piped)
        /\ handle' = "owned"
        /\ cap' = [s \in Streams |-> FreshStream(s \in command.piped)]
        /\ pc' = "open"
        /\ UNCHANGED <<sender, outcome>>
     \/ /\ \E error \in SpawnRefusals : Refuse(error)
        /\ UNCHANGED <<osVars, handle, cap>>
  /\ UNCHANGED <<reaper, obs, turnVars, evidence>>

(* What a pipe still buffers is lost with its read end.                     *)
DropClosedPipes ==
  pipe' = [s \in Streams |-> IF cap'[s].open THEN pipe[s] ELSE 0]

MakeNonblocking ==
  /\ pc = "open"
  /\ \E refused \in SUBSET (IF "nonblock" \in Faults THEN command.piped ELSE {}) :
       cap' = [s \in Streams |-> IF s \in refused THEN RecordFailure(cap[s])
                                 ELSE cap[s]]
  /\ DropClosedPipes
  /\ pc' = "observe"
  /\ UNCHANGED <<proc, escaped, exit, holders, childVars, obs, turnVars,
                 evidence, outcome>>

-----------------------------------------------------------------------------
(* The steps the observation loop and the cleanup loop share.               *)

Cleaning == evidence.signal # "unknown"
LoopHead == IF Cleaning THEN "expiry" ELSE "observe"

ObserveLeader ==
  /\ pc = "observe"
  /\ obs' \in LeaderObservations(obs)
  /\ pc' = IF Cleaning THEN "reap" ELSE "control"
  /\ UNCHANGED <<osVars, childVars, cap, turnVars, evidence, outcome>>

(* A mutated assignment: the flag is only honoured until the group is       *)
(* signalled, and forgotten afterwards.                                     *)
ControlsSeenOnce ==
  [obs EXCEPT !.cancelled = cancelRequested /\ ~Cleaning, !.deadline = deadlinePassed]

ControlsSeen ==
  [obs EXCEPT !.cancelled = @ \/ cancelRequested, !.deadline = deadlinePassed]

Control ==
  /\ pc = "control"
  /\ obs' = ControlsSeen
  /\ pc' = IF Cleaning THEN "observe"
           ELSE IF SettlementTriggered(obs', \E s \in Streams : cap[s].overflow,
                                             \E s \in Streams : Failed(cap[s]))
                THEN "signal" ELSE "poll"
  /\ UNCHANGED <<osVars, childVars, cap, turnVars, evidence, outcome>>

(* A mutated poll: only the end of a stream makes it ready.                 *)
ReadyAtHangup == {s \in Streams : cap[s].open /\ holders[s] = {}}

Ready == {s \in Streams : cap[s].open /\ (pipe[s] > 0 \/ holders[s] = {})}

(* poll_streams; a wait that times out finds no stream ready, and the turn  *)
(* of pump_fair is then empty.  With both pipes closed it only sleeps.      *)
PollStreams ==
  /\ pc = "poll"
  /\ \/ /\ turn' = Ready
        /\ pc' = IF Ready = {} THEN LoopHead ELSE "pump"
        /\ stdoutFirst' = IF Ready = {} THEN ~stdoutFirst ELSE stdoutFirst
        /\ UNCHANGED obs
     \/ /\ "interrupt" \in Faults
        /\ \E s \in Streams : cap[s].open
        /\ pc' = LoopHead
        /\ UNCHANGED <<obs, turn, stdoutFirst>>
     \/ /\ "poll" \in Faults
        /\ \E s \in Streams : cap[s].open
        /\ obs' = [obs EXCEPT !.error = TRUE]
        /\ pc' = LoopHead
        /\ UNCHANGED <<turn, stdoutFirst>>
  /\ UNCHANGED <<osVars, childVars, cap, budget, evidence, outcome>>

-----------------------------------------------------------------------------
(* pump_fair and pump: one read is one step, so that the child may write,   *)
(* exit or lose the group between two reads of a turn.                      *)

First == IF stdoutFirst THEN "stdout" ELSE "stderr"
Current(s) == s \in turn /\ (First \in turn => s = First)

EndTurn(s) ==
  /\ turn' = turn \ {s}
  /\ budget' = ChunksPerTurn
  /\ IF turn = {s} THEN pc' = LoopHead /\ stdoutFirst' = ~stdoutFirst
                   ELSE UNCHANGED <<pc, stdoutFirst>>

(* A mutated turn: it lasts as long as the stream has something to read.    *)
ReadUntilEmpty(s) ==
  IF ~cap'[s].open THEN EndTurn(s)
  ELSE UNCHANGED <<turn, stdoutFirst, pc, budget>>

(* The turn goes on while the stream is open and has reads left.            *)
NextRead(s) ==
  IF budget = 1 \/ ~cap'[s].open THEN EndTurn(s)
  ELSE budget' = budget - 1 /\ UNCHANGED <<turn, stdoutFirst, pc>>

Reading(s) == pc = "pump" /\ Current(s)

AfterRead ==
  UNCHANGED <<proc, escaped, exit, holders, childVars, obs, evidence, outcome>>

ReadData(s) ==
  /\ Reading(s)
  /\ \E n \in 1 .. Least(ReadChunk, pipe[s]),
        allocated \in IF "allocation" \in Faults THEN BOOLEAN ELSE {TRUE} :
       /\ cap' = [cap EXCEPT ![s] = Retain(@, command.capture[s], n, allocated)]
       /\ pipe' = [pipe EXCEPT ![s] = IF cap'[s].open THEN @ - n ELSE 0]
  /\ NextRead(s)
  /\ AfterRead

ReadEof(s) ==
  /\ Reading(s)
  /\ pipe[s] = 0 /\ holders[s] = {}
  /\ cap' = [cap EXCEPT ![s] = ReachEof(@)]
  /\ EndTurn(s)
  /\ UNCHANGED pipe /\ AfterRead

ReadWouldBlock(s) ==
  /\ Reading(s)
  /\ pipe[s] = 0 /\ holders[s] # {}
  /\ EndTurn(s)
  /\ UNCHANGED <<cap, pipe>> /\ AfterRead

ReadInterrupted(s) ==
  /\ "interrupt" \in Faults
  /\ Reading(s)
  /\ UNCHANGED <<cap, pipe>>
  /\ NextRead(s)
  /\ AfterRead

ReadFails(s) ==
  /\ "read" \in Faults
  /\ Reading(s)
  /\ cap' = [cap EXCEPT ![s] = RecordFailure(@)]
  /\ pipe' = [pipe EXCEPT ![s] = 0]
  /\ EndTurn(s)
  /\ AfterRead

Pump == \E s \in Streams : \/ ReadData(s) \/ ReadEof(s) \/ ReadWouldBlock(s)
                           \/ ReadInterrupted(s) \/ ReadFails(s)

-----------------------------------------------------------------------------
(* Termination, cleanup and settlement.                                     *)

(* A mutated order: a waitable leader is reaped before its group is         *)
(* signalled.                                                               *)
ReapThenSignal ==
  /\ pc = "signal"
  /\ IF proc[Leader] = "zombie"
     THEN /\ proc' = [proc EXCEPT ![Leader] = "gone"]
          /\ handle' = "closed"
          /\ evidence' = [evidence EXCEPT !.signal = "alreadyGone", !.status = exit,
                                          !.disposition = "reaped"]
     ELSE /\ KillGroup
          /\ evidence' = [evidence EXCEPT !.signal = "sent", !.disposition = "unreaped"]
          /\ UNCHANGED handle
  /\ pc' = "expiry"
  /\ UNCHANGED <<escaped, exit, holders, pipe, sender, reaper, cap, obs, turnVars,
                 outcome>>

(* signal_group; the cleanup budget starts here.                            *)
SignalTheGroup ==
  /\ pc = "signal"
  /\ \E result \in SignalOutcomes :
       /\ SignalGroup(result)
       /\ evidence' = [evidence EXCEPT !.signal = result, !.disposition = "unreaped"]
  /\ pc' = "expiry"
  /\ UNCHANGED <<escaped, exit, holders, pipe, childVars, cap, obs, turnVars, outcome>>

(* The head of the cleanup loop.                                            *)
CheckExpiry ==
  /\ pc = "expiry"
  /\ pc' = IF cleanupExpired THEN "settle" ELSE "control"
  /\ UNCHANGED <<osVars, childVars, cap, obs, turnVars, evidence, outcome>>

AllTerminal == \A s \in Streams : Terminal(cap[s])

(* Child::wait fails when the host took the status after it was observed;   *)
(* the cleanup loop is then left.                                           *)
ReapLeader ==
  /\ pc = "reap"
  /\ \/ /\ obs.waitable /\ handle = "owned"
        /\ ReapWaitable
        /\ evidence' = [evidence EXCEPT !.status = exit, !.disposition = "reaped"]
        /\ pc' = IF AllTerminal THEN "settle" ELSE "poll"
     \/ /\ obs.waitable /\ handle = "owned"
        /\ proc[Leader] = "gone"
        /\ evidence' = [evidence EXCEPT !.reapFailed = TRUE]
        /\ pc' = "settle"
        /\ UNCHANGED <<proc, handle>>
     \/ /\ ~(obs.waitable /\ handle = "owned")
        /\ pc' = IF handle # "owned" /\ AllTerminal THEN "settle" ELSE "poll"
        /\ UNCHANGED <<proc, handle, evidence>>
  /\ UNCHANGED <<escaped, exit, holders, pipe, sender, reaper, cap, obs, turnVars,
                 outcome>>

(* The evidence of the result, with the leader handed over if it is still   *)
(* owned.                                                                   *)
SettledEvidence ==
  LET unsettled  == handle = "owned"
      unfinished == {s \in Streams : ~Terminal(cap[s])}
  IN  [evidence EXCEPT
         !.disposition = IF unsettled /\ HandoffSucceeds THEN "backgroundReaper" ELSE @,
         !.reapFailed = @ \/ ~HandoffSucceeds,
         !.report = [s \in Streams |-> Report(cap[s])],
         !.cleanup = IF unsettled \/ unfinished # {} THEN "incomplete" ELSE "complete",
         !.unfinished = unfinished,
         !.leaderUnsettled = unsettled]

Settle ==
  /\ pc = "settle"
  /\ evidence' = SettledEvidence
  /\ outcome' = Classify(ChoosePrimary(obs, cap["stdout"].overflow, cap["stderr"].overflow),
                         command.deadline, evidence')
  /\ Handoff
  /\ sender' = FALSE
  /\ cap' = [s \in Streams |-> Close(cap[s])]
  /\ DropClosedPipes
  /\ pc' = "returned"
  /\ UNCHANGED <<proc, escaped, exit, holders, reaper, obs, turnVars>>

(* A panic unwinds the supervisor: OwnedChild is dropped, which signals the *)
(* group and hands the leader over.                                         *)
Panic ==
  /\ "panic" \in Faults
  /\ pc \in Main \cup Cleanup
  /\ DropOwnedChild
  /\ cap' = [s \in Streams |-> Close(cap[s])]
  /\ DropClosedPipes
  /\ pc' = "panicked"
  /\ UNCHANGED <<escaped, exit, holders, obs, turnVars, evidence, outcome,
                 command, clockVars>>

Supervise ==
  /\ \/ StartReaper \/ SpawnLeader \/ MakeNonblocking
     \/ ObserveLeader \/ Control \/ PollStreams \/ Pump
     \/ SignalTheGroup \/ CheckExpiry \/ ReapLeader \/ Settle
  /\ UNCHANGED <<command, clockVars>>

-----------------------------------------------------------------------------
(* The rest of the world.                                                   *)

BackgroundReaper == ReaperThread /\ UNCHANGED runVars

(* A write needs an open read end; one with no capture limit is bounded.    *)
ChildWrite ==
  /\ \E p \in Procs, s \in Streams :
       /\ cap[s].open
       /\ command.capture[s].onOverflow = "unbounded"
            => cap[s].kept + pipe[s] < MaxUnbounded
       /\ Write(p, s)
  /\ UNCHANGED <<childVars, runVars>>

ChildStep == ProcessStep /\ UNCHANGED <<childVars, runVars>>

ChildDies(p) == Die(p) /\ UNCHANGED <<childVars, runVars>>

RequestCancel ==
  /\ command.cancellable
  /\ ~cancelRequested
  /\ cancelRequested' = TRUE
  /\ UNCHANGED <<osVars, childVars, command, pc, cap, obs, turnVars, evidence,
                 outcome, deadlinePassed, cleanupExpired>>

DeadlinePasses ==
  /\ command.deadline
  /\ pc \in Main \cup Cleanup
  /\ ~deadlinePassed
  /\ deadlinePassed' = TRUE
  /\ UNCHANGED <<osVars, childVars, command, pc, cap, obs, turnVars, evidence,
                 outcome, cancelRequested, cleanupExpired>>

CleanupExpires ==
  /\ Cleaning
  /\ pc \notin Ended
  /\ ~cleanupExpired
  /\ cleanupExpired' = TRUE
  /\ UNCHANGED <<osVars, childVars, command, pc, cap, obs, turnVars, evidence,
                 outcome, cancelRequested, deadlinePassed>>

Finished == pc \in Ended /\ reaper \in {"off", "done"} /\ UNCHANGED vars

Next == \/ Supervise \/ Panic \/ BackgroundReaper
        \/ ChildWrite \/ ChildStep
        \/ RequestCancel \/ DeadlinePasses \/ CleanupExpires
        \/ Finished

(* The supervisor and the reaper are threads the system schedules; clocks   *)
(* advance; a process with a pending SIGKILL dies.  Nothing else a process  *)
(* does is assumed: it may run, or sleep, for ever.                         *)
Fairness ==
  /\ WF_vars(Supervise)
  /\ WF_vars(BackgroundReaper)
  /\ WF_vars(DeadlinePasses)
  /\ WF_vars(CleanupExpires)
  /\ \A p \in Procs : WF_vars(ChildDies(p))

(* What the safety proofs use, and what the adapters keep to.               *)
SafeSpec == Init /\ [][Next]_vars

Spec == SafeSpec /\ Fairness

-----------------------------------------------------------------------------
(* Safety.                                                                  *)

(* The duty to reap is never lost, doubled or left with a supervisor that   *)
(* is gone: an unreaped leader has a holder that will act on it, and a held *)
(* Child names a leader whose identifier is still reserved.                 *)
LeaderHasOneOwner == ReapDutyHeld(pc \in Main \cup Cleanup)

(* Ok is only returned for a leader that exited with zero and was reaped by *)
(* the supervisor, with its group doomed and, on every captured stream, no  *)
(* writer left, no unread byte and, unless the caller asked for truncation, *)
(* every byte retained.                                                     *)
SuccessIsSettled ==
  outcome = "ok" =>
    /\ proc[Leader] = "gone" /\ handle = "closed" /\ exit = "zero"
    /\ \A d \in Descendants \ escaped : proc[d] # "running"
    /\ \A s \in command.piped :
         /\ holders[s] = {}
         /\ \/ evidence.report[s].completeness = "complete"
            \/ /\ evidence.report[s].completeness = "truncated"
               /\ command.capture[s].onOverflow = "truncate"

(* The order ARCHITECTURE.md gives: the result names the first cause found, *)
(* whatever was noticed first and however late the others came.             *)
PrecedenceOrder == <<
  <<cap["stdout"].overflow, "limitStdout">>,
  <<cap["stderr"].overflow, "limitStderr">>,
  <<obs.cancelled, "cancelled">>,
  <<obs.deadline, "timeout">>,
  <<\E s \in Streams : Failed(cap[s]), "captureFailed">>,
  <<obs.error, "supervisionFailed">>,
  <<evidence.leaderUnsettled \/ evidence.unfinished # {}, "cleanupIncomplete">>,
  <<evidence.reapFailed \/ evidence.signal = "failed", "lifecycleFailed">>,
  <<evidence.status = "nonzero", "nonZeroExit">>,
  <<evidence.status = "zero", "ok">> >>

OutcomeFollowsPrecedence ==
  pc = "returned" /\ Cleaning =>
    \E i \in DOMAIN PrecedenceOrder :
      /\ PrecedenceOrder[i] = <<TRUE, outcome>>
      /\ \A j \in 1 .. i - 1 : ~PrecedenceOrder[j][1]

(* What the evidence of a result says is so: a status is the leader's own   *)
(* and comes with its reap, an unreaped leader is at the background reaper, *)
(* a stream that reached its end has no writer, an overflowed stream is     *)
(* never complete, and a cleanup is complete only with nothing left over.   *)
EvidenceMatchesWorld ==
  pc = "returned" /\ Cleaning =>
    /\ (evidence.status # "none") <=> (evidence.disposition = "reaped")
    /\ evidence.disposition = "reaped" =>
         evidence.status = exit /\ proc[Leader] = "gone"
    /\ LeaderUnreaped => evidence.disposition = "backgroundReaper"
    /\ evidence.leaderUnsettled <=> (evidence.disposition = "backgroundReaper")
    /\ \A s \in Streams : LET r == evidence.report[s] IN
         /\ (r.completeness = "redirected") <=> (s \notin command.piped)
         /\ r.completeness \in {"complete", "truncated"} => holders[s] = {}
         /\ cap[s].overflow => r.completeness # "complete" /\ r.discarded > 0
         /\ (s \in evidence.unfinished)
              <=> (r.completeness = "incomplete" /\ r.failure = "none")
    /\ (evidence.cleanup = "complete")
         <=> (evidence.disposition = "reaped" /\ evidence.unfinished = {})

(* A cancellation or a deadline that comes before the group is signalled is *)
(* never overtaken by the exit it races: such a run does not report a       *)
(* status, although the leader may have exited before either was noticed.   *)
EarlyTriggerNotLost ==
  [](~Cleaning /\ (cancelRequested \/ deadlinePassed)
       => [](outcome \notin {"ok", "nonZeroExit"}))

-----------------------------------------------------------------------------
(* Two statements of the documentation that the code does not bear out.     *)

(* SECURITY.md: an incomplete cleanup means that its deadline expired.      *)
IncompleteMeansBudgetExpired == evidence.cleanup = "incomplete" => cleanupExpired

(* CleanupIncompleteEvidence (error.rs): the unfinished streams are those   *)
(* whose pipes did not reach EOF.                                           *)
UnfinishedMeansNoEof ==
  evidence.cleanup = "incomplete" =>
    evidence.unfinished = {s \in command.piped : ~cap[s].eof}

-----------------------------------------------------------------------------
(* Liveness.                                                                *)

(* Whatever ends the observation, a result (or an unwinding) follows, even  *)
(* if a stream is written to for ever and a descendant never closes it.     *)
Settles ==
  cancelRequested \/ deadlinePassed \/ proc[Leader] \in {"zombie", "gone"}
    ~> pc \in Ended

(* No leader stays a zombie, and the reaper thread does not outlive it.     *)
ZombieIsReaped == (proc[Leader] = "zombie") ~> (proc[Leader] = "gone")
ReaperThreadEnds == (pc \in Ended) ~> (reaper \in {"off", "done"})

(* A child that filled a pipe is not blocked for good: bytes are taken out  *)
(* of the pipe, or its read end is closed.                                  *)
PipeNeverWedges ==
  \A s \in Streams :
    (cap[s].open /\ pipe[s] = PipeCapacity) ~> (pipe[s] < PipeCapacity \/ ~cap[s].open)

-----------------------------------------------------------------------------
(* The invocation is a Lifecycle.                                           *)

LifecycleStage ==
  IF pc \in Ended THEN "ended" ELSE IF Cleaning THEN "terminating"
  ELSE IF pc \in Main THEN "running" ELSE "idle"

LifecycleVerdict ==
  CASE pc = "panicked" -> "abandoned"
    [] pc # "panicked" /\ outcome = "pending" -> "pending"
    [] outcome \in Refusals -> "refused"
    [] outcome = "ok" -> "success"
    [] outcome \in Outcomes \ (Refusals \cup {"pending", "ok"}) -> "failure"

Lifecycle == INSTANCE Lifecycle
  WITH stage <- LifecycleStage, leader <- LifecycleLeader,
       owner <- LifecycleOwner, verdict <- LifecycleVerdict

(* The captured invocation keeps the promise of Lifecycle.                  *)
IsLifecycle == Lifecycle!Spec

=============================================================================
