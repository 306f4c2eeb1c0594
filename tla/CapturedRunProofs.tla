------------------------- MODULE CapturedRunProofs -------------------------
(***************************************************************************)
(* Theorems about CapturedRun for every set of commands and descendants,   *)
(* every capacity, chunk and turn, and every choice of faults.             *)
(***************************************************************************)
EXTENDS CapturedRun, ComponentProofs

-----------------------------------------------------------------------------
(* Type correctness.                                                        *)

LEMMA CommandType ==
  ASSUME TypeOK
  PROVE  /\ command.piped \in SUBSET Streams
         /\ command.capture \in [Streams -> CapturePolicies]
  BY CapturedRunAssumption DEF TypeOK

(* Replacing one stream by another of the type keeps the type of all.       *)
LEMMA CapExceptType ==
  ASSUME TypeOK, NEW s \in Streams, NEW c \in CaptureStates,
         cap' = [cap EXCEPT ![s] = c]
  PROVE  cap' \in [Streams -> CaptureStates]
  BY DEF TypeOK

LEMMA EndTurnType ==
  ASSUME TypeOK, pc = "pump", NEW s, EndTurn(s)
  PROVE  /\ turn' \in SUBSET Streams
         /\ budget' \in 1 .. ChunksPerTurn
         /\ stdoutFirst' \in BOOLEAN
         /\ pc' \in Main \cup Cleanup
<1>1. turn' \in SUBSET Streams /\ budget' \in 1 .. ChunksPerTurn
  BY CaptureAssumption DEF TypeOK, EndTurn
<1>2. pc' \in Main \cup Cleanup
  BY DEF EndTurn, LoopHead, Main, Cleanup
<1>3. stdoutFirst' \in BOOLEAN
  BY Zenon DEF TypeOK, EndTurn
<1> QED
  BY <1>1, <1>2, <1>3

LEMMA NextReadType ==
  ASSUME TypeOK, pc = "pump", NEW s, NextRead(s)
  PROVE  /\ turn' \in SUBSET Streams
         /\ budget' \in 1 .. ChunksPerTurn
         /\ stdoutFirst' \in BOOLEAN
         /\ pc' \in Main \cup Cleanup
<1>1. CASE EndTurn(s)
  BY <1>1, EndTurnType
<1>2. CASE budget # 1 /\ budget' = budget - 1 /\ UNCHANGED <<turn, stdoutFirst, pc>>
  BY <1>2, CaptureAssumption DEF TypeOK, Main
<1> QED
  BY <1>1, <1>2 DEF NextRead

LEMMA DropClosedPipesType ==
  ASSUME TypeOK, DropClosedPipes
  PROVE  pipe' \in [Streams -> 0 .. PipeCapacity]
<1>1. 0 \in 0 .. PipeCapacity
  BY ProcessGroupAssumption
<1> QED
  BY <1>1 DEF DropClosedPipes, TypeOK, OsTypeOK

LEMMA SettledEvidenceType ==
  ASSUME TypeOK
  PROVE  SettledEvidence \in Evidence(Streams)
<1>1. [s \in Streams |-> Report(cap[s])] \in [Streams -> Reports]
  BY ReportType DEF TypeOK
<1>2. evidence \in Evidence(Streams)
  BY DEF TypeOK
<1> QED
  BY <1>1, <1>2 DEF SettledEvidence, Evidence

LEMMA PumpType ==
  ASSUME TypeOK, Pump
  PROVE  /\ cap' \in [Streams -> CaptureStates]
         /\ pipe' \in [Streams -> 0 .. PipeCapacity]
         /\ turn' \in SUBSET Streams
         /\ budget' \in 1 .. ChunksPerTurn
         /\ stdoutFirst' \in BOOLEAN
         /\ pc' \in Main \cup Cleanup
         /\ AfterRead
<1> PICK s \in Streams : \/ ReadData(s) \/ ReadEof(s) \/ ReadWouldBlock(s)
                         \/ ReadInterrupted(s) \/ ReadFails(s)
  BY DEF Pump
<1>1. /\ cap \in [Streams -> CaptureStates] /\ cap[s] \in CaptureStates
      /\ pipe \in [Streams -> 0 .. PipeCapacity] /\ pipe[s] \in 0 .. PipeCapacity
      /\ PipeCapacity \in Nat /\ 0 \in 0 .. PipeCapacity
  BY ProcessGroupAssumption DEF TypeOK, OsTypeOK
<1>2. pc = "pump"
  BY DEF ReadData, ReadEof, ReadWouldBlock, ReadInterrupted, ReadFails, Reading
<1>3. CASE ReadData(s)
  <2> PICK n \in 1 .. Least(ReadChunk, pipe[s]),
           allocated \in IF "allocation" \in Faults THEN BOOLEAN ELSE {TRUE} :
        /\ cap' = [cap EXCEPT ![s] = Retain(cap[s], command.capture[s], n, allocated)]
        /\ pipe' = [pipe EXCEPT ![s] = IF cap'[s].open THEN pipe[s] - n ELSE 0]
    BY <1>3 DEF ReadData
  <2>1. n \in Nat /\ n \in 1 .. pipe[s]
    BY <1>1, CaptureAssumption DEF Least
  <2>2. command.capture[s] \in CapturePolicies
    BY CommandType
  <2>3. Retain(cap[s], command.capture[s], n, allocated) \in CaptureStates
    <3>1. allocated \in BOOLEAN
      BY Zenon
    <3> QED
      BY <1>1, <2>1, <2>2, <3>1, RetainType
  <2>4. pipe[s] - n \in 0 .. PipeCapacity
    BY <1>1, <2>1
  <2>5. pipe' \in [Streams -> 0 .. PipeCapacity]
    BY <1>1, <2>4
  <2> QED
    BY <1>2, <1>3, <2>3, <2>5, CapExceptType, NextReadType DEF ReadData
<1>4. CASE ReadEof(s)
  BY <1>1, <1>2, <1>4, ClosingType, EndTurnType DEF ReadEof
<1>5. CASE ReadWouldBlock(s)
  BY <1>1, <1>2, <1>5, EndTurnType DEF ReadWouldBlock
<1>6. CASE ReadInterrupted(s)
  BY <1>1, <1>2, <1>6, NextReadType DEF ReadInterrupted
<1>7. CASE ReadFails(s)
  BY <1>1, <1>2, <1>7, ClosingType, EndTurnType DEF ReadFails
<1> QED
  BY <1>3, <1>4, <1>5, <1>6, <1>7

LEMMA InitType == Init => TypeOK
<1> SUFFICES ASSUME Init PROVE TypeOK
  OBVIOUS
<1>1. OsTypeOK
  BY ProcessGroupAssumption DEF Init, OsInit, OsTypeOK, ProcStates, ExitStates
<1>2. ChildTypeOK
  BY DEF Init, ChildInit, ChildTypeOK
<1>3. cap \in [Streams -> CaptureStates]
  BY FreshStreamType DEF Init
<1>4. evidence \in Evidence(Streams)
  BY UnknownReportType DEF Init, UnknownEvidence, Evidence
<1>5. obs \in ObservationStates /\ budget \in 1 .. ChunksPerTurn
  BY CaptureAssumption DEF Init, NoObservations, ObservationStates
<1> QED
  BY <1>1, <1>2, <1>3, <1>4, <1>5 DEF Init, TypeOK, Outcomes

LEMMA SuperviseType ==
  ASSUME TypeOK, Supervise
  PROVE  TypeOK'
<1> USE DEF TypeOK, osVars, childVars, turnVars, clockVars, Main, Cleanup, Ended
<1>1. CASE StartReaper
  <2>1. ChildTypeOK'
    BY <1>1 DEF StartReaper, StartBackgroundReaper, Refuse, ChildTypeOK
  <2>2. pc' \in {"spawn", "returned"} /\ outcome' \in Outcomes
    BY <1>1 DEF StartReaper, Refuse, Outcomes, Refusals
  <2> QED
    BY <1>1, <2>1, <2>2 DEF StartReaper, Supervise, OsTypeOK
<1>2. CASE SpawnLeader
  <2>1. OsTypeOK'
    BY <1>2, LaunchLeaderType DEF SpawnLeader, OsTypeOK
  <2>2. cap' \in [Streams -> CaptureStates]
    <3>1. \A s \in Streams : (s \in command.piped) \in BOOLEAN
      OBVIOUS
    <3>2. \A s \in Streams : FreshStream(s \in command.piped) \in CaptureStates
      BY <3>1, FreshStreamType
    <3> QED
      BY <1>2, <3>2 DEF SpawnLeader
  <2>3. pc' \in {"open", "returned"} /\ outcome' \in Outcomes
    BY <1>2 DEF SpawnLeader, SpawnRefusals, Refuse, Outcomes, Refusals
  <2>4. ChildTypeOK'
    BY <1>2 DEF SpawnLeader, Refuse, ChildTypeOK
  <2> QED
    BY <1>2, <2>1, <2>2, <2>3, <2>4 DEF SpawnLeader, Supervise
<1>3. CASE MakeNonblocking
  <2>1. cap' \in [Streams -> CaptureStates]
    BY <1>3, ClosingType DEF MakeNonblocking
  <2>2. OsTypeOK'
    BY <1>3, DropClosedPipesType DEF MakeNonblocking, OsTypeOK
  <2> QED
    BY <1>3, <2>1, <2>2 DEF MakeNonblocking, Supervise, ChildTypeOK
<1>4. CASE ObserveLeader
  BY <1>4 DEF ObserveLeader, LeaderObservations, ObservationStates, Supervise, OsTypeOK,
              ChildTypeOK
<1>5. CASE Control
  BY <1>5 DEF Control, ControlsSeen, ObservationStates, Supervise, OsTypeOK, ChildTypeOK
<1>6. CASE PollStreams
  <2>1. pc' \in Main \cup Cleanup
    BY <1>6 DEF PollStreams, LoopHead
  <2>2. turn' \in SUBSET Streams
    BY <1>6 DEF PollStreams, Ready
  <2>3. stdoutFirst' \in BOOLEAN
    BY <1>6, Zenon DEF PollStreams
  <2>4. obs' \in ObservationStates
    BY <1>6 DEF PollStreams, ObservationStates
  <2>5. UNCHANGED <<osVars, childVars, cap, budget, evidence, outcome, command, clockVars>>
    BY <1>6 DEF PollStreams, Supervise
  <2> QED
    BY <2>1, <2>2, <2>3, <2>4, <2>5 DEF OsTypeOK, ChildTypeOK
<1>7. CASE Pump
  BY <1>7, PumpType DEF AfterRead, Supervise, OsTypeOK, ChildTypeOK
<1>8. CASE SignalTheGroup
  <2> PICK result \in SignalOutcomes :
        /\ SignalGroup(result)
        /\ evidence' = [evidence EXCEPT !.signal = result, !.disposition = "unreaped"]
    BY <1>8 DEF SignalTheGroup
  <2>1. proc' \in [Procs -> ProcStates]
    BY SignalGroupType
  <2>2. result \in {"sent", "alreadyGone", "failed"}
    BY DEF SignalOutcomes
  <2>3. evidence' \in Evidence(Streams)
    BY <2>2 DEF Evidence
  <2> QED
    BY <1>8, <2>1, <2>3 DEF SignalTheGroup, Supervise, OsTypeOK, ChildTypeOK
<1>9. CASE CheckExpiry
  BY <1>9 DEF CheckExpiry, Supervise, OsTypeOK, ChildTypeOK
<1>10. CASE ReapLeader
  <2>1. proc' \in [Procs -> ProcStates]
    BY <1>10 DEF ReapLeader, ReapWaitable, OsTypeOK, ProcStates
  <2>2. evidence' \in Evidence(Streams)
    BY <1>10 DEF ReapLeader, Evidence, OsTypeOK, ExitStates
  <2>3. handle' \in {"none", "owned", "sent", "reaper", "closed"}
    BY <1>10 DEF ReapLeader, ReapWaitable, ChildTypeOK
  <2>4. pc' \in Main \cup Cleanup
    BY <1>10 DEF ReapLeader
  <2> QED
    BY <1>10, <2>1, <2>2, <2>3, <2>4 DEF ReapLeader, Supervise, OsTypeOK, ChildTypeOK
<1>11. CASE Settle
  <2>1. evidence' \in Evidence(Streams)
    BY <1>11, SettledEvidenceType DEF Settle
  <2>2. outcome' \in Outcomes
    BY <1>11, ClassifyType, ChoosePrimaryType DEF Settle
  <2>3. cap' \in [Streams -> CaptureStates]
    BY <1>11, ClosingType DEF Settle
  <2>4. OsTypeOK'
    BY <1>11, DropClosedPipesType DEF Settle, OsTypeOK
  <2>5. ChildTypeOK'
    BY <1>11, HandoffType DEF Settle, ChildTypeOK
  <2> QED
    BY <1>11, <2>1, <2>2, <2>3, <2>4, <2>5 DEF Settle, Supervise
<1> QED
  BY <1>1, <1>2, <1>3, <1>4, <1>5, <1>6, <1>7, <1>8, <1>9, <1>10, <1>11 DEF Supervise

LEMMA PanicType ==
  ASSUME TypeOK, Panic
  PROVE  TypeOK'
<1>1. cap' \in [Streams -> CaptureStates]
  BY ClosingType DEF Panic, TypeOK
<1>2. OsTypeOK'
  BY DropOwnedChildType, DropClosedPipesType DEF Panic, TypeOK, OsTypeOK
<1>3. ChildTypeOK'
  BY DropOwnedChildType DEF Panic, TypeOK
<1> QED
  BY <1>1, <1>2, <1>3 DEF Panic, TypeOK, turnVars, clockVars, Ended

LEMMA TypeStep == TypeOK /\ [Next]_vars => TypeOK'
<1> SUFFICES ASSUME TypeOK, [Next]_vars PROVE TypeOK'
  OBVIOUS
<1> USE DEF TypeOK, osVars, childVars, turnVars, clockVars, runVars
<1>1. CASE UNCHANGED vars
  BY <1>1 DEF vars, OsTypeOK, ChildTypeOK
<1>2. CASE Supervise
  BY <1>2, SuperviseType
<1>3. CASE Panic
  BY <1>3, PanicType
<1>4. CASE BackgroundReaper
  BY <1>4, ReaperThreadType DEF BackgroundReaper
<1>5. CASE ChildWrite
  BY <1>5, WriteType DEF ChildWrite, ChildTypeOK
<1>6. CASE ChildStep
  BY <1>6, ProcessStepType DEF ChildStep, ChildTypeOK
<1>7. CASE RequestCancel
  BY <1>7 DEF RequestCancel, OsTypeOK, ChildTypeOK
<1>8. CASE DeadlinePasses
  BY <1>8 DEF DeadlinePasses, OsTypeOK, ChildTypeOK
<1>9. CASE CleanupExpires
  BY <1>9 DEF CleanupExpires, OsTypeOK, ChildTypeOK
<1>10. CASE Finished
  BY <1>10 DEF Finished, vars, OsTypeOK, ChildTypeOK
<1> QED
  BY <1>1, <1>2, <1>3, <1>4, <1>5, <1>6, <1>7, <1>8, <1>9, <1>10 DEF Next

LEMMA TypeAlways == SafeSpec => []TypeOK
BY InitType, TypeStep, PTL DEF SafeSpec

(* Every state and every step is of the declared types: in particular the   *)
(* count of discarded bytes never leaves its width, a turn never runs out   *)
(* of reads, and every invocation has one of the listed outcomes.           *)
THEOREM TypeCorrect == Spec => []TypeOK
BY TypeAlways DEF Spec

-----------------------------------------------------------------------------
(* The owner of the leader.                                                 *)

(* LeaderHasOneOwner says what holds of the Child where the supervisor may  *)
(* stop; the induction needs where the supervisor may be with which Child,  *)
(* and that the reaper listens for as long as the supervisor can send.      *)
OwnerInv ==
  /\ DutyInv
  /\ pc = "start" => handle = "none" /\ ~sender /\ reaper = "off"
  /\ pc = "spawn" => handle = "none" /\ sender /\ reaper = "listening"
  /\ pc \in Main \cup Cleanup =>
       handle \in {"owned", "closed"} /\ sender /\ reaper = "listening"
  /\ handle = "owned" => pc \in Main \cup Cleanup

LEMMA InitOwner == Init => OwnerInv
<1>1. Leader \in Procs
  BY DEF Procs, Leader
<1> QED
  BY <1>1 DEF Init, OsInit, ChildInit, OwnerInv, DutyInv, LeaderUnreaped, Held, Main, Cleanup

LEMMA SuperviseOwner ==
  ASSUME TypeOK, OwnerInv, Supervise
  PROVE  OwnerInv'
<1> USE DEF OwnerInv, Main, Cleanup, Ended, osVars, childVars
<1>1. CASE StartReaper
  BY <1>1 DEF StartReaper, StartBackgroundReaper, Refuse, DutyInv, LeaderUnreaped, Held
<1>2. CASE SpawnLeader
  <2>1. CASE LaunchLeader(command.piped) /\ handle' = "owned"
    <3>1. proc'[Leader] = "running"
      BY <2>1 DEF LaunchLeader, TypeOK, OsTypeOK, Procs
    <3>2. DutyInv'
      BY <1>2, <2>1, <3>1 DEF SpawnLeader, DutyInv, LeaderUnreaped, Held
    <3> QED
      BY <1>2, <2>1, <3>2 DEF SpawnLeader, Refuse
  <2>2. CASE UNCHANGED <<osVars, handle>>
    BY <1>2, <2>2 DEF SpawnLeader, Refuse, DutyInv, LeaderUnreaped, Held
  <2> QED
    BY <1>2, <2>1, <2>2 DEF SpawnLeader
<1>3. CASE MakeNonblocking \/ ObserveLeader \/ Control \/ PollStreams \/ CheckExpiry
  BY <1>3 DEF MakeNonblocking, ObserveLeader, Control, PollStreams, CheckExpiry, LoopHead,
              DutyInv, LeaderUnreaped
<1>4. CASE Pump
  <2>1. pc = "pump"
    BY <1>4 DEF Pump, ReadData, ReadEof, ReadWouldBlock, ReadInterrupted, ReadFails, Reading
  <2> QED
    BY <1>4, <2>1, PumpType DEF AfterRead, DutyInv, LeaderUnreaped
<1>5. CASE SignalTheGroup
  <2>1. PICK result \in SignalOutcomes : SignalGroup(result)
    BY <1>5 DEF SignalTheGroup
  <2>2. DutyInv'
    BY <1>5, <2>1, SignalKeepsLeader DEF SignalTheGroup, TypeOK, DutyInv
  <2> QED
    BY <1>5, <2>2 DEF SignalTheGroup
<1>6. CASE ReapLeader
  <2>1. CASE handle = "owned" /\ ReapWaitable
    <3>1. proc'[Leader] = "gone" /\ handle' = "closed"
      BY <2>1 DEF ReapWaitable, TypeOK, OsTypeOK, Procs
    <3>2. DutyInv'
      BY <1>6, <2>1, <3>1 DEF ReapLeader, DutyInv, LeaderUnreaped, Held
    <3> QED
      BY <1>6, <3>1, <3>2 DEF ReapLeader
  <2>2. CASE UNCHANGED <<proc, handle>>
    BY <1>6, <2>2 DEF ReapLeader, DutyInv, LeaderUnreaped
  <2> QED
    BY <1>6, <2>1, <2>2 DEF ReapLeader
<1>7. CASE Settle
  <2>1. DutyInv' /\ handle' # "owned"
    BY <1>7, HandoffDuty DEF Settle, TypeOK
  <2> QED
    BY <1>7, <2>1 DEF Settle
<1> QED
  BY <1>1, <1>2, <1>3, <1>4, <1>5, <1>6, <1>7 DEF Supervise

(* The reaper thread only moves once the supervisor is gone.                *)
LEMMA ReaperOwner ==
  ASSUME TypeOK, OwnerInv, BackgroundReaper
  PROVE  OwnerInv'
<1>1. DutyInv'
  BY ReaperThreadDuty DEF BackgroundReaper, TypeOK, OwnerInv
<1>2. pc \notin {"start", "spawn"} \cup Main \cup Cleanup
  BY DEF BackgroundReaper, ReaperThread, ReaperReceive, ReaperDisconnect, ReaperWait,
         OwnerInv, DutyInv
<1>3. handle' # "owned" /\ pc' = pc
  BY <1>2 DEF BackgroundReaper, ReaperThread, ReaperReceive, ReaperDisconnect, ReaperWait,
              OwnerInv, runVars
<1> QED
  BY <1>1, <1>2, <1>3 DEF OwnerInv

LEMMA OwnerStep == TypeOK /\ OwnerInv /\ [Next]_vars => OwnerInv'
<1> SUFFICES ASSUME TypeOK, OwnerInv, [Next]_vars PROVE OwnerInv'
  OBVIOUS
<1>1. CASE Supervise
  BY <1>1, SuperviseOwner
<1>2. CASE Panic
  <2>1. DutyInv' /\ handle' # "owned"
    BY <1>2, DropOwnedChildDuty DEF Panic, TypeOK, OwnerInv
  <2> QED
    BY <1>2, <2>1 DEF Panic, OwnerInv, Main, Cleanup
<1>3. CASE BackgroundReaper
  BY <1>3, ReaperOwner
<1>4. CASE ChildStep
  <2>1. DutyInv'
    BY <1>4, ProcessStepDuty DEF ChildStep, TypeOK, OwnerInv
  <2> QED
    BY <1>4, <2>1 DEF ChildStep, OwnerInv, childVars, runVars
<1>5. CASE \/ ChildWrite \/ RequestCancel \/ DeadlinePasses \/ CleanupExpires
           \/ UNCHANGED vars
  BY <1>5 DEF ChildWrite, Write, RequestCancel, DeadlinePasses, CleanupExpires, vars,
              osVars, childVars, runVars, OwnerInv, DutyInv, LeaderUnreaped
<1> QED
  BY <1>1, <1>2, <1>3, <1>4, <1>5 DEF Next, Finished

LEMMA OwnerAlways == SafeSpec => []OwnerInv /\ []LeaderHasOneOwner
<1>1. TypeOK /\ OwnerInv => LeaderHasOneOwner
  BY DutyInvHolds DEF LeaderHasOneOwner, OwnerInv, TypeOK
<1> QED
  BY <1>1, InitOwner, OwnerStep, TypeAlways, PTL DEF SafeSpec

(* Whatever fails, and wherever the supervisor unwinds, the reap of the     *)
(* leader is owed by exactly one thread, which will act on it.              *)
THEOREM OneOwner == Spec => []LeaderHasOneOwner
BY OwnerAlways DEF Spec

-----------------------------------------------------------------------------
(* The group is doomed before the leader is reaped.                         *)

Reliable == Faults \cap {"signal", "hostReap"} = {}

(* The leader is reaped from the cleanup loop or by the background reaper,  *)
(* and neither gets the Child before the group is doomed.                   *)
DoomInv ==
  /\ pc \in {"start", "spawn"} => ~Cleaning
  /\ pc \in Cleanup => Cleaning
  /\ Cleaning \/ handle \in {"sent", "reaper", "closed"} => Doomed

LEMMA SuperviseDoom ==
  ASSUME TypeOK, OwnerInv, DoomInv, Reliable, Supervise
  PROVE  DoomInv'
<1> USE DEF DoomInv, Cleaning, Cleanup, osVars, childVars
<1>1. CASE StartReaper
  BY <1>1 DEF StartReaper, StartBackgroundReaper, Refuse, Doomed
<1>2. CASE SpawnLeader
  BY <1>2 DEF SpawnLeader, Refuse, Doomed, OwnerInv
<1>3. CASE MakeNonblocking \/ ObserveLeader \/ Control \/ PollStreams \/ CheckExpiry
  BY <1>3 DEF MakeNonblocking, ObserveLeader, Control, PollStreams, CheckExpiry, LoopHead,
              Doomed
<1>4. CASE Pump
  <2>1. pc = "pump"
    BY <1>4 DEF Pump, ReadData, ReadEof, ReadWouldBlock, ReadInterrupted, ReadFails, Reading
  <2>2. pc' \in {"pump", LoopHead}
    BY <1>4, <2>1 DEF Pump, ReadData, ReadEof, ReadWouldBlock, ReadInterrupted, ReadFails,
                      NextRead, EndTurn
  <2> QED
    BY <1>4, <2>2, PumpType DEF AfterRead, Doomed, LoopHead
<1>5. CASE SignalTheGroup
  <2>1. PICK result \in SignalOutcomes :
          /\ SignalGroup(result)
          /\ evidence' = [evidence EXCEPT !.signal = result, !.disposition = "unreaped"]
    BY <1>5 DEF SignalTheGroup
  <2>2. Doomed'
    BY <1>5, <2>1, SignalDooms DEF SignalTheGroup, TypeOK, Reliable
  <2>3. Cleaning'
    BY <2>1 DEF SignalOutcomes, TypeOK, Evidence
  <2> QED
    BY <1>5, <2>2, <2>3 DEF SignalTheGroup
<1>6. CASE ReapLeader
  <2>1. Doomed'
    BY <1>6 DEF ReapLeader, ReapWaitable, Doomed, TypeOK, OsTypeOK
  <2>2. evidence'.signal = evidence.signal
    BY <1>6 DEF ReapLeader, TypeOK, Evidence
  <2> QED
    BY <1>6, <2>1, <2>2 DEF ReapLeader
<1>7. CASE Settle
  <2>1. evidence'.signal = evidence.signal
    BY <1>7 DEF Settle, SettledEvidence, TypeOK, Evidence
  <2> QED
    BY <1>7, <2>1 DEF Settle, Doomed
<1> QED
  BY <1>1, <1>2, <1>3, <1>4, <1>5, <1>6, <1>7 DEF Supervise

LEMMA DoomStep == Reliable /\ TypeOK /\ OwnerInv /\ DoomInv /\ [Next]_vars => DoomInv'
<1> SUFFICES ASSUME Reliable, TypeOK, OwnerInv, DoomInv, [Next]_vars PROVE DoomInv'
  OBVIOUS
<1>1. CASE Supervise
  BY <1>1, SuperviseDoom
<1>2. CASE Panic
  <2>1. Doomed'
    BY <1>2, DropOwnedChildDoomed DEF Panic, TypeOK, OwnerInv, DoomInv, Reliable
  <2> QED
    BY <1>2, <2>1 DEF Panic, DoomInv, Cleanup
<1>3. CASE BackgroundReaper
  <2>1. (Cleaning \/ handle \in {"sent", "reaper", "closed"}) /\ Doomed => Doomed'
    BY <1>3, ReaperThreadDoomed DEF BackgroundReaper, TypeOK
  <2>2. UNCHANGED <<pc, evidence>>
    BY <1>3 DEF BackgroundReaper, runVars
  <2>3. handle' = handle \/ handle \in {"sent", "reaper"}
    BY <1>3 DEF BackgroundReaper, ReaperThread, ReaperReceive, ReaperDisconnect, ReaperWait,
                OwnerInv, DutyInv
  <2> QED
    BY <2>1, <2>2, <2>3 DEF DoomInv, Cleaning
<1>4. CASE ChildStep
  <2>1. Doomed => Doomed'
    BY <1>4, ProcessStepDoomed DEF ChildStep, TypeOK
  <2> QED
    BY <1>4, <2>1 DEF ChildStep, DoomInv, Cleaning, childVars, runVars
<1>5. CASE \/ ChildWrite \/ RequestCancel \/ DeadlinePasses \/ CleanupExpires
           \/ UNCHANGED vars
  BY <1>5 DEF ChildWrite, Write, RequestCancel, DeadlinePasses, CleanupExpires, vars,
              osVars, childVars, runVars, DoomInv, Cleaning, Doomed
<1> QED
  BY <1>1, <1>2, <1>3, <1>4, <1>5 DEF Next, Finished

LEMMA DoomAlways == SafeSpec => []GroupDoomedBeforeReap
<1>1. Init => DoomInv
  BY DEF Init, ChildInit, DoomInv, Cleaning, Cleanup, UnknownEvidence
<1>2. TypeOK /\ OwnerInv /\ (Reliable => DoomInv) => GroupDoomedBeforeReap
  BY DoomedBeforeReap DEF TypeOK, OwnerInv, Reliable, DoomInv
<1>3. TypeOK /\ OwnerInv /\ (Reliable => DoomInv) /\ [Next]_vars => (Reliable => DoomInv)'
  BY DoomStep DEF Reliable
<1> QED
  BY <1>1, <1>2, <1>3, InitOwner, OwnerStep, TypeAlways, PTL DEF SafeSpec

(* The leader is never reaped, by either thread and on any path, before its *)
(* process group was doomed, so no signal can reach a reused identifier.    *)
THEOREM DoomedFirst == Spec => []GroupDoomedBeforeReap
BY DoomAlways DEF Spec

-----------------------------------------------------------------------------
(* Where the supervisor is, and what it has seen.                           *)

(* What was observed is so; there is a leader to observe until the group is *)
(* signalled, and nothing has happened to the streams before it exists.     *)
StageInv ==
  /\ pc \in {"start", "spawn"} => \A s \in Streams : ~cap[s].overflow /\ ~Failed(cap[s])
  /\ pc \in {"start", "spawn", "open", "signal"} => ~Cleaning
  /\ pc \in Cleanup => Cleaning
  /\ pc \in Main /\ ~Cleaning => handle = "owned"
  /\ obs.waitable => proc[Leader] \in {"zombie", "gone"}
  /\ obs.cancelled => cancelRequested
  /\ obs.deadline => deadlinePassed

(* A dead leader stays dead.                                                *)
LeaderStaysDead == proc[Leader] \in {"zombie", "gone"} => proc'[Leader] \in {"zombie", "gone"}

LEMMA PumpStage ==
  ASSUME Pump
  PROVE  pc = "pump" /\ pc' \in {"pump", LoopHead} /\ AfterRead
  BY DEF Pump, ReadData, ReadEof, ReadWouldBlock, ReadInterrupted, ReadFails, Reading,
         NextRead, EndTurn

LEMMA InitStage == Init => StageInv
BY DEF Init, StageInv, FreshStream, Failed, NoObservations, UnknownEvidence, Cleaning,
       Main, Cleanup

LEMMA SignalLeaderDead ==
  ASSUME TypeOK, NEW result, SignalGroup(result)
  PROVE  LeaderStaysDead
  BY DEF SignalGroup, KillGroup, LeaderStaysDead, TypeOK, OsTypeOK, Procs

LEMMA SuperviseStage ==
  ASSUME TypeOK, OwnerInv, StageInv, Supervise
  PROVE  StageInv' /\ LeaderStaysDead
<1> USE DEF StageInv, Cleaning, Main, Cleanup, osVars, childVars, LeaderStaysDead
<1>0. UNCHANGED clockVars
  BY DEF Supervise
<1>1. CASE StartReaper
  BY <1>0, <1>1 DEF StartReaper, Refuse, clockVars
<1>2. CASE SpawnLeader
  <2>1. proc[Leader] = "unborn"
    BY <1>2 DEF SpawnLeader, OwnerInv, DutyInv
  <2>2. ~obs.waitable
    BY <2>1
  <2>3. pc' \in {"open", "returned"} /\ (pc' = "open" => handle' = "owned")
    BY <1>2 DEF SpawnLeader, Refuse
  <2> QED
    BY <1>0, <1>2, <2>1, <2>2, <2>3 DEF SpawnLeader, clockVars
<1>3. CASE MakeNonblocking
  BY <1>0, <1>3 DEF MakeNonblocking, clockVars
<1>4. CASE ObserveLeader
  <2>1. obs' \in LeaderObservations(obs)
    BY <1>4 DEF ObserveLeader
  <2>2. /\ obs'.waitable => proc[Leader] \in {"zombie", "gone"}
        /\ obs'.cancelled = obs.cancelled /\ obs'.deadline = obs.deadline
    BY <2>1 DEF LeaderObservations, TypeOK, ObservationStates
  <2> QED
    BY <1>0, <1>4, <2>2 DEF ObserveLeader, clockVars
<1>5. CASE Control
  <2>1. /\ obs'.cancelled => cancelRequested
        /\ obs'.deadline => deadlinePassed
        /\ obs'.waitable = obs.waitable
    BY <1>5 DEF Control, ControlsSeen, TypeOK, ObservationStates
  <2> QED
    BY <1>0, <1>5, <2>1 DEF Control, clockVars
<1>6. CASE PollStreams
  <2>1. /\ obs'.cancelled = obs.cancelled /\ obs'.deadline = obs.deadline
        /\ obs'.waitable = obs.waitable
    BY <1>6 DEF PollStreams, TypeOK, ObservationStates
  <2>2. pc' \in {"pump", LoopHead} /\ pc = "poll"
    BY <1>6 DEF PollStreams
  <2> QED
    BY <1>0, <1>6, <2>1, <2>2 DEF PollStreams, clockVars, LoopHead
<1>7. CASE Pump
  BY <1>0, <1>7, PumpStage DEF AfterRead, clockVars, LoopHead
<1>8. CASE SignalTheGroup
  <2>1. PICK result \in SignalOutcomes :
          /\ SignalGroup(result)
          /\ evidence' = [evidence EXCEPT !.signal = result, !.disposition = "unreaped"]
    BY <1>8 DEF SignalTheGroup
  <2>2. Cleaning'
    BY <2>1 DEF SignalOutcomes, TypeOK, Evidence
  <2>3. LeaderStaysDead
    BY <2>1, SignalLeaderDead
  <2> QED
    BY <1>0, <1>8, <2>2, <2>3 DEF SignalTheGroup, clockVars
<1>9. CASE CheckExpiry
  BY <1>0, <1>9 DEF CheckExpiry, clockVars
<1>10. CASE ReapLeader
  <2>1. evidence'.signal = evidence.signal
    BY <1>10 DEF ReapLeader, TypeOK, Evidence
  <2>2. LeaderStaysDead
    BY <1>10 DEF ReapLeader, ReapWaitable, TypeOK, OsTypeOK, Procs
  <2> QED
    BY <1>0, <1>10, <2>1, <2>2 DEF ReapLeader, clockVars
<1>11. CASE Settle
  <2>1. evidence'.signal = evidence.signal
    BY <1>11 DEF Settle, SettledEvidence, TypeOK, Evidence
  <2> QED
    BY <1>0, <1>11, <2>1 DEF Settle, clockVars
<1> QED
  BY <1>1, <1>2, <1>3, <1>4, <1>5, <1>6, <1>7, <1>8, <1>9, <1>10, <1>11 DEF Supervise

LEMMA StageStep ==
  TypeOK /\ OwnerInv /\ StageInv /\ [Next]_vars => StageInv' /\ LeaderStaysDead
<1> SUFFICES ASSUME TypeOK, OwnerInv, StageInv, [Next]_vars
             PROVE  StageInv' /\ LeaderStaysDead
  OBVIOUS
<1> USE DEF StageInv, Cleaning, osVars, childVars, runVars, LeaderStaysDead
<1>1. CASE Supervise
  BY <1>1, SuperviseStage
<1>2. CASE Panic
  <2>1. LeaderStaysDead
    BY <1>2, SignalLeaderDead DEF Panic, DropOwnedChild
  <2> QED
    BY <1>2, <2>1 DEF Panic, Main, Cleanup, clockVars
<1>3. CASE BackgroundReaper
  <2>1. LeaderStaysDead
    BY <1>3 DEF BackgroundReaper, ReaperThread, ReaperReceive, ReaperDisconnect, ReaperWait,
                TypeOK, OsTypeOK, Procs
  <2>2. pc \notin Main
    BY <1>3 DEF BackgroundReaper, ReaperThread, ReaperReceive, ReaperDisconnect, ReaperWait,
                OwnerInv, DutyInv
  <2> QED
    BY <1>3, <2>1, <2>2 DEF BackgroundReaper, clockVars
<1>4. CASE ChildWrite
  BY <1>4 DEF ChildWrite, Write, clockVars
<1>5. CASE ChildStep
  <2>1. LeaderStaysDead
    BY <1>5, ProcessGroupAssumption
       DEF ChildStep, ProcessStep, Fork, Escape, CloseOutput, Exit, Die, Ends, HostReap,
           TypeOK, OsTypeOK, Procs, Leader
  <2> QED
    BY <1>5, <2>1 DEF ChildStep, clockVars
<1>6. CASE RequestCancel \/ DeadlinePasses \/ CleanupExpires \/ UNCHANGED vars
  BY <1>6 DEF RequestCancel, DeadlinePasses, CleanupExpires, vars, clockVars
<1> QED
  BY <1>1, <1>2, <1>3, <1>4, <1>5, <1>6 DEF Next, Finished

LEMMA StageAlways == SafeSpec => []StageInv
BY InitStage, StageStep, InitOwner, OwnerStep, TypeAlways, PTL DEF SafeSpec

(* What ends the observation is never taken back.                           *)
LEMMA RetainKeepsCauses ==
  ASSUME NEW c \in CaptureStates, NEW policy, NEW n, NEW allocated
  PROVE  /\ c.overflow => Retain(c, policy, n, allocated).overflow
         /\ Failed(c) => Failed(Retain(c, policy, n, allocated))
  BY DEF Retain, Failed, FirstFailure, CaptureStates

LEMMA ClosingKeepsCauses ==
  ASSUME NEW c \in CaptureStates
  PROVE  /\ c.overflow => ReachEof(c).overflow /\ RecordFailure(c).overflow /\ Close(c).overflow
         /\ Failed(c) => Failed(ReachEof(c)) /\ Failed(RecordFailure(c)) /\ Failed(Close(c))
  BY DEF ReachEof, RecordFailure, Close, Failed, FirstFailure, CaptureStates

StreamCausesStay ==
  \A s \in Streams : /\ cap[s].overflow => cap'[s].overflow
                     /\ Failed(cap[s]) => Failed(cap'[s])

LEMMA SuperviseStreams ==
  ASSUME TypeOK, StageInv, Supervise
  PROVE  StreamCausesStay
<1> USE DEF StreamCausesStay
<1>0. \A s \in Streams : cap[s] \in CaptureStates
  BY DEF TypeOK
<1>1. CASE SpawnLeader
  BY <1>1 DEF SpawnLeader, StageInv
<1>2. CASE MakeNonblocking
  BY <1>0, <1>2, ClosingKeepsCauses DEF MakeNonblocking
<1>3. CASE Pump
  <2> PICK s \in Streams : \/ ReadData(s) \/ ReadEof(s) \/ ReadWouldBlock(s)
                           \/ ReadInterrupted(s) \/ ReadFails(s)
    BY <1>3 DEF Pump
  <2>1. \/ cap' = cap
        \/ cap' = [cap EXCEPT ![s] = ReachEof(cap[s])]
        \/ cap' = [cap EXCEPT ![s] = RecordFailure(cap[s])]
        \/ \E n, allocated : cap' = [cap EXCEPT ![s] = Retain(cap[s], command.capture[s], n, allocated)]
    BY DEF ReadData, ReadEof, ReadWouldBlock, ReadInterrupted, ReadFails
  <2> QED
    BY <1>0, <2>1, ClosingKeepsCauses, RetainKeepsCauses DEF TypeOK
<1>4. CASE Settle
  BY <1>0, <1>4, ClosingKeepsCauses DEF Settle
<1>5. CASE \/ StartReaper \/ ObserveLeader \/ Control \/ PollStreams \/ SignalTheGroup
           \/ CheckExpiry \/ ReapLeader
  BY <1>5 DEF StartReaper, ObserveLeader, Control, PollStreams, SignalTheGroup, CheckExpiry,
              ReapLeader
<1> QED
  BY <1>1, <1>2, <1>3, <1>4, <1>5 DEF Supervise

LEMMA CausesStay ==
  ASSUME TypeOK, StageInv, [Next]_vars
  PROVE  /\ cancelRequested => cancelRequested'
         /\ deadlinePassed => deadlinePassed'
         /\ obs.error => obs'.error
         /\ obs.waitable => obs'.waitable
         /\ StreamCausesStay
<1> USE DEF runVars, turnVars, clockVars
<1>1. CASE Supervise
  <2>1. UNCHANGED clockVars
    BY <1>1 DEF Supervise
  <2>2. (obs.error => obs'.error) /\ (obs.waitable => obs'.waitable)
    <3>1. CASE ObserveLeader
      BY <3>1 DEF ObserveLeader, LeaderObservations
    <3>2. CASE Control \/ PollStreams
      BY <3>2 DEF Control, ControlsSeen, PollStreams, TypeOK, ObservationStates
    <3>3. CASE Pump
      BY <3>3, PumpStage DEF AfterRead
    <3>4. CASE \/ StartReaper \/ SpawnLeader \/ MakeNonblocking \/ SignalTheGroup
               \/ CheckExpiry \/ ReapLeader \/ Settle
      BY <3>4 DEF StartReaper, SpawnLeader, MakeNonblocking, SignalTheGroup, CheckExpiry,
                  ReapLeader, Settle
    <3> QED
      BY <1>1, <3>1, <3>2, <3>3, <3>4 DEF Supervise
  <2> QED
    BY <1>1, <2>1, <2>2, SuperviseStreams
<1>2. CASE Panic
  <2>1. \A s \in Streams : cap[s] \in CaptureStates
    BY DEF TypeOK
  <2> QED
    BY <1>2, <2>1, ClosingKeepsCauses DEF Panic, StreamCausesStay
<1>3. CASE BackgroundReaper \/ ChildWrite \/ ChildStep \/ UNCHANGED vars
  BY <1>3 DEF BackgroundReaper, ChildWrite, ChildStep, StreamCausesStay, vars
<1>4. CASE RequestCancel \/ DeadlinePasses \/ CleanupExpires
  BY <1>4 DEF RequestCancel, DeadlinePasses, CleanupExpires, StreamCausesStay
<1> QED
  BY <1>1, <1>2, <1>3, <1>4 DEF Next, Finished

(* The group is signalled once, and the evidence says so from then on.      *)
LEMMA SignalledOnce ==
  ASSUME TypeOK, Supervise
  PROVE  IF pc = "signal" THEN Cleaning' ELSE evidence'.signal = evidence.signal
<1>1. CASE SignalTheGroup
  BY <1>1 DEF SignalTheGroup, SignalOutcomes, Cleaning, TypeOK, Evidence
<1>2. CASE ReapLeader
  BY <1>2 DEF ReapLeader, TypeOK, Evidence
<1>3. CASE Settle
  BY <1>3 DEF Settle, SettledEvidence, TypeOK, Evidence
<1>4. CASE Pump
  BY <1>4, PumpStage DEF AfterRead
<1>5. CASE \/ StartReaper \/ SpawnLeader \/ MakeNonblocking \/ ObserveLeader \/ Control
           \/ PollStreams \/ CheckExpiry
  BY <1>5 DEF StartReaper, SpawnLeader, MakeNonblocking, ObserveLeader, Control, PollStreams,
              CheckExpiry
<1> QED
  BY <1>1, <1>2, <1>3, <1>4, <1>5 DEF Supervise

(* A cleanup is incomplete only if its budget was spent or a reap failed.   *)
GiveUpInv ==
  /\ pc # "returned" => evidence.cleanup = "unknown"
  /\ cleanupExpired => Cleaning
  /\ pc = "settle" =>
       evidence.reapFailed \/ cleanupExpired \/ (handle # "owned" /\ AllTerminal)
  /\ evidence.cleanup = "incomplete" => evidence.reapFailed \/ cleanupExpired

LEMMA SuperviseGiveUp ==
  ASSUME TypeOK, OwnerInv, GiveUpInv, Supervise
  PROVE  GiveUpInv'
<1> USE DEF GiveUpInv
<1>0. UNCHANGED clockVars
  BY DEF Supervise
<1>1. CASE StartReaper \/ SpawnLeader
  BY <1>0, <1>1 DEF StartReaper, SpawnLeader, Refuse, Cleaning, clockVars
<1>2. CASE MakeNonblocking \/ ObserveLeader \/ Control \/ PollStreams
  BY <1>0, <1>2 DEF MakeNonblocking, ObserveLeader, Control, PollStreams, LoopHead, Cleaning,
                    clockVars
<1>3. CASE Pump
  BY <1>0, <1>3, PumpStage DEF AfterRead, LoopHead, Cleaning, clockVars
<1>4. CASE SignalTheGroup
  <2>1. Cleaning' /\ evidence'.cleanup = evidence.cleanup
    BY <1>4, SignalledOnce DEF SignalTheGroup, TypeOK, Evidence
  <2> QED
    BY <1>0, <1>4, <2>1 DEF SignalTheGroup, clockVars
<1>5. CASE CheckExpiry
  BY <1>0, <1>5 DEF CheckExpiry, Cleaning, clockVars
<1>6. CASE ReapLeader
  <2>1. evidence'.cleanup = evidence.cleanup /\ (Cleaning' <=> Cleaning)
    BY <1>6 DEF ReapLeader, TypeOK, Evidence, Cleaning
  <2>2. pc' = "settle" => evidence'.reapFailed \/ (handle' # "owned" /\ AllTerminal)
    BY <1>6 DEF ReapLeader, ReapWaitable, TypeOK, Evidence
  <2>3. AllTerminal' <=> AllTerminal
    BY <1>6 DEF ReapLeader, AllTerminal, Terminal, Failed
  <2>4. pc = "reap" /\ pc' \in {"poll", "settle"}
    BY <1>6 DEF ReapLeader
  <2> QED
    BY <1>0, <2>1, <2>2, <2>3, <2>4 DEF clockVars
<1>7. CASE Settle
  <2>1. Cleaning' <=> Cleaning
    BY <1>7 DEF Settle, SettledEvidence, TypeOK, Evidence, Cleaning
  <2>2. evidence'.reapFailed <=> evidence.reapFailed \/ ~HandoffSucceeds
    BY <1>7 DEF Settle, SettledEvidence, TypeOK, Evidence
  <2>3. evidence'.cleanup = "incomplete" => handle = "owned" \/ ~AllTerminal
    BY <1>7 DEF Settle, SettledEvidence, TypeOK, Evidence, AllTerminal
  <2> QED
    BY <1>0, <1>7, <2>1, <2>2, <2>3 DEF Settle, clockVars
<1> QED
  BY <1>1, <1>2, <1>3, <1>4, <1>5, <1>6, <1>7 DEF Supervise

LEMMA GiveUpStep == TypeOK /\ OwnerInv /\ GiveUpInv /\ [Next]_vars => GiveUpInv'
<1> SUFFICES ASSUME TypeOK, OwnerInv, GiveUpInv, [Next]_vars PROVE GiveUpInv'
  OBVIOUS
<1> USE DEF GiveUpInv, Cleaning
<1>1. CASE Supervise
  BY <1>1, SuperviseGiveUp
<1>2. CASE Panic
  BY <1>2 DEF Panic, clockVars, Main, Cleanup
<1>3. CASE BackgroundReaper
  <2>1. pc # "settle"
    BY <1>3 DEF BackgroundReaper, ReaperThread, ReaperReceive, ReaperDisconnect, ReaperWait,
                OwnerInv, DutyInv, Cleanup
  <2> QED
    BY <1>3, <2>1 DEF BackgroundReaper, runVars, clockVars
<1>4. CASE \/ ChildWrite \/ ChildStep \/ RequestCancel \/ DeadlinePasses \/ CleanupExpires
           \/ UNCHANGED vars
  <2>1. UNCHANGED <<pc, evidence, handle, cap>> /\ (cleanupExpired => cleanupExpired')
        /\ (cleanupExpired' => cleanupExpired \/ Cleaning)
    BY <1>4 DEF ChildWrite, ChildStep, RequestCancel, DeadlinePasses, CleanupExpires, vars,
                childVars, runVars, clockVars
  <2>2. AllTerminal => AllTerminal'
    BY <2>1 DEF AllTerminal, Terminal, Failed
  <2> QED
    BY <2>1, <2>2
<1> QED
  BY <1>1, <1>2, <1>3, <1>4 DEF Next, Finished

LEMMA GiveUpAlways == SafeSpec => []GiveUpInv
<1>1. Init => GiveUpInv
  BY DEF Init, GiveUpInv, UnknownEvidence
<1> QED
  BY <1>1, GiveUpStep, InitOwner, OwnerStep, TypeAlways, PTL DEF SafeSpec

=============================================================================
