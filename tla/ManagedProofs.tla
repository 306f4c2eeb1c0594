--------------------------- MODULE ManagedProofs ---------------------------
(***************************************************************************)
(* Theorems about ManagedRun for every set of commands and descendants and *)
(* every choice of faults, whatever the caller does with the handle.       *)
(***************************************************************************)
EXTENDS ManagedRun, ComponentProofs

-----------------------------------------------------------------------------
(* Type correctness.                                                        *)

LEMMA CommandType ==
  ASSUME TypeOK
  PROVE  command.piped \in SUBSET Streams
  BY ManagedRunAssumption DEF TypeOK

LEMMA ClassifyManagedType ==
  ASSUME NEW primary \in Primaries, NEW configured, NEW e
  PROVE  ClassifyManaged(primary, configured, e) \in Outcomes
  BY DEF ClassifyManaged, Conclusion, ClassifyExit, Primaries, Outcomes

LEMMA SettledEvidenceType ==
  ASSUME TypeOK
  PROVE  SettledEvidence \in Evidence(Streams)
<1>1. [s \in Streams |-> Report(FreshStream(FALSE))] \in [Streams -> Reports]
  BY ReportType, FreshStreamType
<1>2. evidence \in Evidence(Streams)
  BY DEF TypeOK
<1> QED
  BY <1>1, <1>2 DEF SettledEvidence, Evidence

(* A cancellation that was seen stays seen.                                 *)
LEMMA CancelledType ==
  ASSUME TypeOK
  PROVE  (obs.cancelled \/ CancelReceived) \in BOOLEAN
  BY Zenon

LEMMA InitType == Init => TypeOK
<1> SUFFICES ASSUME Init PROVE TypeOK
  OBVIOUS
<1>1. OsTypeOK
  BY ProcessGroupAssumption DEF Init, OsInit, OsTypeOK, ProcStates, ExitStates
<1>2. ChildTypeOK
  BY DEF Init, ChildInit, ChildTypeOK
<1>3. evidence \in Evidence(Streams) /\ obs \in ObservationStates
  BY UnknownReportType
     DEF Init, UnknownEvidence, Evidence, NoObservations, ObservationStates
<1> QED
  BY <1>1, <1>2, <1>3 DEF Init, TypeOK, Outcomes, Holders

LEMMA SuperviseType ==
  ASSUME TypeOK, Supervise
  PROVE  TypeOK'
<1> USE DEF TypeOK, osVars, childVars, channelVars, callerVars, clockVars, Unsettled,
            Main, Cleanup, Left, Ended
<1>1. CASE StartReaper
  <2>1. ChildTypeOK'
    BY <1>1 DEF StartReaper, StartBackgroundReaper, Refuse, ChildTypeOK
  <2>2. pc' \in {"spawn", "leave"} /\ startup' \in {"empty", "started"} \cup Refusals
    BY <1>1 DEF StartReaper, Refuse, Refusals
  <2> QED
    BY <1>1, <2>1, <2>2 DEF StartReaper, Supervise, OsTypeOK
<1>2. CASE SpawnLeader
  <2>1. OsTypeOK'
    BY <1>2, LaunchLeaderType DEF SpawnLeader, OsTypeOK
  <2>2. stdin' \in Holders /\ stream' \in [Streams -> Holders]
    BY <1>2 DEF SpawnLeader, Holders
  <2>3. pc' \in {"announce", "leave"} /\ startup' \in {"empty", "started"} \cup Refusals
    BY <1>2 DEF SpawnLeader, SpawnRefusals, Refuse, Refusals
  <2>4. ChildTypeOK'
    BY <1>2 DEF SpawnLeader, Refuse, ChildTypeOK
  <2> QED
    BY <1>2, <2>1, <2>2, <2>3, <2>4 DEF SpawnLeader, Supervise
<1>3. CASE Announce
  BY <1>3 DEF Announce, Supervise, OsTypeOK, ChildTypeOK
<1>4. CASE ObserveLeader
  <2>1. OsTypeOK' /\ ChildTypeOK'
    BY <1>4 DEF ObserveLeader, OsTypeOK, ChildTypeOK
  <2>2. obs' \in ObservationStates
    BY <1>4 DEF ObserveLeader, LeaderObservations, ObservationStates
  <2>3. pc' \in Main \cup Cleanup
    BY <1>4 DEF ObserveLeader
  <2> QED
    BY <1>4, <2>1, <2>2, <2>3 DEF ObserveLeader, Supervise
<1>5. CASE Control
  <2>1. obs' \in ObservationStates
    <3> DEFINE seen == obs.cancelled \/ CancelReceived
    <3>1. seen \in BOOLEAN
      BY CancelledType
    <3>2. obs' = [obs EXCEPT !.cancelled = seen, !.deadline = deadlinePassed]
      BY <1>5 DEF Control
    <3> HIDE DEF seen
    <3> QED
      BY <3>1, <3>2 DEF ObservationStates
  <2>2. pc' \in Main
    BY <1>5 DEF Control
  <2>3. OsTypeOK' /\ ChildTypeOK'
    BY <1>5 DEF Control, OsTypeOK, ChildTypeOK
  <2> QED
    BY <1>5, <2>1, <2>2, <2>3 DEF Control, Supervise
<1>6. CASE Wait
  <2>1. obs' \in ObservationStates
    <3> DEFINE seen == obs.cancelled \/ CancelReceived
    <3>1. seen \in BOOLEAN
      BY CancelledType
    <3>2. obs' = [obs EXCEPT !.cancelled = seen]
      BY <1>6 DEF Wait
    <3> HIDE DEF seen
    <3> QED
      BY <3>1, <3>2 DEF ObservationStates
  <2>2. pc' \in Main \cup Cleanup
    BY <1>6 DEF Wait
  <2>3. OsTypeOK' /\ ChildTypeOK'
    BY <1>6 DEF Wait, OsTypeOK, ChildTypeOK
  <2> QED
    BY <1>6, <2>1, <2>2, <2>3 DEF Wait, Supervise
<1>7. CASE SignalTheGroup
  <2> PICK signalled \in SignalOutcomes :
        /\ SignalGroup(signalled)
        /\ evidence' = [evidence EXCEPT !.signal = signalled, !.disposition = "unreaped"]
    BY <1>7 DEF SignalTheGroup
  <2>1. proc' \in [Procs -> ProcStates]
    BY SignalGroupType
  <2>2. signalled \in {"sent", "alreadyGone", "failed"}
    BY DEF SignalOutcomes
  <2>3. evidence' \in Evidence(Streams)
    BY <2>2 DEF Evidence
  <2>4. OsTypeOK' /\ ChildTypeOK'
    BY <1>7, <2>1 DEF SignalTheGroup, OsTypeOK, ChildTypeOK
  <2> QED
    BY <1>7, <2>3, <2>4 DEF SignalTheGroup, Supervise
<1>8. CASE CheckExpiry
  BY <1>8 DEF CheckExpiry, Supervise, OsTypeOK, ChildTypeOK
<1>9. CASE ReapLeader
  <2>1. proc' \in [Procs -> ProcStates]
    BY <1>9 DEF ReapLeader, ReapWaitable, OsTypeOK, ProcStates
  <2>2. evidence' \in Evidence(Streams)
    BY <1>9 DEF ReapLeader, Evidence, OsTypeOK, ExitStates
  <2>3. handle' \in {"none", "owned", "sent", "reaper", "closed"}
    BY <1>9 DEF ReapLeader, ReapWaitable, ChildTypeOK
  <2>4. pc' \in Main \cup Cleanup
    BY <1>9 DEF ReapLeader
  <2> QED
    BY <1>9, <2>1, <2>2, <2>3, <2>4 DEF ReapLeader, Supervise, OsTypeOK, ChildTypeOK
<1>10. CASE Settle
  <2>1. evidence' \in Evidence(Streams)
    BY <1>10, SettledEvidenceType DEF Settle
  <2>2. outcome' \in Outcomes
    BY <1>10, ClassifyManagedType, ChoosePrimaryType DEF Settle
  <2>3. ChildTypeOK'
    BY <1>10, HandoffType DEF Settle, ChildTypeOK
  <2> QED
    BY <1>10, <2>1, <2>2, <2>3 DEF Settle, Supervise, OsTypeOK
<1>11. CASE Publish
  BY <1>11 DEF Publish, Supervise, OsTypeOK, ChildTypeOK
<1>12. CASE EndThread
  <2>1. pc' \in Left
    BY <1>12 DEF EndThread
  <2>2. ChildTypeOK'
    BY <1>12 DEF EndThread, ChildTypeOK
  <2> QED
    BY <1>12, <2>1, <2>2 DEF EndThread, Supervise, OsTypeOK
<1> QED
  BY <1>1, <1>2, <1>3, <1>4, <1>5, <1>6, <1>7, <1>8, <1>9, <1>10, <1>11, <1>12
     DEF Supervise

LEMMA PanicType ==
  ASSUME TypeOK, Panic
  PROVE  TypeOK'
<1>1. stdin' \in Holders /\ stream' \in [Streams -> Holders]
  BY DEF Panic, TypeOK, Holders
<1>2. OsTypeOK' /\ ChildTypeOK'
  BY DropOwnedChildType DEF Panic, TypeOK, OsTypeOK
<1> QED
  BY <1>1, <1>2 DEF Panic, TypeOK, channelVars, clockVars, Left, Ended

(* What the caller does leaves the processes, the leader's Child and what   *)
(* the supervisor recorded alone; it starts the supervisor, once.           *)
LEMMA CallerFrame ==
  ASSUME CallerReturn \/ CallerChoice
  PROVE  /\ UNCHANGED <<proc, escaped, exit, holders, childVars, command, obs, evidence,
                        outcome, startup, clockVars>>
         /\ pc' = pc \/ (pc = "none" /\ pc' = "start")
<1> USE DEF CallerOnly, osVars, childVars, clockVars, supervisorVars, channelVars
<1>1. CASE StartSupervisor
  BY <1>1 DEF StartSupervisor
<1>2. CASE ReceiveStartup \/ ReceiveBlocking \/ JoinAndReturn
  BY <1>2 DEF ReceiveStartup, ReceiveBlocking, JoinAndReturn
<1>3. CASE Poll \/ CallWait \/ CallCancel \/ DropHandle
  BY <1>3 DEF Poll, CallWait, CallCancel, DropHandle
<1>4. CASE UsePipes
  BY <1>4 DEF UsePipes
<1> QED
  BY <1>1, <1>2, <1>3, <1>4 DEF CallerReturn, CallerChoice

LEMMA CallerType ==
  ASSUME TypeOK, CallerReturn \/ CallerChoice
  PROVE  TypeOK'
<1> USE DEF TypeOK
<1>0. /\ proc' \in [Procs -> ProcStates] /\ escaped' \in SUBSET Descendants
      /\ exit' \in ExitStates /\ holders' \in [Streams -> SUBSET Procs]
      /\ ChildTypeOK' /\ command' \in Commands
      /\ obs' \in ObservationStates /\ evidence' \in Evidence(Streams)
      /\ outcome' \in Outcomes /\ deadlinePassed' \in BOOLEAN /\ cleanupExpired' \in BOOLEAN
      /\ pc' \in {"none", "start", "spawn", "publish"} \cup Main \cup Cleanup \cup Left
  BY CallerFrame DEF OsTypeOK, ChildTypeOK, childVars, clockVars
<1> USE DEF channelVars, callerVars, CallerOnly, osVars
<1>1. CASE StartSupervisor
  BY <1>0, <1>1 DEF StartSupervisor, OsTypeOK, Outcomes, Refusals
<1>2. CASE ReceiveStartup
  BY <1>0, <1>2 DEF ReceiveStartup, OsTypeOK, Outcomes
<1>3. CASE ReceiveBlocking \/ Poll
  BY <1>0, <1>3 DEF ReceiveBlocking, Poll, Receive, OsTypeOK, Outcomes
<1>4. CASE JoinAndReturn
  <2>1. stream' \in [Streams -> Holders]
    BY <1>4 DEF JoinAndReturn, DropRetainedPipes, Holders
  <2>2. answer' \in Outcomes
    BY <1>4 DEF JoinAndReturn, Outcomes
  <2> QED
    BY <1>0, <1>4, <2>1, <2>2 DEF JoinAndReturn, OsTypeOK
<1>5. CASE CallWait \/ CallCancel
  BY <1>0, <1>5 DEF CallWait, CallCancel, CloseRetainedStdin, Holders, OsTypeOK
<1>6. CASE DropHandle
  <2>1. stream' \in [Streams -> Holders] /\ stdin' \in Holders
    BY <1>6 DEF DropHandle, DropRetainedPipes, Holders
  <2>2. cancel' \in BOOLEAN
    BY <1>6, Zenon DEF DropHandle
  <2> QED
    BY <1>0, <1>6, <2>1, <2>2 DEF DropHandle, OsTypeOK
<1>7. CASE UsePipes
  <2>1. pipe' \in [Streams -> 0 .. PipeCapacity]
    BY <1>7, ProcessGroupAssumption DEF UsePipes, OsTypeOK
  <2>2. stream' \in [Streams -> Holders] /\ stdin' \in Holders
    BY <1>7 DEF UsePipes, Holders
  <2> QED
    BY <1>0, <1>7, <2>1, <2>2 DEF UsePipes, OsTypeOK
<1> QED
  BY <1>1, <1>2, <1>3, <1>4, <1>5, <1>6, <1>7 DEF CallerReturn, CallerChoice

LEMMA ChildStepType ==
  ASSUME TypeOK, ChildStep
  PROVE  TypeOK'
<1>1. OsTypeOK'
  BY ProcessStepType, WriteType DEF ChildStep, TypeOK
<1> QED
  BY <1>1 DEF ChildStep, TypeOK, ChildTypeOK, childVars, runVars, supervisorVars,
              channelVars, callerVars, clockVars

LEMMA TypeStep == TypeOK /\ [Next]_vars => TypeOK'
<1> SUFFICES ASSUME TypeOK, [Next]_vars PROVE TypeOK'
  OBVIOUS
<1> USE DEF osVars, childVars, supervisorVars, channelVars, callerVars, clockVars, runVars
<1>1. CASE Supervise
  BY <1>1, SuperviseType
<1>2. CASE Panic
  BY <1>2, PanicType
<1>3. CASE BackgroundReaper
  BY <1>3, ReaperThreadType DEF BackgroundReaper, TypeOK
<1>4. CASE CallerReturn \/ CallerChoice
  BY <1>4, CallerType
<1>5. CASE ChildStep
  BY <1>5, ChildStepType
<1>6. CASE DeadlinePasses \/ CleanupExpires \/ UNCHANGED vars
  <2>1. OsTypeOK' /\ ChildTypeOK'
    BY <1>6 DEF DeadlinePasses, CleanupExpires, vars, TypeOK, OsTypeOK, ChildTypeOK
  <2> QED
    BY <1>6, <2>1 DEF DeadlinePasses, CleanupExpires, vars, TypeOK
<1> QED
  BY <1>1, <1>2, <1>3, <1>4, <1>5, <1>6 DEF Next, Finished

(* Every state is of the declared types; every answer of wait or cancel is  *)
(* one of the listed outcomes.                                              *)
THEOREM ManagedTypeCorrect == Spec => []TypeOK
BY InitType, TypeStep, PTL DEF Spec

-----------------------------------------------------------------------------
(* The owner of the leader.                                                 *)

(* Where the supervisor is and which Child it holds; the reaper listens for *)
(* as long as the supervisor can send.                                      *)
OwnerInv ==
  /\ DutyInv
  /\ pc \in {"none", "start"} => handle = "none" /\ ~sender /\ reaper = "off"
  /\ pc = "spawn" => handle = "none" /\ sender /\ reaper = "listening"
  /\ pc \in Main \cup Cleanup =>
       handle \in {"owned", "closed"} /\ sender /\ reaper = "listening"
  /\ handle = "owned" => pc \in Main \cup Cleanup
  /\ sender => pc \in {"spawn", "leave"} \cup Main \cup Cleanup

LEMMA InitOwner == Init => OwnerInv
<1>1. Leader \in Procs
  BY DEF Procs, Leader
<1> QED
  BY <1>1 DEF Init, OsInit, ChildInit, OwnerInv, DutyInv, LeaderUnreaped, Held, Main, Cleanup

LEMMA SuperviseOwner ==
  ASSUME TypeOK, OwnerInv, Supervise
  PROVE  OwnerInv'
<1> USE DEF OwnerInv, Main, Cleanup, Left, Ended, osVars, childVars, Unsettled
<1>1. CASE StartReaper
  BY <1>1 DEF StartReaper, StartBackgroundReaper, Refuse, DutyInv, LeaderUnreaped, Held
<1>2. CASE SpawnLeader
  <2>1. CASE LaunchLeader(command.piped) /\ handle' = "owned"
    <3>1. proc'[Leader] = "running"
      BY <2>1 DEF LaunchLeader, TypeOK, OsTypeOK, Procs
    <3>2. DutyInv'
      BY <1>2, <2>1, <3>1 DEF SpawnLeader, DutyInv, LeaderUnreaped, Held
    <3> QED
      BY <1>2, <2>1, <3>2 DEF SpawnLeader, Refuse
  <2>2. CASE UNCHANGED <<osVars, handle>>
    BY <1>2, <2>2 DEF SpawnLeader, Refuse, DutyInv, LeaderUnreaped, Held
  <2> QED
    BY <1>2, <2>1, <2>2 DEF SpawnLeader
<1>3. CASE Announce \/ ObserveLeader \/ Control \/ Wait \/ CheckExpiry \/ Publish
  <2>1. UNCHANGED <<osVars, childVars>>
    BY <1>3 DEF Announce, ObserveLeader, Control, Wait, CheckExpiry, Publish
  <2>2. \/ pc \in Main \cup Cleanup /\ pc' \in Main \cup Cleanup
        \/ pc = "publish" /\ pc' \in Left
    BY <1>3 DEF Announce, ObserveLeader, Control, Wait, CheckExpiry, Publish
  <2> QED
    BY <2>1, <2>2 DEF DutyInv, LeaderUnreaped, Left
<1>4. CASE SignalTheGroup
  <2>1. PICK signalled \in SignalOutcomes : SignalGroup(signalled)
    BY <1>4 DEF SignalTheGroup
  <2>2. DutyInv'
    BY <1>4, <2>1, SignalKeepsLeader DEF SignalTheGroup, TypeOK, DutyInv
  <2> QED
    BY <1>4, <2>2 DEF SignalTheGroup
<1>5. CASE ReapLeader
  <2>1. CASE handle = "owned" /\ ReapWaitable
    <3>1. proc'[Leader] = "gone" /\ handle' = "closed"
      BY <2>1 DEF ReapWaitable, TypeOK, OsTypeOK, Procs
    <3>2. DutyInv'
      BY <1>5, <2>1, <3>1 DEF ReapLeader, DutyInv, LeaderUnreaped, Held
    <3> QED
      BY <1>5, <3>1, <3>2 DEF ReapLeader
  <2>2. CASE UNCHANGED <<proc, handle>>
    BY <1>5, <2>2 DEF ReapLeader, DutyInv, LeaderUnreaped
  <2>3. ReapWaitable => handle = "owned"
    BY <1>5 DEF ReapLeader, ReapWaitable, DutyInv
  <2> QED
    BY <1>5, <2>1, <2>2, <2>3 DEF ReapLeader
<1>6. CASE Settle
  <2>1. DutyInv' /\ handle' # "owned"
    BY <1>6, HandoffDuty DEF Settle, TypeOK
  <2> QED
    BY <1>6, <2>1 DEF Settle
<1>7. CASE EndThread
  <2>1. UNCHANGED <<osVars, handle, reaper>> /\ ~sender'
    BY <1>7 DEF EndThread
  <2>2. pc \in {"leave", "unwound"} /\ pc' \in Ended
    BY <1>7 DEF EndThread
  <2> QED
    BY <2>1, <2>2 DEF DutyInv, LeaderUnreaped, Held
<1> QED
  BY <1>1, <1>2, <1>3, <1>4, <1>5, <1>6, <1>7 DEF Supervise

(* The reaper thread only moves once the supervisor is gone.                *)
LEMMA ReaperOwner ==
  ASSUME TypeOK, OwnerInv, BackgroundReaper
  PROVE  /\ OwnerInv'
         /\ pc \notin {"none", "start", "spawn"} \cup Main \cup Cleanup
         /\ handle' = handle \/ handle \in {"sent", "reaper"}
         /\ UNCHANGED runVars
<1>1. DutyInv'
  BY ReaperThreadDuty DEF BackgroundReaper, TypeOK, OwnerInv
<1>2. pc \notin {"none", "start", "spawn"} \cup Main \cup Cleanup
  BY DEF BackgroundReaper, ReaperThread, ReaperReceive, ReaperDisconnect, ReaperWait,
         OwnerInv, DutyInv
<1>3. handle' # "owned" /\ (handle' = handle \/ handle \in {"sent", "reaper"})
  BY <1>2 DEF BackgroundReaper, ReaperThread, ReaperReceive, ReaperDisconnect, ReaperWait,
              OwnerInv, DutyInv
<1>4. UNCHANGED runVars
  BY DEF BackgroundReaper
<1>5. sender' = sender
  BY DEF BackgroundReaper, ReaperThread, ReaperReceive, ReaperDisconnect, ReaperWait
<1> QED
  BY <1>1, <1>2, <1>3, <1>4, <1>5 DEF OwnerInv, runVars, supervisorVars

LEMMA OwnerStep == TypeOK /\ OwnerInv /\ [Next]_vars => OwnerInv'
<1> SUFFICES ASSUME TypeOK, OwnerInv, [Next]_vars PROVE OwnerInv'
  OBVIOUS
<1>1. CASE Supervise
  BY <1>1, SuperviseOwner
<1>2. CASE Panic
  <2>1. DutyInv' /\ handle' # "owned"
    BY <1>2, DropOwnedChildDuty DEF Panic, TypeOK, OwnerInv
  <2>2. pc' = "unwound" /\ ~sender'
    BY <1>2 DEF Panic, DropOwnedChild
  <2> QED
    BY <2>1, <2>2 DEF OwnerInv, Main, Cleanup
<1>3. CASE BackgroundReaper
  BY <1>3, ReaperOwner
<1>4. CASE ChildStep
  <2>1. UNCHANGED childVars /\ UNCHANGED pc
    BY <1>4 DEF ChildStep, runVars, supervisorVars
  <2>2. DutyInv'
    <3>1. CASE ProcessStep
      BY <2>1, <3>1, ProcessStepDuty DEF TypeOK, OwnerInv
    <3>2. CASE UNCHANGED proc
      BY <2>1, <3>2 DEF OwnerInv, DutyInv, LeaderUnreaped, childVars
    <3> QED
      BY <1>4, <3>1, <3>2 DEF ChildStep, Write
  <2> QED
    BY <2>1, <2>2 DEF OwnerInv, childVars
<1>5. CASE CallerReturn \/ CallerChoice
  <2>1. UNCHANGED <<proc, childVars>> /\ (pc' = pc \/ (pc = "none" /\ pc' = "start"))
    BY <1>5, CallerFrame
  <2> QED
    BY <2>1 DEF OwnerInv, DutyInv, LeaderUnreaped, childVars, Main, Cleanup
<1>6. CASE DeadlinePasses \/ CleanupExpires \/ UNCHANGED vars
  <2>1. UNCHANGED <<osVars, childVars, pc>>
    BY <1>6 DEF DeadlinePasses, CleanupExpires, vars, runVars, supervisorVars
  <2> QED
    BY <2>1 DEF OwnerInv, DutyInv, LeaderUnreaped, osVars, childVars
<1> QED
  BY <1>1, <1>2, <1>3, <1>4, <1>5, <1>6 DEF Next, Finished

LEMMA OwnerAlways == Spec => [](TypeOK /\ OwnerInv)
BY InitType, TypeStep, InitOwner, OwnerStep, PTL DEF Spec

(* Whatever fails, wherever the supervisor unwinds, and whatever the caller *)
(* does with the handle, the reap of the leader is owed by one thread.      *)
THEOREM ManagedOneOwner == Spec => []LeaderHasOneOwner
<1>1. TypeOK /\ OwnerInv => LeaderHasOneOwner
  BY DutyInvHolds DEF LeaderHasOneOwner, OwnerInv, TypeOK
<1> QED
  BY <1>1, OwnerAlways, PTL

-----------------------------------------------------------------------------
(* Where the supervisor is in the life of the group.                        *)

(* The group is signalled once, while the supervisor still has the leader.  *)
StageInv ==
  /\ pc \in {"none", "start", "spawn", "announce", "control", "signal"} => ~Cleaning
  /\ pc \in Cleanup => Cleaning
  /\ pc \in Main /\ ~Cleaning => handle = "owned"

LEMMA SuperviseStage ==
  ASSUME TypeOK, OwnerInv, StageInv, Supervise
  PROVE  StageInv'
<1> USE DEF StageInv, Cleaning, Main, Cleanup, Left, Ended, childVars, Unsettled
<1>1. CASE StartReaper
  BY <1>1 DEF StartReaper, Refuse
<1>2. CASE SpawnLeader
  BY <1>2 DEF SpawnLeader, Refuse
<1>3. CASE Announce \/ ObserveLeader \/ Control \/ Wait \/ CheckExpiry \/ Publish
  BY <1>3 DEF Announce, ObserveLeader, Control, Wait, CheckExpiry, Publish
<1>4. CASE SignalTheGroup
  <2>1. PICK signalled \in SignalOutcomes :
          evidence' = [evidence EXCEPT !.signal = signalled, !.disposition = "unreaped"]
    BY <1>4 DEF SignalTheGroup
  <2>2. Cleaning'
    BY <2>1 DEF SignalOutcomes, TypeOK, Evidence
  <2> QED
    BY <1>4, <2>2 DEF SignalTheGroup
<1>5. CASE ReapLeader
  <2>1. evidence'.signal = evidence.signal
    BY <1>5 DEF ReapLeader, TypeOK, Evidence
  <2> QED
    BY <1>5, <2>1 DEF ReapLeader
<1>6. CASE Settle \/ EndThread
  BY <1>6 DEF Settle, EndThread
<1> QED
  BY <1>1, <1>2, <1>3, <1>4, <1>5, <1>6 DEF Supervise

LEMMA StageStep == TypeOK /\ OwnerInv /\ StageInv /\ [Next]_vars => StageInv'
<1> SUFFICES ASSUME TypeOK, OwnerInv, StageInv, [Next]_vars PROVE StageInv'
  OBVIOUS
<1> USE DEF StageInv, Cleaning, Main, Cleanup
<1>1. CASE Supervise
  BY <1>1, SuperviseStage
<1>2. CASE Panic
  BY <1>2 DEF Panic
<1>3. CASE BackgroundReaper
  BY <1>3, ReaperOwner DEF runVars, supervisorVars
<1>4. CASE CallerReturn \/ CallerChoice
  BY <1>4, CallerFrame DEF childVars
<1>5. CASE ChildStep \/ DeadlinePasses \/ CleanupExpires \/ UNCHANGED vars
  BY <1>5 DEF ChildStep, DeadlinePasses, CleanupExpires, vars, runVars, supervisorVars,
              childVars
<1> QED
  BY <1>1, <1>2, <1>3, <1>4, <1>5 DEF Next, Finished

LEMMA StageAlways == Spec => []StageInv
<1>1. Init => StageInv
  BY DEF Init, StageInv, UnknownEvidence, Cleaning, Main, Cleanup
<1> QED
  BY <1>1, StageStep, OwnerAlways, PTL DEF Spec

-----------------------------------------------------------------------------
(* The group is doomed before the leader is reaped.                         *)

Reliable == Faults \cap {"signal", "hostReap"} = {}

(* A signal that was accepted, or found no group, dooms the group.          *)
Signalled == evidence.signal \in {"sent", "alreadyGone"}

(* Who gets the Child after the supervisor gets it from a doomed group.     *)
DoomInv ==
  /\ Signalled => Doomed
  /\ Reliable /\ (Cleaning \/ handle \in {"sent", "reaper", "closed"}) => Doomed

LEMMA SuperviseDoom ==
  ASSUME TypeOK, OwnerInv, StageInv, DoomInv, Supervise
  PROVE  DoomInv'
<1> USE DEF DoomInv, Signalled, Cleaning, Cleanup, osVars, childVars, Unsettled
<1>1. CASE StartReaper
  BY <1>1 DEF StartReaper, StartBackgroundReaper, Refuse, Doomed
<1>2. CASE SpawnLeader
  BY <1>2 DEF SpawnLeader, Refuse, Doomed, OwnerInv, StageInv
<1>3. CASE Announce \/ ObserveLeader \/ Control \/ Wait \/ CheckExpiry \/ Publish
  BY <1>3 DEF Announce, ObserveLeader, Control, Wait, CheckExpiry, Publish, Doomed
<1>4. CASE SignalTheGroup
  <2>1. PICK signalled \in SignalOutcomes :
          /\ SignalGroup(signalled)
          /\ evidence' = [evidence EXCEPT !.signal = signalled, !.disposition = "unreaped"]
    BY <1>4 DEF SignalTheGroup
  <2>2. Reliable => Doomed'
    BY <1>4, <2>1, SignalDooms DEF SignalTheGroup, TypeOK, Reliable
  <2>3. evidence'.signal = signalled /\ escaped' = escaped
    BY <1>4, <2>1 DEF SignalTheGroup, TypeOK, Evidence
  <2>4. CASE signalled = "sent"
    BY <2>1, <2>2, <2>3, <2>4 DEF SignalGroup, KillGroup, Group, Doomed, TypeOK, OsTypeOK
  <2>5. CASE signalled = "alreadyGone"
    BY <2>1, <2>2, <2>3, <2>5 DEF SignalGroup, SignalOutcomes, Group, Doomed, TypeOK, OsTypeOK
  <2> QED
    BY <2>2, <2>3, <2>4, <2>5 DEF Reliable
<1>5. CASE ReapLeader
  <2>1. Doomed => Doomed'
    BY <1>5 DEF ReapLeader, ReapWaitable, Doomed, TypeOK, OsTypeOK
  <2>2. evidence'.signal = evidence.signal
    BY <1>5 DEF ReapLeader, TypeOK, Evidence
  <2> QED
    BY <1>5, <2>1, <2>2 DEF ReapLeader, StageInv
<1>6. CASE Settle
  <2>1. evidence'.signal = evidence.signal /\ Cleaning
    BY <1>6 DEF Settle, SettledEvidence, TypeOK, Evidence, StageInv
  <2> QED
    BY <1>6, <2>1 DEF Settle, Doomed
<1>7. CASE EndThread
  BY <1>7 DEF EndThread, Doomed
<1> QED
  BY <1>1, <1>2, <1>3, <1>4, <1>5, <1>6, <1>7 DEF Supervise

LEMMA PanicDoom ==
  ASSUME TypeOK, OwnerInv, DoomInv, Panic
  PROVE  DoomInv'
<1>1. Reliable => Doomed'
  BY DropOwnedChildDoomed DEF Panic, TypeOK, OwnerInv, DoomInv, Reliable
<1>2. Doomed => Doomed'
  <2>1. CASE UNCHANGED proc
    BY <2>1 DEF Panic, Doomed
  <2>2. CASE KillGroup
    BY <2>2 DEF Panic, Doomed, KillGroup, TypeOK, OsTypeOK
  <2> QED
    BY <2>1, <2>2 DEF Panic, DropOwnedChild, SignalGroup
<1>3. UNCHANGED evidence
  BY DEF Panic
<1> QED
  BY <1>1, <1>2, <1>3 DEF DoomInv, Signalled, Reliable

LEMMA DoomStep == TypeOK /\ OwnerInv /\ StageInv /\ DoomInv /\ [Next]_vars => DoomInv'
<1> SUFFICES ASSUME TypeOK, OwnerInv, StageInv, DoomInv, [Next]_vars PROVE DoomInv'
  OBVIOUS
<1> USE DEF DoomInv, Signalled, Cleaning
<1>1. CASE Supervise
  BY <1>1, SuperviseDoom
<1>2. CASE Panic
  BY <1>2, PanicDoom
<1>3. CASE BackgroundReaper
  <2>1. Doomed => Doomed'
    BY <1>3, ReaperThreadDoomed DEF BackgroundReaper, TypeOK
  <2> QED
    BY <1>3, <2>1, ReaperOwner DEF runVars, supervisorVars, Reliable
<1>4. CASE ChildStep
  <2>1. Doomed => Doomed'
    <3>1. CASE ProcessStep
      BY <3>1, ProcessStepDoomed DEF TypeOK
    <3>2. CASE UNCHANGED <<proc, escaped>>
      BY <3>2 DEF Doomed
    <3> QED
      BY <1>4, <3>1, <3>2 DEF ChildStep, Write
  <2> QED
    BY <1>4, <2>1 DEF ChildStep, childVars, runVars, supervisorVars, Reliable
<1>5. CASE CallerReturn \/ CallerChoice
  BY <1>5, CallerFrame DEF childVars, Doomed, Reliable
<1>6. CASE DeadlinePasses \/ CleanupExpires \/ UNCHANGED vars
  BY <1>6 DEF DeadlinePasses, CleanupExpires, vars, osVars, childVars, runVars,
              supervisorVars, Doomed, Reliable
<1> QED
  BY <1>1, <1>2, <1>3, <1>4, <1>5, <1>6 DEF Next, Finished

LEMMA DoomAlways == Spec => []DoomInv
<1>1. Init => DoomInv
  BY DEF Init, ChildInit, DoomInv, Signalled, Cleaning, UnknownEvidence
<1> QED
  BY <1>1, DoomStep, OwnerAlways, StageAlways, PTL DEF Spec

(* The leader of a managed child is never reaped, by either thread and on   *)
(* any path, before its process group was doomed.                           *)
THEOREM ManagedDoomedFirst == Spec => []GroupDoomedBeforeReap
<1>1. TypeOK /\ OwnerInv /\ DoomInv => GroupDoomedBeforeReap
  BY DoomedBeforeReap DEF TypeOK, OwnerInv, Reliable, DoomInv
<1> QED
  BY <1>1, OwnerAlways, DoomAlways, PTL

-----------------------------------------------------------------------------
(* What the caller is told, and when.                                       *)

(* The result is sent when nothing of the run is left, so what the caller   *)
(* retains of it is the terminal outcome; the caller answers once it has    *)
(* joined the thread, which may still be on its way out when the result is  *)
(* received.                                                                *)
CallInv ==
  /\ result \in {"full", "received"} => pc \in Left
  /\ retained \in {"ok", "cancelled"} => retained = outcome /\ pc \in Left
  /\ caller = "answered" =>
       /\ pc \in {"none"} \cup Ended
       /\ answer # "pending"
       /\ pc = "panicked" => answer # "ok" \/ outcome # "ok"

LEMMA CallerCall ==
  ASSUME TypeOK, CallInv, CallerReturn \/ CallerChoice
  PROVE  CallInv'
<1> USE DEF CallInv, Left, Ended, CallerOnly, supervisorVars, channelVars
<1>1. CASE StartSupervisor
  BY <1>1 DEF StartSupervisor
<1>2. CASE ReceiveStartup
  BY <1>2 DEF ReceiveStartup, Refusals
<1>3. CASE ReceiveBlocking \/ Poll
  BY <1>3 DEF ReceiveBlocking, Poll, Receive
<1>4. CASE JoinAndReturn
  BY <1>4 DEF JoinAndReturn, CancellationSettled
<1>5. CASE CallWait \/ CallCancel
  BY <1>5 DEF CallWait, CallCancel
<1>6. CASE DropHandle
  BY <1>6 DEF DropHandle
<1>7. CASE UsePipes
  BY <1>7 DEF UsePipes
<1> QED
  BY <1>1, <1>2, <1>3, <1>4, <1>5, <1>6, <1>7 DEF CallerReturn, CallerChoice

(* A supervisor that takes a step has not ended, and leaves the caller be;  *)
(* once the run is left its outcome stands.                                 *)
LEMMA SuperviseCall ==
  ASSUME TypeOK, CallInv, Supervise
  PROVE  CallInv'
<1> USE DEF Supervise, StartReaper, SpawnLeader, Announce, ObserveLeader, Control, Wait,
            SignalTheGroup, CheckExpiry, ReapLeader, Settle, Publish, EndThread
<1>1. pc \notin {"none"} \cup Ended
  BY DEF Ended
<1>2. UNCHANGED <<retained, answer, caller>>
  BY DEF Unsettled, callerVars
<1>3. UNCHANGED result \/ pc' \in Left
  BY DEF Unsettled, channelVars, Left, Ended
<1>4. pc \in Left => pc' \in Left /\ UNCHANGED outcome
  BY DEF Left, Ended
<1> QED
  BY <1>1, <1>2, <1>3, <1>4 DEF CallInv

LEMMA CallStep == TypeOK /\ OwnerInv /\ CallInv /\ [Next]_vars => CallInv'
<1> SUFFICES ASSUME TypeOK, OwnerInv, CallInv, [Next]_vars PROVE CallInv'
  OBVIOUS
<1>1. CASE Supervise
  BY <1>1, SuperviseCall
<1>2. CASE Panic
  BY <1>2 DEF Panic, CallInv, channelVars, Main, Cleanup, Left, Ended
<1>3. CASE CallerReturn \/ CallerChoice
  BY <1>3, CallerCall
<1>4. CASE \/ BackgroundReaper \/ ChildStep \/ DeadlinePasses \/ CleanupExpires
           \/ UNCHANGED vars
  BY <1>4 DEF BackgroundReaper, ChildStep, DeadlinePasses, CleanupExpires, vars, runVars,
              supervisorVars, channelVars, callerVars, CallInv
<1> QED
  BY <1>1, <1>2, <1>3, <1>4 DEF Next, Finished

LEMMA CallAlways == Spec => []CallInv
<1>1. Init => CallInv
  BY DEF Init, CallInv
<1> QED
  BY <1>1, CallStep, OwnerAlways, PTL DEF Spec

(* wait, cancel and a refused spawn answer only once the thread is over,    *)
(* which they may have to wait for with the result in hand; nothing the     *)
(* thread held is left behind them, and they answer something.              *)
THEOREM ManagedAnswerIsFinal == Spec => []AnswerAfterSupervisor
<1>1. OwnerInv /\ CallInv => AnswerAfterSupervisor
  BY DEF OwnerInv, CallInv, AnswerAfterSupervisor, Main, Cleanup, Left, Ended
<1> QED
  BY <1>1, OwnerAlways, CallAlways, PTL

-----------------------------------------------------------------------------
(* Who cancels.                                                             *)

(* The sender of the cancel channel lives as long as the handle, and only a *)
(* cancel or a drop puts a message into the channel.  A look at the channel *)
(* is taken before the thread is over, hence before a wait returns.         *)
CancelInv ==
  /\ obs.cancelled => caller \in {"cancelling", "answered", "dropped"}
  /\ cancel \/ ~canceller => caller \in {"cancelling", "answered", "dropped"}

LEMMA SuperviseCancel ==
  ASSUME TypeOK, CancelInv, Supervise
  PROVE  CancelInv'
<1> USE DEF CancelInv, CancelReceived, channelVars, callerVars, Unsettled
<1>1. CASE Control \/ Wait
  <2>1. /\ obs'.cancelled => obs.cancelled \/ CancelReceived
        /\ UNCHANGED <<caller, canceller>> /\ ~cancel'
    BY <1>1 DEF Control, Wait, TypeOK, ObservationStates
  <2> QED
    BY <2>1
<1>2. CASE ObserveLeader
  <2>1. obs'.cancelled = obs.cancelled
    BY <1>2 DEF ObserveLeader, LeaderObservations, TypeOK, ObservationStates
  <2> QED
    BY <1>2, <2>1 DEF ObserveLeader
<1>3. CASE \/ StartReaper \/ SpawnLeader \/ Announce \/ SignalTheGroup \/ CheckExpiry
           \/ ReapLeader \/ Settle \/ Publish \/ EndThread
  <2>1. UNCHANGED <<obs, caller, cancel, canceller>>
    BY <1>3 DEF StartReaper, SpawnLeader, Announce, SignalTheGroup, CheckExpiry,
                ReapLeader, Settle, Publish, EndThread
  <2> QED
    BY <2>1
<1> QED
  BY <1>1, <1>2, <1>3 DEF Supervise

LEMMA CallerCancel ==
  ASSUME CancelInv, CallerReturn \/ CallerChoice
  PROVE  CancelInv'
<1> USE DEF CancelInv, channelVars, callerVars, supervisorVars
<1>1. obs' = obs
  BY CallerFrame
<1>2. CASE StartSupervisor \/ ReceiveStartup \/ ReceiveBlocking \/ JoinAndReturn
  BY <1>1, <1>2 DEF StartSupervisor, ReceiveStartup, ReceiveBlocking, JoinAndReturn
<1>3. CASE Poll \/ CallWait \/ CallCancel \/ DropHandle \/ UsePipes
  BY <1>1, <1>3 DEF Poll, CallWait, CallCancel, DropHandle, UsePipes
<1> QED
  BY <1>2, <1>3 DEF CallerReturn, CallerChoice

LEMMA CancelStep == TypeOK /\ CancelInv /\ [Next]_vars => CancelInv'
<1> SUFFICES ASSUME TypeOK, CancelInv, [Next]_vars PROVE CancelInv'
  OBVIOUS
<1>1. CASE Supervise
  BY <1>1, SuperviseCancel
<1>2. CASE CallerReturn \/ CallerChoice
  BY <1>2, CallerCancel
<1>3. CASE \/ Panic \/ BackgroundReaper \/ ChildStep \/ DeadlinePasses \/ CleanupExpires
           \/ UNCHANGED vars
  BY <1>3 DEF Panic, BackgroundReaper, ChildStep, DeadlinePasses, CleanupExpires, vars,
              runVars, supervisorVars, channelVars, callerVars, CancelInv
<1> QED
  BY <1>1, <1>2, <1>3 DEF Next, Finished

(* The supervisor of a caller that only polls and waits never sees its      *)
(* cancel channel disconnected, which would count as a cancellation.        *)
THEOREM ManagedOnlyCallerCancels == Spec => []OnlyCallerCancels
<1>1. Init => CancelInv
  BY DEF Init, CancelInv, NoObservations
<1>2. CancelInv => OnlyCallerCancels
  BY DEF CancelInv, OnlyCallerCancels
<1> QED
  BY <1>1, <1>2, CancelStep, ManagedTypeCorrect, PTL DEF Spec

-----------------------------------------------------------------------------
(* What a success proves.                                                   *)

Complete ==
  /\ handle = "closed"
  /\ evidence.disposition = "reaped"
  /\ evidence.status = exit

(* The evidence says of the leader what is so, and keeps being so; nothing  *)
(* is called complete, or a success, on less.                               *)
ProvedInv ==
  /\ pc \in Main \cup Cleanup /\ handle = "closed" => Complete
  /\ evidence.cleanup = "complete" => Complete /\ pc \in {"publish"} \cup Left
  /\ outcome = "ok" => evidence.cleanup = "complete" /\ Signalled
  /\ answer = "ok" => evidence.cleanup = "complete" /\ Signalled

LEMMA SettleProved ==
  ASSUME TypeOK, OwnerInv, ProvedInv, Settle
  PROVE  ProvedInv'
<1>1. /\ evidence'.signal = evidence.signal
      /\ evidence'.status = evidence.status
      /\ handle # "owned" => evidence'.disposition = evidence.disposition
      /\ evidence'.cleanup = "complete" => handle # "owned"
  BY DEF Settle, SettledEvidence, TypeOK, Evidence
<1>2. evidence'.cleanup = "complete" => Complete'
  BY <1>1 DEF Settle, Handoff, ProvedInv, OwnerInv, Complete, osVars, Cleanup
<1>3. outcome' = "ok" =>
        /\ evidence'.cleanup \notin {"incomplete", "unknown"}
        /\ evidence'.signal \notin {"unknown", "failed"}
  BY DEF Settle, ClassifyManaged, Conclusion, ClassifyExit, ChoosePrimary
<1>4. evidence' \in Evidence(Streams)
  BY SettledEvidenceType DEF Settle
<1>5. outcome' = "ok" => evidence'.cleanup = "complete" /\ Signalled'
  BY <1>3, <1>4 DEF Evidence, Signalled
<1>6. answer' # "ok"
  BY DEF Settle, callerVars, ProvedInv, Left, Ended
<1> QED
  BY <1>2, <1>5, <1>6 DEF ProvedInv, Settle, Main, Cleanup

LEMMA SuperviseProved ==
  ASSUME TypeOK, OwnerInv, StageInv, ProvedInv, Supervise
  PROVE  ProvedInv'
<1>1. CASE Settle
  BY <1>1, SettleProved
<1> USE DEF ProvedInv, Complete, Signalled, Main, Cleanup, Left, Ended, Unsettled, osVars,
            childVars, callerVars
<1>2. CASE StartReaper \/ SpawnLeader
  <2>1. pc \in {"start", "spawn"} /\ UNCHANGED <<evidence, outcome, answer>>
    BY <1>2 DEF StartReaper, SpawnLeader
  <2>2. handle' # "closed"
    BY <1>2, <2>1
       DEF StartReaper, SpawnLeader, StartBackgroundReaper, OwnerInv
  <2> QED
    BY <2>1, <2>2
<1>3. CASE Announce \/ ObserveLeader \/ Control \/ Wait \/ CheckExpiry \/ Publish
  <2>1. UNCHANGED <<osVars, childVars, evidence, outcome, answer>>
    BY <1>3 DEF Announce, ObserveLeader, Control, Wait, CheckExpiry, Publish
  <2>2. \/ pc \in Main \cup Cleanup
        \/ pc = "publish" /\ pc' \in Left
    BY <1>3 DEF Announce, ObserveLeader, Control, Wait, CheckExpiry, Publish
  <2> QED
    BY <2>1, <2>2
<1>4. CASE SignalTheGroup
  <2>1. PICK signalled \in SignalOutcomes :
          evidence' = [evidence EXCEPT !.signal = signalled, !.disposition = "unreaped"]
    BY <1>4 DEF SignalTheGroup
  <2>2. evidence'.cleanup = evidence.cleanup
    BY <2>1 DEF TypeOK, Evidence
  <2> QED
    BY <1>4, <2>2 DEF SignalTheGroup, StageInv
<1>5. CASE ReapLeader
  <2>1. evidence'.cleanup = evidence.cleanup
    BY <1>5 DEF ReapLeader, TypeOK, Evidence
  <2>2. handle' = "closed" => Complete'
    <3>1. CASE ReapWaitable /\ evidence' = [evidence EXCEPT !.status = exit,
                                                            !.disposition = "reaped"]
      BY <1>5, <3>1 DEF ReapLeader, ReapWaitable, TypeOK, Evidence
    <3>2. CASE UNCHANGED handle /\ (evidence' = [evidence EXCEPT !.reapFailed = TRUE]
                                    \/ UNCHANGED evidence)
      BY <1>5, <3>2 DEF ReapLeader, TypeOK, Evidence
    <3> QED
      BY <1>5, <3>1, <3>2 DEF ReapLeader
  <2>3. evidence.cleanup # "complete" /\ UNCHANGED <<outcome, answer>>
    BY <1>5 DEF ReapLeader
  <2> QED
    BY <2>1, <2>2, <2>3
<1>6. CASE EndThread
  <2>1. /\ UNCHANGED <<osVars, handle, evidence, outcome, answer>>
        /\ pc \in Left /\ pc' \in Left
    BY <1>6 DEF EndThread
  <2> QED
    BY <2>1
<1> QED
  BY <1>1, <1>2, <1>3, <1>4, <1>5, <1>6 DEF Supervise

(* The status of a leader that was reaped does not change.                  *)
LEMMA ReapedStatusStays ==
  ASSUME TypeOK, OwnerInv, handle = "closed", ChildStep
  PROVE  exit' = exit
<1>1. proc[Leader] = "gone"
  BY DEF OwnerInv, DutyInv
<1>2. ASSUME NEW p \in Procs, Exit(p) \/ Die(p) PROVE exit' = exit
  BY <1>1, <1>2 DEF Exit, Die, Ends
<1> QED
  BY <1>2 DEF ChildStep, ProcessStep, Fork, Escape, CloseOutput, HostReap, Write

LEMMA ProvedStep ==
  TypeOK /\ OwnerInv /\ StageInv /\ CallInv /\ ProvedInv /\ [Next]_vars => ProvedInv'
<1> SUFFICES ASSUME TypeOK, OwnerInv, StageInv, CallInv, ProvedInv, [Next]_vars
             PROVE  ProvedInv'
  OBVIOUS
<1> USE DEF ProvedInv, Complete, Signalled
<1>1. CASE Supervise
  BY <1>1, SuperviseProved
<1>2. CASE Panic
  BY <1>2 DEF Panic, Main, Cleanup, Left, Ended
<1>3. CASE BackgroundReaper
  <2>1. handle = "closed" => handle' = "closed" /\ exit' = exit
    BY <1>3, ReaperOwner DEF BackgroundReaper, ReaperThread, ReaperReceive,
                             ReaperDisconnect, ReaperWait, osVars, OwnerInv, DutyInv
  <2> QED
    BY <1>3, <2>1, ReaperOwner DEF runVars, supervisorVars, callerVars
<1>4. CASE CallerReturn \/ CallerChoice
  <2>1. answer' = "ok" => answer = "ok" \/ (evidence.cleanup = "complete" /\ Signalled)
    <3> USE DEF callerVars, CallInv
    <3>1. CASE StartSupervisor \/ ReceiveStartup
      BY <1>4, <3>1 DEF StartSupervisor, ReceiveStartup, Refusals
    <3>2. CASE JoinAndReturn
      BY <3>2 DEF JoinAndReturn, CancellationSettled
    <3>3. CASE Poll \/ ReceiveBlocking \/ CallWait \/ CallCancel \/ DropHandle \/ UsePipes
      BY <3>3 DEF Poll, ReceiveBlocking, CallWait, CallCancel, DropHandle, UsePipes
    <3> QED
      BY <1>4, <3>1, <3>2, <3>3 DEF CallerReturn, CallerChoice
  <2>2. /\ UNCHANGED <<exit, handle, evidence, outcome>>
        /\ pc' = pc \/ (pc = "none" /\ pc' = "start")
    BY <1>4, CallerFrame DEF childVars
  <2> QED
    BY <2>1, <2>2 DEF Main, Cleanup, Left, Ended
<1>5. CASE ChildStep
  BY <1>5, ReapedStatusStays DEF ChildStep, childVars, runVars, supervisorVars, callerVars
<1>6. CASE DeadlinePasses \/ CleanupExpires \/ UNCHANGED vars
  BY <1>6 DEF DeadlinePasses, CleanupExpires, vars, osVars, childVars, runVars,
              supervisorVars, callerVars
<1> QED
  BY <1>1, <1>2, <1>3, <1>4, <1>5, <1>6 DEF Next, Finished

LEMMA ProvedAlways == Spec => []ProvedInv
<1>1. Init => ProvedInv
  BY DEF Init, ProvedInv, UnknownEvidence, Main, Cleanup
<1> QED
  BY <1>1, ProvedStep, OwnerAlways, StageAlways, CallAlways, PTL DEF Spec

(* When wait or cancel returns Ok, the supervisor itself reaped the leader  *)
(* and reports its status, and no process of the group runs on.             *)
THEOREM ManagedOkIsSettled == Spec => []AnswerOkIsSettled
<1>1. TypeOK /\ OwnerInv /\ DoomInv /\ ProvedInv => AnswerOkIsSettled
  BY DEF OwnerInv, DutyInv, DoomInv, Doomed, ProvedInv, Complete, AnswerOkIsSettled, Procs
<1> QED
  BY <1>1, OwnerAlways, DoomAlways, ProvedAlways, PTL

-----------------------------------------------------------------------------
(* The managed invocation is a Lifecycle.                                   *)

(* When the verdict is known, and who was told of a refusal.                *)
VerdictInv ==
  /\ pc \notin {"publish"} \cup Left => outcome = "pending"
  /\ pc = "publish" => outcome # "pending"
  /\ pc = "leave" => startup \in Refusals \/ outcome # "pending"
  /\ pc = "unwound" => outcome = "pending"
  /\ startup \in Refusals => pc \in {"leave", "returned"} /\ outcome = "pending"

LEMMA SettleVerdict ==
  ASSUME Settle
  PROVE  outcome' # "pending"
<1>1. ChoosePrimary(obs, FALSE, FALSE) \in Primaries
  BY ChoosePrimaryType
<1> QED
  BY <1>1 DEF Settle, ClassifyManaged, Conclusion, ClassifyExit, Primaries

LEMMA VerdictStep == TypeOK /\ VerdictInv /\ [Next]_vars => VerdictInv'
<1> SUFFICES ASSUME TypeOK, VerdictInv, [Next]_vars PROVE VerdictInv'
  OBVIOUS
<1> USE DEF VerdictInv, Left, Ended
<1>1. CASE Supervise
  <2>1. CASE StartReaper \/ SpawnLeader
    BY <2>1 DEF StartReaper, SpawnLeader, Refuse, SpawnRefusals, Refusals
  <2>2. CASE \/ Announce \/ ObserveLeader \/ Control \/ Wait \/ SignalTheGroup
             \/ CheckExpiry \/ ReapLeader \/ Publish
    BY <2>2 DEF Announce, ObserveLeader, Control, Wait, SignalTheGroup, CheckExpiry,
                ReapLeader, Publish, Unsettled, Refusals
  <2>3. CASE Settle
    BY <2>3, SettleVerdict DEF Settle, channelVars
  <2>4. CASE EndThread
    BY <2>4 DEF EndThread, channelVars, Refusals
  <2> QED
    BY <1>1, <2>1, <2>2, <2>3, <2>4 DEF Supervise
<1>2. CASE Panic
  BY <1>2 DEF Panic, channelVars, Main, Cleanup
<1>3. CASE CallerReturn \/ CallerChoice
  BY <1>3, CallerFrame
<1>4. CASE BackgroundReaper \/ ChildStep \/ DeadlinePasses \/ CleanupExpires \/ UNCHANGED vars
  BY <1>4 DEF BackgroundReaper, ChildStep, DeadlinePasses, CleanupExpires, vars, runVars,
              supervisorVars, channelVars
<1> QED
  BY <1>1, <1>2, <1>3, <1>4 DEF Next, Finished

(* What of a state Lifecycle sees.                                          *)
Seen ==
  /\ proc[Leader] \in {"unborn", "running", "killed", "zombie", "gone"}
  /\ proc[Leader] = "unborn" => LifecycleLeader = "none"
  /\ proc[Leader] \in {"running", "killed"} => LifecycleLeader = "alive"
  /\ proc[Leader] = "zombie" => LifecycleLeader = "dead"
  /\ proc[Leader] = "gone" => LifecycleLeader = "reaped"
  /\ handle \in {"none", "closed"} => LifecycleOwner = "nobody"
  /\ handle = "owned" => LifecycleOwner = "supervisor"
  /\ handle \in {"sent", "reaper"} => LifecycleOwner = "background"
  /\ outcome = "pending" /\ pc \notin {"unwound", "panicked"} /\ startup \notin Refusals
       => LifecycleVerdict = "pending"
  /\ outcome = "pending" /\ pc \in {"unwound", "panicked"}
       => LifecycleVerdict = "abandoned"
  /\ startup \in Refusals => LifecycleVerdict = "refused"
  /\ outcome = "ok" => LifecycleVerdict = "success"
  /\ outcome \notin {"ok", "pending"} => LifecycleVerdict = "failure"

LEMMA SeenInState == TypeOK /\ VerdictInv => Seen
<1> SUFFICES ASSUME TypeOK, VerdictInv PROVE Seen
  OBVIOUS
<1>1. proc[Leader] \in {"unborn", "running", "killed", "zombie", "gone"}
  BY DEF TypeOK, OsTypeOK, ProcStates, Procs
<1>2. /\ proc[Leader] = "unborn" => LifecycleLeader = "none"
      /\ proc[Leader] \in {"running", "killed"} => LifecycleLeader = "alive"
      /\ proc[Leader] = "zombie" => LifecycleLeader = "dead"
      /\ proc[Leader] = "gone" => LifecycleLeader = "reaped"
  BY DEF LifecycleLeader
<1>3. /\ handle \in {"none", "closed"} => LifecycleOwner = "nobody"
      /\ handle = "owned" => LifecycleOwner = "supervisor"
      /\ handle \in {"sent", "reaper"} => LifecycleOwner = "background"
  BY DEF LifecycleOwner
<1>4. CASE startup \in Refusals
  BY <1>1, <1>2, <1>3, <1>4 DEF Seen, LifecycleVerdict, VerdictInv
<1>5. CASE startup \notin Refusals
  BY <1>1, <1>2, <1>3, <1>5 DEF Seen, LifecycleVerdict
<1> QED
  BY <1>4, <1>5

Grounds == TypeOK /\ OwnerInv /\ StageInv /\ ProvedInv /\ VerdictInv /\ Seen

LEMMA GroundsAlways == Spec => []Grounds
<1>1. Init => VerdictInv
  BY DEF Init, VerdictInv, Refusals
<1> QED
  BY <1>1, VerdictStep, SeenInState, OwnerAlways, StageAlways, ProvedAlways, PTL
     DEF Spec, Grounds

LEMMA Unseen ==
  ASSUME UNCHANGED <<pc, outcome, startup, evidence, handle, proc>>
  PROVE  UNCHANGED Lifecycle!vars
  BY DEF Lifecycle!vars, LifecycleStage, LifecycleLeader, LifecycleOwner, LifecycleVerdict,
         Cleaning

(* A signal kills a leader that runs, and leaves one that is dead.          *)
LEMMA SignalUnseen ==
  ASSUME TypeOK, Seen, Seen', NEW signalled, SignalGroup(signalled)
  PROVE  LifecycleLeader' = LifecycleLeader
<1>1. \/ proc'[Leader] = proc[Leader]
      \/ proc[Leader] = "running" /\ proc'[Leader] = "killed"
  BY DEF SignalGroup, KillGroup, TypeOK, OsTypeOK, Procs
<1> QED
  BY <1>1 DEF Seen

LEMMA StartAbstract ==
  ASSUME Grounds, Grounds', StartReaper \/ SpawnLeader
  PROVE  Lifecycle!Next \/ UNCHANGED Lifecycle!vars
<1> USE DEF Grounds
<1>1. pc \in {"start", "spawn"} /\ handle = "none" /\ UNCHANGED outcome
  BY DEF StartReaper, SpawnLeader, OwnerInv
<1>2. /\ LifecycleStage = "idle" /\ LifecycleOwner = "nobody" /\ outcome = "pending"
      /\ LifecycleVerdict = "pending"
  BY <1>1 DEF LifecycleStage, StageInv, Main, Left, Ended, VerdictInv, Seen, Refusals
<1>3. CASE UNCHANGED <<handle, proc, startup>> /\ pc' = "spawn"
  <2>1. /\ LifecycleLeader' = LifecycleLeader /\ LifecycleOwner' = LifecycleOwner
        /\ LifecycleStage' = "idle" /\ LifecycleVerdict' = "pending"
    BY <1>1, <1>2, <1>3 DEF LifecycleLeader, LifecycleOwner, LifecycleStage, StageInv, Main,
                            Left, Ended, VerdictInv, Seen
  <2> QED
    BY <1>2, <2>1 DEF Lifecycle!vars
<1>4. CASE UNCHANGED <<handle, proc>> /\ pc' = "leave" /\ startup' \in Refusals
  <2>1. /\ LifecycleLeader' = LifecycleLeader /\ LifecycleOwner' = LifecycleOwner
        /\ LifecycleStage' = "ended" /\ LifecycleVerdict' = "refused"
    BY <1>4 DEF LifecycleLeader, LifecycleOwner, LifecycleStage, Left, Ended, Seen
  <2> QED
    BY <1>2, <2>1 DEF Lifecycle!Next, Lifecycle!Refuse
<1>5. CASE /\ LaunchLeader(command.piped) /\ handle' = "owned" /\ pc' = "announce"
           /\ UNCHANGED startup
  <2>1. proc'[Leader] = "running"
    BY <1>5 DEF LaunchLeader, TypeOK, OsTypeOK, Procs
  <2>2. /\ LifecycleLeader' = "alive" /\ LifecycleOwner' = "supervisor"
        /\ LifecycleStage' = "running" /\ LifecycleVerdict' = "pending"
    BY <1>1, <1>2, <1>5, <2>1 DEF Seen, LifecycleStage, StageInv, Main, Left, Ended, VerdictInv
  <2> QED
    BY <1>2, <2>2 DEF Lifecycle!Next, Lifecycle!Spawn
<1> QED
  BY <1>3, <1>4, <1>5 DEF StartReaper, StartBackgroundReaper, SpawnLeader, Refuse,
                          SpawnRefusals, Refusals, osVars, childVars

LEMMA SuperviseAbstract ==
  ASSUME "hostReap" \notin Faults, Grounds, Grounds', Supervise
  PROVE  Lifecycle!Next \/ UNCHANGED Lifecycle!vars
<1> USE DEF Grounds
<1>1. CASE StartReaper \/ SpawnLeader
  BY <1>1, StartAbstract
<1>2. CASE Announce \/ ObserveLeader \/ Control \/ Wait \/ CheckExpiry
  <2>1. /\ UNCHANGED <<proc, handle, outcome, evidence>>
        /\ pc \in Main \cup Cleanup /\ pc' \in Main \cup Cleanup
    BY <1>2 DEF Announce, ObserveLeader, Control, Wait, CheckExpiry, Unsettled, Main,
                Cleanup, osVars, childVars
  <2>2. LifecycleStage' = LifecycleStage
    BY <2>1 DEF LifecycleStage, StageInv, Cleaning, Main, Cleanup, Left, Ended
  <2>3. startup \notin Refusals /\ startup' \notin Refusals /\ outcome = "pending"
    BY <2>1 DEF VerdictInv, Main, Cleanup, Left, Ended
  <2>4. /\ LifecycleLeader' = LifecycleLeader /\ LifecycleOwner' = LifecycleOwner
        /\ LifecycleVerdict' = LifecycleVerdict
    BY <2>1, <2>3 DEF LifecycleLeader, LifecycleOwner, Seen, Main, Cleanup
  <2> QED
    BY <2>2, <2>4 DEF Lifecycle!vars
<1>3. CASE SignalTheGroup
  <2>1. PICK signalled \in SignalOutcomes :
          /\ SignalGroup(signalled)
          /\ evidence' = [evidence EXCEPT !.signal = signalled, !.disposition = "unreaped"]
    BY <1>3 DEF SignalTheGroup
  <2>2. evidence'.signal = signalled /\ signalled # "unknown"
    BY <2>1 DEF TypeOK, Evidence, SignalOutcomes
  <2>3. LifecycleStage = "running" /\ LifecycleStage' = "terminating"
    BY <1>3, <2>2 DEF SignalTheGroup, LifecycleStage, StageInv, Cleaning, Main, Left, Ended
  <2>4. /\ pc = "signal" /\ pc' = "expiry" /\ handle = "owned" /\ LeaderUnreaped
        /\ UNCHANGED <<handle, outcome, startup>>
    BY <1>3 DEF SignalTheGroup, StageInv, Main, OwnerInv, DutyInv, Held, childVars, Unsettled
  <2>5. LifecycleLeader \in {"alive", "dead"} /\ LifecycleLeader' = LifecycleLeader
    BY <2>1, <2>4, SignalUnseen DEF LeaderUnreaped, Seen
  <2>6. LifecycleOwner' = LifecycleOwner /\ LifecycleVerdict' = LifecycleVerdict
    BY <2>4 DEF LifecycleOwner, LifecycleVerdict
  <2> QED
    BY <2>3, <2>5, <2>6 DEF Lifecycle!Next, Lifecycle!Terminate
<1>4. CASE ReapLeader
  <2>1. /\ pc = "reap" /\ pc' \in {"expiry", "wait", "settle"}
        /\ UNCHANGED <<outcome, startup>>
    BY <1>4 DEF ReapLeader, Unsettled
  <2>2. evidence'.signal = evidence.signal
    BY <1>4 DEF ReapLeader, TypeOK, Evidence
  <2>3. /\ LifecycleStage = "terminating" /\ LifecycleStage' = "terminating"
        /\ LifecycleVerdict' = LifecycleVerdict
    BY <2>1, <2>2 DEF LifecycleStage, StageInv, Cleaning, Cleanup, Left, Ended, LifecycleVerdict
  <2>4. CASE ReapWaitable
    <3>1. /\ proc[Leader] = "zombie" /\ proc'[Leader] = "gone" /\ handle' = "closed"
      BY <2>4 DEF ReapWaitable, TypeOK, OsTypeOK, Procs
    <3>2. handle = "owned"
      BY <2>1, <3>1 DEF OwnerInv, DutyInv, Cleanup
    <3>3. /\ LifecycleLeader = "dead" /\ LifecycleLeader' = "reaped"
          /\ LifecycleOwner = "supervisor" /\ LifecycleOwner' = "nobody"
      BY <3>1, <3>2 DEF Seen
    <3> QED
      BY <2>3, <3>3 DEF Lifecycle!Next, Lifecycle!Reap
  <2>5. CASE UNCHANGED <<proc, handle>>
    BY <2>3, <2>5 DEF Lifecycle!vars, LifecycleLeader, LifecycleOwner
  <2> QED
    BY <1>4, <2>4, <2>5 DEF ReapLeader
<1>5. CASE Settle
  <2>1. /\ pc = "settle" /\ pc' = "publish" /\ proc' = proc
        /\ handle \in {"owned", "closed"} /\ sender /\ reaper = "listening"
        /\ handle' = IF handle = "owned" THEN "sent" ELSE handle
    BY <1>5 DEF Settle, OwnerInv, Cleanup, Handoff, HandoffSucceeds, osVars
  <2>2. LifecycleStage = "terminating" /\ LifecycleStage' = "ended"
    BY <2>1 DEF LifecycleStage, StageInv, Cleanup, Left, Ended
  <2>3. LifecycleLeader' = LifecycleLeader
    BY <2>1 DEF LifecycleLeader
  <2>4. LifecycleOwner' = IF LifecycleOwner = "supervisor" THEN "background"
                          ELSE LifecycleOwner
    BY <2>1 DEF Seen
  <2>5. LifecycleVerdict' \in {"success", "failure"}
    BY <1>5, SettleVerdict DEF Seen
  <2>6. outcome' = "ok" => LifecycleLeader = "reaped"
    <3>1. outcome' = "ok" => handle' = "closed"
      BY DEF ProvedInv, Complete
    <3> QED
      BY <2>3, <3>1 DEF OwnerInv, DutyInv, Seen
  <2>7. outcome' # "ok" => LifecycleVerdict' = "failure"
    BY <1>5, SettleVerdict DEF Seen
  <2> QED
    BY <2>2, <2>3, <2>4, <2>5, <2>6, <2>7
       DEF Lifecycle!Next, Lifecycle!Conclude, Lifecycle!LeaveToBackground
<1>6. CASE Publish
  <2>1. /\ pc = "publish" /\ pc' \in Left
        /\ UNCHANGED <<proc, handle, outcome, startup, evidence>>
    BY <1>6 DEF Publish, Left, Ended, osVars, childVars
  <2>2. UNCHANGED <<LifecycleStage, LifecycleLeader, LifecycleOwner>>
    BY <2>1 DEF LifecycleStage, LifecycleLeader, LifecycleOwner, Left, Ended
  <2>3. LifecycleVerdict' = LifecycleVerdict
    BY <2>1 DEF VerdictInv, Seen
  <2> QED
    BY <2>2, <2>3 DEF Lifecycle!vars
<1>7. CASE EndThread
  <2>1. /\ pc \in {"leave", "unwound"} /\ pc' \in Ended
        /\ pc = "unwound" => pc' = "panicked"
        /\ UNCHANGED <<proc, handle, outcome, startup, evidence>>
    BY <1>7 DEF EndThread, Ended, osVars, channelVars
  <2>2. UNCHANGED <<LifecycleStage, LifecycleLeader, LifecycleOwner>>
    BY <2>1 DEF LifecycleStage, LifecycleLeader, LifecycleOwner, Left, Ended
  <2>3. LifecycleVerdict' = LifecycleVerdict
    BY <2>1 DEF VerdictInv, Seen
  <2> QED
    BY <2>2, <2>3 DEF Lifecycle!vars
<1> QED
  BY <1>1, <1>2, <1>3, <1>4, <1>5, <1>6, <1>7 DEF Supervise

LEMMA PanicAbstract ==
  ASSUME Grounds, Grounds', Panic
  PROVE  Lifecycle!Next
<1> USE DEF Grounds
<1>1. /\ pc \in Main \cup Cleanup /\ pc' = "unwound" /\ UNCHANGED outcome
      /\ handle \in {"owned", "closed"} /\ sender /\ reaper = "listening"
      /\ handle' = IF handle = "owned" THEN "sent" ELSE handle
  BY DEF Panic, DropOwnedChild, OwnerInv, Handoff, HandoffSucceeds
<1>2. LifecycleStage \in {"running", "terminating"} /\ LifecycleStage' = "ended"
  BY <1>1 DEF LifecycleStage, StageInv, Main, Cleanup, Left, Ended
<1>3. LifecycleLeader' = LifecycleLeader
  <2>1. proc' = proc \/ \E signalled \in SignalOutcomes : SignalGroup(signalled)
    BY DEF Panic, DropOwnedChild
  <2> QED
    BY <2>1, SignalUnseen DEF LifecycleLeader
<1>4. /\ LifecycleVerdict' = "abandoned"
      /\ LifecycleOwner' = IF LifecycleOwner = "supervisor" THEN "background"
                           ELSE LifecycleOwner
  BY <1>1 DEF Seen, VerdictInv, Main, Cleanup, Left, Ended
<1> QED
  BY <1>2, <1>3, <1>4 DEF Lifecycle!Next, Lifecycle!Abandon, Lifecycle!LeaveToBackground

LEMMA ReaperAbstract ==
  ASSUME "hostReap" \notin Faults, Grounds, Grounds', BackgroundReaper
  PROVE  Lifecycle!Next \/ UNCHANGED Lifecycle!vars
<1> USE DEF Grounds
<1>1. /\ UNCHANGED <<pc, outcome, startup, evidence>>
      /\ UNCHANGED <<LifecycleStage, LifecycleVerdict>>
  BY DEF BackgroundReaper, runVars, supervisorVars, channelVars, LifecycleStage,
         LifecycleVerdict, Cleaning
<1>2. CASE ReaperReceive
  <2>1. proc' = proc /\ handle = "sent" /\ handle' = "reaper"
    BY <1>2 DEF ReaperReceive, osVars
  <2> QED
    BY <1>1, <2>1 DEF Seen, LifecycleLeader, Lifecycle!vars
<1>3. CASE ReaperDisconnect
  BY <1>1, <1>3, Unseen DEF ReaperDisconnect, osVars
<1>4. CASE ReaperWait
  <2>1. handle = "reaper" /\ LeaderUnreaped
    BY <1>4 DEF ReaperWait, OwnerInv, DutyInv, Held
  <2>2. proc[Leader] = "zombie" /\ proc'[Leader] = "gone" /\ handle' = "closed"
    BY <1>4, <2>1 DEF ReaperWait, LeaderUnreaped, TypeOK, OsTypeOK, Procs
  <2>3. /\ LifecycleLeader = "dead" /\ LifecycleLeader' = "reaped"
        /\ LifecycleOwner = "background" /\ LifecycleOwner' = "nobody"
    BY <2>1, <2>2 DEF Seen
  <2> QED
    BY <1>1, <2>3 DEF Lifecycle!Next, Lifecycle!BackgroundReap
<1> QED
  BY <1>2, <1>3, <1>4 DEF BackgroundReaper, ReaperThread

LEMMA ChildAbstract ==
  ASSUME "hostReap" \notin Faults, Grounds, Grounds', ChildStep
  PROVE  Lifecycle!Next \/ UNCHANGED Lifecycle!vars
<1> USE DEF Grounds
<1>1. UNCHANGED <<pc, outcome, startup, evidence, handle>>
  BY DEF ChildStep, runVars, supervisorVars, channelVars, childVars
<1>2. UNCHANGED <<LifecycleStage, LifecycleOwner, LifecycleVerdict>>
  BY <1>1 DEF LifecycleStage, LifecycleOwner, LifecycleVerdict, Cleaning
<1>3. \/ proc'[Leader] = proc[Leader]
      \/ proc[Leader] \in {"running", "killed"} /\ proc'[Leader] = "zombie"
  <2>1. ASSUME NEW p \in Procs, NEW d \in Descendants, Fork(p, d)
        PROVE  proc'[Leader] = proc[Leader]
    BY <2>1, ProcessGroupAssumption DEF Fork, Leader, TypeOK, OsTypeOK, Procs
  <2>2. ASSUME NEW p \in Procs, Exit(p) \/ Die(p)
        PROVE  \/ proc'[Leader] = proc[Leader]
               \/ proc[Leader] \in {"running", "killed"} /\ proc'[Leader] = "zombie"
    BY <2>2 DEF Exit, Die, Ends, TypeOK, OsTypeOK, Procs
  <2> QED
    BY <2>1, <2>2 DEF ChildStep, ProcessStep, Escape, CloseOutput, HostReap, Write
<1>4. CASE proc'[Leader] = proc[Leader]
  BY <1>2, <1>4 DEF Lifecycle!vars, LifecycleLeader
<1>5. CASE proc[Leader] \in {"running", "killed"} /\ proc'[Leader] = "zombie"
  BY <1>2, <1>5 DEF Seen, Lifecycle!Next, Lifecycle!LeaderDies
<1> QED
  BY <1>3, <1>4, <1>5

LEMMA CallerAbstract ==
  ASSUME Grounds, CallerReturn \/ CallerChoice
  PROVE  UNCHANGED Lifecycle!vars
<1>1. UNCHANGED <<outcome, startup, evidence, handle, proc>>
  BY CallerFrame DEF childVars
<1>2. CASE UNCHANGED pc
  BY <1>1, <1>2, Unseen
<1>3. CASE pc = "none" /\ pc' = "start"
  BY <1>1, <1>3 DEF Lifecycle!vars, LifecycleStage, LifecycleLeader, LifecycleOwner,
                    LifecycleVerdict, Cleaning, Left, Ended, Main
<1> QED
  BY <1>2, <1>3, CallerFrame

LEMMA AbstractStep ==
  "hostReap" \notin Faults /\ Grounds /\ Grounds' /\ [Next]_vars
    => [Lifecycle!Next]_(Lifecycle!vars)
<1> SUFFICES ASSUME "hostReap" \notin Faults, Grounds, Grounds', [Next]_vars
             PROVE  Lifecycle!Next \/ UNCHANGED Lifecycle!vars
  OBVIOUS
<1>1. CASE DeadlinePasses \/ CleanupExpires \/ Finished \/ UNCHANGED vars
  BY <1>1, Unseen DEF DeadlinePasses, CleanupExpires, Finished, vars, osVars, childVars,
                      runVars, supervisorVars, channelVars
<1> QED
  BY <1>1, SuperviseAbstract, PanicAbstract, ReaperAbstract, ChildAbstract, CallerAbstract
     DEF Next

(* Where the host leaves the status of the leader alone, every managed      *)
(* invocation is a Lifecycle, step by step, whatever its caller does.       *)
THEOREM ManagedImplementsLifecycle ==
  ASSUME "hostReap" \notin Faults
  PROVE  Spec => Lifecycle!Init /\ [][Lifecycle!Next]_(Lifecycle!vars)
<1>1. Init => Lifecycle!Init
  <2> SUFFICES ASSUME Init PROVE Lifecycle!Init
    OBVIOUS
  <2>1. /\ proc[Leader] = "unborn" /\ handle = "none" /\ pc = "none" /\ ~Cleaning
        /\ outcome = "pending" /\ startup = "empty"
    BY DEF Init, OsInit, ChildInit, UnknownEvidence, Cleaning, Procs
  <2> QED
    BY <2>1 DEF Lifecycle!Init, LifecycleStage, LifecycleLeader, LifecycleOwner,
                LifecycleVerdict, Main, Left, Ended, Refusals
<1>2. Grounds /\ Grounds' /\ [Next]_vars => [Lifecycle!Next]_(Lifecycle!vars)
  BY AbstractStep
<1> QED
  BY <1>1, <1>2, GroundsAlways, PTL DEF Spec

-----------------------------------------------------------------------------
(* A trigger that comes first is not overtaken.                             *)

Unproved == outcome \notin {"ok", "nonZeroExit"}

(* The trigger is among the causes the result is chosen from, for good.     *)
Noticed == obs.cancelled \/ (obs.deadline /\ deadlinePassed)

(* The trigger is still to be noticed, by the look at the channel and the   *)
(* clock that precedes every decision to signal; or nobody will look.       *)
Awaited ==
  \/ ~Cleaning /\ pc # "signal" /\ (deadlinePassed \/ CancelReceived)
  \/ pc \in Left

(* What an early trigger leaves true for ever.                              *)
Overruled == Unproved /\ (Noticed \/ Awaited)

(* There is no result without a signal.                                     *)
Concluded == outcome # "pending" => Cleaning

LEMMA ConcludedStep ==
  TypeOK /\ StageInv /\ Concluded /\ [Next]_vars => Concluded'
<1> SUFFICES ASSUME TypeOK, StageInv, Concluded, [Next]_vars PROVE Concluded'
  OBVIOUS
<1> USE DEF Concluded, Cleaning
<1>1. CASE Supervise
  <2>1. CASE Settle
    BY <2>1 DEF Settle, SettledEvidence, StageInv, Cleanup, TypeOK, Evidence
  <2>2. CASE SignalTheGroup
    BY <2>2 DEF SignalTheGroup, SignalOutcomes, TypeOK, Evidence
  <2>3. CASE ReapLeader
    BY <2>3 DEF ReapLeader, Unsettled, TypeOK, Evidence
  <2>4. CASE \/ StartReaper \/ SpawnLeader \/ Announce \/ ObserveLeader \/ Control \/ Wait
             \/ CheckExpiry \/ Publish \/ EndThread
    BY <2>4 DEF StartReaper, SpawnLeader, Announce, ObserveLeader, Control, Wait,
                CheckExpiry, Publish, EndThread, Unsettled
  <2> QED
    BY <1>1, <2>1, <2>2, <2>3, <2>4 DEF Supervise
<1>2. CASE CallerReturn \/ CallerChoice
  BY <1>2, CallerFrame
<1>3. CASE \/ Panic \/ BackgroundReaper \/ ChildStep \/ DeadlinePasses \/ CleanupExpires
           \/ UNCHANGED vars
  BY <1>3 DEF Panic, BackgroundReaper, ChildStep, DeadlinePasses, CleanupExpires, vars,
              runVars, supervisorVars
<1> QED
  BY <1>1, <1>2, <1>3 DEF Next, Finished

(* Once there is a trigger among the causes, no exit is reported.           *)
LEMMA OverruledSettle ==
  ASSUME Noticed, Settle
  PROVE  Unproved'
<1>1. ChoosePrimary(obs, FALSE, FALSE) \in {"cancelled", "deadline"}
  BY DEF Noticed, ChoosePrimary
<1> QED
  BY <1>1 DEF Settle, ClassifyManaged, Conclusion, Unproved

LEMMA OverruledSupervise ==
  ASSUME TypeOK, StageInv, Overruled, Supervise
  PROVE  Overruled'
<1>0. UNCHANGED clockVars
  BY DEF Supervise
<1>1. CASE Settle
  <2>1. Noticed
    BY <1>1 DEF Settle, Overruled, Awaited, StageInv, Cleanup, Left, Ended
  <2> QED
    BY <1>0, <1>1, <2>1, OverruledSettle DEF Settle, Overruled, Noticed, clockVars
<1> USE DEF Overruled, Unproved, Noticed, Awaited, CancelReceived, clockVars, Unsettled
<1>2. CASE Control \/ Wait
  <2>1. /\ obs'.cancelled <=> obs.cancelled \/ CancelReceived
        /\ obs'.deadline = IF pc = "control" THEN deadlinePassed ELSE obs.deadline
        /\ UNCHANGED <<outcome, canceller, evidence>>
    BY <1>2 DEF Control, Wait, TypeOK, ObservationStates
  <2>2. pc \in {"control", "wait"} /\ (pc = "wait" => pc' # "signal")
    BY <1>2 DEF Control, Wait
  <2> QED
    BY <1>0, <2>1, <2>2 DEF Cleaning, Left, Ended
<1>3. CASE StartReaper \/ SpawnLeader \/ Announce \/ ObserveLeader
  <2>1. /\ obs'.cancelled = obs.cancelled /\ obs'.deadline = obs.deadline
        /\ UNCHANGED <<outcome, cancel, canceller, evidence>>
        /\ pc \notin Left /\ pc' # "signal"
    BY <1>3 DEF StartReaper, SpawnLeader, Refuse, Announce, ObserveLeader,
                LeaderObservations, TypeOK, ObservationStates, Left, Ended
  <2> QED
    BY <1>0, <2>1 DEF Cleaning
<1>4. CASE SignalTheGroup \/ CheckExpiry \/ ReapLeader \/ Publish
  <2>1. UNCHANGED <<obs, outcome>>
    BY <1>4 DEF SignalTheGroup, CheckExpiry, ReapLeader, Publish
  <2>2. pc = "signal" \/ Cleaning \/ pc' \in Left
    BY <1>4 DEF SignalTheGroup, CheckExpiry, ReapLeader, Publish, StageInv, Cleanup, Left, Ended
  <2>3. pc \notin Left
    BY <1>4 DEF SignalTheGroup, CheckExpiry, ReapLeader, Publish, Left, Ended
  <2> QED
    BY <1>0, <2>1, <2>2, <2>3
<1>5. CASE EndThread
  <2>1. UNCHANGED <<obs, outcome>> /\ pc' \in Left
    BY <1>5 DEF EndThread, Left, Ended
  <2> QED
    BY <1>0, <2>1
<1> QED
  BY <1>1, <1>2, <1>3, <1>4, <1>5 DEF Supervise

LEMMA OverruledStep ==
  TypeOK /\ StageInv /\ Overruled /\ [Next]_vars => Overruled'
<1> SUFFICES ASSUME TypeOK, StageInv, Overruled, [Next]_vars PROVE Overruled'
  OBVIOUS
<1>1. CASE Supervise
  BY <1>1, OverruledSupervise
<1> USE DEF Overruled, Unproved, Noticed, Awaited, CancelReceived, Cleaning
<1>2. CASE Panic
  BY <1>2 DEF Panic, Left, Ended, clockVars
<1>3. CASE CallerReturn \/ CallerChoice
  <2>1. /\ UNCHANGED <<obs, outcome, evidence, deadlinePassed>>
        /\ pc' = pc \/ (pc = "none" /\ pc' = "start")
    BY <1>3, CallerFrame DEF clockVars
  <2>2. cancel \/ ~canceller => cancel' \/ ~canceller'
    BY <1>3 DEF CallerReturn, CallerChoice, StartSupervisor, ReceiveStartup,
                ReceiveBlocking, JoinAndReturn, Poll, CallWait, CallCancel, DropHandle,
                UsePipes, channelVars
  <2> QED
    BY <2>1, <2>2 DEF Left, Ended
<1>4. CASE BackgroundReaper \/ ChildStep \/ UNCHANGED vars
  BY <1>4 DEF BackgroundReaper, ChildStep, vars, runVars, supervisorVars, channelVars,
              clockVars
<1>5. CASE DeadlinePasses \/ CleanupExpires
  BY <1>5 DEF DeadlinePasses, CleanupExpires, supervisorVars, channelVars
<1> QED
  BY <1>1, <1>2, <1>3, <1>4, <1>5 DEF Next, Finished

(* A deadline that passes, or a handle that is cancelled or dropped, before *)
(* the decision to signal is reported: the exit it races never overtakes    *)
(* it, although the cleanup loop does not look at the deadline again.       *)
THEOREM ManagedEarlyTriggerKept == Spec => EarlyTriggerNotLost
<1>1. Init => Concluded
  BY DEF Init, Concluded
<1>2. /\ Concluded /\ ~Cleaning /\ pc # "signal"
      /\ deadlinePassed \/ cancel \/ ~canceller
      => Overruled
  BY DEF Concluded, Overruled, Unproved, Awaited, CancelReceived
<1>3. Overruled => outcome \notin {"ok", "nonZeroExit"}
  BY DEF Overruled, Unproved
<1> QED
  BY <1>1, <1>2, <1>3, ConcludedStep, OverruledStep, OwnerAlways, StageAlways, PTL
     DEF Spec, EarlyTriggerNotLost

=============================================================================
