-------------------------- MODULE LifecycleProofs --------------------------
(***************************************************************************)
(* Every step of a captured invocation is a step of the abstract Lifecycle *)
(* or leaves it alone, unless the host takes the status of the leader away *)
(* from the supervisor.                                                    *)
(***************************************************************************)
EXTENDS SettlementProofs

(* What is true before and after a step.                                    *)
Verdicts ==
  /\ pc # "returned" => outcome = "pending"
  /\ pc = "returned" => outcome \in Outcomes \ {"pending"}
  /\ pc = "returned" /\ ~Cleaning => outcome \in Refusals

LEMMA ConcludedNotRefused ==
  ASSUME NEW primary \in Primaries, NEW configured, NEW e
  PROVE  Classify(primary, configured, e) \in Outcomes \ (Refusals \cup {"pending"})
  BY DEF Classify, Conclusion, ClassifyExit, Primaries, Outcomes, Refusals

LEMMA SettleVerdict ==
  ASSUME Settle
  PROVE  outcome' \in Outcomes \ (Refusals \cup {"pending"})
  BY ConcludedNotRefused, ChoosePrimaryType DEF Settle

LEMMA VerdictsStep ==
  ASSUME TypeOK, StageInv, Verdicts, [Next]_vars
  PROVE  Verdicts'
<1> USE DEF Verdicts, Ended, Cleaning
<1>1. CASE Supervise
  <2>1. CASE StartReaper
    BY <2>1 DEF StartReaper, Refuse, Refusals, Outcomes
  <2>2. CASE SpawnLeader
    BY <2>2 DEF SpawnLeader, Refuse, Refusals, SpawnRefusals, Outcomes
  <2>3. CASE MakeNonblocking \/ ObserveLeader \/ Control \/ PollStreams \/ Pump \/ CheckExpiry
    <3>1. UNCHANGED <<outcome, evidence>> /\ pc \notin Ended /\ pc' \notin Ended
      BY <2>3, PumpStage DEF MakeNonblocking, ObserveLeader, Control, PollStreams, AfterRead,
                             CheckExpiry, LoopHead
    <3> QED
      BY <3>1
  <2>4. CASE SignalTheGroup \/ ReapLeader
    BY <2>4 DEF SignalTheGroup, ReapLeader
  <2>5. CASE Settle
    <3>1. pc = "settle" /\ pc' = "returned" /\ evidence'.signal = evidence.signal
      BY <2>5 DEF Settle, SettledEvidence, TypeOK, Evidence
    <3> QED
      BY <2>5, <3>1, SettleVerdict DEF StageInv, Cleanup
  <2> QED
    BY <1>1, <2>1, <2>2, <2>3, <2>4, <2>5 DEF Supervise
<1>2. CASE Panic
  BY <1>2 DEF Panic, Main, Cleanup
<1>3. CASE \/ BackgroundReaper \/ ChildWrite \/ ChildStep \/ RequestCancel
           \/ DeadlinePasses \/ CleanupExpires \/ Finished \/ UNCHANGED vars
  BY <1>3 DEF BackgroundReaper, ChildWrite, ChildStep, RequestCancel, DeadlinePasses,
              CleanupExpires, Finished, vars, runVars
<1> QED
  BY <1>1, <1>2, <1>3 DEF Next

-----------------------------------------------------------------------------
(* What of a state Lifecycle sees.                                          *)

Seen ==
  /\ proc[Leader] \in {"unborn", "running", "killed", "zombie", "gone"}
  /\ proc[Leader] = "unborn" => LifecycleLeader = "none"
  /\ proc[Leader] \in {"running", "killed"} => LifecycleLeader = "alive"
  /\ proc[Leader] = "zombie" => LifecycleLeader = "dead"
  /\ proc[Leader] = "gone" => LifecycleLeader = "reaped"
  /\ handle \in {"none", "owned", "sent", "reaper", "closed"}
  /\ handle \in {"none", "closed"} => LifecycleOwner = "nobody"
  /\ handle = "owned" => LifecycleOwner = "supervisor"
  /\ handle \in {"sent", "reaper"} => LifecycleOwner = "background"
  /\ pc \notin Ended => LifecycleVerdict = "pending"
  /\ pc = "panicked" => LifecycleVerdict = "abandoned"
  /\ pc = "returned" /\ outcome \in Refusals => LifecycleVerdict = "refused"
  /\ pc = "returned" /\ outcome = "ok" => LifecycleVerdict = "success"
  /\ pc = "returned" /\ outcome \notin Refusals \cup {"ok"} => LifecycleVerdict = "failure"

LEMMA SeenInState ==
  ASSUME TypeOK, Verdicts
  PROVE  Seen
<1>1. proc[Leader] \in {"unborn", "running", "killed", "zombie", "gone"}
  BY DEF TypeOK, OsTypeOK, ProcStates, Procs
<1>2. /\ proc[Leader] = "unborn" => LifecycleLeader = "none"
      /\ proc[Leader] \in {"running", "killed"} => LifecycleLeader = "alive"
      /\ proc[Leader] = "zombie" => LifecycleLeader = "dead"
      /\ proc[Leader] = "gone" => LifecycleLeader = "reaped"
  BY DEF LifecycleLeader
<1>3. handle \in {"none", "owned", "sent", "reaper", "closed"}
  BY DEF TypeOK, ChildTypeOK
<1>4. /\ handle \in {"none", "closed"} => LifecycleOwner = "nobody"
      /\ handle = "owned" => LifecycleOwner = "supervisor"
      /\ handle \in {"sent", "reaper"} => LifecycleOwner = "background"
  BY DEF LifecycleOwner
<1>5. CASE pc # "returned"
  BY <1>1, <1>2, <1>3, <1>4, <1>5 DEF Seen, LifecycleVerdict, Verdicts, Refusals, Ended
<1>6. CASE pc = "returned" /\ outcome \in Refusals
  BY <1>1, <1>2, <1>3, <1>4, <1>6 DEF Seen, LifecycleVerdict, Verdicts, Refusals, Ended
<1>7. CASE pc = "returned" /\ outcome \notin Refusals
  BY <1>1, <1>2, <1>3, <1>4, <1>7 DEF Seen, LifecycleVerdict, Verdicts, Ended
<1> QED
  BY <1>5, <1>6, <1>7

Grounds == /\ TypeOK /\ OwnerInv /\ StageInv /\ ResultInv /\ Verdicts
           /\ SuccessIsSettled /\ Seen

LEMMA GroundsAlways == SafeSpec => []Grounds
<1>1. Init => Verdicts
  BY DEF Init, Verdicts, Cleaning
<1>2. TypeOK /\ StageInv /\ Verdicts /\ [Next]_vars => Verdicts'
  BY VerdictsStep
<1>3. TypeOK /\ OwnerInv /\ StreamInv /\ GroupInv /\ ResultInv => SuccessIsSettled
  BY SuccessInState
<1>4. TypeOK /\ Verdicts => Seen
  BY SeenInState
<1> QED
  BY <1>1, <1>2, <1>3, <1>4, SettledAlways, StageAlways, PTL DEF SafeSpec, Grounds

LEMMA Unseen ==
  ASSUME UNCHANGED <<pc, outcome, evidence, handle, proc>>
  PROVE  UNCHANGED Lifecycle!vars
  BY DEF Lifecycle!vars, LifecycleStage, LifecycleLeader, LifecycleOwner, LifecycleVerdict,
         Cleaning

(* A signal kills a leader that runs, and leaves one that is dead.          *)
LEMMA SignalUnseen ==
  ASSUME TypeOK, Seen, Seen', NEW result, SignalGroup(result)
  PROVE  LifecycleLeader' = LifecycleLeader
<1>1. \/ proc'[Leader] = proc[Leader]
      \/ proc[Leader] = "running" /\ proc'[Leader] = "killed"
  BY DEF SignalGroup, KillGroup, TypeOK, OsTypeOK, Procs
<1> QED
  BY <1>1 DEF Seen

LEMMA SuperviseAbstract ==
  ASSUME "hostReap" \notin Faults, Grounds, Grounds', Supervise
  PROVE  Lifecycle!Next \/ UNCHANGED Lifecycle!vars
<1> USE DEF Grounds
<1>1. CASE StartReaper
  <2>1. LifecycleStage = "idle" /\ handle = "none" /\ UNCHANGED <<handle, proc>>
        /\ LifecycleVerdict = "pending"
    BY <1>1 DEF StartReaper, StartBackgroundReaper, LifecycleStage, StageInv, Main, Ended,
                OwnerInv, Seen, osVars
  <2>2. LifecycleLeader' = LifecycleLeader /\ LifecycleOwner' = LifecycleOwner
    BY <2>1 DEF LifecycleLeader, LifecycleOwner
  <2>3. \/ LifecycleStage' = "idle" /\ LifecycleVerdict' = "pending"
        \/ LifecycleStage' = "ended" /\ LifecycleVerdict' = "refused"
    BY <1>1 DEF StartReaper, Refuse, Refusals, LifecycleStage, StageInv, Main, Ended, Seen
  <2> QED
    BY <2>1, <2>2, <2>3 DEF Lifecycle!vars, Lifecycle!Next, Lifecycle!Refuse
<1>2. CASE SpawnLeader
  <2>1. LifecycleStage = "idle" /\ handle = "none" /\ LifecycleVerdict = "pending"
        /\ LifecycleOwner = "nobody"
    BY <1>2 DEF SpawnLeader, LifecycleStage, StageInv, Main, Ended, OwnerInv, Seen
  <2>2. CASE LaunchLeader(command.piped) /\ handle' = "owned" /\ pc' = "open"
    <3>1. proc'[Leader] = "running"
      BY <2>2 DEF LaunchLeader, TypeOK, OsTypeOK, Procs
    <3>2. /\ LifecycleLeader' = "alive" /\ LifecycleOwner' = "supervisor"
          /\ LifecycleStage' = "running" /\ LifecycleVerdict' = "pending"
      BY <2>2, <3>1 DEF Seen, LifecycleStage, StageInv, Main, Ended
    <3> QED
      BY <2>1, <3>2 DEF Lifecycle!Next, Lifecycle!Spawn
  <2>3. CASE UNCHANGED <<proc, handle>> /\ pc' = "returned" /\ outcome' \in Refusals
    <3>1. LifecycleLeader' = LifecycleLeader /\ LifecycleOwner' = LifecycleOwner
      BY <2>3 DEF LifecycleLeader, LifecycleOwner
    <3>2. LifecycleStage' = "ended" /\ LifecycleVerdict' = "refused"
      BY <2>3 DEF Seen, LifecycleStage, Ended
    <3> QED
      BY <2>1, <3>1, <3>2 DEF Lifecycle!Next, Lifecycle!Refuse
  <2> QED
    BY <1>2, <2>2, <2>3 DEF SpawnLeader, Refuse, SpawnRefusals, Refusals, osVars
<1>3. CASE MakeNonblocking \/ ObserveLeader \/ Control \/ PollStreams \/ Pump \/ CheckExpiry
  <2>1. UNCHANGED <<proc, handle, outcome, evidence>>
        /\ pc \in Main \cup Cleanup /\ pc' \in Main \cup Cleanup
    BY <1>3, PumpStage DEF MakeNonblocking, ObserveLeader, Control, PollStreams, AfterRead,
                           CheckExpiry, LoopHead, Main, Cleanup, osVars, childVars
  <2>2. LifecycleStage' = LifecycleStage
    BY <2>1 DEF LifecycleStage, StageInv, Cleaning, Main, Cleanup, Ended
  <2>3. /\ LifecycleLeader' = LifecycleLeader /\ LifecycleOwner' = LifecycleOwner
        /\ LifecycleVerdict' = LifecycleVerdict
    BY <2>1 DEF LifecycleLeader, LifecycleOwner, LifecycleVerdict, Main, Cleanup
  <2> QED
    BY <2>2, <2>3 DEF Lifecycle!vars
<1>4. CASE SignalTheGroup
  <2>1. PICK result \in SignalOutcomes :
          /\ SignalGroup(result)
          /\ evidence' = [evidence EXCEPT !.signal = result, !.disposition = "unreaped"]
    BY <1>4 DEF SignalTheGroup
  <2>2. evidence'.signal = result /\ result # "unknown"
    BY <2>1 DEF TypeOK, Evidence, SignalOutcomes
  <2>3. LifecycleStage = "running" /\ LifecycleStage' = "terminating"
    BY <1>4, <2>2 DEF SignalTheGroup, LifecycleStage, StageInv, Cleaning, Main, Ended
  <2>4. handle = "owned" /\ UNCHANGED <<handle, outcome>> /\ LeaderUnreaped
    BY <1>4 DEF SignalTheGroup, StageInv, Main, OwnerInv, DutyInv, Held, childVars
  <2>5. LifecycleLeader \in {"alive", "dead"} /\ LifecycleLeader' = LifecycleLeader
    BY <2>1, <2>4, SignalUnseen DEF LeaderUnreaped, Seen
  <2>6. LifecycleOwner' = LifecycleOwner /\ LifecycleVerdict' = LifecycleVerdict
    BY <1>4, <2>4 DEF SignalTheGroup, LifecycleOwner, Seen, Ended
  <2> QED
    BY <2>3, <2>5, <2>6 DEF Lifecycle!Next, Lifecycle!Terminate
<1>5. CASE ReapLeader
  <2>1. pc = "reap" /\ pc' \in {"poll", "settle"} /\ UNCHANGED outcome
    BY <1>5 DEF ReapLeader
  <2>2. evidence'.signal = evidence.signal
    BY <1>5 DEF ReapLeader, TypeOK, Evidence
  <2>3. /\ LifecycleStage = "terminating" /\ LifecycleStage' = "terminating"
        /\ LifecycleVerdict' = LifecycleVerdict
    BY <2>1, <2>2 DEF LifecycleStage, StageInv, Cleaning, Cleanup, Ended, Seen
  <2>4. CASE ReapWaitable /\ handle = "owned"
    <3>1. /\ proc[Leader] = "zombie" /\ proc'[Leader] = "gone" /\ handle' = "closed"
      BY <2>4 DEF ReapWaitable, TypeOK, OsTypeOK, Procs
    <3>2. /\ LifecycleLeader = "dead" /\ LifecycleLeader' = "reaped"
          /\ LifecycleOwner = "supervisor" /\ LifecycleOwner' = "nobody"
      BY <2>4, <3>1 DEF Seen
    <3> QED
      BY <2>3, <3>2 DEF Lifecycle!Next, Lifecycle!Reap
  <2>5. CASE UNCHANGED <<proc, handle>>
    BY <2>3, <2>5 DEF Lifecycle!vars, LifecycleLeader, LifecycleOwner
  <2> QED
    BY <1>5, <2>4, <2>5 DEF ReapLeader
<1>6. CASE Settle
  <2>1. /\ pc = "settle" /\ pc' = "returned" /\ proc' = proc
        /\ handle \in {"owned", "closed"} /\ sender /\ reaper = "listening"
        /\ handle' = IF handle = "owned" THEN "sent" ELSE handle
    BY <1>6 DEF Settle, OwnerInv, Cleanup, Handoff, HandoffSucceeds
  <2>2. LifecycleStage = "terminating" /\ LifecycleStage' = "ended"
    BY <2>1 DEF LifecycleStage, StageInv, Cleanup, Ended
  <2>3. LifecycleLeader' = LifecycleLeader
    BY <2>1 DEF LifecycleLeader
  <2>4. LifecycleOwner' = IF LifecycleOwner = "supervisor" THEN "background"
                          ELSE LifecycleOwner
    BY <2>1 DEF Seen
  <2>5. LifecycleVerdict' \in {"success", "failure"}
    BY <1>6, <2>1, SettleVerdict DEF Seen
  <2>6. LifecycleVerdict' = "success" => LifecycleLeader = "reaped"
    BY <1>6, <2>1, <2>3, SettleVerdict DEF Seen, SuccessIsSettled
  <2> QED
    BY <2>2, <2>3, <2>4, <2>5, <2>6
       DEF Lifecycle!Next, Lifecycle!Conclude, Lifecycle!LeaveToBackground
<1> QED
  BY <1>1, <1>2, <1>3, <1>4, <1>5, <1>6 DEF Supervise

LEMMA PanicAbstract ==
  ASSUME Grounds, Grounds', Panic
  PROVE  Lifecycle!Next
<1> USE DEF Grounds
<1>1. /\ pc \in Main \cup Cleanup /\ pc' = "panicked"
      /\ handle \in {"owned", "closed"} /\ sender /\ reaper = "listening"
      /\ handle' = IF handle = "owned" THEN "sent" ELSE handle
  BY DEF Panic, DropOwnedChild, OwnerInv, Handoff, HandoffSucceeds
<1>2. LifecycleStage \in {"running", "terminating"} /\ LifecycleStage' = "ended"
  BY <1>1 DEF LifecycleStage, StageInv, Main, Cleanup, Ended
<1>3. LifecycleLeader' = LifecycleLeader
  <2>1. proc' = proc \/ \E result \in SignalOutcomes : SignalGroup(result)
    BY DEF Panic, DropOwnedChild
  <2> QED
    BY <2>1, SignalUnseen DEF LifecycleLeader
<1>4. /\ LifecycleVerdict' = "abandoned"
      /\ LifecycleOwner' = IF LifecycleOwner = "supervisor" THEN "background"
                           ELSE LifecycleOwner
  BY <1>1 DEF Seen
<1> QED
  BY <1>2, <1>3, <1>4 DEF Lifecycle!Next, Lifecycle!Abandon, Lifecycle!LeaveToBackground

LEMMA ReaperAbstract ==
  ASSUME "hostReap" \notin Faults, Grounds, Grounds', BackgroundReaper
  PROVE  Lifecycle!Next \/ UNCHANGED Lifecycle!vars
<1> USE DEF Grounds
<1>1. /\ UNCHANGED <<pc, outcome, evidence>>
      /\ UNCHANGED <<LifecycleStage, LifecycleVerdict>>
  BY DEF BackgroundReaper, runVars, LifecycleStage, LifecycleVerdict, Cleaning
<1>2. CASE ReaperReceive
  <2>1. proc' = proc /\ handle = "sent" /\ handle' = "reaper"
    BY <1>2 DEF ReaperReceive, osVars
  <2> QED
    BY <1>1, <2>1 DEF Seen, LifecycleLeader, Lifecycle!vars
<1>3. CASE ReaperDisconnect
  BY <1>1, <1>3, Unseen DEF ReaperDisconnect, osVars
<1>4. CASE ReaperWait
  <2>1. handle = "reaper" /\ LeaderUnreaped
    BY <1>4 DEF ReaperWait, OwnerInv, DutyInv, Held
  <2>2. proc[Leader] = "zombie" /\ proc'[Leader] = "gone" /\ handle' = "closed"
    BY <1>4, <2>1 DEF ReaperWait, LeaderUnreaped, TypeOK, OsTypeOK, Procs
  <2>3. /\ LifecycleLeader = "dead" /\ LifecycleLeader' = "reaped"
        /\ LifecycleOwner = "background" /\ LifecycleOwner' = "nobody"
    BY <2>1, <2>2 DEF Seen
  <2> QED
    BY <1>1, <2>3 DEF Lifecycle!Next, Lifecycle!BackgroundReap
<1> QED
  BY <1>2, <1>3, <1>4 DEF BackgroundReaper, ReaperThread

LEMMA ChildAbstract ==
  ASSUME "hostReap" \notin Faults, Grounds, Grounds', ChildStep
  PROVE  Lifecycle!Next \/ UNCHANGED Lifecycle!vars
<1> USE DEF Grounds
<1>1. UNCHANGED <<pc, outcome, evidence, handle>>
  BY DEF ChildStep, runVars, childVars
<1>2. UNCHANGED <<LifecycleStage, LifecycleOwner, LifecycleVerdict>>
  BY <1>1 DEF LifecycleStage, LifecycleOwner, LifecycleVerdict, Cleaning
<1>3. \/ proc'[Leader] = proc[Leader]
      \/ proc[Leader] \in {"running", "killed"} /\ proc'[Leader] = "zombie"
  <2>1. ASSUME NEW p \in Procs, NEW d \in Descendants, Fork(p, d)
        PROVE  proc'[Leader] = proc[Leader]
    BY <2>1, ProcessGroupAssumption DEF Fork, Leader, TypeOK, OsTypeOK, Procs
  <2>2. ASSUME NEW p \in Procs, Exit(p) \/ Die(p)
        PROVE  \/ proc'[Leader] = proc[Leader]
               \/ proc[Leader] \in {"running", "killed"} /\ proc'[Leader] = "zombie"
    BY <2>2 DEF Exit, Die, Ends, TypeOK, OsTypeOK, Procs
  <2> QED
    BY <2>1, <2>2 DEF ChildStep, ProcessStep, Escape, CloseOutput, HostReap
<1>4. CASE proc'[Leader] = proc[Leader]
  BY <1>2, <1>4 DEF Lifecycle!vars, LifecycleLeader
<1>5. CASE proc[Leader] \in {"running", "killed"} /\ proc'[Leader] = "zombie"
  BY <1>2, <1>5 DEF Seen, Lifecycle!Next, Lifecycle!LeaderDies
<1> QED
  BY <1>3, <1>4, <1>5

LEMMA AbstractStep ==
  "hostReap" \notin Faults /\ Grounds /\ Grounds' /\ [Next]_vars
    => [Lifecycle!Next]_(Lifecycle!vars)
<1> SUFFICES ASSUME "hostReap" \notin Faults, Grounds, Grounds', [Next]_vars
             PROVE  Lifecycle!Next \/ UNCHANGED Lifecycle!vars
  OBVIOUS
<1>1. CASE ChildWrite \/ RequestCancel \/ DeadlinePasses \/ CleanupExpires \/ Finished
           \/ UNCHANGED vars
  BY <1>1, Unseen DEF ChildWrite, Write, RequestCancel, DeadlinePasses, CleanupExpires,
     Finished, vars, osVars, childVars, runVars
<1> QED
  BY <1>1, SuperviseAbstract, PanicAbstract, ReaperAbstract, ChildAbstract DEF Next

(* Where the host leaves the status of the leader alone, every captured     *)
(* invocation is a Lifecycle, step by step: the leader is reaped once, by   *)
(* the supervisor only after the signal and otherwise in the background.    *)
THEOREM CapturedImplementsLifecycle ==
  ASSUME "hostReap" \notin Faults
  PROVE  SafeSpec => Lifecycle!Init /\ [][Lifecycle!Next]_(Lifecycle!vars)
<1>1. Init => Lifecycle!Init
  <2> SUFFICES ASSUME Init PROVE Lifecycle!Init
    OBVIOUS
  <2>1. proc[Leader] = "unborn" /\ handle = "none" /\ pc = "start" /\ ~Cleaning
        /\ outcome = "pending"
    BY DEF Init, OsInit, ChildInit, UnknownEvidence, Cleaning, Procs
  <2> QED
    BY <2>1 DEF Lifecycle!Init, LifecycleStage, LifecycleLeader, LifecycleOwner,
                LifecycleVerdict, Main, Ended, Refusals
<1>2. Grounds /\ Grounds' /\ [Next]_vars => [Lifecycle!Next]_(Lifecycle!vars)
  BY AbstractStep
<1> QED
  BY <1>1, <1>2, GroundsAlways, PTL DEF SafeSpec

-----------------------------------------------------------------------------
(* What Lifecycle says, read on the abstract state.                         *)

(* A leader that is not reaped is owed a reap: by the supervisor while it   *)
(* is there, by the background reaper after it; and nobody owes one for a   *)
(* leader that is reaped.                                                   *)
DutyHasBearer ==
  /\ LifecycleOwner = "nobody" <=> LifecycleLeader \notin {"alive", "dead"}
  /\ LifecycleOwner = "supervisor" => LifecycleStage \in {"running", "terminating"}
  /\ LifecycleOwner = "background" => LifecycleStage = "ended"

(* The leader exists from the spawn on and is not reaped before the signal; *)
(* success is of a leader that is.                                          *)
VerdictIsEarned ==
  /\ LifecycleStage = "idle" => LifecycleLeader = "none"
  /\ LifecycleStage = "running" => LifecycleLeader \in {"alive", "dead"}
  /\ LifecycleVerdict = "success" => LifecycleLeader = "reaped" /\ LifecycleStage = "ended"

LEMMA AccountStep ==
  DutyHasBearer /\ VerdictIsEarned /\ [Lifecycle!Next]_(Lifecycle!vars)
    => DutyHasBearer' /\ VerdictIsEarned'
<1> SUFFICES ASSUME DutyHasBearer, VerdictIsEarned, [Lifecycle!Next]_(Lifecycle!vars)
             PROVE  DutyHasBearer' /\ VerdictIsEarned'
  OBVIOUS
<1> USE DEF DutyHasBearer, VerdictIsEarned
<1>1. CASE Lifecycle!Refuse \/ Lifecycle!Spawn
  BY <1>1 DEF Lifecycle!Refuse, Lifecycle!Spawn
<1>2. CASE Lifecycle!LeaderDies \/ Lifecycle!Terminate
  BY <1>2 DEF Lifecycle!LeaderDies, Lifecycle!Terminate
<1>3. CASE Lifecycle!Reap \/ Lifecycle!BackgroundReap
  BY <1>3 DEF Lifecycle!Reap, Lifecycle!BackgroundReap
<1>4. CASE Lifecycle!Conclude
  BY <1>4 DEF Lifecycle!Conclude, Lifecycle!LeaveToBackground
<1>5. CASE Lifecycle!Abandon
  BY <1>5 DEF Lifecycle!Abandon, Lifecycle!LeaveToBackground
<1>6. CASE UNCHANGED Lifecycle!vars
  BY <1>6 DEF Lifecycle!vars
<1> QED
  BY <1>1, <1>2, <1>3, <1>4, <1>5, <1>6 DEF Lifecycle!Next

(* Lifecycle keeps an exact account of the duty to reap, so whatever        *)
(* implements it does.                                                      *)
THEOREM LifecycleKeepsAccount ==
  Lifecycle!Init /\ [][Lifecycle!Next]_(Lifecycle!vars) => [](DutyHasBearer /\ VerdictIsEarned)
<1>1. Lifecycle!Init => DutyHasBearer /\ VerdictIsEarned
  BY DEF Lifecycle!Init, DutyHasBearer, VerdictIsEarned
<1> QED
  BY <1>1, AccountStep, PTL

=============================================================================
