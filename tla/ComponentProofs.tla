-------------------------- MODULE ComponentProofs ---------------------------
(***************************************************************************)
(* Lemmas about the parts that the captured and the managed supervisor     *)
(* share: the processes and the owner of the leader (OwnedChild), and what *)
(* the operators of Capture and Outcome return, for every argument.        *)
(***************************************************************************)
EXTENDS OwnedChild, Outcome, TLAPS

LEMMA SignalGroupType ==
  ASSUME OsTypeOK, NEW result, SignalGroup(result)
  PROVE  proc' \in [Procs -> ProcStates]
  BY DEF SignalGroup, KillGroup, OsTypeOK, ProcStates

LEMMA HandoffType ==
  ASSUME ChildTypeOK, Handoff
  PROVE  handle' \in {"none", "owned", "sent", "reaper", "closed"}
  BY DEF Handoff, ChildTypeOK

LEMMA DropOwnedChildType ==
  ASSUME OsTypeOK, ChildTypeOK, DropOwnedChild
  PROVE  proc' \in [Procs -> ProcStates] /\ ChildTypeOK'
<1>1. proc' \in [Procs -> ProcStates]
  BY SignalGroupType DEF DropOwnedChild, OsTypeOK
<1>2. ChildTypeOK'
  BY HandoffType DEF DropOwnedChild, ChildTypeOK
<1> QED
  BY <1>1, <1>2

LEMMA LaunchLeaderType ==
  ASSUME OsTypeOK, NEW piped, LaunchLeader(piped)
  PROVE  OsTypeOK'
<1>1. proc' \in [Procs -> ProcStates]
  BY DEF OsTypeOK, LaunchLeader, ProcStates
<1>2. holders' \in [Streams -> SUBSET Procs]
  BY DEF LaunchLeader, Procs
<1> QED
  BY <1>1, <1>2 DEF OsTypeOK, LaunchLeader

LEMMA WriteType ==
  ASSUME OsTypeOK, NEW p \in Procs, NEW s \in Streams, Write(p, s)
  PROVE  OsTypeOK'
<1>1. pipe[s] + 1 \in 0 .. PipeCapacity
  BY ProcessGroupAssumption DEF OsTypeOK, Write
<1>2. pipe' \in [Streams -> 0 .. PipeCapacity]
  BY <1>1 DEF OsTypeOK, Write
<1> QED
  BY <1>2 DEF OsTypeOK, Write

LEMMA ProcessStepType ==
  ASSUME OsTypeOK, ProcessStep
  PROVE  OsTypeOK'
  BY DEF OsTypeOK, ProcessStep, Fork, Escape, CloseOutput, Exit, Die, Ends, HostReap,
         ProcStates, ExitStates, Procs

LEMMA ReaperThreadType ==
  ASSUME OsTypeOK, ChildTypeOK, ReaperThread
  PROVE  OsTypeOK' /\ ChildTypeOK'
  BY DEF OsTypeOK, ChildTypeOK, ReaperThread, ReaperReceive, ReaperDisconnect, ReaperWait,
         ProcStates, osVars

-----------------------------------------------------------------------------
(* The duty to reap.                                                        *)

Held == {"owned", "sent", "reaper"}

(* Who holds the Child agrees with the life of the leader and with what the *)
(* reaper thread is doing.                                                  *)
DutyInv ==
  /\ handle = "none" <=> proc[Leader] = "unborn"
  /\ handle = "closed" => proc[Leader] = "gone"
  /\ handle \in Held /\ "hostReap" \notin Faults => LeaderUnreaped
  /\ handle = "sent" => reaper = "listening"
  /\ handle = "reaper" <=> reaper = "waiting"

LEMMA DutyInvHolds ==
  ASSUME OsTypeOK, ChildTypeOK, DutyInv, NEW supervising,
         handle = "owned" => supervising /\ sender
  PROVE  ReapDutyHeld(supervising)
<1>1. LeaderUnreaped => handle \in Held
  BY DEF DutyInv, LeaderUnreaped, ChildTypeOK, Held
<1> QED
  BY <1>1 DEF DutyInv, ReapDutyHeld, Held

LEMMA ProcessStepDuty ==
  ASSUME OsTypeOK, DutyInv, ProcessStep, UNCHANGED childVars
  PROVE  DutyInv'
<1> USE DEF DutyInv, childVars, LeaderUnreaped
<1>1. Leader \in Procs /\ Leader \notin Descendants
  BY ProcessGroupAssumption DEF Procs, Leader
<1>2. CASE \E p \in Procs, d \in Descendants : Fork(p, d)
  BY <1>1, <1>2 DEF Fork, OsTypeOK
<1>3. CASE \E d \in Descendants : Escape(d)
  BY <1>3 DEF Escape
<1>4. CASE \E p \in Procs, s \in Streams : CloseOutput(p, s)
  BY <1>4 DEF CloseOutput
<1>5. CASE \E p \in Procs : Exit(p)
  BY <1>1, <1>5 DEF Exit, Ends, OsTypeOK
<1>6. CASE \E p \in Procs : Die(p)
  BY <1>1, <1>6 DEF Die, Ends, OsTypeOK
<1>7. CASE HostReap
  BY <1>1, <1>7 DEF HostReap, OsTypeOK, Held
<1> QED
  BY <1>2, <1>3, <1>4, <1>5, <1>6, <1>7 DEF ProcessStep

LEMMA ReaperThreadDuty ==
  ASSUME OsTypeOK, ChildTypeOK, DutyInv, ReaperThread
  PROVE  DutyInv'
<1> USE DEF DutyInv, LeaderUnreaped, OsTypeOK, ChildTypeOK, Held, osVars
<1>1. Leader \in Procs
  BY DEF Procs, Leader
<1>2. CASE ReaperReceive
  BY <1>2 DEF ReaperReceive
<1>3. CASE ReaperDisconnect
  BY <1>3 DEF ReaperDisconnect
<1>4. CASE ReaperWait
  BY <1>1, <1>4 DEF ReaperWait
<1> QED
  BY <1>2, <1>3, <1>4 DEF ReaperThread

(* A signal to the group neither creates nor reaps the leader.              *)
LEMMA SignalKeepsLeader ==
  ASSUME OsTypeOK, NEW result, SignalGroup(result)
  PROVE  /\ proc'[Leader] = "unborn" <=> proc[Leader] = "unborn"
         /\ proc'[Leader] = "gone" <=> proc[Leader] = "gone"
         /\ LeaderUnreaped' <=> LeaderUnreaped
<1>1. Leader \in Procs
  BY DEF Procs, Leader
<1> QED
  BY <1>1 DEF SignalGroup, KillGroup, LeaderUnreaped, OsTypeOK

LEMMA DropOwnedChildDuty ==
  ASSUME OsTypeOK, ChildTypeOK, DutyInv, DropOwnedChild,
         handle = "owned" => sender /\ reaper = "listening"
  PROVE  DutyInv' /\ handle' # "owned"
<1>1. CASE handle = "owned"
  <2>1. PICK result \in SignalOutcomes : SignalGroup(result)
    BY <1>1 DEF DropOwnedChild
  <2>2. handle' = "sent" /\ reaper' = "listening"
    BY <1>1 DEF DropOwnedChild, Handoff, HandoffSucceeds
  <2> QED
    BY <1>1, <2>1, <2>2, SignalKeepsLeader DEF DutyInv, Held
<1>2. CASE handle # "owned"
  BY <1>2 DEF DropOwnedChild, Handoff, DutyInv, LeaderUnreaped, Held
<1> QED
  BY <1>1, <1>2

(* Handing over an owned leader to a listening reaper.                      *)
LEMMA HandoffDuty ==
  ASSUME ChildTypeOK, DutyInv, Handoff, UNCHANGED <<proc, reaper>>,
         handle = "owned" => sender /\ reaper = "listening"
  PROVE  DutyInv' /\ handle' # "owned"
  BY DEF Handoff, HandoffSucceeds, ChildTypeOK, DutyInv, LeaderUnreaped, Held

-----------------------------------------------------------------------------
(* A group without a running member.                                        *)

Doomed == \A p \in Procs \ escaped : proc[p] # "running"

(* Such a group never has a running member again: who forks has escaped,    *)
(* and what it forks is outside the group too.                              *)
LEMMA ProcessStepDoomed ==
  ASSUME OsTypeOK, Doomed, ProcessStep
  PROVE  Doomed'
<1> USE DEF Doomed, OsTypeOK
<1>1. CASE \E p \in Procs, d \in Descendants : Fork(p, d)
  BY <1>1 DEF Fork, Procs
<1>2. CASE \E d \in Descendants : Escape(d)
  BY <1>2 DEF Escape
<1>3. CASE \E p \in Procs, s \in Streams : CloseOutput(p, s)
  BY <1>3 DEF CloseOutput
<1>4. CASE \E p \in Procs : Exit(p)
  BY <1>4 DEF Exit, Ends
<1>5. CASE \E p \in Procs : Die(p)
  BY <1>5 DEF Die, Ends
<1>6. CASE HostReap
  BY <1>6 DEF HostReap
<1> QED
  BY <1>1, <1>2, <1>3, <1>4, <1>5, <1>6 DEF ProcessStep

LEMMA ReaperThreadDoomed ==
  ASSUME OsTypeOK, Doomed, ReaperThread
  PROVE  Doomed'
  BY DEF Doomed, OsTypeOK, ReaperThread, ReaperReceive, ReaperDisconnect, ReaperWait, osVars

(* Without failures of the signal itself, the signal dooms the group: it is *)
(* delivered, or there is no member left to deliver it to.                  *)
LEMMA SignalDooms ==
  ASSUME OsTypeOK, NEW result \in SignalOutcomes, SignalGroup(result),
         "signal" \notin Faults, escaped' = escaped
  PROVE  Doomed'
<1>1. CASE result = "sent"
  BY <1>1 DEF SignalGroup, KillGroup, Group, Doomed, OsTypeOK
<1>2. CASE result = "alreadyGone" /\ Group = {}
  BY <1>2 DEF SignalGroup, Group, Doomed, OsTypeOK
<1> QED
  BY <1>1, <1>2 DEF SignalOutcomes

LEMMA DropOwnedChildDoomed ==
  ASSUME OsTypeOK, DropOwnedChild, "signal" \notin Faults, escaped' = escaped,
         handle = "owned" \/ Doomed
  PROVE  Doomed'
<1>1. CASE handle = "owned"
  BY <1>1, SignalDooms DEF DropOwnedChild
<1>2. CASE handle # "owned"
  BY <1>2 DEF DropOwnedChild, Doomed
<1> QED
  BY <1>1, <1>2

LEMMA DoomedBeforeReap ==
  ASSUME OsTypeOK, ChildTypeOK, DutyInv,
         handle = "closed" /\ Faults \cap {"signal", "hostReap"} = {} => Doomed
  PROVE  GroupDoomedBeforeReap
<1> SUFFICES ASSUME proc[Leader] = "gone", Faults \cap {"signal", "hostReap"} = {}
             PROVE  \A d \in Descendants \ escaped : proc[d] # "running"
  BY DEF GroupDoomedBeforeReap
<1>1. handle = "closed"
  BY DEF DutyInv, LeaderUnreaped, ChildTypeOK, Held
<1> QED
  BY <1>1 DEF Doomed, Procs

-----------------------------------------------------------------------------
(* Streams and results.                                                     *)

LEMMA FreshStreamType ==
  ASSUME NEW piped \in BOOLEAN
  PROVE  FreshStream(piped) \in CaptureStates
  BY CaptureAssumption DEF FreshStream, CaptureStates, CaptureFailures

LEMMA SaturatingAddType ==
  ASSUME NEW a \in 0 .. DiscardMax, NEW b \in Nat
  PROVE  SaturatingAdd(a, b) \in 0 .. DiscardMax
  BY CaptureAssumption DEF SaturatingAdd, Least

LEMMA RoomType ==
  ASSUME NEW c \in CaptureStates, NEW policy \in CapturePolicies, NEW n \in Nat
  PROVE  Room(c, policy, n) \in 0 .. n
  BY DEF Room, Least, CaptureStates, CapturePolicies

LEMMA FirstFailureType ==
  ASSUME NEW c \in CaptureStates, NEW failure \in CaptureFailures
  PROVE  FirstFailure(c, failure) \in CaptureFailures
  BY DEF FirstFailure, CaptureStates

LEMMA RetainType ==
  ASSUME NEW c \in CaptureStates, NEW policy \in CapturePolicies, NEW n \in Nat,
         NEW allocated \in BOOLEAN
  PROVE  Retain(c, policy, n, allocated) \in CaptureStates
<1> DEFINE room == Room(c, policy, n)
           stored == IF allocated THEN room ELSE 0
           kept == c.kept + stored
           discarded == SaturatingAdd(c.discarded, n - stored)
           overflow == c.overflow \/ (policy.onOverflow = "failClosed" /\ n > room)
           failure == IF allocated \/ room = 0 THEN c.failure
                      ELSE FirstFailure(c, "allocation")
           open == c.open /\ (allocated \/ room = 0)
<1>1. /\ c.discarded \in 0 .. DiscardMax /\ c.kept \in Nat
      /\ c.failure \in CaptureFailures /\ c.overflow \in BOOLEAN
      /\ c.open \in BOOLEAN
  BY DEF CaptureStates
<1>2. room \in 0 .. n
  BY RoomType
<1>3. stored \in Nat /\ n - stored \in Nat
  BY <1>2
<1>4. /\ kept \in Nat
      /\ discarded \in 0 .. DiscardMax
  <2>1. kept \in Nat
    BY <1>1, <1>3
  <2> HIDE DEF stored
  <2>2. discarded \in 0 .. DiscardMax
    BY <1>1, <1>3, SaturatingAddType
  <2> QED
    BY <2>1, <2>2
<1>5. failure \in CaptureFailures
  BY <1>1, FirstFailureType DEF CaptureFailures
<1>6. overflow \in BOOLEAN /\ open \in BOOLEAN
  BY <1>1
<1>7. Retain(c, policy, n, allocated) =
        [c EXCEPT !.kept = kept, !.discarded = discarded, !.overflow = overflow,
                  !.failure = failure, !.open = open]
  BY DEF Retain
<1> HIDE DEF kept, discarded, overflow, failure, open
<1> QED
  BY <1>4, <1>5, <1>6, <1>7 DEF CaptureStates

LEMMA ClosingType ==
  ASSUME NEW c \in CaptureStates
  PROVE  /\ ReachEof(c) \in CaptureStates
         /\ RecordFailure(c) \in CaptureStates
         /\ Close(c) \in CaptureStates
<1>1. FirstFailure(c, "read") \in CaptureFailures
  BY FirstFailureType DEF CaptureFailures
<1> QED
  BY <1>1 DEF ReachEof, RecordFailure, Close, CaptureStates

LEMMA ReportType ==
  ASSUME NEW c \in CaptureStates
  PROVE  Report(c) \in Reports
  BY DEF Report, Reports, Completeness, Completenesses, CaptureStates

LEMMA UnknownReportType == UnknownReport \in Reports
  BY CaptureAssumption DEF UnknownReport, Reports, Completenesses, CaptureFailures

LEMMA ClassifyType ==
  ASSUME NEW primary \in Primaries, NEW configured, NEW e
  PROVE  Classify(primary, configured, e) \in Outcomes
  BY DEF Classify, Conclusion, ClassifyExit, Primaries, Outcomes

LEMMA ChoosePrimaryType ==
  ASSUME NEW o, NEW a, NEW b
  PROVE  ChoosePrimary(o, a, b) \in Primaries
  BY DEF ChoosePrimary, Primaries

=============================================================================
