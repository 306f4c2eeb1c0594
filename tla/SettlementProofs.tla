-------------------------- MODULE SettlementProofs --------------------------
(***************************************************************************)
(* What the result of a captured invocation says of the world, for every   *)
(* value of the constants: that its evidence is so, what a success proves, *)
(* and that it names the first cause in the documented order.              *)
(***************************************************************************)
EXTENDS CapturedRunProofs

-----------------------------------------------------------------------------
(* One stream.                                                              *)

(* An overflow has a byte to show for it, and a byte is only discarded with *)
(* a cause to report or with the caller's consent.                          *)
Accounted(c, policy) ==
  /\ c.overflow => c.discarded > 0
  /\ c.discarded > 0 => c.overflow \/ Failed(c) \/ policy.onOverflow = "truncate"

LEMMA RetainAccounted ==
  ASSUME NEW c \in CaptureStates, NEW policy \in CapturePolicies, NEW n \in Nat \ {0},
         NEW allocated \in BOOLEAN, Accounted(c, policy)
  PROVE  Accounted(Retain(c, policy, n, allocated), policy)
<1> DEFINE room == Room(c, policy, n)
           stored == IF allocated THEN room ELSE 0
           r == Retain(c, policy, n, allocated)
<1>1. room \in 0 .. n /\ stored \in 0 .. room
  BY RoomType
<1>2. /\ r.discarded = SaturatingAdd(c.discarded, n - stored)
      /\ r.overflow <=> c.overflow \/ (policy.onOverflow = "failClosed" /\ n > room)
      /\ ~allocated /\ room # 0 => Failed(r)
      /\ Failed(c) => Failed(r)
  BY DEF Retain, CaptureStates, Failed, FirstFailure
<1>3. policy.onOverflow = "unbounded" => room = n
  BY DEF Room
<1>4. policy.onOverflow \in {"failClosed", "truncate", "unbounded"}
  BY DEF CapturePolicies
<1>5. c.discarded \in 0 .. DiscardMax /\ DiscardMax \in Nat \ {0} /\ n - stored \in Nat
  BY <1>1, CaptureAssumption DEF CaptureStates
<1> HIDE DEF room, r
<1>6. r.discarded > 0 <=> c.discarded > 0 \/ n - stored > 0
  BY <1>2, <1>5 DEF SaturatingAdd, Least
<1>7. n - stored > 0 => (n > room) \/ (~allocated /\ room # 0)
  BY <1>1
<1>8. n > room => n - stored > 0
  BY <1>1
<1>9. r.overflow => r.discarded > 0
  BY <1>2, <1>6, <1>8 DEF Accounted
<1>10. r.discarded > 0 => r.overflow \/ Failed(r) \/ policy.onOverflow = "truncate"
  BY <1>1, <1>2, <1>3, <1>4, <1>6, <1>7 DEF Accounted
<1> QED
  BY <1>9, <1>10 DEF Accounted, r

LEMMA ClosingAccounted ==
  ASSUME NEW c \in CaptureStates, NEW policy, Accounted(c, policy)
  PROVE  /\ Accounted(ReachEof(c), policy)
         /\ Accounted(RecordFailure(c), policy)
         /\ Accounted(Close(c), policy)
  BY DEF Accounted, ReachEof, RecordFailure, Close, Failed, FirstFailure, CaptureStates

(* What a read, a failure or the end leave of the other two flags.          *)
LEMMA StreamFlags ==
  ASSUME NEW c \in CaptureStates
  PROVE  /\ \A policy, n, allocated :
              LET r == Retain(c, policy, n, allocated)
              IN  r.eof = c.eof /\ r.redirected = c.redirected
         /\ ReachEof(c).redirected = c.redirected
         /\ RecordFailure(c).eof = c.eof /\ RecordFailure(c).redirected = c.redirected
         /\ Close(c).eof = c.eof /\ Close(c).redirected = c.redirected
  BY DEF Retain, ReachEof, RecordFailure, Close, CaptureStates

LEMMA FreshStreamFlags ==
  ASSUME NEW piped \in BOOLEAN
  PROVE  /\ FreshStream(piped).discarded = 0
         /\ ~FreshStream(piped).overflow /\ ~FreshStream(piped).eof
         /\ FreshStream(piped).redirected <=> ~piped
<1>1. CASE piped = TRUE
  BY <1>1 DEF FreshStream
<1>2. CASE piped = FALSE
  BY <1>2 DEF FreshStream
<1> QED
  BY <1>1, <1>2

(* Dropping the pipe of a stream changes nothing of its report.             *)
LEMMA CloseReport ==
  ASSUME NEW c \in CaptureStates
  PROVE  /\ Report(Close(c)) = Report(c)
         /\ Terminal(Close(c)) <=> Terminal(c)
         /\ Close(c).overflow = c.overflow
  BY DEF Report, Completeness, Terminal, Failed, Close, CaptureStates

-----------------------------------------------------------------------------
(* Both streams.                                                            *)

(* The end of a stream is only seen when nobody can write to it any more,   *)
(* and what nobody holds nobody can inherit.                                *)
StreamInv ==
  /\ \A s \in Streams : Accounted(cap[s], command.capture[s])
  /\ \A s \in Streams : cap[s].eof => holders[s] = {}
  /\ Cleaning \/ pc \in Main => \A s \in Streams : cap[s].redirected <=> s \notin command.piped

LEMMA PumpStream ==
  ASSUME TypeOK, StreamInv, Pump, UNCHANGED command
  PROVE  StreamInv'
<1> PICK s \in Streams : \/ ReadData(s) \/ ReadEof(s) \/ ReadWouldBlock(s)
                         \/ ReadInterrupted(s) \/ ReadFails(s)
  BY DEF Pump
<1>1. /\ \A t \in Streams : cap[t] \in CaptureStates
      /\ \A t \in Streams : command.capture[t] \in CapturePolicies
      /\ pc = "pump" /\ UNCHANGED <<holders, command, evidence>>
  BY PumpStage, CommandType DEF TypeOK, AfterRead
<1> DEFINE Sound(c) == /\ Accounted(c, command.capture[s])
                       /\ c.eof => holders[s] = {}
                       /\ c.redirected = cap[s].redirected
<1>2. SUFFICES ASSUME cap' # cap
               PROVE  \E c : cap' = [cap EXCEPT ![s] = c] /\ Sound(c)
  <2>1. CASE cap' = cap
    BY <1>1, <2>1 DEF StreamInv, Main, Cleaning
  <2>2. ASSUME NEW c, cap' = [cap EXCEPT ![s] = c], Sound(c)
        PROVE  StreamInv'
    <3>1. \A t \in Streams : cap'[t] = IF t = s THEN c ELSE cap[t]
      BY <2>2 DEF TypeOK
    <3> QED
      BY <1>1, <2>2, <3>1 DEF StreamInv, Main, Cleaning
  <2> QED
    BY <1>2, <2>1, <2>2
<1> HIDE DEF Sound
<1>3. CASE ReadData(s)
  <2> PICK n \in 1 .. Least(ReadChunk, pipe[s]),
           allocated \in IF "allocation" \in Faults THEN BOOLEAN ELSE {TRUE} :
        cap' = [cap EXCEPT ![s] = Retain(cap[s], command.capture[s], n, allocated)]
    BY <1>3 DEF ReadData
  <2>1. n \in Nat \ {0}
    BY CaptureAssumption DEF Least, TypeOK, OsTypeOK
  <2>2. allocated \in BOOLEAN
    BY Zenon
  <2>3. Sound(Retain(cap[s], command.capture[s], n, allocated))
    BY <1>1, <2>1, <2>2, RetainAccounted, StreamFlags DEF Sound, StreamInv
  <2> QED
    BY <2>3
<1>4. CASE ReadEof(s)
  <2>1. cap' = [cap EXCEPT ![s] = ReachEof(cap[s])] /\ holders[s] = {}
    BY <1>4 DEF ReadEof
  <2>2. Sound(ReachEof(cap[s]))
    BY <1>1, <2>1, ClosingAccounted, StreamFlags DEF Sound, StreamInv
  <2> QED
    BY <2>1, <2>2
<1>5. CASE ReadFails(s)
  <2>1. cap' = [cap EXCEPT ![s] = RecordFailure(cap[s])]
    BY <1>5 DEF ReadFails
  <2>2. Sound(RecordFailure(cap[s]))
    BY <1>1, ClosingAccounted, StreamFlags DEF Sound, StreamInv
  <2> QED
    BY <2>1, <2>2
<1>6. CASE ReadWouldBlock(s) \/ ReadInterrupted(s)
  BY <1>2, <1>6 DEF ReadWouldBlock, ReadInterrupted
<1> QED
  BY <1>3, <1>4, <1>5, <1>6

LEMMA SuperviseStream ==
  ASSUME TypeOK, StageInv, StreamInv, Supervise
  PROVE  StreamInv'
<1>0. /\ UNCHANGED command /\ \A s \in Streams : cap[s] \in CaptureStates
      /\ IF pc = "signal" THEN Cleaning' ELSE evidence'.signal = evidence.signal
  BY SignalledOnce DEF Supervise, TypeOK
<1> USE DEF StreamInv, Main
<1>1. CASE Pump
  BY <1>0, <1>1, PumpStream
<1>2. CASE StartReaper
  BY <1>0, <1>2 DEF StartReaper, Refuse, osVars, Cleaning, StageInv
<1>3. CASE SpawnLeader
  <2>1. CASE pc' = "open"
    <3>1. cap' = [s \in Streams |-> FreshStream(s \in command.piped)]
      BY <1>3, <2>1 DEF SpawnLeader, Refuse
    <3>2. \A s \in Streams : /\ Accounted(cap'[s], command.capture[s]) /\ ~cap'[s].eof
                             /\ cap'[s].redirected <=> s \notin command.piped
      <4> TAKE s \in Streams
      <4> DEFINE piped == s \in command.piped
      <4>1. piped \in BOOLEAN
        OBVIOUS
      <4>2. cap'[s] = FreshStream(piped)
        BY <3>1
      <4> HIDE DEF piped
      <4>3. /\ cap'[s].discarded = 0 /\ ~cap'[s].overflow /\ ~cap'[s].eof
            /\ cap'[s].redirected <=> ~piped
        BY <4>1, <4>2, FreshStreamFlags
      <4> QED
        BY <4>3 DEF Accounted, piped
    <3> QED
      BY <1>0, <3>2
  <2>2. CASE pc' # "open"
    BY <1>0, <1>3, <2>2 DEF SpawnLeader, Refuse, osVars, Cleaning, StageInv
  <2> QED
    BY <2>1, <2>2
<1>4. CASE MakeNonblocking
  <2>1. \A s \in Streams : cap'[s] \in {cap[s], RecordFailure(cap[s])}
    BY <1>4 DEF MakeNonblocking
  <2>2. \A s \in Streams : /\ Accounted(cap'[s], command.capture[s])
                           /\ cap'[s].eof = cap[s].eof
                           /\ cap'[s].redirected = cap[s].redirected
    BY <1>0, <2>1, ClosingAccounted, StreamFlags
  <2> QED
    BY <1>0, <1>4, <2>2 DEF MakeNonblocking
<1>5. CASE ObserveLeader \/ Control \/ PollStreams \/ SignalTheGroup \/ CheckExpiry \/ ReapLeader
  <2>1. UNCHANGED <<cap, holders>> /\ (pc \in Main \/ Cleaning)
    BY <1>5 DEF ObserveLeader, Control, PollStreams, SignalTheGroup, CheckExpiry, ReapLeader,
                osVars, StageInv, Cleanup
  <2> QED
    BY <1>0, <2>1
<1>6. CASE Settle
  <2>1. \A s \in Streams : cap'[s] = Close(cap[s])
    BY <1>6 DEF Settle
  <2>2. \A s \in Streams : /\ Accounted(cap'[s], command.capture[s])
                           /\ cap'[s].eof = cap[s].eof
                           /\ cap'[s].redirected = cap[s].redirected
    BY <1>0, <2>1, ClosingAccounted, StreamFlags
  <2> QED
    BY <1>0, <1>6, <2>2 DEF Settle, StageInv, Cleanup
<1> QED
  BY <1>1, <1>2, <1>3, <1>4, <1>5, <1>6 DEF Supervise

(* Nobody inherits a pipe that nobody holds.                                *)
LEMMA NobodyInherits ==
  ASSUME TypeOK, ProcessStep, NEW s \in Streams, holders[s] = {}
  PROVE  holders'[s] = {}
<1> USE DEF TypeOK, OsTypeOK
<1>1. CASE \E p \in Procs, d \in Descendants : Fork(p, d)
  BY <1>1 DEF Fork
<1>2. CASE \E p \in Procs, t \in Streams : CloseOutput(p, t)
  BY <1>2 DEF CloseOutput
<1>3. CASE \E p \in Procs : Exit(p) \/ Die(p)
  BY <1>3 DEF Exit, Die, Ends
<1>4. CASE HostReap \/ \E d \in Descendants : Escape(d)
  BY <1>4 DEF HostReap, Escape
<1> QED
  BY <1>1, <1>2, <1>3, <1>4 DEF ProcessStep

LEMMA StreamStep == TypeOK /\ StageInv /\ StreamInv /\ [Next]_vars => StreamInv'
<1> SUFFICES ASSUME TypeOK, StageInv, StreamInv, [Next]_vars PROVE StreamInv'
  OBVIOUS
<1>1. CASE Supervise
  BY <1>1, SuperviseStream
<1> USE DEF StreamInv, Cleaning
<1>2. CASE Panic
  <2>1. \A s \in Streams : cap'[s] = Close(cap[s]) /\ cap[s] \in CaptureStates
    BY <1>2 DEF Panic, TypeOK
  <2>2. \A s \in Streams : /\ Accounted(cap'[s], command.capture[s])
                           /\ cap'[s].eof = cap[s].eof
                           /\ cap'[s].redirected = cap[s].redirected
    BY <2>1, ClosingAccounted, StreamFlags
  <2> QED
    BY <1>2, <2>2 DEF Panic, StageInv, Main, Cleanup
<1>3. CASE ChildStep
  BY <1>3, NobodyInherits DEF ChildStep, runVars
<1>4. CASE \/ BackgroundReaper \/ ChildWrite \/ RequestCancel \/ DeadlinePasses
           \/ CleanupExpires \/ UNCHANGED vars
  <2>1. UNCHANGED <<cap, holders, command, pc, evidence>>
    BY <1>4 DEF BackgroundReaper, ReaperThread, ReaperReceive, ReaperDisconnect, ReaperWait,
                ChildWrite, Write, RequestCancel, DeadlinePasses, CleanupExpires, vars,
                osVars, runVars
  <2> QED
    BY <2>1
<1> QED
  BY <1>1, <1>2, <1>3, <1>4 DEF Next, Finished

LEMMA StreamAlways == SafeSpec => []StreamInv
<1>1. Init => StreamInv
  BY DEF Init, StreamInv, FreshStream, Accounted, Failed, UnknownEvidence, Cleaning, Main
<1> QED
  BY <1>1, StreamStep, StageAlways, TypeAlways, PTL DEF SafeSpec

-----------------------------------------------------------------------------
(* The leader and its group.                                                *)

(* A signal that was accepted, or found no group, dooms the group, and a    *)
(* leader that is dead has a status.                                        *)
GroupInv ==
  /\ evidence.signal \in {"sent", "alreadyGone"} => Doomed
  /\ proc[Leader] \in {"zombie", "gone"} => exit # "none"

LEMMA SuperviseGroup ==
  ASSUME TypeOK, OwnerInv, StageInv, GroupInv, Supervise
  PROVE  GroupInv'
<1> USE DEF GroupInv, Cleaning, osVars
<1>1. CASE SpawnLeader
  <2>1. CASE LaunchLeader(command.piped)
    <3>1. proc'[Leader] = "running"
      BY <2>1 DEF LaunchLeader, TypeOK, OsTypeOK, Procs
    <3> QED
      BY <1>1, <3>1 DEF SpawnLeader, StageInv
  <2> QED
    BY <1>1, <2>1 DEF SpawnLeader, StageInv
<1>2. CASE SignalTheGroup
  <2>1. PICK result \in SignalOutcomes :
          /\ SignalGroup(result)
          /\ evidence' = [evidence EXCEPT !.signal = result, !.disposition = "unreaped"]
    BY <1>2 DEF SignalTheGroup
  <2>2. evidence'.signal = result /\ UNCHANGED <<escaped, exit>>
    BY <1>2, <2>1 DEF SignalTheGroup, TypeOK, Evidence
  <2>3. CASE result = "sent"
    BY <2>1, <2>3, <2>2 DEF SignalGroup, KillGroup, Group, Doomed, TypeOK, OsTypeOK, Procs
  <2>4. CASE result # "sent"
    BY <2>1, <2>2, <2>4 DEF SignalGroup, SignalOutcomes, Group, Doomed, TypeOK, OsTypeOK
  <2> QED
    BY <2>3, <2>4
<1>3. CASE ReapLeader
  <2>1. Doomed => Doomed'
    BY <1>3 DEF ReapLeader, ReapWaitable, Doomed, TypeOK, OsTypeOK
  <2>2. evidence'.signal = evidence.signal /\ exit' = exit
    BY <1>3 DEF ReapLeader, TypeOK, Evidence
  <2>3. proc' = proc \/ proc[Leader] = "zombie"
    BY <1>3 DEF ReapLeader, ReapWaitable
  <2> QED
    BY <2>1, <2>2, <2>3
<1>4. CASE \/ StartReaper \/ MakeNonblocking \/ ObserveLeader \/ Control \/ PollStreams
           \/ Pump \/ CheckExpiry \/ Settle
  <2>1. UNCHANGED <<proc, escaped, exit>>
    BY <1>4, PumpStage DEF StartReaper, MakeNonblocking, ObserveLeader, Control, PollStreams,
                           AfterRead, CheckExpiry, Settle
  <2>2. evidence'.signal = evidence.signal
    BY <1>4, SignalledOnce, PumpStage
       DEF StartReaper, MakeNonblocking, ObserveLeader, Control, PollStreams, CheckExpiry,
           Settle
  <2> QED
    BY <2>1, <2>2 DEF Doomed
<1> QED
  BY <1>1, <1>2, <1>3, <1>4 DEF Supervise

LEMMA ProcessGroupStep ==
  ASSUME TypeOK, GroupInv, ProcessStep, UNCHANGED evidence
  PROVE  GroupInv'
<1>1. Doomed => Doomed'
  BY ProcessStepDoomed DEF TypeOK
<1>2. proc'[Leader] \in {"zombie", "gone"} => exit' # "none"
  <2> USE DEF GroupInv, TypeOK, OsTypeOK
  <2>1. Leader \notin Descendants
    BY ProcessGroupAssumption DEF Leader
  <2>2. CASE \E p \in Procs, d \in Descendants : Fork(p, d)
    BY <2>1, <2>2 DEF Fork
  <2>3. CASE \E p \in Procs : Exit(p) \/ Die(p)
    <3> PICK p \in Procs : Exit(p) \/ Die(p)
      BY <2>3
    <3>1. PICK code \in {"zero", "nonzero"} : Ends(p, code)
      BY DEF Exit, Die
    <3>2. CASE p = Leader
      BY <3>1, <3>2 DEF Ends
    <3>3. CASE p # Leader
      BY <3>1, <3>3 DEF Ends
    <3> QED
      BY <3>2, <3>3
  <2>4. CASE HostReap
    BY <2>4 DEF HostReap
  <2>5. CASE (\E d \in Descendants : Escape(d)) \/ \E p \in Procs, s \in Streams : CloseOutput(p, s)
    BY <2>5 DEF Escape, CloseOutput
  <2> QED
    BY <2>2, <2>3, <2>4, <2>5 DEF ProcessStep
<1> QED
  BY <1>1, <1>2 DEF GroupInv

LEMMA GroupStep == TypeOK /\ OwnerInv /\ StageInv /\ GroupInv /\ [Next]_vars => GroupInv'
<1> SUFFICES ASSUME TypeOK, OwnerInv, StageInv, GroupInv, [Next]_vars PROVE GroupInv'
  OBVIOUS
<1>1. CASE Supervise
  BY <1>1, SuperviseGroup
<1>2. CASE ChildStep
  BY <1>2, ProcessGroupStep DEF ChildStep, runVars
<1> USE DEF GroupInv
<1>3. CASE Panic
  <2>1. proc' = proc \/ KillGroup
    BY <1>3 DEF Panic, DropOwnedChild, SignalGroup
  <2>2. /\ Doomed => Doomed'
        /\ proc'[Leader] \in {"zombie", "gone"} => proc[Leader] \in {"zombie", "gone"}
    BY <1>3, <2>1 DEF Panic, KillGroup, Doomed, TypeOK, OsTypeOK, Procs
  <2> QED
    BY <1>3, <2>2 DEF Panic
<1>4. CASE BackgroundReaper
  <2>1. Doomed => Doomed'
    BY <1>4, ReaperThreadDoomed DEF BackgroundReaper, TypeOK
  <2>2. UNCHANGED <<exit, evidence>> /\ (proc' = proc \/ proc[Leader] \in {"zombie", "gone"})
    BY <1>4 DEF BackgroundReaper, ReaperThread, ReaperReceive, ReaperDisconnect, ReaperWait,
                osVars, runVars
  <2> QED
    BY <2>1, <2>2
<1>5. CASE \/ ChildWrite \/ RequestCancel \/ DeadlinePasses \/ CleanupExpires
           \/ UNCHANGED vars
  BY <1>5 DEF ChildWrite, Write, RequestCancel, DeadlinePasses, CleanupExpires, vars, osVars,
              runVars, Doomed
<1> QED
  BY <1>1, <1>2, <1>3, <1>4, <1>5 DEF Next, Finished

LEMMA GroupAlways == SafeSpec => []GroupInv
<1>1. Init => GroupInv
  BY DEF Init, OsInit, GroupInv, UnknownEvidence, Procs, Leader
<1> QED
  BY <1>1, GroupStep, TypeAlways, OwnerAlways, StageAlways, PTL DEF SafeSpec

-----------------------------------------------------------------------------
(* The evidence of the leader, before and after the settlement.             *)

(* A status comes with the reap by the supervisor, and only with it.        *)
LeaderEvidence ==
  /\ (evidence.status # "none") <=> (evidence.disposition = "reaped")
  /\ evidence.disposition = "reaped" => handle = "closed" /\ evidence.status = exit
  /\ pc \in Main \cup Cleanup /\ handle = "closed" => evidence.disposition = "reaped"

(* What the result of an invocation that had a group is made of, once.      *)
SettledResult ==
  /\ evidence.disposition \in {"reaped", "backgroundReaper"}
  /\ evidence.leaderUnsettled <=> (evidence.disposition = "backgroundReaper")
  /\ evidence.report = [s \in Streams |-> Report(cap[s])]
  /\ evidence.unfinished = {s \in Streams : ~Terminal(cap[s])}
  /\ evidence.cleanup = IF evidence.leaderUnsettled \/ evidence.unfinished # {}
                        THEN "incomplete" ELSE "complete"
  /\ outcome = Classify(ChoosePrimary(obs, cap["stdout"].overflow, cap["stderr"].overflow),
                        command.deadline, evidence)

ResultInv ==
  /\ LeaderEvidence
  /\ pc = "returned" /\ Cleaning => SettledResult
  /\ outcome \notin Refusals \cup {"pending"} => pc = "returned" /\ Cleaning
  /\ deadlinePassed => command.deadline

LEMMA SettleResult ==
  ASSUME TypeOK, OwnerInv, StageInv, ResultInv, Settle, UNCHANGED <<command, clockVars>>
  PROVE  ResultInv'
<1> USE DEF ResultInv
<1>1. /\ pc = "settle" /\ Cleaning /\ handle \in {"owned", "closed"}
      /\ sender /\ reaper = "listening" /\ HandoffSucceeds
  BY DEF Settle, OwnerInv, StageInv, Cleanup, HandoffSucceeds
<1>2. /\ evidence'.signal = evidence.signal /\ evidence'.status = evidence.status
      /\ evidence'.leaderUnsettled = (handle = "owned")
      /\ evidence'.disposition = IF handle = "owned" THEN "backgroundReaper"
                                 ELSE evidence.disposition
      /\ evidence'.report = [s \in Streams |-> Report(cap[s])]
      /\ evidence'.unfinished = {s \in Streams : ~Terminal(cap[s])}
      /\ evidence'.cleanup = IF handle = "owned" \/ evidence'.unfinished # {}
                             THEN "incomplete" ELSE "complete"
  BY <1>1, Zenon DEF Settle, SettledEvidence, TypeOK, Evidence
<1>3. \A s \in Streams : /\ Report(cap'[s]) = Report(cap[s])
                         /\ Terminal(cap'[s]) <=> Terminal(cap[s])
                         /\ cap'[s].overflow = cap[s].overflow
  <2>1. \A s \in Streams : cap'[s] = Close(cap[s]) /\ cap[s] \in CaptureStates
    BY DEF Settle, TypeOK
  <2> QED
    BY <2>1, CloseReport
<1>4. LeaderEvidence'
  <2>1. handle' = "closed" <=> handle = "closed"
    BY <1>1 DEF Settle, Handoff
  <2>2. pc' = "returned" /\ exit' = exit
    BY DEF Settle
  <2>3. handle = "owned" => evidence.disposition # "reaped" /\ evidence.status = "none"
    BY DEF LeaderEvidence
  <2>4. handle = "closed" => evidence.disposition = "reaped"
    BY <1>1 DEF LeaderEvidence, Cleanup
  <2> QED
    BY <1>1, <1>2, <2>1, <2>2, <2>3, <2>4 DEF LeaderEvidence, Main, Cleanup
<1>5. SettledResult'
  <2>1. evidence'.report = [s \in Streams |-> Report(cap'[s])]
    BY <1>2, <1>3
  <2>2. evidence'.unfinished = {s \in Streams : ~Terminal(cap'[s])}
    BY <1>2, <1>3
  <2>3. outcome' = Classify(ChoosePrimary(obs', cap'["stdout"].overflow,
                                          cap'["stderr"].overflow),
                            command'.deadline, evidence')
    <3>1. /\ cap'["stdout"].overflow = cap["stdout"].overflow
          /\ cap'["stderr"].overflow = cap["stderr"].overflow
      BY <1>3 DEF Streams
    <3> QED
      BY <3>1 DEF Settle
  <2>4. handle = "closed" => evidence.disposition = "reaped"
    BY <1>1 DEF LeaderEvidence, Cleanup
  <2>5. /\ evidence'.disposition \in {"reaped", "backgroundReaper"}
        /\ evidence'.leaderUnsettled <=> (evidence'.disposition = "backgroundReaper")
    BY <1>1, <1>2, <2>4
  <2>6. evidence'.cleanup = IF evidence'.leaderUnsettled \/ evidence'.unfinished # {}
                            THEN "incomplete" ELSE "complete"
    BY <1>2
  <2> QED
    BY <2>1, <2>2, <2>3, <2>5, <2>6 DEF SettledResult
<1>6. pc' = "returned" /\ Cleaning'
  BY <1>1, <1>2 DEF Settle, Cleaning
<1> QED
  BY <1>4, <1>5, <1>6 DEF clockVars

LEMMA SuperviseResult ==
  ASSUME TypeOK, OwnerInv, StageInv, GroupInv, ResultInv, Supervise
  PROVE  ResultInv'
<1>0. UNCHANGED <<command, clockVars>>
  BY DEF Supervise
<1>1. CASE Settle
  BY <1>0, <1>1, SettleResult
<1> USE DEF ResultInv, LeaderEvidence, Main, Cleanup, osVars, childVars, clockVars
<1>2. CASE StartReaper
  BY <1>0, <1>2 DEF StartReaper, StartBackgroundReaper, Refuse, Refusals, Cleaning,
                    StageInv, OwnerInv
<1>3. CASE SpawnLeader
  <2>1. \/ pc' = "open" /\ handle' = "owned" /\ UNCHANGED outcome
        \/ pc' = "returned" /\ outcome' \in Refusals /\ UNCHANGED handle
    BY <1>3 DEF SpawnLeader, Refuse, SpawnRefusals, Refusals
  <2>2. pc = "spawn" /\ UNCHANGED <<exit, evidence>> /\ handle = "none" /\ ~Cleaning
    BY <1>3 DEF SpawnLeader, LaunchLeader, OwnerInv, StageInv
  <2> QED
    BY <1>0, <2>1, <2>2 DEF Cleaning
<1>4. CASE MakeNonblocking \/ ObserveLeader \/ Control \/ PollStreams \/ Pump \/ CheckExpiry
  <2>1. /\ UNCHANGED <<exit, handle, evidence, outcome>>
        /\ pc \in Main \cup Cleanup /\ pc' \in Main \cup Cleanup
    BY <1>4, PumpStage DEF MakeNonblocking, ObserveLeader, Control, PollStreams, AfterRead,
                           CheckExpiry, LoopHead
  <2> QED
    BY <1>0, <2>1
<1>5. CASE SignalTheGroup
  <2>1. PICK result \in SignalOutcomes :
          evidence' = [evidence EXCEPT !.signal = result, !.disposition = "unreaped"]
    BY <1>5 DEF SignalTheGroup
  <2>2. evidence'.status = evidence.status /\ evidence'.disposition = "unreaped"
    BY <2>1 DEF TypeOK, Evidence
  <2>3. handle = "owned" /\ UNCHANGED <<handle, outcome>> /\ pc = "signal" /\ pc' = "expiry"
    BY <1>5 DEF SignalTheGroup, StageInv
  <2> QED
    BY <1>0, <2>2, <2>3
<1>6. CASE ReapLeader
  <2>1. pc = "reap" /\ pc' \in {"poll", "settle"} /\ UNCHANGED <<exit, outcome>>
    BY <1>6 DEF ReapLeader
  <2>2. CASE UNCHANGED handle /\ evidence' \in {evidence, [evidence EXCEPT !.reapFailed = TRUE]}
    <3>1. evidence'.status = evidence.status /\ evidence'.disposition = evidence.disposition
      BY <2>2 DEF TypeOK, Evidence
    <3> QED
      BY <1>0, <2>1, <2>2, <3>1
  <2>3. CASE /\ ReapWaitable
             /\ evidence' = [evidence EXCEPT !.status = exit, !.disposition = "reaped"]
    <3>1. /\ evidence'.status = exit /\ exit # "none"
          /\ evidence'.disposition = "reaped" /\ handle' = "closed"
      BY <2>3 DEF ReapWaitable, GroupInv, TypeOK, Evidence
    <3> QED
      BY <1>0, <2>1, <2>3, <3>1
  <2> QED
    BY <1>6, <2>2, <2>3 DEF ReapLeader
<1> QED
  BY <1>1, <1>2, <1>3, <1>4, <1>5, <1>6 DEF Supervise

(* The status of a leader that was reaped does not change.                  *)
LEMMA ReapedStatusStays ==
  ASSUME TypeOK, OwnerInv, handle = "closed", ProcessStep
  PROVE  exit' = exit
<1>1. proc[Leader] = "gone"
  BY DEF OwnerInv, DutyInv
<1>2. ASSUME NEW p \in Procs, Exit(p) \/ Die(p) PROVE exit' = exit
  BY <1>1, <1>2 DEF Exit, Die, Ends
<1> QED
  BY <1>2 DEF ProcessStep, Fork, Escape, CloseOutput, HostReap

(* A step that leaves the supervisor and its records alone keeps the result,*)
(* if it keeps a reaped leader's status.                                    *)
LEMMA ResultKept ==
  ASSUME ResultInv, UNCHANGED <<pc, evidence, outcome, cap, obs, command>>,
         handle = "closed" => handle' = "closed" /\ exit' = exit,
         pc \in Main \cup Cleanup => handle' = handle,
         deadlinePassed' => command.deadline
  PROVE  ResultInv'
<1>1. LeaderEvidence'
  BY DEF ResultInv, LeaderEvidence
<1>2. SettledResult => SettledResult'
  BY DEF SettledResult
<1> QED
  BY <1>1, <1>2 DEF ResultInv, Cleaning

LEMMA ResultStep ==
  TypeOK /\ OwnerInv /\ StageInv /\ GroupInv /\ ResultInv /\ [Next]_vars => ResultInv'
<1> SUFFICES ASSUME TypeOK, OwnerInv, StageInv, GroupInv, ResultInv, [Next]_vars
             PROVE  ResultInv'
  OBVIOUS
<1>1. CASE Supervise
  BY <1>1, SuperviseResult
<1>2. CASE Panic
  <2>1. /\ UNCHANGED <<exit, evidence, outcome, command, clockVars>>
        /\ pc \in Main \cup Cleanup /\ pc' = "panicked"
        /\ handle = "closed" => handle' = "closed"
    BY <1>2 DEF Panic, DropOwnedChild, Handoff
  <2> QED
    BY <2>1 DEF ResultInv, LeaderEvidence, clockVars, Main, Cleanup
<1>3. CASE BackgroundReaper
  <2>1. pc \notin Main \cup Cleanup
    BY <1>3 DEF BackgroundReaper, ReaperThread, ReaperReceive, ReaperDisconnect, ReaperWait,
                OwnerInv, DutyInv
  <2>2. exit' = exit /\ (handle = "closed" => handle' = "closed")
    BY <1>3 DEF BackgroundReaper, ReaperThread, ReaperReceive, ReaperDisconnect, ReaperWait,
                osVars
  <2> QED
    BY <1>3, <2>1, <2>2, ResultKept DEF BackgroundReaper, runVars, clockVars, ResultInv
<1>4. CASE ChildStep
  BY <1>4, ReapedStatusStays, ResultKept
     DEF ChildStep, childVars, runVars, clockVars, ResultInv
<1>5. CASE \/ ChildWrite \/ RequestCancel \/ DeadlinePasses \/ CleanupExpires
           \/ UNCHANGED vars
  <2>1. UNCHANGED <<pc, evidence, outcome, cap, obs, command, handle, exit>>
    BY <1>5 DEF ChildWrite, Write, RequestCancel, DeadlinePasses, CleanupExpires, vars,
                osVars, childVars, runVars
  <2>2. deadlinePassed' => command.deadline
    BY <1>5 DEF ChildWrite, RequestCancel, DeadlinePasses, CleanupExpires, vars, runVars,
                clockVars, ResultInv
  <2> QED
    BY <2>1, <2>2, ResultKept
<1> QED
  BY <1>1, <1>2, <1>3, <1>4, <1>5 DEF Next, Finished

LEMMA ResultAlways == SafeSpec => []ResultInv
<1>1. Init => ResultInv
  BY DEF Init, ChildInit, ResultInv, LeaderEvidence, UnknownEvidence, Main, Cleanup
<1> QED
  BY <1>1, ResultStep, TypeAlways, OwnerAlways, StageAlways, GroupAlways, PTL DEF SafeSpec

-----------------------------------------------------------------------------
(* What the result says is so.                                              *)

LEMMA SettledAlways ==
  SafeSpec => [](TypeOK /\ OwnerInv /\ StreamInv /\ GroupInv /\ ResultInv)
BY TypeAlways, OwnerAlways, StreamAlways, GroupAlways, ResultAlways, PTL

(* The result calls an invocation a success for an exit with zero only.     *)
LEMMA OkNeeds ==
  ASSUME NEW o, NEW a, NEW b, NEW configured, NEW e,
         Classify(ChoosePrimary(o, a, b), configured, e) = "ok"
  PROVE  /\ ~a /\ ~b
         /\ ~CaptureFailureFound(e)
         /\ e.cleanup \notin {"incomplete", "unknown"}
         /\ e.signal \notin {"unknown", "failed"}
         /\ e.status = "zero"
<1>1. ChoosePrimary(o, a, b) = "exit" /\ ~CaptureFailureFound(e)
  BY DEF Classify, ChoosePrimary, Conclusion
<1>2. ~a /\ ~b
  BY <1>1 DEF ChoosePrimary
<1>3. ClassifyExit(e) = "ok"
  BY <1>1 DEF Classify, Conclusion
<1> QED
  BY <1>1, <1>2, <1>3 DEF ClassifyExit

(* The facts that the report and the list of unfinished streams state.      *)
LEMMA ReportFacts ==
  ASSUME TypeOK, StreamInv, SettledResult, Cleaning, NEW s \in Streams
  PROVE  LET r == evidence.report[s] IN
         /\ (r.completeness = "redirected") <=> (s \notin command.piped)
         /\ r.completeness \in {"complete", "truncated"} => cap[s].eof /\ holders[s] = {}
         /\ cap[s].overflow => r.completeness # "complete" /\ r.discarded > 0
         /\ (s \in evidence.unfinished)
              <=> (r.completeness = "incomplete" /\ r.failure = "none")
         /\ r.completeness = "truncated" => cap[s].discarded > 0
         /\ Failed(cap[s]) <=> (r.failure # "none")
<1> DEFINE r == evidence.report[s]
<1>1. /\ r = Report(cap[s]) /\ cap[s] \in CaptureStates
      /\ (s \in evidence.unfinished) <=> ~Terminal(cap[s])
  BY DEF SettledResult, TypeOK
<1>2. /\ r.completeness = Completeness(cap[s])
      /\ r.discarded = cap[s].discarded /\ r.failure = cap[s].failure
  BY <1>1 DEF Report
<1>3. /\ cap[s].redirected <=> s \notin command.piped
      /\ cap[s].eof => holders[s] = {}
      /\ cap[s].overflow => cap[s].discarded > 0
  BY DEF StreamInv, Accounted
<1>4. cap[s].discarded \in 0 .. DiscardMax
  BY <1>1 DEF CaptureStates
<1> HIDE DEF r
<1>5. (r.completeness = "redirected") <=> (s \notin command.piped)
  BY <1>2, <1>3 DEF Completeness
<1>6. r.completeness \in {"complete", "truncated"} => cap[s].eof /\ holders[s] = {}
  BY <1>2, <1>3 DEF Completeness
<1>7. cap[s].overflow => r.completeness # "complete" /\ r.discarded > 0
  BY <1>2, <1>3 DEF Completeness
<1>8. (s \in evidence.unfinished) <=> (r.completeness = "incomplete" /\ r.failure = "none")
  BY <1>1, <1>2 DEF Completeness, Terminal, Failed
<1>9. r.completeness = "truncated" => cap[s].discarded > 0
  BY <1>2, <1>4, CaptureAssumption DEF Completeness
<1>10. Failed(cap[s]) <=> (r.failure # "none")
  BY <1>2 DEF Failed
<1> QED
  BY <1>5, <1>6, <1>7, <1>8, <1>9, <1>10 DEF r

LEMMA EvidenceInState ==
  ASSUME TypeOK, OwnerInv, StreamInv, ResultInv
  PROVE  EvidenceMatchesWorld
<1> SUFFICES ASSUME pc = "returned", Cleaning
             PROVE  EvidenceMatchesWorld
  BY DEF EvidenceMatchesWorld
<1>1. SettledResult /\ LeaderEvidence
  BY DEF ResultInv
<1>2. /\ (evidence.status # "none") <=> (evidence.disposition = "reaped")
      /\ evidence.disposition = "reaped" => evidence.status = exit /\ proc[Leader] = "gone"
  BY <1>1 DEF LeaderEvidence, OwnerInv, DutyInv
<1>3. /\ LeaderUnreaped => evidence.disposition = "backgroundReaper"
      /\ evidence.leaderUnsettled <=> (evidence.disposition = "backgroundReaper")
  BY <1>1, <1>2 DEF SettledResult, LeaderUnreaped
<1>4. (evidence.cleanup = "complete")
         <=> (evidence.disposition = "reaped" /\ evidence.unfinished = {})
  BY <1>1 DEF SettledResult
<1> QED
  BY <1>1, <1>2, <1>3, <1>4, ReportFacts DEF EvidenceMatchesWorld

(* Every result of an invocation that had a group carries evidence of what  *)
(* is so: of the leader, of each stream and of what is left over.           *)
THEOREM EvidenceTrue == Spec => []EvidenceMatchesWorld
<1>1. SafeSpec => []EvidenceMatchesWorld
  BY SettledAlways, EvidenceInState, PTL
<1> QED
  BY <1>1 DEF Spec

LEMMA SuccessInState ==
  ASSUME TypeOK, OwnerInv, StreamInv, GroupInv, ResultInv
  PROVE  SuccessIsSettled
<1> SUFFICES ASSUME outcome = "ok"
             PROVE  SuccessIsSettled
  BY DEF SuccessIsSettled
<1>1. Cleaning /\ SettledResult /\ LeaderEvidence
  BY DEF ResultInv, Refusals
<1>2. /\ ~cap["stdout"].overflow /\ ~cap["stderr"].overflow
      /\ ~CaptureFailureFound(evidence)
      /\ evidence.cleanup \notin {"incomplete", "unknown"}
      /\ evidence.signal \notin {"unknown", "failed"}
      /\ evidence.status = "zero"
  BY <1>1, OkNeeds DEF SettledResult
<1>3. ~evidence.leaderUnsettled /\ evidence.unfinished = {}
  BY <1>1, <1>2 DEF SettledResult
<1>4. handle = "closed" /\ exit = "zero" /\ proc[Leader] = "gone"
  BY <1>1, <1>2, <1>3 DEF SettledResult, LeaderEvidence, OwnerInv, DutyInv
<1>5. \A d \in Descendants \ escaped : proc[d] # "running"
  BY <1>2 DEF GroupInv, Doomed, Procs, TypeOK, Evidence
<1>6. ASSUME NEW s \in command.piped
      PROVE  /\ holders[s] = {}
             /\ \/ evidence.report[s].completeness = "complete"
                \/ /\ evidence.report[s].completeness = "truncated"
                   /\ command.capture[s].onOverflow = "truncate"
  <2>1. s \in Streams
    BY CommandType
  <2>2. evidence.report[s].failure = "none"
    BY <1>1, <1>2, <2>1 DEF CaptureFailureFound, SettledResult
  <2>3. /\ evidence.report[s].completeness = Completeness(cap[s])
        /\ ~cap[s].overflow /\ cap[s] \in CaptureStates
    BY <1>1, <1>2, <2>1 DEF SettledResult, Report, Streams, TypeOK
  <2>4. evidence.report[s].completeness \in {"complete", "truncated"}
    BY <1>1, <1>3, <2>1, <2>2, <2>3, ReportFacts DEF Completeness
  <2>5. evidence.report[s].completeness = "truncated"
          => command.capture[s].onOverflow = "truncate"
    BY <1>1, <2>1, <2>2, <2>3, ReportFacts DEF StreamInv, Accounted
  <2> QED
    BY <1>1, <2>1, <2>4, <2>5, ReportFacts
<1> QED
  BY <1>4, <1>5, <1>6 DEF SuccessIsSettled

(* An Ok is only returned for a leader that exited with zero and was reaped *)
(* by the supervisor, with no process of its group running on and every     *)
(* captured stream read to its end.                                         *)
THEOREM SuccessProved == Spec => []SuccessIsSettled
<1>1. SafeSpec => []SuccessIsSettled
  BY SettledAlways, SuccessInState, PTL
<1> QED
  BY <1>1 DEF Spec

-----------------------------------------------------------------------------
(* The order of the causes.                                                 *)

LEMMA PrecedenceInState ==
  ASSUME TypeOK, OwnerInv, StageInv, StreamInv, ResultInv
  PROVE  OutcomeFollowsPrecedence
<1> SUFFICES ASSUME pc = "returned", Cleaning
             PROVE  \E i \in DOMAIN PrecedenceOrder :
                      /\ PrecedenceOrder[i] = <<TRUE, outcome>>
                      /\ \A j \in 1 .. i - 1 : ~PrecedenceOrder[j][1]
  BY DEF OutcomeFollowsPrecedence
<1> DEFINE c1 == cap["stdout"].overflow
           c2 == cap["stderr"].overflow
           c3 == obs.cancelled
           c4 == obs.deadline
           c5 == \E s \in Streams : Failed(cap[s])
           c6 == obs.error
           c7 == evidence.leaderUnsettled \/ evidence.unfinished # {}
           c8 == evidence.reapFailed \/ evidence.signal = "failed"
           c9 == evidence.status = "nonzero"
           c10 == evidence.status = "zero"
<1>1. {c1, c2, c3, c4, c5, c6, c7, c8, c9, c10} \subseteq BOOLEAN
  BY DEF TypeOK, CaptureStates, ObservationStates, Evidence, Streams
<1>2. PrecedenceOrder =
       << <<c1, "limitStdout">>,
          <<c2, "limitStderr">>,
          <<c3, "cancelled">>,
          <<c4, "timeout">>,
          <<c5, "captureFailed">>,
          <<c6, "supervisionFailed">>,
          <<c7, "cleanupIncomplete">>,
          <<c8, "lifecycleFailed">>,
          <<c9, "nonZeroExit">>,
          <<c10, "ok">> >>
  BY Zenon DEF PrecedenceOrder
<1>3. \/ c1 /\ outcome = "limitStdout"
      \/ ~c1 /\ c2 /\ outcome = "limitStderr"
      \/ ~c1 /\ ~c2 /\ c3 /\ outcome = "cancelled"
      \/ ~c1 /\ ~c2 /\ ~c3 /\ c4 /\ outcome = "timeout"
      \/ ~c1 /\ ~c2 /\ ~c3 /\ ~c4 /\ c5 /\ outcome = "captureFailed"
      \/ ~c1 /\ ~c2 /\ ~c3 /\ ~c4 /\ ~c5 /\ c6 /\ outcome = "supervisionFailed"
      \/ ~c1 /\ ~c2 /\ ~c3 /\ ~c4 /\ ~c5 /\ ~c6 /\ c7 /\ outcome = "cleanupIncomplete"
      \/ ~c1 /\ ~c2 /\ ~c3 /\ ~c4 /\ ~c5 /\ ~c6 /\ ~c7 /\ c8 /\ outcome = "lifecycleFailed"
      \/ ~c1 /\ ~c2 /\ ~c3 /\ ~c4 /\ ~c5 /\ ~c6 /\ ~c7 /\ ~c8 /\ c9 /\ outcome = "nonZeroExit"
      \/ ~c1 /\ ~c2 /\ ~c3 /\ ~c4 /\ ~c5 /\ ~c6 /\ ~c7 /\ ~c8 /\ ~c9 /\ c10 /\ outcome = "ok"
  <2>1. SettledResult
    BY DEF ResultInv
  <2>2. c4 => command.deadline
    BY DEF StageInv, ResultInv
  <2>3. CaptureFailureFound(evidence) <=> c5
    <3>1. DOMAIN evidence.report = Streams
      BY <2>1 DEF SettledResult
    <3>2. \A s \in Streams : Failed(cap[s]) <=> (evidence.report[s].failure # "none")
      BY <2>1, ReportFacts
    <3> QED
      BY <3>1, <3>2 DEF CaptureFailureFound
  <2> DEFINE primary == ChoosePrimary(obs, c1, c2)
  <2>4. outcome = Classify(primary, command.deadline, evidence)
    BY <2>1 DEF SettledResult
  <2>5. ClassifyExit(evidence) = IF c7 THEN "cleanupIncomplete"
                                 ELSE IF c8 THEN "lifecycleFailed"
                                 ELSE IF c10 THEN "ok" ELSE "nonZeroExit"
    BY <2>1 DEF SettledResult, ClassifyExit, ResultInv, LeaderEvidence, Cleaning
  <2>6. ~c7 => (c9 <=> ~c10)
    BY <2>1 DEF SettledResult, ResultInv, LeaderEvidence, TypeOK, Evidence
  <2> HIDE DEF c5, c7, c8, c9, c10
  <2>7. primary = IF c1 THEN "limitStdout" ELSE IF c2 THEN "limitStderr"
                  ELSE IF c3 THEN "cancelled" ELSE IF c4 THEN "deadline"
                  ELSE IF c6 THEN "supervision" ELSE "exit"
    BY Zenon DEF ChoosePrimary
  <2> HIDE DEF c1, c2, c3, c4, c6, primary
  <2> QED
    BY <1>1, <2>2, <2>3, <2>4, <2>5, <2>6, <2>7 DEF Classify, Conclusion
<1> HIDE DEF c1, c2, c3, c4, c5, c6, c7, c8, c9, c10
<1>4. /\ DOMAIN PrecedenceOrder = 1 .. 10
      /\ \A j \in 1 .. 10 : PrecedenceOrder[j][1] <=>
           \/ j = 1 /\ c1
           \/ j = 2 /\ c2
           \/ j = 3 /\ c3
           \/ j = 4 /\ c4
           \/ j = 5 /\ c5
           \/ j = 6 /\ c6
           \/ j = 7 /\ c7
           \/ j = 8 /\ c8
           \/ j = 9 /\ c9
           \/ j = 10 /\ c10
  BY <1>1, <1>2
<1> DEFINE FirstCause(i) == /\ PrecedenceOrder[i] = <<TRUE, outcome>>
                            /\ \A j \in 1 .. i - 1 : ~PrecedenceOrder[j][1]
<1>5. SUFFICES \E i \in 1 .. 10 : FirstCause(i)
  BY <1>4
<1> HIDE DEF FirstCause
<1>6. QED
  <2>1. CASE c1 /\ outcome = "limitStdout"
    <3>1. PrecedenceOrder[1] = <<TRUE, outcome>>
      BY <1>1, <1>2, <2>1
    <3>2. \A j \in 1 .. 1 - 1 : ~PrecedenceOrder[j][1]
      BY <1>4, <2>1
    <3>3. FirstCause(1)
      BY <3>1, <3>2 DEF FirstCause
    <3> QED
      BY <3>3
  <2>2. CASE ~c1 /\ c2 /\ outcome = "limitStderr"
    <3>1. PrecedenceOrder[2] = <<TRUE, outcome>>
      BY <1>1, <1>2, <2>2
    <3>2. \A j \in 1 .. 2 - 1 : ~PrecedenceOrder[j][1]
      BY <1>4, <2>2
    <3>3. FirstCause(2)
      BY <3>1, <3>2 DEF FirstCause
    <3> QED
      BY <3>3
  <2>3. CASE ~c1 /\ ~c2 /\ c3 /\ outcome = "cancelled"
    <3>1. PrecedenceOrder[3] = <<TRUE, outcome>>
      BY <1>1, <1>2, <2>3
    <3>2. \A j \in 1 .. 3 - 1 : ~PrecedenceOrder[j][1]
      BY <1>4, <2>3
    <3>3. FirstCause(3)
      BY <3>1, <3>2 DEF FirstCause
    <3> QED
      BY <3>3
  <2>4. CASE ~c1 /\ ~c2 /\ ~c3 /\ c4 /\ outcome = "timeout"
    <3>1. PrecedenceOrder[4] = <<TRUE, outcome>>
      BY <1>1, <1>2, <2>4
    <3>2. \A j \in 1 .. 4 - 1 : ~PrecedenceOrder[j][1]
      BY <1>4, <2>4
    <3>3. FirstCause(4)
      BY <3>1, <3>2 DEF FirstCause
    <3> QED
      BY <3>3
  <2>5. CASE ~c1 /\ ~c2 /\ ~c3 /\ ~c4 /\ c5 /\ outcome = "captureFailed"
    <3>1. PrecedenceOrder[5] = <<TRUE, outcome>>
      BY <1>1, <1>2, <2>5
    <3>2. \A j \in 1 .. 5 - 1 : ~PrecedenceOrder[j][1]
      BY <1>4, <2>5
    <3>3. FirstCause(5)
      BY <3>1, <3>2 DEF FirstCause
    <3> QED
      BY <3>3
  <2>6. CASE ~c1 /\ ~c2 /\ ~c3 /\ ~c4 /\ ~c5 /\ c6 /\ outcome = "supervisionFailed"
    <3>1. PrecedenceOrder[6] = <<TRUE, outcome>>
      BY <1>1, <1>2, <2>6
    <3>2. \A j \in 1 .. 6 - 1 : ~PrecedenceOrder[j][1]
      BY <1>4, <2>6
    <3>3. FirstCause(6)
      BY <3>1, <3>2 DEF FirstCause
    <3> QED
      BY <3>3
  <2>7. CASE ~c1 /\ ~c2 /\ ~c3 /\ ~c4 /\ ~c5 /\ ~c6 /\ c7 /\ outcome = "cleanupIncomplete"
    <3>1. PrecedenceOrder[7] = <<TRUE, outcome>>
      BY <1>1, <1>2, <2>7
    <3>2. \A j \in 1 .. 7 - 1 : ~PrecedenceOrder[j][1]
      BY <1>4, <2>7
    <3>3. FirstCause(7)
      BY <3>1, <3>2 DEF FirstCause
    <3> QED
      BY <3>3
  <2>8. CASE ~c1 /\ ~c2 /\ ~c3 /\ ~c4 /\ ~c5 /\ ~c6 /\ ~c7 /\ c8 /\ outcome = "lifecycleFailed"
    <3>1. PrecedenceOrder[8] = <<TRUE, outcome>>
      BY <1>1, <1>2, <2>8
    <3>2. \A j \in 1 .. 8 - 1 : ~PrecedenceOrder[j][1]
      BY <1>4, <2>8
    <3>3. FirstCause(8)
      BY <3>1, <3>2 DEF FirstCause
    <3> QED
      BY <3>3
  <2>9. CASE ~c1 /\ ~c2 /\ ~c3 /\ ~c4 /\ ~c5 /\ ~c6 /\ ~c7 /\ ~c8 /\ c9
             /\ outcome = "nonZeroExit"
    <3>1. PrecedenceOrder[9] = <<TRUE, outcome>>
      BY <1>1, <1>2, <2>9
    <3>2. \A j \in 1 .. 9 - 1 : ~PrecedenceOrder[j][1]
      BY <1>4, <2>9
    <3>3. FirstCause(9)
      BY <3>1, <3>2 DEF FirstCause
    <3> QED
      BY <3>3
  <2>10. CASE ~c1 /\ ~c2 /\ ~c3 /\ ~c4 /\ ~c5 /\ ~c6 /\ ~c7 /\ ~c8 /\ ~c9 /\ c10
             /\ outcome = "ok"
    <3>1. PrecedenceOrder[10] = <<TRUE, outcome>>
      BY <1>1, <1>2, <2>10
    <3>2. \A j \in 1 .. 10 - 1 : ~PrecedenceOrder[j][1]
      BY <1>4, <2>10
    <3>3. FirstCause(10)
      BY <3>1, <3>2 DEF FirstCause
    <3> QED
      BY <3>3
  <2> QED
    BY <1>3, <2>1, <2>2, <2>3, <2>4, <2>5, <2>6, <2>7, <2>8, <2>9, <2>10

(* The result names the first cause in the documented order, whatever was   *)
(* noticed first and however late the others came.                          *)
THEOREM PrecedenceKept == Spec => []OutcomeFollowsPrecedence
<1>1. SafeSpec => []OutcomeFollowsPrecedence
  BY SettledAlways, StageAlways, PrecedenceInState, PTL
<1> QED
  BY <1>1 DEF Spec

-----------------------------------------------------------------------------
(* A trigger that comes first is not overtaken.                             *)

(* An invocation that has ended keeps its result.                           *)
LEMMA EndedStays ==
  ASSUME pc \in Ended, [Next]_vars
  PROVE  UNCHANGED <<pc, outcome, evidence>>
<1>1. ~Supervise
  BY DEF Supervise, StartReaper, SpawnLeader, MakeNonblocking, ObserveLeader, Control,
         PollStreams, Pump, ReadData, ReadEof, ReadWouldBlock, ReadInterrupted, ReadFails,
         Reading, SignalTheGroup, CheckExpiry, ReapLeader, Settle, Ended
<1>2. ~Panic
  BY DEF Panic, Main, Cleanup, Ended
<1> QED
  BY <1>1, <1>2 DEF Next, BackgroundReaper, ChildWrite, ChildStep, RequestCancel,
     DeadlinePasses, CleanupExpires, Finished, vars, runVars

LEMMA NonZeroNeeds ==
  ASSUME NEW o, NEW a, NEW b, NEW configured, NEW e,
         Classify(ChoosePrimary(o, a, b), configured, e) = "nonZeroExit"
  PROVE  /\ e.cleanup \notin {"incomplete", "unknown"}
         /\ e.signal # "failed"
         /\ e.status # "zero"
<1>1. ClassifyExit(e) = "nonZeroExit"
  BY DEF Classify, ChoosePrimary, Conclusion
<1> QED
  BY <1>1 DEF ClassifyExit

Unproved == outcome \notin {"ok", "nonZeroExit"}

(* The trigger is among the causes the result is chosen from, for good: the *)
(* supervisor looks at the flag and at the clock again and again.           *)
Noticed == obs.cancelled \/ (obs.deadline /\ deadlinePassed)

(* The trigger is still to be noticed.  A cleanup that expires before the   *)
(* first look at it settles with the leader unreaped; any other looks at it *)
(* before the reap.                                                         *)
Awaited ==
  /\ cancelRequested \/ deadlinePassed
  /\ \/ ~Cleaning
     \/ pc \in {"expiry", "control", "settle"} /\ handle = "owned"
     \/ pc \in Ended

(* What an early trigger leaves true for ever.                              *)
Overruled == Unproved /\ (Noticed \/ Awaited)

LEMMA OverruledSettle ==
  ASSUME TypeOK, OwnerInv, StageInv, Overruled, Settle, UNCHANGED clockVars
  PROVE  Overruled'
<1>1. pc = "settle" /\ pc' = "returned" /\ UNCHANGED obs /\ Cleaning
  BY DEF Settle, StageInv, Cleanup
<1>2. outcome' = Classify(ChoosePrimary(obs, cap["stdout"].overflow, cap["stderr"].overflow),
                          command.deadline, evidence')
  BY DEF Settle
<1>3. CASE Noticed
  <2>1. ChoosePrimary(obs, cap["stdout"].overflow, cap["stderr"].overflow)
          \in {"limitStdout", "limitStderr", "cancelled", "deadline"}
    BY <1>3 DEF Noticed, ChoosePrimary
  <2>2. outcome' \notin {"ok", "nonZeroExit"}
    BY <1>2, <2>1 DEF Classify, Conclusion
  <2> QED
    BY <1>1, <1>3, <2>2 DEF Overruled, Unproved, Noticed, clockVars
<1>4. CASE Awaited
  <2>1. handle = "owned"
    BY <1>1, <1>4 DEF Awaited, Ended
  <2>2. evidence'.cleanup = "incomplete"
    BY <2>1 DEF Settle, SettledEvidence, TypeOK, Evidence
  <2>3. outcome' \notin {"ok", "nonZeroExit"}
    BY <1>2, <2>2, OkNeeds, NonZeroNeeds
  <2> QED
    BY <1>1, <1>4, <2>3 DEF Overruled, Unproved, Awaited, Ended, clockVars
<1> QED
  BY <1>3, <1>4 DEF Overruled

LEMMA OverruledSupervise ==
  ASSUME TypeOK, OwnerInv, StageInv, Overruled, Supervise
  PROVE  Overruled'
<1>0. UNCHANGED clockVars
  BY DEF Supervise
<1>1. CASE Settle
  BY <1>0, <1>1, OverruledSettle
<1> USE DEF Overruled, Unproved, Noticed, Awaited, clockVars
<1>2. CASE StartReaper \/ SpawnLeader
  <2>1. UNCHANGED <<obs, evidence>> /\ pc \in {"start", "spawn"}
    BY <1>2 DEF StartReaper, SpawnLeader
  <2>2. outcome' = outcome \/ outcome' \in Refusals
    BY <1>2 DEF StartReaper, SpawnLeader, Refuse, SpawnRefusals, Refusals
  <2> QED
    BY <1>0, <2>1, <2>2 DEF StageInv, Cleaning, Ended, Refusals
<1>3. CASE Control
  <2>1. /\ obs'.cancelled <=> obs.cancelled \/ cancelRequested
        /\ obs'.deadline <=> deadlinePassed
        /\ UNCHANGED outcome
    BY <1>3 DEF Control, ControlsSeen, TypeOK, ObservationStates
  <2> QED
    BY <1>0, <2>1
<1>4. CASE SignalTheGroup
  <2>1. handle = "owned" /\ pc = "signal" /\ pc' = "expiry"
        /\ UNCHANGED <<obs, handle, outcome>>
    BY <1>4 DEF SignalTheGroup, StageInv, Main, childVars
  <2> QED
    BY <1>0, <2>1
<1>5. CASE CheckExpiry
  <2>1. /\ pc = "expiry" /\ pc' \in {"control", "settle"}
        /\ UNCHANGED <<obs, handle, outcome, evidence>>
    BY <1>5 DEF CheckExpiry, childVars
  <2> QED
    BY <1>0, <2>1 DEF Cleaning, StageInv, Cleanup, Ended
<1>6. CASE MakeNonblocking \/ ObserveLeader \/ PollStreams \/ Pump \/ ReapLeader
  <2>1. obs'.cancelled = obs.cancelled /\ obs'.deadline = obs.deadline /\ UNCHANGED outcome
    <3>1. CASE ObserveLeader
      BY <3>1 DEF ObserveLeader, LeaderObservations, TypeOK, ObservationStates
    <3>2. CASE MakeNonblocking \/ PollStreams \/ ReapLeader
      BY <3>2 DEF MakeNonblocking, PollStreams, ReapLeader, TypeOK, ObservationStates
    <3>3. CASE Pump
      BY <3>3, PumpStage DEF AfterRead
    <3> QED
      BY <1>6, <3>1, <3>2, <3>3
  <2>2. /\ pc \in {"open", "observe", "poll", "pump", "reap"}
        /\ pc # "reap" => UNCHANGED evidence
        /\ pc = "reap" => Cleaning
    BY <1>6, PumpStage DEF MakeNonblocking, ObserveLeader, PollStreams, ReapLeader, AfterRead,
                           StageInv, Cleanup
  <2> QED
    BY <1>0, <2>1, <2>2 DEF Cleaning, Ended
<1> QED
  BY <1>1, <1>2, <1>3, <1>4, <1>5, <1>6 DEF Supervise

LEMMA OverruledStep ==
  TypeOK /\ OwnerInv /\ StageInv /\ Overruled /\ [Next]_vars => Overruled'
<1> SUFFICES ASSUME TypeOK, OwnerInv, StageInv, Overruled, [Next]_vars PROVE Overruled'
  OBVIOUS
<1> USE DEF Overruled, Unproved, Noticed, Awaited, clockVars
<1>1. CASE Supervise
  BY <1>1, OverruledSupervise
<1>2. CASE Panic
  BY <1>2 DEF Panic, Ended
<1>3. CASE BackgroundReaper
  <2>1. handle = "owned" => UNCHANGED handle
    BY <1>3 DEF BackgroundReaper, ReaperThread, ReaperReceive, ReaperDisconnect, ReaperWait,
                OwnerInv, DutyInv
  <2> QED
    BY <1>3, <2>1 DEF BackgroundReaper, runVars, Cleaning
<1>4. CASE ChildWrite \/ ChildStep \/ UNCHANGED vars
  BY <1>4 DEF ChildWrite, ChildStep, vars, childVars, runVars, Cleaning
<1>5. CASE RequestCancel \/ DeadlinePasses \/ CleanupExpires
  BY <1>5 DEF RequestCancel, DeadlinePasses, CleanupExpires, childVars, Cleaning
<1> QED
  BY <1>1, <1>2, <1>3, <1>4, <1>5 DEF Next, Finished

LEMMA EarlyTriggerAlways == SafeSpec => EarlyTriggerNotLost
<1>1. /\ ResultInv /\ ~Cleaning /\ (cancelRequested \/ deadlinePassed) => Overruled
  BY DEF ResultInv, Overruled, Unproved, Awaited, Refusals
<1>2. Overruled => outcome \notin {"ok", "nonZeroExit"}
  BY DEF Overruled, Unproved
<1> QED
  BY <1>1, <1>2, OverruledStep, TypeAlways, OwnerAlways, StageAlways, ResultAlways, PTL
     DEF SafeSpec, EarlyTriggerNotLost

(* A cancellation or a deadline that comes before the signal is reported,   *)
(* or something that outranks it: the exit it races never overtakes it,     *)
(* however the cleanup goes and however late the supervisor looks.          *)
THEOREM EarlyTriggerKept == Spec => EarlyTriggerNotLost
BY EarlyTriggerAlways, PTL DEF Spec

=============================================================================
