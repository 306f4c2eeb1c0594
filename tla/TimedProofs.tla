----------------------------- MODULE TimedProofs -----------------------------
(***************************************************************************)
(* The bounds of TimedRun for every quantum, budget and cost of a turn.    *)
(* The argument follows the supervisor around its loop: how late a wait,   *)
(* or a turn, that begins at each call can be over.                        *)
(***************************************************************************)
EXTENDS TimedRun, CapturedRunProofs

-----------------------------------------------------------------------------
(* The clock only restrains CapturedRun.                                    *)

LEMMA TimedStep == [TimedNext]_timedVars => [Next]_vars
BY DEF TimedNext, TimedSupervise, StartBudget, TimedWorld, World, DeadlineReached,
       CleanupReached, Tick, TimedFinished, timedVars, Next

(* Every step of the timed run is a step of CapturedRun or leaves it alone, *)
(* so what is proved of CapturedRun holds of it.                            *)
THEOREM TimedImplementsCapturedRun == TimedSpec => SafeSpec
<1>1. TimedInit => Init
  BY DEF TimedInit
<1> QED
  BY <1>1, TimedStep, PTL DEF TimedSpec, SafeSpec

Grounds == TypeOK /\ OwnerInv /\ StageInv /\ GiveUpInv

LEMMA TimedGrounds == TimedSpec => []Grounds
<1>1. SafeSpec => []TypeOK /\ []OwnerInv /\ []StageInv /\ []GiveUpInv
  BY TypeAlways, OwnerAlways, StageAlways, GiveUpAlways, PTL
<1> QED
  BY <1>1, TimedImplementsCapturedRun, PTL DEF Grounds

LEMMA GroundsPrimed == Grounds /\ [TimedNext]_timedVars => Grounds' /\ LeaderStaysDead
BY TimedStep, TypeStep, OwnerStep, StageStep, GiveUpStep DEF Grounds

-----------------------------------------------------------------------------
(* The clock never passes the end of a wait or turn.                        *)

ClockInv ==
  /\ TimeTypeOK
  /\ Cleaning => cleanupAt # Never
  /\ now <= wake
  /\ pc = "poll" => wake <= now + TurnCost + Quantum
  /\ pc \notin Ended \cup {"poll"} => wake <= now + TurnCost

LEMMA WaitUntil ==
  ASSUME NEW instant \in Nat, NEW t \in Nat
  PROVE  /\ Least(Quantum, Until(instant, t)) \in 0 .. Quantum
         /\ t + Least(Quantum, Until(instant, t)) <= IF instant > t THEN instant ELSE t
<1>1. Until(instant, t) \in Nat /\ t + Until(instant, t) = IF instant > t THEN instant ELSE t
  BY DEF Until
<1> HIDE DEF Until
<1> QED
  BY <1>1, TimedRunAssumption DEF Least

(* A wait is at most a quantum, and ends no later than what it waits for.   *)
LEMMA WaitBounded ==
  ASSUME NEW t \in Nat, TimeTypeOK, Cleaning => cleanupAt \in Nat
  PROVE  /\ WaitQuantum(t) \in 0 .. Quantum
         /\ Cleaning => t + WaitQuantum(t) <= IF cleanupAt > t THEN cleanupAt ELSE t
         /\ ~Cleaning /\ deadlineAt # Never =>
              t + WaitQuantum(t) <= IF deadlineAt > t THEN deadlineAt ELSE t
<1>1. CASE Cleaning
  <2>1. WaitQuantum(t) = Least(Quantum, Until(cleanupAt, t))
    BY <1>1 DEF WaitQuantum
  <2>2. cleanupAt \in Nat
    BY <1>1
  <2> QED
    BY ONLY <1>1, <2>1, <2>2, WaitUntil, t \in Nat
<1>2. CASE ~Cleaning /\ deadlineAt # Never
  <2>1. WaitQuantum(t) = Least(Quantum, Until(deadlineAt, t))
    BY <1>2 DEF WaitQuantum
  <2>2. deadlineAt \in Nat
    BY <1>2 DEF TimeTypeOK
  <2> QED
    BY ONLY <1>2, <2>1, <2>2, WaitUntil, t \in Nat
<1>3. CASE ~Cleaning /\ deadlineAt = Never
  BY <1>3, TimedRunAssumption DEF WaitQuantum
<1> QED
  BY <1>1, <1>2, <1>3

(* How a call of the supervisor moves the end of its wait or turn.          *)
LEMMA WakeMoves ==
  ASSUME TimedSupervise
  PROVE  /\ now' = now
         /\ pc = "poll" => wake' = now + TurnCost
         /\ pc # "poll" /\ pc' # "poll" => wake' = wake
         /\ pc # "poll" /\ pc' = "poll" =>
              \E t \in now .. wake : wake' = t + WaitQuantum(t)
  BY DEF TimedSupervise

(* The only way to the wait is from the check of the controls, or of the    *)
(* reap.                                                                    *)
LEMMA Transitions ==
  ASSUME Grounds, Supervise
  PROVE  \/ pc = "start" /\ pc' \in {"spawn", "returned"}
         \/ pc = "spawn" /\ pc' \in {"open", "returned"}
         \/ pc = "open" /\ pc' = "observe"
         \/ pc = "observe" /\ pc' = IF Cleaning THEN "reap" ELSE "control"
         \/ pc = "control" /\ pc' \in IF Cleaning THEN {"observe"} ELSE {"signal", "poll"}
         \/ pc \in {"poll", "pump"} /\ pc' \in {"pump", LoopHead}
         \/ pc = "signal" /\ pc' = "expiry"
         \/ pc = "expiry" /\ pc' \in {"settle", "control"}
         \/ pc = "reap" /\ pc' \in {"settle", "poll"}
         \/ pc = "settle" /\ pc' = "returned"
<1>1. CASE StartReaper
  BY <1>1 DEF StartReaper, Refuse
<1>2. CASE SpawnLeader
  BY <1>2 DEF SpawnLeader, Refuse
<1>3. CASE MakeNonblocking \/ ObserveLeader \/ PollStreams \/ CheckExpiry
  BY <1>3 DEF MakeNonblocking, ObserveLeader, PollStreams, CheckExpiry
<1>4. CASE Control
  BY <1>4 DEF Control
<1>5. CASE Pump
  BY <1>5, PumpStage
<1>6. CASE SignalTheGroup \/ ReapLeader \/ Settle
  BY <1>6 DEF SignalTheGroup, ReapLeader, Settle
<1> QED
  BY <1>1, <1>2, <1>3, <1>4, <1>5, <1>6 DEF Supervise

(* A trigger is noted when it arises, and is a moment of the past.          *)
LEMMA NoteTriggerType ==
  ASSUME TimeTypeOK, NoteTrigger
  PROVE  trigger' \in Nat \cup {Never}
  BY DEF TimeTypeOK, NoteTrigger

(* The end of the budget is a moment of the clock, at most a budget away.   *)
LEMMA CleanupDeadlineType ==
  ASSUME now \in Nat
  PROVE  /\ CleanupDeadline \in Nat
         /\ now <= CleanupDeadline /\ CleanupDeadline <= now + Budget
         /\ CleanupDeadline = now + Budget \/ now + Budget > LastInstant
  BY TimedRunAssumption DEF CleanupDeadline

(* The start of the budget is all that happens in its step.                 *)
LEMMA StartBudgetFrame ==
  ASSUME StartBudget
  PROVE  /\ pc = "signal" /\ cleanupAt = Never /\ cleanupAt' = CleanupDeadline
         /\ UNCHANGED <<pc, evidence, obs, cap, proc, cancelRequested, deadlinePassed,
                        cleanupExpired, now, wake, deadlineAt, trigger, decidedAt>>
  BY DEF StartBudget, vars, osVars, runVars, clockVars

LEMMA SuperviseClock ==
  ASSUME Grounds, ClockInv, TimedSupervise
  PROVE  ClockInv'
<1>0. /\ now \in Nat /\ wake \in Nat /\ TimeTypeOK /\ now <= wake
      /\ TurnCost \in Nat /\ Quantum \in Nat /\ Budget \in Nat
  BY TimedRunAssumption DEF ClockInv, TimeTypeOK
<1>1. Supervise /\ NoteTrigger /\ now' = now
  BY DEF TimedSupervise
<1>2. deadlineAt' \in Nat \cup {Never}
  <2>1. CASE \E d \in Durations : deadlineAt' = now + d
    BY <1>0, <2>1, TimedRunAssumption
  <2>2. CASE deadlineAt' = deadlineAt
    BY <1>0, <2>2 DEF TimeTypeOK
  <2> QED
    BY <2>1, <2>2 DEF TimedSupervise
<1>3. /\ cleanupAt' \in Nat \cup {Never} /\ (pc = "signal" => cleanupAt' # Never)
      /\ decidedAt' \in Nat \cup {Never}
  BY <1>0 DEF TimedSupervise, TimeTypeOK
<1>4. Cleaning' => cleanupAt' # Never
  <2>1. CASE pc = "signal"
    BY <1>3, <2>1
  <2>2. CASE pc # "signal"
    BY <1>1, <2>2, SignalledOnce DEF TimedSupervise, Grounds, ClockInv, Cleaning
  <2> QED
    BY <2>1, <2>2
<1>5. CASE pc = "poll"
  <2>1. wake' = now + TurnCost /\ pc' # "poll"
    BY <1>1, <1>5, WakeMoves, Transitions DEF LoopHead
  <2>2. wake' \in Nat /\ now' <= wake' /\ wake' <= now' + TurnCost
    BY <1>0, <1>1, <2>1
  <2> QED
    BY <1>1, <1>2, <1>3, <1>4, <1>0, <2>1, <2>2, NoteTriggerType DEF ClockInv, TimeTypeOK
<1>6. CASE pc # "poll" /\ pc' # "poll"
  <2>1. wake' = wake /\ wake <= now + TurnCost
    BY <1>1, <1>6, WakeMoves, Transitions DEF ClockInv, Ended
  <2> QED
    BY <1>0, <1>1, <1>2, <1>3, <1>4, <1>6, <2>1, NoteTriggerType DEF ClockInv, TimeTypeOK
<1>7. CASE pc # "poll" /\ pc' = "poll"
  <2> PICK t \in now .. wake : wake' = t + WaitQuantum(t)
    BY <1>7, WakeMoves
  <2>1. t \in Nat /\ now <= t /\ t <= now + TurnCost
    BY <1>0, <1>1, <1>7, Transitions DEF ClockInv, Ended
  <2>2. WaitQuantum(t) \in 0 .. Quantum
    <3>1. Cleaning => cleanupAt \in Nat
      BY <1>0 DEF ClockInv, TimeTypeOK
    <3> QED
      BY <1>0, <2>1, <3>1, WaitBounded
  <2>3. wake' \in Nat /\ now <= wake' /\ wake' <= now + TurnCost + Quantum
    BY <1>0, <2>1, <2>2
  <2> QED
    BY <1>0, <1>1, <1>2, <1>3, <1>4, <1>7, <2>3, NoteTriggerType DEF ClockInv, TimeTypeOK
<1> QED
  BY <1>5, <1>6, <1>7

(* The rest of the world moves neither the supervisor nor its waits.        *)
LEMMA WorldKeeps ==
  ASSUME Grounds, TimedWorld \/ DeadlineReached
  PROVE  /\ UNCHANGED <<now, wake, deadlineAt, cleanupAt, decidedAt, obs, evidence,
                        cleanupExpired>>
         /\ pc' = pc \/ pc' = "panicked"
         /\ NoteTrigger
  BY DEF TimedWorld, World, DeadlineReached, DeadlinePasses, Panic, BackgroundReaper,
         ChildWrite, ChildStep, RequestCancel, runVars, clockVars

LEMMA ClockStep == Grounds /\ ClockInv /\ [TimedNext]_timedVars => ClockInv'
<1> SUFFICES ASSUME Grounds, ClockInv, [TimedNext]_timedVars PROVE ClockInv'
  OBVIOUS
<1>1. CASE TimedSupervise
  BY <1>1, SuperviseClock
<1>2. CASE TimedWorld \/ DeadlineReached
  <2>1. TimeTypeOK'
    BY <1>2, WorldKeeps, NoteTriggerType DEF ClockInv, TimeTypeOK
  <2>2. UNCHANGED <<now, wake, cleanupAt, evidence>> /\ (pc' = pc \/ pc' = "panicked")
    BY <1>2, WorldKeeps
  <2> QED
    BY <2>1, <2>2 DEF ClockInv, Cleaning, Ended
<1>3. CASE Tick
  <2>1. /\ now' = now + 1 /\ now < wake
        /\ UNCHANGED <<pc, evidence, wake, deadlineAt, cleanupAt, trigger, decidedAt>>
    BY <1>3 DEF Tick, vars, runVars
  <2> QED
    BY <2>1, TimedRunAssumption DEF ClockInv, TimeTypeOK, Cleaning
<1>4. CASE CleanupReached \/ UNCHANGED timedVars
  BY <1>4 DEF CleanupReached, CleanupExpires, timedVars, timeVars, vars, runVars, ClockInv,
              TimeTypeOK, Cleaning
<1>5. CASE StartBudget
  <2>1. cleanupAt' \in Nat /\ cleanupAt' # Never
    BY <1>5, StartBudgetFrame, CleanupDeadlineType DEF ClockInv, TimeTypeOK, Never
  <2> QED
    BY <1>5, <2>1, StartBudgetFrame DEF ClockInv, TimeTypeOK, Cleaning
<1> QED
  BY <1>1, <1>2, <1>3, <1>4, <1>5 DEF TimedNext, TimedFinished

-----------------------------------------------------------------------------
(* When the first cause to settle arose.                                    *)

TriggerInv ==
  /\ trigger # Never <=> Caused
  /\ trigger # Never => trigger <= now
  /\ pc = "signal" \/ Cleaning => trigger # Never

LEMMA CausedStays ==
  ASSUME Grounds, [TimedNext]_timedVars, Caused
  PROVE  Caused'
BY TimedStep, CausesStay, GroundsPrimed DEF Grounds, Caused, StreamCausesStay, LeaderStaysDead

LEMMA ControlOnly ==
  ASSUME Supervise, pc = "control"
  PROVE  Control
BY DEF Supervise, StartReaper, SpawnLeader, MakeNonblocking, ObserveLeader, PollStreams, Pump,
       ReadData, ReadEof, ReadWouldBlock, ReadInterrupted, ReadFails, Reading,
       SignalTheGroup, CheckExpiry, ReapLeader, Settle

(* The supervisor turns to the group, and counts as cleaning, only for a    *)
(* cause that was there.                                                    *)
LEMMA SignalHasCause ==
  ASSUME Grounds, TriggerInv, TimedSupervise, pc' = "signal" \/ Cleaning'
  PROVE  Caused'
<1>1. Supervise /\ Grounds' /\ [TimedNext]_timedVars
  BY GroundsPrimed DEF TimedSupervise, TimedNext
<1>2. CASE pc = "signal" \/ Cleaning
  BY <1>1, <1>2, CausedStays DEF TriggerInv
<1>3. CASE pc # "signal" /\ ~Cleaning
  <2>1. pc' = "signal"
    BY <1>1, <1>3, SignalledOnce DEF Cleaning, Grounds
  <2>2. pc = "control"
    BY <1>1, <1>3, <2>1, Transitions DEF LoopHead
  <2>3. /\ \/ obs'.cancelled \/ obs'.deadline \/ obs'.error \/ obs'.waitable
           \/ \E s \in Streams : cap[s].overflow
           \/ \E s \in Streams : Failed(cap[s])
        /\ cap' = cap
    BY <1>1, <1>3, <2>1, <2>2, ControlOnly DEF Control, SettlementTriggered
  <2>4. /\ obs'.cancelled => cancelRequested'
        /\ obs'.deadline => deadlinePassed'
        /\ obs'.waitable => proc'[Leader] \in {"zombie", "gone"}
    BY <1>1 DEF Grounds, StageInv
  <2> QED
    BY <2>3, <2>4 DEF Caused
<1> QED
  BY <1>2, <1>3

LEMMA TriggerStep == Grounds /\ ClockInv /\ TriggerInv /\ [TimedNext]_timedVars => TriggerInv'
<1> SUFFICES ASSUME Grounds, ClockInv, TriggerInv, [TimedNext]_timedVars PROVE TriggerInv'
  OBVIOUS
<1>0. now \in Nat /\ now # Never /\ trigger \in Nat \cup {Never}
  BY DEF ClockInv, TimeTypeOK, Never
<1>1. CASE TimedSupervise \/ TimedWorld \/ DeadlineReached
  <2>1. NoteTrigger /\ now' = now
    BY <1>1, WorldKeeps DEF TimedSupervise
  <2>2. trigger' # Never <=> Caused'
    BY <1>0, <2>1, CausedStays DEF NoteTrigger, TriggerInv
  <2>3. trigger' # Never => trigger' <= now'
    BY <1>0, <2>1 DEF NoteTrigger, TriggerInv
  <2>4. pc' = "signal" \/ Cleaning' => Caused'
    <3>1. CASE TimedSupervise
      BY <3>1, SignalHasCause
    <3>2. CASE TimedWorld \/ DeadlineReached
      BY <3>2, WorldKeeps, CausedStays DEF TriggerInv, Cleaning
    <3> QED
      BY <1>1, <3>1, <3>2
  <2> QED
    BY <2>2, <2>3, <2>4 DEF TriggerInv
<1>2. CASE Tick \/ CleanupReached \/ UNCHANGED timedVars
  <2>1. UNCHANGED <<trigger, pc, evidence, obs, cap, proc, cancelRequested, deadlinePassed>>
    BY <1>2 DEF Tick, CleanupReached, CleanupExpires, timedVars, timeVars, vars, osVars,
                runVars, clockVars
  <2>2. now' \in Nat /\ now <= now'
    BY <1>0, <1>2 DEF Tick, CleanupReached, timedVars, timeVars
  <2>3. Caused' <=> Caused
    BY <2>1 DEF Caused, Failed
  <2> QED
    BY <1>0, <2>1, <2>2, <2>3 DEF TriggerInv, Cleaning
<1>3. CASE StartBudget
  BY <1>3, StartBudgetFrame DEF TriggerInv, Cleaning, Caused, Failed
<1> QED
  BY <1>1, <1>2, <1>3 DEF TimedNext, TimedFinished

-----------------------------------------------------------------------------
(* Until the group is signalled.                                            *)

(* A wait, or a turn, goes on past the deadline by a turn or two at most.   *)
DeadlineInv ==
  /\ pc \in {"start", "spawn"} => deadlineAt = Never
  /\ deadlineAt # Never /\ ~Cleaning /\ pc \in Main =>
       /\ pc = "poll" => wake <= deadlineAt + TurnCost
       /\ wake <= deadlineAt + 2 * TurnCost

(* What was not noticed by the check of the controls was not there.         *)
LEMMA NothingNoticed ==
  ASSUME Grounds, Supervise, pc = "control", pc' = "poll"
  PROVE  /\ ~Cleaning /\ ~cancelRequested /\ ~deadlinePassed /\ ~obs.error /\ ~obs.waitable
         /\ \A s \in Streams : ~cap[s].overflow /\ ~Failed(cap[s])
<1>1. Control
  BY ControlOnly
<1>2. ~Cleaning
  BY <1>1 DEF Control
<1>3. ~SettlementTriggered(ControlsSeen, \E s \in Streams : cap[s].overflow,
                                         \E s \in Streams : Failed(cap[s]))
  BY <1>1, <1>2 DEF Control
<1> QED
  BY <1>2, <1>3 DEF SettlementTriggered, ControlsSeen, Grounds, TypeOK, ObservationStates

LEMMA SuperviseDeadline ==
  ASSUME Grounds, ClockInv, DeadlineInv, TimedSupervise
  PROVE  DeadlineInv'
<1>0. /\ now \in Nat /\ wake \in Nat /\ now <= wake /\ TurnCost \in Nat /\ Quantum \in Nat
      /\ deadlineAt \in Nat \cup {Never}
  BY TimedRunAssumption DEF ClockInv, TimeTypeOK
<1>1. Supervise
  BY DEF TimedSupervise
<1>2. CASE pc \in {"start", "spawn"} /\ pc' \notin Main
  BY <1>1, <1>2, Transitions DEF DeadlineInv, TimedSupervise, Main
<1>3. CASE pc \in {"start", "spawn"} /\ pc' \in Main
  <2>1. pc = "spawn" /\ pc' = "open"
    BY <1>1, <1>3, Transitions DEF Main
  <2>2. wake' = wake /\ wake <= now + TurnCost
    BY <2>1, WakeMoves DEF ClockInv, Ended
  <2>3. deadlineAt' = Never \/ \E d \in Nat : deadlineAt' = now + d
    BY <2>1, TimedRunAssumption DEF TimedSupervise, DeadlineInv
  <2>4. deadlineAt' # Never => wake' <= deadlineAt' + 2 * TurnCost
    BY <1>0, <2>2, <2>3
  <2> QED
    BY <2>1, <2>4 DEF DeadlineInv
<1>4. CASE pc \notin {"start", "spawn"}
  <2>1. deadlineAt' = deadlineAt /\ pc' \notin {"start", "spawn"}
    BY <1>1, <1>4, Transitions DEF TimedSupervise, LoopHead
  <2> SUFFICES ASSUME deadlineAt # Never, ~Cleaning', pc' \in Main
               PROVE  /\ pc' = "poll" => wake' <= deadlineAt + TurnCost
                      /\ wake' <= deadlineAt + 2 * TurnCost
    BY <2>1 DEF DeadlineInv
  <2>2. ~Cleaning /\ pc \in Main
    BY <1>1, <1>4, Transitions, SignalledOnce DEF Cleaning, Grounds, StageInv, Main, Cleanup
  <2>3. /\ deadlineAt \in Nat
        /\ pc = "poll" => wake <= deadlineAt + TurnCost
        /\ wake <= deadlineAt + 2 * TurnCost
    BY <1>0, <2>2 DEF DeadlineInv
  <2>4. CASE pc = "poll"
    <3>1. wake' = now + TurnCost /\ pc' # "poll"
      BY <1>1, <2>4, WakeMoves, Transitions DEF LoopHead
    <3> QED
      BY <1>0, <2>3, <2>4, <3>1
  <2>5. CASE pc # "poll" /\ pc' # "poll"
    BY <2>3, <2>5, WakeMoves
  <2>6. CASE pc # "poll" /\ pc' = "poll"
    <3>1. pc = "control"
      BY <1>1, <2>2, <2>6, Transitions DEF LoopHead, Main
    <3>2. now < deadlineAt
      <4>1. ~(now >= deadlineAt)
        BY <1>1, <2>6, <3>1, NothingNoticed DEF TimedSupervise, ClockRead
      <4> QED
        BY <1>0, <2>3, <4>1
    <3>3. wake <= now + TurnCost
      BY <3>1 DEF ClockInv, Ended
    <3> PICK t \in now .. wake : wake' = t + WaitQuantum(t)
      BY <2>6, WakeMoves
    <3>4. t \in Nat /\ t <= deadlineAt + TurnCost
      BY <1>0, <2>3, <3>2, <3>3
    <3>5. wake' <= IF deadlineAt > t THEN deadlineAt ELSE t
      BY <2>2, <3>4, WaitBounded DEF ClockInv
    <3> QED
      BY <1>0, <2>3, <3>4, <3>5
  <2> QED
    BY <2>4, <2>5, <2>6
<1> QED
  BY <1>2, <1>3, <1>4

LEMMA DeadlineStep == Grounds /\ ClockInv /\ DeadlineInv /\ [TimedNext]_timedVars => DeadlineInv'
<1> SUFFICES ASSUME Grounds, ClockInv, DeadlineInv, [TimedNext]_timedVars PROVE DeadlineInv'
  OBVIOUS
<1>1. CASE TimedSupervise
  BY <1>1, SuperviseDeadline
<1>2. CASE TimedWorld \/ DeadlineReached
  BY <1>2, WorldKeeps DEF DeadlineInv, Cleaning, Main
<1>3. CASE Tick \/ CleanupReached \/ UNCHANGED timedVars
  BY <1>3 DEF Tick, CleanupReached, CleanupExpires, timedVars, timeVars, vars, runVars,
              DeadlineInv, Cleaning
<1>4. CASE StartBudget
  BY <1>4, StartBudgetFrame DEF DeadlineInv, Cleaning
<1> QED
  BY <1>1, <1>2, <1>3, <1>4 DEF TimedNext, TimedFinished

(* TimeoutIsPunctual: the clock reaches no further than the wait.           *)
LEMMA PunctualInState == ClockInv /\ DeadlineInv => TimeoutIsPunctual
<1> SUFFICES ASSUME ClockInv, DeadlineInv, deadlineAt # Never, pc \in Main, ~Cleaning
             PROVE  now <= deadlineAt + 2 * TurnCost
  BY DEF TimeoutIsPunctual
<1>1. now \in Nat /\ wake \in Nat /\ now <= wake /\ deadlineAt \in Nat /\ TurnCost \in Nat
  BY TimedRunAssumption DEF ClockInv, TimeTypeOK
<1>2. wake <= deadlineAt + 2 * TurnCost
  BY DEF DeadlineInv
<1> QED
  BY <1>1, <1>2

LEMMA TimedInitial == TimedInit => ClockInv /\ TriggerInv /\ DeadlineInv
<1> SUFFICES ASSUME TimedInit PROVE ClockInv /\ TriggerInv /\ DeadlineInv
  OBVIOUS
<1>1. /\ pc = "start" /\ ~Cleaning /\ trigger = Never /\ now = 0 /\ wake = TurnCost
      /\ deadlineAt = Never /\ cleanupAt = Never /\ decidedAt = Never
  BY DEF TimedInit, Init, Cleaning, UnknownEvidence
<1>2. ~Caused
  BY DEF TimedInit, Init, OsInit, NoObservations, FreshStream, Failed, Caused, Procs, Leader
<1>3. ClockInv
  BY <1>1, TimedRunAssumption DEF ClockInv, TimeTypeOK, Ended
<1> QED
  BY <1>1, <1>2, <1>3 DEF TriggerInv, DeadlineInv, Main

LEMMA TimedAlways == TimedSpec => []Grounds /\ []ClockInv /\ []TriggerInv /\ []DeadlineInv
BY TimedInitial, TimedGrounds, ClockStep, TriggerStep, DeadlineStep, PTL DEF TimedSpec

(* A deadline is acted on within two turns of it, however long a quantum    *)
(* is: no wait goes on past the deadline.                                   *)
THEOREM Punctual == TimedSpec => []TimeoutIsPunctual
BY TimedAlways, PunctualInState, PTL

-----------------------------------------------------------------------------
(* The cleanup.                                                             *)

(* The budget is whole from the end of the loop, or the clock has no room.  *)
Whole(instant) == instant >= decidedAt + Budget \/ now + Budget > LastInstant

(* The budget starts once, after the loop was left and before the signal;   *)
(* a wait, or a turn, of the cleanup is over by two turns after it.         *)
CleanupInv ==
  /\ cleanupExpired => cleanupAt # Never /\ now >= cleanupAt
  /\ decidedAt # Never => decidedAt <= now
  /\ pc = "signal" => decidedAt # Never
  /\ cleanupAt # Never =>
       /\ pc = "signal" \/ Cleaning \/ pc \in Ended
       /\ decidedAt # Never /\ Whole(cleanupAt)
       /\ pc = "signal" => wake <= cleanupAt + TurnCost
  /\ Cleaning /\ pc \notin Ended =>
       /\ pc \in {"control", "observe", "reap", "poll"} => wake <= cleanupAt + TurnCost
       /\ wake <= cleanupAt + 2 * TurnCost

LEMMA SuperviseCleanup ==
  ASSUME Grounds, ClockInv, TriggerInv, CleanupInv, TimedSupervise
  PROVE  CleanupInv'
<1>0. /\ now \in Nat /\ wake \in Nat /\ now <= wake /\ TurnCost \in Nat /\ Quantum \in Nat
      /\ Budget \in Nat
      /\ cleanupAt \in Nat \cup {Never} /\ decidedAt \in Nat \cup {Never}
      /\ now # Never
  BY TimedRunAssumption DEF ClockInv, TimeTypeOK, Never
<1>1. /\ Supervise /\ now' = now /\ cleanupAt' = cleanupAt
      /\ decidedAt' = IF pc' = "signal" THEN now ELSE decidedAt
  BY DEF TimedSupervise
<1>2. cleanupExpired' = cleanupExpired
  BY <1>1 DEF Supervise, clockVars
<1>3. CASE pc = "signal"
  <2>1. ~Cleaning /\ Cleaning' /\ pc' = "expiry"
    BY <1>1, <1>3, Transitions, SignalledOnce DEF Grounds, StageInv
  <2>2. cleanupAt # Never /\ cleanupAt \in Nat
    BY <1>0, <1>3 DEF TimedSupervise
  <2>3. wake' = wake /\ wake <= cleanupAt + TurnCost
    BY <1>3, <2>1, <2>2, WakeMoves DEF CleanupInv
  <2>4. wake' <= cleanupAt + 2 * TurnCost
    BY <1>0, <2>2, <2>3
  <2>5. decidedAt' = decidedAt
    BY <1>1, <2>1
  <2> QED
    BY <1>1, <1>2, <2>1, <2>2, <2>4, <2>5 DEF CleanupInv, Whole
<1>4. CASE pc # "signal" /\ ~Cleaning
  <2>1. ~Cleaning' /\ ~cleanupExpired
    BY <1>1, <1>4, SignalledOnce DEF Cleaning, Grounds, GiveUpInv
  <2>2. pc \notin Ended
    BY <1>1, Transitions DEF Ended
  <2>3. cleanupAt = Never
    BY <1>4, <2>2 DEF CleanupInv
  <2>4. decidedAt' # Never => decidedAt' <= now'
    BY <1>0, <1>1 DEF CleanupInv
  <2>5. pc' = "signal" => decidedAt' # Never
    BY <1>0, <1>1
  <2> QED
    BY <1>1, <1>2, <2>1, <2>3, <2>4, <2>5 DEF CleanupInv
<1>5. CASE pc # "signal" /\ Cleaning
  <2>0. pc' # "signal" /\ decidedAt' = decidedAt
    BY <1>1, <1>5, Transitions DEF LoopHead
  <2>1. cleanupAt \in Nat /\ (Cleaning' <=> Cleaning)
    BY <1>0, <1>1, <1>5, SignalledOnce DEF ClockInv, Cleaning, Grounds
  <2> SUFFICES ASSUME pc' \notin Ended
               PROVE  /\ pc' \in {"control", "observe", "reap", "poll"} =>
                            wake' <= cleanupAt + TurnCost
                      /\ wake' <= cleanupAt + 2 * TurnCost
    BY <1>1, <1>2, <1>5, <2>0, <2>1 DEF CleanupInv, Whole
  <2>2. /\ pc \in {"control", "observe", "reap", "poll"} => wake <= cleanupAt + TurnCost
        /\ wake <= cleanupAt + 2 * TurnCost
        /\ pc \notin Ended
    BY <1>1, <1>5, Transitions DEF CleanupInv, Ended
  <2>3. CASE pc = "poll"
    <3>1. wake' = now + TurnCost /\ pc' \in {"pump", "expiry"}
      BY <1>1, <1>5, <2>3, WakeMoves, Transitions DEF LoopHead
    <3> QED
      BY <1>0, <2>1, <2>2, <2>3, <3>1
  <2>4. CASE pc = "expiry"
    <3>1. wake' = wake /\ wake <= now + TurnCost /\ pc' \in {"settle", "control"}
      BY <1>1, <2>4, WakeMoves, Transitions DEF ClockInv, Ended
    <3>2. pc' = "control" => now < cleanupAt
      <4>1. pc' = "control" => ~cleanupExpired
        BY <1>1, <2>4 DEF Supervise, CheckExpiry, StartReaper, SpawnLeader, MakeNonblocking,
                          ObserveLeader, Control, PollStreams, Pump, ReadData, ReadEof,
                          ReadWouldBlock, ReadInterrupted, ReadFails, Reading,
                          SignalTheGroup, ReapLeader, Settle
      <4>2. ~cleanupExpired => ~(now >= cleanupAt)
        BY <1>5 DEF TimedSupervise, ClockRead
      <4> QED
        BY <1>0, <2>1, <4>1, <4>2
    <3> QED
      BY <1>0, <2>1, <2>2, <3>1, <3>2
  <2>5. CASE pc = "reap" /\ pc' = "poll"
    <3> PICK t \in now .. wake : wake' = t + WaitQuantum(t)
      BY <2>5, WakeMoves
    <3>1. t \in Nat /\ t <= cleanupAt + TurnCost
      BY <1>0, <2>1, <2>2, <2>5
    <3>2. wake' <= IF cleanupAt > t THEN cleanupAt ELSE t
      BY <1>5, <2>1, <3>1, WaitBounded DEF ClockInv
    <3> QED
      BY <1>0, <2>1, <2>5, <3>1, <3>2
  <2>6. CASE pc \notin {"poll", "expiry"} /\ pc' # "poll"
    <3>1. wake' = wake
      BY <2>6, WakeMoves
    <3>2. pc' \in {"control", "observe", "reap"} => pc \in {"control", "observe", "reap"}
      BY <1>1, <1>5, <2>6, Transitions DEF LoopHead, Grounds, StageInv
    <3> QED
      BY <2>2, <2>6, <3>1, <3>2
  <2>7. pc \notin {"poll", "expiry"} /\ pc' = "poll" => pc = "reap"
    BY <1>1, <1>5, Transitions DEF LoopHead
  <2> QED
    BY <2>3, <2>4, <2>5, <2>6, <2>7
<1> QED
  BY <1>3, <1>4, <1>5

LEMMA CleanupStep ==
  Grounds /\ ClockInv /\ TriggerInv /\ CleanupInv /\ [TimedNext]_timedVars => CleanupInv'
<1> SUFFICES ASSUME Grounds, ClockInv, TriggerInv, CleanupInv, [TimedNext]_timedVars
             PROVE  CleanupInv'
  OBVIOUS
<1>1. CASE TimedSupervise
  BY <1>1, SuperviseCleanup
<1>2. CASE TimedWorld \/ DeadlineReached
  BY <1>2, WorldKeeps DEF CleanupInv, Whole, Cleaning, Ended
<1>3. CASE Tick
  <2>1. /\ UNCHANGED <<pc, evidence, wake, cleanupAt, decidedAt, cleanupExpired>>
        /\ now' = now + 1
    BY <1>3 DEF Tick, vars, runVars, clockVars
  <2>2. /\ now \in Nat /\ cleanupAt \in Nat \cup {Never} /\ decidedAt \in Nat \cup {Never}
        /\ Budget \in Nat /\ LastInstant \in Nat
    BY TimedRunAssumption DEF ClockInv, TimeTypeOK
  <2>3. Whole(cleanupAt) => Whole(cleanupAt)'
    BY <2>1, <2>2 DEF Whole
  <2>4. /\ cleanupExpired => now' >= cleanupAt
        /\ decidedAt # Never => decidedAt <= now'
    BY <2>1, <2>2 DEF CleanupInv
  <2> QED
    BY <2>1, <2>3, <2>4 DEF CleanupInv, Cleaning
<1>4. CASE CleanupReached
  BY <1>4 DEF CleanupReached, CleanupExpires, timeVars, CleanupInv, Whole, Cleaning
<1>5. CASE UNCHANGED timedVars
  BY <1>5 DEF timedVars, timeVars, vars, runVars, clockVars, CleanupInv, Whole, Cleaning
<1>6. CASE StartBudget
  <2> DEFINE end == CleanupDeadline
  <2>1. /\ now \in Nat /\ wake \in Nat /\ decidedAt \in Nat \cup {Never}
        /\ Budget \in Nat /\ TurnCost \in Nat /\ LastInstant \in Nat
    BY TimedRunAssumption DEF ClockInv, TimeTypeOK
  <2>2. /\ end \in Nat /\ now <= end
        /\ end = now + Budget \/ now + Budget > LastInstant
    BY <2>1, CleanupDeadlineType
  <2>3. decidedAt # Never /\ decidedAt <= now
    BY <1>6, StartBudgetFrame DEF CleanupInv
  <2>4. wake <= now + TurnCost
    BY <1>6, StartBudgetFrame DEF ClockInv, Ended
  <2>5. ~Cleaning /\ ~cleanupExpired
    BY <1>6, StartBudgetFrame DEF Grounds, StageInv, GiveUpInv
  <2>6. /\ cleanupAt' = end /\ pc = "signal"
        /\ UNCHANGED <<pc, evidence, cleanupExpired, now, wake, decidedAt>>
    BY <1>6, StartBudgetFrame
  <2> HIDE DEF end
  <2>7. Whole(cleanupAt)' /\ wake' <= cleanupAt' + TurnCost
    BY <2>1, <2>2, <2>3, <2>4, <2>6 DEF Whole
  <2> QED
    BY <2>3, <2>5, <2>6, <2>7 DEF CleanupInv, Cleaning
<1> QED
  BY <1>1, <1>2, <1>3, <1>4, <1>5, <1>6 DEF TimedNext, TimedFinished

LEMMA BudgetInState == Grounds /\ ClockInv /\ CleanupInv => GivenUpAfterBudget
<1> SUFFICES ASSUME Grounds, ClockInv, CleanupInv,
                    evidence.cleanup = "incomplete", ~evidence.reapFailed
             PROVE  /\ decidedAt # Never
                    /\ now >= decidedAt + Budget \/ now + Budget > LastInstant
  BY DEF GivenUpAfterBudget, ClockInv
<1>1. cleanupExpired
  BY DEF Grounds, GiveUpInv
<1>2. /\ now \in Nat /\ decidedAt \in Nat \cup {Never} /\ cleanupAt \in Nat \cup {Never}
      /\ Budget \in Nat
  BY TimedRunAssumption DEF ClockInv, TimeTypeOK
<1>3. cleanupAt # Never /\ now >= cleanupAt /\ decidedAt # Never /\ Whole(cleanupAt)
  BY <1>1 DEF CleanupInv
<1> QED
  BY <1>2, <1>3 DEF Whole

LEMMA CleanupAlways == TimedSpec => []CleanupInv
<1>1. TimedInit => CleanupInv
  BY DEF TimedInit, Init, UnknownEvidence, CleanupInv, Cleaning
<1> QED
  BY <1>1, TimedAlways, CleanupStep, PTL DEF TimedSpec

(* A cleanup that is given up, other than for a failed reap, had its whole  *)
(* budget since the loop was left, however late that was after the cause,   *)
(* wherever the clock can represent the end of the budget.                  *)
THEOREM BudgetSpent == TimedSpec => []GivenUpAfterBudget
BY TimedAlways, CleanupAlways, BudgetInState, PTL

-----------------------------------------------------------------------------
(* From the cause to the result.                                            *)

(* What the next check of the controls will see.                            *)
Noticed ==
  \/ cancelRequested \/ deadlinePassed \/ obs.error \/ obs.waitable
  \/ \E s \in Streams : cap[s].overflow \/ Failed(cap[s])

(* A cause that the check of a turn does not see arose in that turn, so it  *)
(* is seen after one more wait; the group is then signalled, and the budget *)
(* of the cleanup begins.                                                   *)
BeforeInv ==
  trigger # Never /\ ~Cleaning /\ pc \notin Ended =>
    /\ pc = "poll" => wake <= trigger + TurnCost + Quantum
    /\ pc = "control" => Noticed \/ wake <= trigger + TurnCost
    /\ wake <= trigger + 2 * TurnCost + Quantum

LateInv ==
  /\ BeforeInv
  /\ cleanupAt # Never =>
       trigger # Never /\ cleanupAt <= trigger + 2 * TurnCost + Quantum + Budget
  /\ trigger # Never /\ pc \in Ended => now <= trigger + Allowance

(* SettlesWithinAllowance: the clock reaches no further than the turn.      *)
LEMMA SettlesInState ==
  ASSUME ClockInv, CleanupInv, LateInv, trigger # Never
  PROVE  now <= trigger + Allowance
<1>0. /\ now \in Nat /\ wake \in Nat /\ now <= wake /\ TurnCost \in Nat /\ Quantum \in Nat
      /\ Budget \in Nat /\ trigger \in Nat /\ cleanupAt \in Nat \cup {Never}
      /\ Allowance = Budget + Quantum + 4 * TurnCost
  BY TimedRunAssumption DEF ClockInv, TimeTypeOK, Allowance
<1>1. CASE pc \in Ended
  BY <1>1 DEF LateInv
<1>2. CASE pc \notin Ended /\ ~Cleaning
  <2>1. wake <= trigger + 2 * TurnCost + Quantum
    BY <1>2 DEF LateInv, BeforeInv
  <2> QED
    BY <1>0, <2>1
<1>3. CASE pc \notin Ended /\ Cleaning
  <2>1. /\ wake <= cleanupAt + 2 * TurnCost /\ cleanupAt \in Nat
        /\ cleanupAt <= trigger + 2 * TurnCost + Quantum + Budget
    BY <1>0, <1>3 DEF LateInv, CleanupInv, ClockInv
  <2> QED
    BY <1>0, <2>1
<1> QED
  BY <1>1, <1>2, <1>3

LEMMA NoticedStays ==
  ASSUME Grounds, [TimedNext]_timedVars, Noticed
  PROVE  Noticed'
BY TimedStep, CausesStay DEF Grounds, Noticed, StreamCausesStay

(* An observation that is not interrupted sees a leader that has died.      *)
LEMMA DeathIsSeen ==
  ASSUME Grounds, TriggerInv, TimedSupervise, "interrupt" \notin Faults, trigger # Never,
         ~Cleaning, pc = "observe"
  PROVE  Noticed'
<1>1. Supervise /\ [TimedNext]_timedVars
  BY DEF TimedSupervise, TimedNext
<1>2. CASE Noticed
  BY <1>1, <1>2, NoticedStays
<1>3. CASE ~Noticed
  <2>1. proc[Leader] \in {"zombie", "gone"} /\ ~obs.waitable /\ ~obs.error
    BY <1>3 DEF TriggerInv, Caused, Noticed
  <2>2. handle = "owned"
    BY DEF Grounds, StageInv, Main
  <2>3. obs' \in LeaderObservations(obs)
    BY <1>1 DEF Supervise, StartReaper, SpawnLeader, MakeNonblocking, ObserveLeader, Control,
                PollStreams, Pump, ReadData, ReadEof, ReadWouldBlock, ReadInterrupted,
                ReadFails, Reading, SignalTheGroup, CheckExpiry, ReapLeader, Settle
  <2>4. obs'.waitable \/ obs'.error
    BY <2>1, <2>2, <2>3 DEF LeaderObservations, Grounds, TypeOK, ObservationStates
  <2> QED
    BY <2>4 DEF Noticed
<1> QED
  BY <1>2, <1>3

(* A trigger is noted with the time it has, and never changed.              *)
LEMMA TriggerMoves ==
  ASSUME [TimedNext]_timedVars
  PROVE  /\ trigger # Never => trigger' = trigger
         /\ trigger' # trigger => trigger' = now /\ now' = now
         /\ pc' \in Ended => now' = now
BY DEF TimedNext, TimedSupervise, StartBudget, TimedWorld, DeadlineReached,
       CleanupReached, Tick, TimedFinished, NoteTrigger, timedVars, timeVars, vars, runVars

LEMMA SuperviseBefore ==
  ASSUME Grounds, ClockInv, TriggerInv, BeforeInv, TimedSupervise, trigger # Never,
         ~Cleaning', pc' \notin Ended, "interrupt" \notin Faults
  PROVE  BeforeInv'
<1>0. /\ now \in Nat /\ wake \in Nat /\ now <= wake /\ TurnCost \in Nat /\ Quantum \in Nat
      /\ trigger \in Nat
  BY TimedRunAssumption DEF ClockInv, TimeTypeOK
<1>1. Supervise /\ trigger' = trigger
  BY TriggerMoves DEF TimedSupervise, TimedNext
<1>2. ~Cleaning /\ pc \notin Ended /\ pc # "signal"
  BY <1>1, SignalledOnce, Transitions DEF Cleaning, Grounds, Ended
<1>3. /\ pc = "poll" => wake <= trigger + TurnCost + Quantum
      /\ pc = "control" => Noticed \/ wake <= trigger + TurnCost
      /\ wake <= trigger + 2 * TurnCost + Quantum
  BY <1>2 DEF BeforeInv
<1>4. CASE pc = "poll"
  <2>1. wake' = now + TurnCost /\ pc' \in {"pump", "observe"}
    BY <1>1, <1>2, <1>4, WakeMoves, Transitions DEF LoopHead
  <2>2. wake' <= trigger + 2 * TurnCost + Quantum
    BY <1>0, <1>3, <1>4, <2>1
  <2> QED
    BY <1>1, <2>1, <2>2 DEF BeforeInv
<1>5. CASE pc # "poll" /\ pc' = "poll"
  <2>1. pc = "control"
    BY <1>1, <1>2, <1>5, Transitions DEF LoopHead, Grounds, StageInv, Cleanup, Main
  <2>2. wake <= trigger + TurnCost
    BY <1>1, <1>3, <1>5, <2>1, NothingNoticed DEF Noticed
  <2> PICK t \in now .. wake : wake' = t + WaitQuantum(t)
    BY <1>5, WakeMoves
  <2>3. WaitQuantum(t) \in 0 .. Quantum
    BY <1>0, <1>2, WaitBounded DEF ClockInv
  <2>4. wake' <= trigger + TurnCost + Quantum
    BY <1>0, <2>2, <2>3
  <2>5. wake' <= trigger + 2 * TurnCost + Quantum
    BY <1>0, <2>2, <2>3
  <2> QED
    BY <1>1, <1>5, <2>4, <2>5 DEF BeforeInv
<1>6. CASE pc # "poll" /\ pc' # "poll"
  <2>1. wake' = wake
    BY <1>6, WakeMoves
  <2>2. pc' = "control" => pc = "observe"
    BY <1>1, <1>2, <1>6, Transitions DEF LoopHead, Grounds, StageInv, Cleanup
  <2>3. pc' = "control" => Noticed'
    BY <1>2, <2>2, DeathIsSeen
  <2> QED
    BY <1>1, <1>3, <1>6, <2>1, <2>3 DEF BeforeInv
<1> QED
  BY <1>4, <1>5, <1>6

LEMMA BeforeStep ==
  ASSUME Grounds, ClockInv, TriggerInv, BeforeInv, [TimedNext]_timedVars,
         "interrupt" \notin Faults
  PROVE  BeforeInv'
<1> SUFFICES ASSUME trigger' # Never, ~Cleaning', pc' \notin Ended
             PROVE  BeforeInv'
  BY DEF BeforeInv
<1>0. /\ now \in Nat /\ TurnCost \in Nat /\ Quantum \in Nat
  BY TimedRunAssumption DEF ClockInv, TimeTypeOK
<1>1. CASE trigger = Never
  <2>1. ClockInv' /\ wake' \in Nat
    BY ClockStep DEF ClockInv, TimeTypeOK
  <2>2. trigger' = now /\ now' = now
    BY <1>1, TriggerMoves
  <2>3. /\ pc' = "poll" => wake' <= now + TurnCost + Quantum
        /\ pc' # "poll" => wake' <= now + TurnCost
    BY <2>1, <2>2 DEF ClockInv
  <2>4. now + TurnCost <= now + 2 * TurnCost + Quantum
        /\ now + TurnCost + Quantum <= now + 2 * TurnCost + Quantum
    BY <1>0
  <2>5. wake' <= now + 2 * TurnCost + Quantum
    BY <1>0, <2>1, <2>3, <2>4
  <2> QED
    BY <2>2, <2>3, <2>5 DEF BeforeInv
<1>2. CASE trigger # Never /\ TimedSupervise
  BY <1>2, SuperviseBefore
<1>3. CASE trigger # Never /\ ~TimedSupervise
  <2>1. trigger' = trigger
    BY <1>3, TriggerMoves
  <2>2. /\ UNCHANGED <<wake, evidence>> /\ (pc' = pc \/ pc' = "panicked")
    BY <1>3, WorldKeeps, StartBudgetFrame DEF TimedNext, CleanupReached, CleanupExpires, Tick, TimedFinished,
                            timedVars, timeVars, vars, runVars
  <2>3. pc' = pc
    BY <2>2 DEF Ended
  <2> QED
    BY <2>1, <2>2, <2>3, NoticedStays DEF BeforeInv, Cleaning
<1> QED
  BY <1>1, <1>2, <1>3

LEMMA LateStep ==
  ASSUME Grounds, ClockInv, TriggerInv, CleanupInv, LateInv, [TimedNext]_timedVars,
         "interrupt" \notin Faults
  PROVE  LateInv'
<1>0. /\ now \in Nat /\ wake \in Nat /\ now <= wake /\ TurnCost \in Nat /\ Quantum \in Nat
      /\ Budget \in Nat /\ trigger \in Nat \cup {Never}
  BY TimedRunAssumption DEF ClockInv, TimeTypeOK
<1>1. BeforeInv'
  BY BeforeStep DEF LateInv
<1>2. ASSUME cleanupAt' # Never
      PROVE  /\ trigger' # Never
             /\ cleanupAt' <= trigger' + 2 * TurnCost + Quantum + Budget
  <2>1. CASE StartBudget
    <3> DEFINE end == CleanupDeadline
    <3>1. cleanupAt' = end /\ trigger # Never /\ trigger' = trigger
      BY <2>1, StartBudgetFrame DEF TriggerInv
    <3>2. ~Cleaning /\ pc \notin Ended
      BY <2>1, StartBudgetFrame DEF Grounds, StageInv, Ended
    <3>3. wake <= trigger + 2 * TurnCost + Quantum
      BY <3>1, <3>2 DEF LateInv, BeforeInv
    <3>4. end \in Nat /\ end <= now + Budget
      BY <1>0, CleanupDeadlineType
    <3> HIDE DEF end
    <3> QED
      BY <1>0, <3>1, <3>3, <3>4
  <2>2. CASE ~StartBudget
    <3>1. cleanupAt' = cleanupAt
      BY <2>2, WorldKeeps DEF TimedNext, TimedSupervise, CleanupReached, Tick,
                    TimedFinished, timedVars, timeVars
    <3> QED
      BY <1>2, <3>1, TriggerMoves DEF LateInv
  <2> QED
    BY <2>1, <2>2
<1>3. ASSUME trigger' # Never, pc' \in Ended
      PROVE  now' <= trigger' + Allowance
  <2>1. now' = now
    BY <1>3, TriggerMoves
  <2>2. CASE trigger # Never
    BY <2>1, <2>2, TriggerMoves, SettlesInState
  <2>3. CASE trigger = Never
    BY <1>0, <1>3, <2>1, <2>3, TriggerMoves DEF Allowance
  <2> QED
    BY <2>2, <2>3
<1> QED
  BY <1>1, <1>2, <1>3 DEF LateInv

(* From whatever causes a settlement, whenever it arises, to the result at  *)
(* most the budget of the cleanup, one quantum and four turns pass.         *)
THEOREM AllowanceKept == TimedSpec => []SettlesWithinAllowance
<1>1. CASE "interrupt" \in Faults
  <2>1. SettlesWithinAllowance
    BY <1>1 DEF SettlesWithinAllowance
  <2> QED
    BY <2>1, PTL
<1>2. CASE "interrupt" \notin Faults
  <2>1. TimedInit => LateInv
    BY DEF TimedInit, Init, UnknownEvidence, LateInv, BeforeInv, Cleaning
  <2>2. Grounds /\ ClockInv /\ TriggerInv /\ CleanupInv /\ LateInv /\ [TimedNext]_timedVars
          => LateInv'
    BY <1>2, LateStep
  <2>3. ClockInv /\ CleanupInv /\ LateInv => SettlesWithinAllowance
    BY SettlesInState DEF SettlesWithinAllowance
  <2> QED
    BY <2>1, <2>2, <2>3, TimedAlways, CleanupAlways, PTL DEF TimedSpec
<1> QED
  BY <1>1, <1>2

=============================================================================
