------------------------------ MODULE TimedRun ------------------------------
(***************************************************************************)
(* CapturedRun on a clock: the deadline, the quantum of a wait and the     *)
(* budget of the cleanup (wait_quantum, cleanup_deadline, supervisor.rs),  *)
(* and what they add up to between the cause of a settlement and its       *)
(* result.  A turn is what the supervisor does between two waits; that it  *)
(* takes a bounded time, scheduling included, is the only assumption.      *)
(***************************************************************************)
EXTENDS CapturedRun, Integers

CONSTANTS
  Quantum,    (* EVENT_QUANTUM                                              *)
  Budget,     (* CLEANUP_BUDGET                                             *)
  TurnCost,   (* the longest turn                                           *)
  Durations,  (* the deadlines of commands that have one                    *)
  LastInstant,(* the last instant a clock can represent                     *)
  MaxTime     (* bound: the clock                                           *)

ASSUME TimedRunAssumption ==
  /\ Quantum \in Nat /\ Budget \in Nat /\ TurnCost \in Nat /\ MaxTime \in Nat
  /\ LastInstant \in Nat
  /\ Durations \subseteq Nat

VARIABLES
  now,
  wake,        (* the current wait, or turn, is over by this instant        *)
  deadlineAt,  (* the deadline, or Never                                    *)
  cleanupAt,   (* cleanup_deadline, or Never                                *)
  trigger,     (* history: when the first cause to settle arose, or Never   *)
  decidedAt    (* history: when the observation loop was left, or Never     *)

timeVars  == <<now, wake, deadlineAt, cleanupAt, trigger, decidedAt>>
timedVars == <<vars, timeVars>>

Never == -1

TimeTypeOK ==
  /\ now \in Nat /\ wake \in Nat
  /\ deadlineAt \in Nat \cup {Never}
  /\ cleanupAt \in Nat \cup {Never}
  /\ trigger \in Nat \cup {Never}
  /\ decidedAt \in Nat \cup {Never}

(* What settlement_triggered looks for, as it is and not as it is observed. *)
Caused ==
  \/ cancelRequested \/ deadlinePassed \/ obs.error
  \/ proc[Leader] \in {"zombie", "gone"}
  \/ \E s \in Streams : cap[s].overflow \/ Failed(cap[s])

NoteTrigger == trigger' = IF trigger = Never /\ Caused' THEN now ELSE trigger

TimedInit ==
  /\ Init
  /\ now = 0 /\ wake = TurnCost
  /\ deadlineAt = Never /\ cleanupAt = Never
  /\ trigger = Never /\ decidedAt = Never

-----------------------------------------------------------------------------

(* Instant::saturating_duration_since                                       *)
Until(instant, t) == IF instant > t THEN instant - t ELSE 0

(* Mutated waits: one that forgets the deadline, one that forgets the end   *)
(* of the cleanup.                                                          *)
WaitDeaf(t) == IF Cleaning THEN Least(Quantum, Until(cleanupAt, t)) ELSE Quantum
WaitLong(t) ==
  IF Cleaning \/ deadlineAt = Never THEN Quantum
  ELSE Least(Quantum, Until(deadlineAt, t))

(* wait_quantum, with the clock read at t.                                  *)
WaitQuantum(t) ==
  CASE Cleaning -> Least(Quantum, Until(cleanupAt, t))
    [] ~Cleaning /\ deadlineAt # Never -> Least(Quantum, Until(deadlineAt, t))
    [] ~Cleaning /\ deadlineAt = Never -> Quantum

(* The flags of CapturedRun are what a look at the clock would say.         *)
ClockRead ==
  /\ deadlineAt # Never /\ now >= deadlineAt => deadlinePassed
  /\ Cleaning /\ now >= cleanupAt => cleanupExpired

(* A wait for which no stream is ready lasts until its end; every other     *)
(* call returns at some instant of its turn.                                *)
TimesOut == pc = "poll" /\ Ready = {} /\ obs' = obs /\ stdoutFirst' # stdoutFirst

(* A mutated cleanup_deadline: the budget is counted from the cause, not    *)
(* from the moment the loop has noticed it.                                 *)
BudgetFromCause == trigger + Budget

(* cleanup_deadline: no budget at all where the sum cannot be represented.  *)
CleanupDeadline == IF now + Budget <= LastInstant THEN now + Budget ELSE now

(* The clock is read between the end of the loop and the signal.            *)
StartBudget ==
  /\ pc = "signal" /\ cleanupAt = Never
  /\ cleanupAt' = CleanupDeadline
  /\ UNCHANGED <<vars, now, wake, deadlineAt, trigger, decidedAt>>

TimedSupervise ==
  /\ Supervise
  /\ ClockRead
  /\ pc = "signal" => cleanupAt # Never
  /\ TimesOut => now >= wake
  /\ CASE pc = "poll" -> wake' = now + TurnCost
       [] pc # "poll" /\ pc' = "poll" ->
            \E t \in now .. wake : wake' = t + WaitQuantum(t)
       [] pc # "poll" /\ pc' # "poll" -> wake' = wake
  /\ IF pc = "spawn" /\ pc' = "open" /\ command.deadline
     THEN \E d \in Durations : deadlineAt' = now + d
     ELSE deadlineAt' = deadlineAt
  /\ decidedAt' = IF pc' = "signal" THEN now ELSE decidedAt
  /\ NoteTrigger
  /\ UNCHANGED <<now, cleanupAt>>

World == Panic \/ BackgroundReaper \/ ChildWrite \/ ChildStep \/ RequestCancel

TimedWorld ==
  /\ World
  /\ NoteTrigger
  /\ UNCHANGED <<now, wake, deadlineAt, cleanupAt, decidedAt>>

DeadlineReached ==
  /\ deadlineAt # Never /\ now >= deadlineAt
  /\ DeadlinePasses
  /\ NoteTrigger
  /\ UNCHANGED <<now, wake, deadlineAt, cleanupAt, decidedAt>>

CleanupReached ==
  /\ cleanupAt # Never /\ now >= cleanupAt
  /\ CleanupExpires
  /\ UNCHANGED timeVars

(* The clock stops at the result, and never passes the end of a turn.       *)
Tick ==
  /\ pc \notin Ended
  /\ ClockRead
  /\ now < wake
  /\ now < MaxTime
  /\ now' = now + 1
  /\ UNCHANGED <<vars, wake, deadlineAt, cleanupAt, trigger, decidedAt>>

TimedFinished == (Finished \/ now = MaxTime) /\ UNCHANGED timedVars

TimedNext == \/ TimedSupervise \/ StartBudget \/ TimedWorld \/ DeadlineReached
             \/ CleanupReached \/ Tick \/ TimedFinished

TimedSpec == TimedInit /\ [][TimedNext]_timedVars

-----------------------------------------------------------------------------

(* From whatever causes the settlement to the result, at most the budget,   *)
(* one quantum and four turns pass: the turn in which the cause was missed, *)
(* the one that signals, the last of the cleanup and the one that settles.  *)
(* A leader whose observation is interrupted for ever is excepted.          *)
Allowance == Budget + Quantum + 4 * TurnCost

SettlesWithinAllowance ==
  "interrupt" \notin Faults /\ trigger # Never => now <= trigger + Allowance

(* A deadline is not rounded up to the next quantum: the group is signalled *)
(* within two turns of it.                                                  *)
TimeoutIsPunctual ==
  deadlineAt # Never /\ pc \in Main => Cleaning \/ now <= deadlineAt + 2 * TurnCost

(* A cleanup that is given up, other than for a failed reap, had the whole  *)
(* budget for itself, counted from the moment the loop had noticed the      *)
(* cause and was left: turns and waits that noticed it late are not charged *)
(* to the cleanup.  Only a clock without room for the budget excuses it.    *)
GivenUpAfterBudget ==
  /\ TimeTypeOK
  /\ evidence.cleanup = "incomplete" /\ ~evidence.reapFailed =>
       /\ decidedAt # Never
       /\ now >= decidedAt + Budget \/ now + Budget > LastInstant

=============================================================================
