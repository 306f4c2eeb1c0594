# A TLA+ model of Epitelesis

Epitelesis runs one subprocess, or one group of them, from spawn to a result
that carries evidence of its own cleanup. This directory holds TLA+ modules of
its supervisors, the TLC configurations that check them on small instances, and
TLAPS proofs of its safety properties. Paths are relative to
`crates/epitelesis/src/` unless they say otherwise.

## The system

| component | state | operations | interacts through |
|---|---|---|---|
| captured supervisor (`supervisor.rs`, `unix::execute`) | observations, two capture streams, evidence, deadlines | observe, control, poll, pump, signal, reap, settle, unwind | system calls, the cancellation flag, `OwnedChild` |
| capture stream (`CaptureStream`) | retained bytes, discarded count, overflow, failure, eof, open pipe | `new`, `make_nonblocking`, `pump`, `retain`, `record_failure`, `terminal`, `into_report` | the pipe of the child |
| leader ownership (`OwnedChild`, `start_background_reaper`) | the `Child`, the sender, the reaper thread | signal, wait, hand over, drop; receive, wait | a channel of capacity one |
| managed supervisor (`managed_supervisor`, `supervise_managed`) | observations, evidence, deadlines | as above without capture | channels `startup`, `cancel`, `result` |
| managed handle (`managed.rs`, `ManagedChild`) | retained pipes, retained result, join handle | `take_*`, `poll`, `wait`, `cancel`, drop | the same channels, `join` |
| outcome classification (`settlement_triggered`, `choose_primary`, `classify*`) | none | pure decisions over observations and evidence | called by both supervisors |
| command builder (`command.rs`, `policy.rs`) | the declared policies, a typestate | builder calls, `streaming`, `validate_path_policy`, `prepare` | the parent's environment, the clock |
| cleanup timing (`wait_quantum`, `cleanup_deadline`) | the deadline and the end of the cleanup | waits, comparisons with the clock | both supervisors |
| adapters (`async_impl.rs`, `sync.rs`) | the guard of the future | `spawn`, `run`, `output`, `status` | `execute`, the cancellation flag, Tokio's blocking pool |
| release truth (`scripts/verify_release_truth.py`, workflows) | none at run time | verification over git and five files | git |

What is hard here is concurrency and failure: the supervisor, the reaper thread,
the caller, the child with its descendants, the embedding program and two clocks
all move independently, and any system call may fail. What makes each component
correct:

* *captured supervisor* - the group is signalled before the leader is reaped; it
  ends whatever the child does; the first cause in the documented order is the
  one reported; success is only reported when it is proved;
* *capture stream* - a report never claims more than was read; the counter never
  leaves its width;
* *leader ownership* - at every moment exactly one thread owes the reap and will
  act on it; no zombie and no idle reaper thread is left;
* *managed supervisor and handle* - the lifecycle needs no help from the caller;
  `cancel` and `wait` answer after the supervisor is gone, and `Ok` is a proof of
  settlement; a dropped handle leaves nothing behind;
* *classification* - total, and never a success from incomplete evidence;
* *command builder* - the child sees the environment that was declared, although
  other threads change the one it is derived from; what was checked is still so
  when it is used, or the difference is the environment's doing;
* *cleanup timing* - a result comes within the budget, a quantum and a few turns
  of its cause, a deadline is not rounded up, and a cleanup is not given up early;
* *adapters* - an answer never overtakes the supervisor; a future that is dropped
  cancels what it started, and what nobody awaits any more still cleans up.

The hazards this code is exposed to are listed in `PROJECT.json`, each at its
line and with the properties that would catch it going wrong.

## Modules

    ProcessGroup          the processes, the pipes and the host (external)
      OwnedChild          the Child, its owner and the reaper thread
        CapturedRun       execute                  -- EXTENDS OwnedChild, Outcome
        ManagedRun        the managed supervisor and handle      -- likewise
    Capture               one capture stream
      Outcome             evidence and its classification        -- EXTENDS Capture
          Adapters        run, output, status and spawn  -- EXTENDS CapturedRun
          TimedRun        CapturedRun on a clock         -- EXTENDS CapturedRun
    Lifecycle             the abstract promise of an invocation
    CommandPolicy         the builder and prepare
    MCCapturedRun, MCManagedRun, MCAdapters, MCTimedRun       commands for TLC
    ComponentProofs                                           lemmas
    CapturedRunProofs, SettlementProofs, LifecycleProofs      theorems on execute
    AdaptersProofs, TimedProofs, ManagedProofs, CommandPolicyProofs
                                                              theorems on the rest

**ProcessGroup.** `proc` is the life of each process, `escaped` the descendants
that called `setsid`, `holders` and `pipe` the write ends and the contents of
both pipes, in bytes. `Faults` names the failures a behaviour may show; each
disjunct that models an error path is guarded by its fault, so that a run can
say exactly which failures its properties survive. SIGKILL is in two steps: the
kernel accepts it (`killed`), and later the process dies. A signal to the group
is atomic with respect to `fork`, as it is in the kernel. Identifier reuse is
not modelled as a table: a process identifier is reserved until the leader is
reaped, so "signal before reap" is the property that matters.

**OwnedChild.** `handle` says where the `Child` is, `sender` whether the owner
can still hand it over, `reaper` what the thread is doing. `Handoff` and
`DropOwnedChild` are operators, used by the settlement and the unwinding of both
supervisors. The failure branch of the handoff is modelled but cannot be
reached: the thread receives until it has a `Child` or the sender is gone.

**Capture** is CaptureStream as pure operators on a record. Bytes are counted:
what is retained is always a prefix of what was read, so its length determines
it. `SaturatingAdd` saturates at `DiscardMax`, the model of `u64::MAX`.

**Outcome** is the classification, arm by arm, on a record of evidence.

**CapturedRun.** `pc` names the next call of the supervisor. `open`, `observe`,
`control`, `poll`, `pump`, `signal` are the body up to the signal; `expiry`,
`reap`, `settle` belong to the cleanup loop, which shares `observe`, `control`,
`poll` and `pump` (`Cleaning` tells which loop it is, from the evidence). Note
that the two loops have different orders, observe-control and control-observe,
and so has the model. One read is one step, so the child can write, exit or lose
its group between two reads of one turn; `budget` and `turn` are the loop of
`pump` and the pair of flags of `pump_fair`. The quantum of a poll is abstracted:
a poll that times out is one that finds nothing ready.

**ManagedRun.** The supervisor thread, the caller and the three channels.
`cancel` is a pending message, `canceller` the life of its sender: a disconnected
channel reads as a message in the code, hence `CancelReceived`. `caller` is what
the owner of the handle is doing; `stdin` and `stream` say who holds which end
of which pipe. The failure of `startup.send` (`supervisor.rs:246`) is not
modelled because the caller is blocked in `recv` until it has the message.
The thread sends its result (`Publish`), or its refusal (`Refuse`), before it is
over (`EndThread`); in between, `pc = "leave"`, the caller may already hold the
result, and only the join (`pc \in Ended`) keeps the answer back. An unwinding
likewise lets go of the Child and the channels first (`"unwound"`) and ends
later. A panic after the result was sent is allowed, because `join_after_result`
provides for it. Dropping the handle is one step: nothing in `Drop for
ManagedChild` waits, so that it cannot block holds by the shape of the model and
is not a property of a run.

**Adapters.** `entry` is the entry point (`status` is `output` without its
streams), `call` what became of the call or of the future, `worker` where the
task that runs `execute` is. The synchronous entries run it at once; `spawn`
queues it, and Tokio may start it late or, at shutdown, not at all. `Guarded` is
the drop of `CancelOnDrop`: it sets the flag when the future is dropped after
its first poll, or when the join fails. Dropping the handle of a blocking task
detaches it, so a dropped future never stops the supervisor by other means. A
panic reaches a synchronous caller as an unwinding and an asynchronous one as
`SupervisionFailed`. The specification is built from the steps of CapturedRun, with
`Guarded` in the place of `RequestCancel`. That it implements CapturedRun is
therefore no question for a run; it is proved, because the theorems about
CapturedRun are carried over by it. What the guard could get wrong is checked:
it must go off where a future is dropped (`DroppedIsCancelled`) and nowhere else
(`OnlyDroppedIsCancelled`).

**TimedRun** puts CapturedRun on a discrete clock. A *turn* is what the supervisor
does between two waits, and the only assumption is that it takes at most
`TurnCost`, scheduling included; a wait for which nothing is ready lasts as long
as `WaitQuantum` says, which is `wait_quantum` with the clock read at some instant
of the turn before. `wake` is the instant by which the current wait or turn is
over, and the clock does not pass it. The flags `deadlinePassed` and
`cleanupExpired` of CapturedRun are tied to the clock: a supervisor that looks
sees what the clock says (`ClockRead`). There are two history variables: `trigger`,
when the first cause to settle arose, in the world and not in the observations,
and `decidedAt`, when the observation loop was left because of it. The end of the
cleanup is fixed by a reading of the clock of its own (`StartBudget`), between the
end of the loop and the signal; `LastInstant` is the last instant the clock can
represent, and a budget that ends beyond it is none at all, as in
`cleanup_deadline`. Every step of TimedRun is a step of CapturedRun or leaves it
alone.

With the constants of the code (`CLEANUP_BUDGET` 2000 ms, `EVENT_QUANTUM` 10 ms)
the bound `Budget + Quantum + 4 * TurnCost` is within `CLEANUP_ALLOWANCE` (2100 ms)
if and only if a turn takes at most 22.5 ms: this is what the allowance buys. A
wait for the leader that is interrupted by signals for ever is excepted, as the
code retries it without looking at the clock.

**CommandPolicy** has one action per group of builder calls, with their typestate
(`phase`), and takes `prepare` apart where the world can come in between: the
check of the path, each lookup of an allowlisted key, the replay of the
operations, the launch. `parent` is the environment of the process, which any
thread may change (`ParentChanges`). The environment operations keep their order,
and `Replay`, `Effective` and `PathAfter` are the three loops of the code over it,
which must agree; each is a recursive function of the number of operations done. The clock is
read twice, when a deadline is declared and when the run starts
(`Representable`); `LastInstant` stands for the end of the monotonic clock. What
`prepare` decides, namely which streams are piped, their capture and whether
there is a deadline, is a field of CapturedRun's `command`, which is why the two
are separate specifications.

**Lifecycle** is what both supervisors promise about the leader: who may reap
it, in which stage, who owes the reap when the result is out, and that success
means the supervisor itself collected the status. CapturedRun and ManagedRun
each instantiate it `WITH` a refinement mapping and are checked against it,
fairness included (`IsLifecycle`).

## Runs

Fairness is the same in all modules, and is what the code's scheduling gives:
the supervisor and reaper threads run; clocks advance; a process with a pending
SIGKILL dies. No fairness is assumed of the child, its descendants, the host or
the caller's choices: they may do anything, or nothing, for ever. ManagedRun adds
that a blocking call returns once it can, and that a filter exits at the end of
its input. Adapters adds that a queued task is started or discarded, and that
a future whose task has ended is polled, unless it is dropped: this is the
runtime's part.

| run | instance | shows |
|---|---|---|
| `captured_policies` | no stream, one under each policy, two that overflow at their first byte; a descendant | success is settled, evidence is true, precedence; signal before reap; ownership |
| `captured_faults` | one stream, all policies, every failure, a host that steals the status | ownership, precedence, evidence and success on every error path |
| `captured_noisy` | two streams, one written to for ever | early triggers are not lost; settlement; no wedged pipe |
| `captured_descendants` | a descendant that may escape with the pipe; panics | no zombie, no idle reaper, refinement of Lifecycle |
| `captured_incomplete` | host reap | *violation*, see below |
| `captured_unfinished` | read failure | *violation*, see below |
| `managed_safety` | one streamed output, every failure, a host that steals the status | ownership; answers are final and true, although the result is out before the thread is; only the caller cancels |
| `managed_descendants` | a streamed output, or a filter; a descendant; panics | signal before reap; `Ok` means nothing runs on; deadlines, drop, cancel and wait need no caller; refinement of Lifecycle |
| `adapters` | one stream written to for ever, with a deadline, awaited, or both; panics and refusals | answers are proved; a dropped future, and nothing else, cancels, and leaves nothing behind; calls return |
| `timed` | a stream that truncates or fails closed, or none; deadlines of 0 and 2, a quantum of 3, a budget of 4, turns up to 1, a clock that can represent 12; poll failures | time from cause to result; deadlines are punctual; a cleanup has its whole budget, counted from the end of the observation loop |
| `command_policy` | four builder calls; two variables, two values; a clock that ends at 2 | the child's environment; the check of the path; late refusals of a deadline |
| `command_bare_path` | the same, smaller | *violation*, see below |

`LeaderHasOneOwner` has a clause that a host that steals statuses would break (a
held `Child` names an unreaped leader) and `GroupDoomedBeforeReap` excuses failed
signals and such hosts; this is why each is also checked in a run without them.

Bounds, and why they are enough. Limits are 0 or 1 bytes and a chunk is 1 or 2,
so every position of the limit relative to a chunk (before, inside, at the end,
after) occurs; `DiscardMax` of 1 or 2 saturates within two chunks. One
descendant is enough to hold a pipe, to fork after nothing, to escape, and to
survive: every guard speaks of one descendant at a time, and the proofs below
lift the bound. `ChunksPerTurn` of 2 distinguishes "the turn continues" from
"the turn ends"; where only liveness of the reap matters it is 1. `MaxUnbounded`
caps what a child writes to a stream with no limit; streams that truncate have
no such cap, so the runs of `captured_noisy` are truly endless. In `timed` a
deadline may fall before, at and within a quantum and the budget is longer than a
quantum, so that a wait is cut by each of the two; `MaxTime` leaves room for
the whole settlement of a cause that arises with the later deadline, and the
theorems have no such bound. Four
builder calls are a policy, two operations on one key, and the declaration that
makes the command ready, in any order. Deadlock is checked in every run:
`Finished` (and, on the clock, its end) is the only way to stop.

### Three statements the code does not bear out

* `SECURITY.md` and `CleanupIncompleteEvidence` say that an incomplete cleanup
  means its deadline expired. A failed `wait` (the host took the status between
  observation and reap) leaves the loop early and yields the same value with the
  budget unspent: `IncompleteMeansBudgetExpired`, run `captured_incomplete`.
* `unfinished_streams` is documented as the streams that did not reach EOF. A
  stream that failed did not reach EOF and is not listed; it shows as a capture
  failure instead: `UnfinishedMeansNoEof`, run `captured_unfinished`.
* `PolicyViolation` (`policy.rs:228`, `policy.rs:236`) says that a lookup of the
  program in a `PATH` the child cannot see is detected before it is created.
  `validate_path_policy` (`command.rs:452`) and `prepare` (`command.rs:394`) each
  read the parent's `PATH`; a thread that removes it in between lets a bare
  program start without one: `BareLookupHasPath`, run `command_bare_path`.
  `PathPolicyAgrees` shows that this is the only way.

## Proofs

All for every set of commands, descendants and faults, and every capacity, limit,
chunk, turn, budget and quantum, and every set of variables and number of builder
calls (`ProcessGroupAssumption`, `CaptureAssumption`, `CapturedRunAssumption`,
`ManagedRunAssumption`, `TimedRunAssumption`, `CommandPolicyAssumption`). Every
safety property that a passing run checks is proved.

**Ownership and order** (`CapturedRunProofs`, and `ManagedProofs` likewise).

* `TypeCorrect`, `ManagedTypeCorrect`: `TypeOK` is inductive by itself, given
  `ComponentProofs`: what each operator on a stream and each classification
  returns, and the type lemmas of the `Child` and its owner. Of ManagedRun, where no
  counter can leave its width, the type is only proved and no run repeats it.
* `OneOwner`, `ManagedOneOwner`: `LeaderHasOneOwner` says what must hold where the
  supervisor may stop; it is not inductive, because it does not say where the
  supervisor can be with which `Child`, nor that the reaper listens for as long as
  the supervisor can send. `OwnerInv` adds both, on top of `DutyInv`, which ties
  the holder of the `Child` to the life of the leader and is preserved by the
  steps of the processes, of the reaper and of a drop whichever supervisor runs
  beside them: the two proofs share these lemmas.
* `DoomedFirst`, `ManagedDoomedFirst`: `DoomInv` says that the cleanup loop is only
  entered after the signal, and that from the signal, or from the moment the
  `Child` leaves the supervisor, no process of the group is running. That this is
  stable under `fork` is the heart of it: whoever still runs has escaped, and so
  has what it forks (`ProcessStepDoomed`).

**What a result proves** (`SettlementProofs`): `EvidenceTrue`, `SuccessProved`,
`PrecedenceKept`. `StreamInv` accounts for the bytes of each stream: an overflow
has a discarded byte to show for it, and a byte is only discarded with a cause to
report or with the caller's consent. `GroupInv` keeps what a successful signal
established. `ResultInv` says how the evidence of the leader follows its life
(`LeaderEvidence`) and of what a result is made (`SettledResult`); that these
remain true after the result, while the rest of the world goes on, is most of the
induction. Precedence is then a case per cause.

**Causes that come first** (`EarlyTriggerKept`, `ManagedEarlyTriggerKept`). That
a cause before the signal is never overtaken is a box within a box: from a state
where it is there and the cleanup has not begun, no later state reports a status.
The proof is of a predicate that such a state satisfies and that every step keeps,
`Overruled`: there is no result, or none that shows a status (`Unproved`), and the
cause is among those the result is chosen from, for good (`Noticed`), or is still
to be noticed by a look that must come before the result (`Awaited`). The managed
supervisor looks elsewhere and less often, so its `Awaited` is another one; there
`Concluded`, no result without a signal, is needed as well.

**Answers** (`ManagedProofs`): `ManagedAnswerIsFinal` rests on `CallInv`: a result may
be received while its sender still runs, but then the supervisor has let go of the
Child and has a step left to take, and only the join turns what is retained into an
answer. `ManagedOnlyCallerCancels` rests on the life of the sender: it, and the
absence of a message, last until the caller cancels, drops or is answered.
`ManagedOkIsSettled` on `ProvedInv` (nothing is called complete, or a success, on
less than a reap by the supervisor) with `DoomInv`.

**Adapters** (`AdaptersProofs`): `AdaptersImplementCapturedRun` maps every step of a
call, of a dropped future and of a runtime that discards its queue to a step of
CapturedRun, from the invariant that only `spawn` shares its flag. The theorems
above need only `SafeSpec`, the specification without its fairness, so they hold
behind every entry point: `AdaptersOneOwner`, `AdaptersDoomedFirst`, and
`AdaptersAnswerIsProved`, for which `AnswerInv` adds that an answer is final and
that a task that never started has run nothing. `AdaptersDropCancels` reduces a
dropped future to `EarlyTriggerNotLost` by `DropInv`: a drop has set the flag of
whatever was started. `AdaptersImplementLifecycle` composes the two refinements.

**Time** (`TimedProofs`): `TimedImplementsCapturedRun` carries the invariants of
CapturedRun over. `Punctual`, `BudgetSpent` and `AllowanceKept` then bound
`wake`, stage by stage, since the clock does not pass it (`ClockInv`). `BudgetSpent`
is about the moment the loop was left, not about the cause: a budget that is eaten
up by the turns and waits that noticed the cause late would contradict it. It
excuses a clock that cannot represent the end of the budget.
`TriggerInv` says when the cause arose and that it does not go away;
`DeadlineInv` that a wait or turn ends within two turns of the deadline;
`CleanupInv` the same of the end of the cleanup, whose budget starts once, between
the end of the loop and the signal; `BeforeInv`, in `LateInv`, that a cause that was missed by one turn is
noticed by the next, so that the cleanup starts within a quantum and two turns
of it. `StageInv`, `GiveUpInv` and `CausesStay` are what they need of
CapturedRun: a cause stays, and a cleanup is only left when it is complete,
expired or failed.

**Lifecycle** (`LifecycleProofs`, `ManagedProofs`): `CapturedImplementsLifecycle` and
`ManagedImplementsLifecycle` show that initial states map to initial states and
every step to a step of Lifecycle or a stutter, if the host does not take the
status of the leader (with such a host there is no leader left to terminate).
`Seen` states the refinement mapping by cases; the proof has a lemma per group of
actions. `LifecycleKeepsAccount` is about the abstract specification: it accounts
for the duty to reap in every state, so what implements it does.

**The command** (`CommandPolicyProofs`). `Loop` and `PrefixRecursion` say that a
loop over a sequence has a result after each of its rounds; `PrefixInduction` is
induction over the rounds, for a *set* of numbers, from a minimal counterexample
(the induction theorems of the library take an operator, which the provers cannot
instantiate). With them `ReplayLoop` gives the environment after each operation,
`EffectiveLoop` shows that `get_envs` reports of every key exactly what `prepare`
will make of it, and `PathLoop` that the check of the path computes whether the
child will have a `PATH`. The inductive invariant `IInv` then follows `prepare`:
`Copying` (each key of the allowlist is unset until it is looked up, and then what
the parent had, unless it moved), `Prepared` (the child has what was declared, and
a bare program a `PATH`), `Refused`, and `Accepted` for the two readings of the
clock. `DeclaredEnvironment`, `PathAgrees` and `RefusedLate` are its consequences.

Only model-checked, because the provers do not reach it: liveness and everything
under fairness, that is `Settles`, `PipeNeverWedges`, `ZombieIsReaped`,
`ReaperThreadEnds`, `DeadlineNeedsNoCaller`, `DropLeavesNothing`, `CancelReturns`,
`WaitReturns`, `CallReturns`, and of `IsLifecycle` the fairness.

## Not modelled

* Arguments, the working directory and standard input of a command: stored and
  passed on unchanged. `validate_backend` is decided when the crate is compiled.
* Tokio beyond what `spawn` uses: the size of the blocking pool, wakers, and the
  wait for started tasks at shutdown. A queue that never moves is excluded by
  the fairness of the runtime.
* The durations of the managed supervisor: it waits on a channel with the same
  quantum and budget; only the captured one is timed. Elapsed time in errors.
* Bytes as such, error messages, tracing, `Debug` and `Display`.
* Release verification (`scripts/verify_release_truth.py`) and hosted workflows: a
  sequential script apart from the library, without state of its own and with
  unit tests of its decisions.

## Plan

Done: ProcessGroup, OwnedChild, Capture, Outcome, Lifecycle, CapturedRun,
ManagedRun, Adapters, CommandPolicy, TimedRun, and the proofs above, in this order.
Worth adding:

1. The managed supervisor on a clock, in the manner of TimedRun: it has no streams
   to pump, so a turn is shorter, but its cleanup loop looks at the deadline less
   often.
2. The safety half of the liveness properties, as theorems without ENABLED: in each
   state in which the supervisor has not ended, the condition under which its next
   step is possible (the run has ended, a wait may time out, or a reader has room).
3. The decision table of the release verifier, if it earns its place.
