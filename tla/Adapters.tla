------------------------------ MODULE Adapters ------------------------------
(***************************************************************************)
(* The entry points over execute: run, output and status (sync.rs), which  *)
(* call it on the thread of their caller, and spawn (async_impl.rs), which *)
(* moves it to a blocking task of the runtime and awaits that task.  The   *)
(* future of spawn may be dropped at any time, and the runtime may discard *)
(* a task it has not started.                                              *)
(***************************************************************************)
EXTENDS CapturedRun

VARIABLES
  entry,   (* the entry point; status is output without the streams         *)
  call,    (* "idle", "waiting", "answered", or "dropped" for a future      *)
  worker,  (* execute: "none", "queued", "started", or "discarded"          *)
  answer   (* the result of the call; "unwound" for a panic that propagates *)

adapterVars == <<entry, call, worker, answer>>
allVars     == <<vars, adapterVars>>

AdapterTypeOK ==
  /\ entry \in {"run", "output", "spawn"}
  /\ call \in {"idle", "waiting", "answered", "dropped"}
  /\ worker \in {"none", "queued", "started", "discarded"}
  /\ answer \in Outcomes \cup {"unwound"}

(* Only spawn shares a cancellation flag with the supervisor.               *)
AdapterInit ==
  /\ Init
  /\ entry \in IF command.cancellable THEN {"spawn"} ELSE {"run", "output"}
  /\ call = "idle"
  /\ worker = "none"
  /\ answer = "pending"

-----------------------------------------------------------------------------

(* The end of a CancelOnDrop: an armed guard sets the flag.                 *)
Guarded(armed) ==
  /\ cancelRequested' = (cancelRequested \/ armed)
  /\ UNCHANGED <<osVars, childVars, command, pc, cap, obs, turnVars, evidence, outcome,
                 deadlinePassed, cleanupExpired>>

(* A mutated first poll: the guard is dropped as soon as it is made.        *)
BeginUnbound ==
  /\ call = "idle"
  /\ call' = "waiting"
  /\ worker' = IF entry = "spawn" THEN "queued" ELSE "started"
  /\ Guarded(entry = "spawn")
  /\ UNCHANGED <<entry, answer>>

(* The call, or the first poll of the future, which enqueues the task.      *)
Begin ==
  /\ call = "idle"
  /\ call' = "waiting"
  /\ worker' = IF entry = "spawn" THEN "queued" ELSE "started"
  /\ UNCHANGED <<vars, entry, answer>>

StartWorker ==
  /\ worker = "queued"
  /\ worker' = "started"
  /\ UNCHANGED <<vars, entry, call, answer>>

(* The runtime shuts down before the task was started.                      *)
DiscardWorker ==
  /\ worker = "queued"
  /\ worker' = "discarded"
  /\ UNCHANGED <<vars, entry, call, answer>>

Execute == worker = "started" /\ (Supervise \/ Panic) /\ UNCHANGED adapterVars

(* A mutated drop: the guard was disarmed before the task was awaited.      *)
DropDisarmed ==
  /\ entry = "spawn" /\ call \in {"idle", "waiting"}
  /\ call' = "dropped"
  /\ Guarded(FALSE)
  /\ UNCHANGED <<entry, worker, answer>>

(* There is no guard before the first poll.  Dropping the handle of the     *)
(* task detaches it, whether it has started or not.                         *)
DropFuture ==
  /\ entry = "spawn" /\ call \in {"idle", "waiting"}
  /\ call' = "dropped"
  /\ Guarded(call = "waiting")
  /\ UNCHANGED <<entry, worker, answer>>

JoinFailed == worker = "discarded" \/ pc = "panicked"

(* A mutated output: a failed lifecycle is accepted for its status.         *)
OutputOfAnyStatus(result) == IF evidence.status = "none" THEN result ELSE "ok"

(* output turns a status that is not zero into a result.                    *)
OutputOf(result) ==
  IF result = "nonZeroExit"
  THEN IF evidence.status = "none" THEN "supervisionFailed" ELSE "ok"
  ELSE result

(* A failed join returns early, with the guard still armed.                 *)
Answer ==
  /\ call = "waiting"
  /\ worker = "discarded" \/ pc \in Ended
  /\ call' = "answered"
  /\ answer' = CASE JoinFailed /\ entry = "spawn" -> "supervisionFailed"
                 [] JoinFailed /\ entry # "spawn" -> "unwound"
                 [] ~JoinFailed /\ entry = "output" -> OutputOf(outcome)
                 [] ~JoinFailed /\ entry # "output" -> outcome
  /\ Guarded(JoinFailed /\ entry = "spawn")
  /\ UNCHANGED <<entry, worker>>

World == /\ \/ BackgroundReaper \/ ChildWrite \/ ChildStep
            \/ DeadlinePasses \/ CleanupExpires
         /\ UNCHANGED adapterVars

AdapterFinished ==
  /\ call \in {"answered", "dropped"}
  /\ worker \in {"none", "discarded"} \/ (pc \in Ended /\ reaper \in {"off", "done"})
  /\ UNCHANGED allVars

AdapterNext == \/ Begin \/ StartWorker \/ DiscardWorker \/ Execute \/ DropFuture
               \/ Answer \/ World \/ AdapterFinished

(* The fairness of CapturedRun, and a runtime that starts, or discards,     *)
(* what it has queued and polls a future that can make progress.            *)
AdapterFairness ==
  /\ WF_allVars(StartWorker \/ DiscardWorker)
  /\ WF_allVars(worker = "started" /\ Supervise /\ UNCHANGED adapterVars)
  /\ WF_allVars(Answer)
  /\ WF_allVars(BackgroundReaper /\ UNCHANGED adapterVars)
  /\ WF_allVars(DeadlinePasses /\ UNCHANGED adapterVars)
  /\ WF_allVars(CleanupExpires /\ UNCHANGED adapterVars)
  /\ \A p \in Procs : WF_allVars(ChildDies(p) /\ UNCHANGED adapterVars)

AdapterSpec == AdapterInit /\ [][AdapterNext]_allVars /\ AdapterFairness

-----------------------------------------------------------------------------

(* An answer is final and proved: the supervisor no longer runs or never    *)
(* will, a success has a reaped leader and a complete cleanup behind it,    *)
(* and only output and status accept a status that is not zero.             *)
AnswerIsProved ==
  /\ AdapterTypeOK
  /\ answer # "pending" =>
       /\ worker = "discarded" \/ pc \in Ended
       /\ handle # "owned"
  /\ answer = "ok" =>
       /\ pc = "returned" /\ proc[Leader] = "gone" /\ handle = "closed"
       /\ evidence.cleanup = "complete" /\ evidence.signal # "failed"
       /\ evidence.status = "zero" \/ (entry = "output" /\ exit = "nonzero")
  /\ answer = "nonZeroExit" => entry # "output"

(* A future that is dropped before the group is signalled cancels the run,  *)
(* though the task may not have started and the leader may have exited.     *)
DroppedIsCancelled ==
  [](call = "dropped" /\ worker # "none" /\ ~Cleaning
       => [](outcome \notin {"ok", "nonZeroExit"}))

(* Only a future that was dropped is cancelled: while it is awaited its     *)
(* guard is alive, and where the join fails, the one way it goes off with   *)
(* an answer, no supervisor is left to see the flag.                        *)
OnlyDroppedIsCancelled == obs.cancelled => call = "dropped"

(* A dropped future leaves nothing behind, although nobody awaits it.       *)
DropLeavesNothing ==
  (call = "dropped") ~>
    \/ worker \in {"none", "discarded"}
    \/ pc \in Ended /\ reaper \in {"off", "done"} /\ ~LeaderUnreaped

(* An answer comes once there is a reason to stop the run.                  *)
CallReturns ==
  (call = "waiting" /\ (deadlinePassed \/ proc[Leader] \in {"zombie", "gone"}))
    ~> (call # "waiting")

=============================================================================
