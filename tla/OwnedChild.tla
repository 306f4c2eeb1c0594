----------------------------- MODULE OwnedChild -----------------------------
(***************************************************************************)
(* OwnedChild and the background reaper (supervisor.rs): who holds the     *)
(* std::process::Child of the leader, and therefore the duty to reap it.   *)
(* The reaper is a thread started before the spawn that receives at most   *)
(* one Child over a channel of capacity one and waits for it.              *)
(***************************************************************************)
EXTENDS ProcessGroup

VARIABLES
  handle,  (* the Child: "owned" by the supervisor, "sent" over the channel,
              at the "reaper", or "closed" after a wait                     *)
  sender,  (* OwnedChild.reaper is Some                                     *)
  reaper   (* the background reaper thread                                  *)

childVars == <<handle, sender, reaper>>

ChildTypeOK ==
  /\ handle \in {"none", "owned", "sent", "reaper", "closed"}
  /\ sender \in BOOLEAN
  /\ reaper \in {"off", "listening", "waiting", "done"}

ChildInit == handle = "none" /\ sender = FALSE /\ reaper = "off"

-----------------------------------------------------------------------------
(* start_background_reaper, when the thread can be created.                 *)
StartBackgroundReaper ==
  /\ reaper' = "listening"
  /\ sender' = TRUE
  /\ UNCHANGED handle

(* observe_leader, waitid with NOWAIT: the leader is waitable, or not, or   *)
(* somebody else has taken its status (ECHILD); an interrupted call says    *)
(* nothing.                                                                 *)
LeaderObservations(obs) ==
  IF obs.waitable \/ obs.error \/ handle # "owned" THEN {obs}
  ELSE {[obs EXCEPT !.waitable = proc[Leader] = "zombie",
                    !.error = proc[Leader] = "gone"]}
       \cup (IF "interrupt" \in Faults THEN {obs} ELSE {})

(* The results a signal to the group may have.  A group without members     *)
(* occurs only after the host took the leader's status; its identifier may  *)
(* then name a stranger's group, and the kernel accepts the signal.         *)
SignalOutcomes ==
  {"sent"} \cup (IF Group = {} THEN {"alreadyGone"} ELSE {})
           \cup (IF "signal" \in Faults THEN {"failed"} ELSE {})

(* kill_process_group(self.pgid, Signal::KILL)                              *)
SignalGroup(outcome) ==
  IF outcome = "sent" THEN KillGroup ELSE UNCHANGED proc

(* reap_waitable, Child::wait on an exited leader: returns the status.      *)
ReapWaitable ==
  /\ proc[Leader] = "zombie"
  /\ proc' = [proc EXCEPT ![Leader] = "gone"]
  /\ handle' = "closed"

(* handoff_to_background_reaper: the send fails, and the Child comes back,  *)
(* only when no receiver is left.                                           *)
HandoffSucceeds == handle # "owned" \/ (sender /\ reaper = "listening")

(* A mutated handoff: the Child is dropped, which does not wait for it.     *)
HandoffDropping ==
  handle' = IF handle = "owned" THEN "closed" ELSE handle

Handoff ==
  handle' = IF handle = "owned" /\ HandoffSucceeds THEN "sent" ELSE handle

(* Drop of an OwnedChild that still holds its Child.                        *)
DropOwnedChild ==
  /\ IF handle = "owned" THEN \E result \in SignalOutcomes : SignalGroup(result)
     ELSE UNCHANGED proc
  /\ Handoff
  /\ sender' = FALSE
  /\ UNCHANGED reaper

-----------------------------------------------------------------------------
(* The reaper thread: receive, wait, end; or end when every sender is gone. *)

ReaperReceive ==
  /\ reaper = "listening"
  /\ handle = "sent"
  /\ reaper' = "waiting"
  /\ handle' = "reaper"
  /\ UNCHANGED <<sender, osVars>>

(* A mutated receive: the thread holds a sender to its own channel.         *)
ReaperNeverDisconnected == FALSE

ReaperDisconnect ==
  /\ reaper = "listening"
  /\ handle # "sent"
  /\ ~sender
  /\ reaper' = "done"
  /\ UNCHANGED <<handle, sender, osVars>>

(* Child::wait returns once the leader is dead; ECHILD is ignored.          *)
ReaperWait ==
  /\ reaper = "waiting"
  /\ proc[Leader] \in {"zombie", "gone"}
  /\ proc' = [proc EXCEPT ![Leader] = "gone"]
  /\ handle' = "closed"
  /\ reaper' = "done"
  /\ UNCHANGED <<sender, escaped, exit, holders, pipe>>

ReaperThread == ReaperReceive \/ ReaperDisconnect \/ ReaperWait

-----------------------------------------------------------------------------
(* The duty to reap is held by somebody who will act on it; `supervising`   *)
(* says that the supervisor still runs.                                     *)
ReapDutyHeld(supervising) ==
  /\ LeaderUnreaped => handle \in {"owned", "sent", "reaper"}
  /\ handle = "owned" => supervising /\ sender
  /\ handle = "sent" => reaper = "listening"
  /\ handle = "reaper" => reaper = "waiting"
  /\ handle \in {"owned", "sent", "reaper"} /\ "hostReap" \notin Faults
       => LeaderUnreaped

(* The identifier of the group is released by the reap of its leader, so    *)
(* the group must be signalled before: once the leader is reaped, no        *)
(* process that stayed in the group runs on, or will ever be created.       *)
GroupDoomedBeforeReap ==
  proc[Leader] = "gone" /\ Faults \cap {"signal", "hostReap"} = {}
    => \A d \in Descendants \ escaped : proc[d] # "running"

(* The leader and the owner of its reap in the terms of Lifecycle.          *)
LifecycleLeader ==
  CASE proc[Leader] = "unborn" -> "none"
    [] proc[Leader] \in {"running", "killed"} -> "alive"
    [] proc[Leader] = "zombie" -> "dead"
    [] proc[Leader] = "gone" -> "reaped"

LifecycleOwner ==
  CASE handle \in {"none", "closed"} -> "nobody"
    [] handle = "owned" -> "supervisor"
    [] handle \in {"sent", "reaper"} -> "background"

=============================================================================
