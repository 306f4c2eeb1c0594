----------------------------- MODULE Lifecycle -----------------------------
(***************************************************************************)
(* What an invocation promises of its process leader, whichever supervisor *)
(* runs it: the leader is reaped once, by the supervisor only after the    *)
(* group was signalled, and otherwise by the background reaper; no result  *)
(* is returned while the supervisor still owes the reap; and success is    *)
(* reported only when the supervisor itself collected the status.          *)
(***************************************************************************)

VARIABLES
  stage,    (* of the invocation: "idle", "running", "terminating", "ended" *)
  leader,   (* "none", "alive", "dead" (waitable), "reaped"                 *)
  owner,    (* of the duty to reap: "nobody", "supervisor", "background"    *)
  verdict   (* "pending", "refused", "success", "failure", "abandoned"      *)

vars == <<stage, leader, owner, verdict>>

LifecycleTypeOK ==
  /\ stage \in {"idle", "running", "terminating", "ended"}
  /\ leader \in {"none", "alive", "dead", "reaped"}
  /\ owner \in {"nobody", "supervisor", "background"}
  /\ verdict \in {"pending", "refused", "success", "failure", "abandoned"}

Init ==
  /\ stage = "idle"
  /\ leader = "none"
  /\ owner = "nobody"
  /\ verdict = "pending"

(* Nothing was spawned, and nothing is left behind.                         *)
Refuse ==
  /\ stage = "idle"
  /\ stage' = "ended"
  /\ verdict' = "refused"
  /\ UNCHANGED <<leader, owner>>

Spawn ==
  /\ stage = "idle"
  /\ stage' = "running"
  /\ leader' = "alive"
  /\ owner' = "supervisor"
  /\ UNCHANGED verdict

LeaderDies ==
  /\ leader = "alive"
  /\ leader' = "dead"
  /\ UNCHANGED <<stage, owner, verdict>>

(* The group is signalled while the leader still reserves its identifier.   *)
Terminate ==
  /\ stage = "running"
  /\ leader \in {"alive", "dead"}
  /\ stage' = "terminating"
  /\ UNCHANGED <<leader, owner, verdict>>

Reap ==
  /\ stage = "terminating"
  /\ owner = "supervisor"
  /\ leader = "dead"
  /\ leader' = "reaped"
  /\ owner' = "nobody"
  /\ UNCHANGED <<stage, verdict>>

(* A duty not discharged by now goes to the background reaper.              *)
LeaveToBackground == owner' = IF owner = "supervisor" THEN "background" ELSE owner

Conclude ==
  /\ stage = "terminating"
  /\ stage' = "ended"
  /\ verdict' \in {"success", "failure"}
  /\ verdict' = "success" => leader = "reaped"
  /\ LeaveToBackground
  /\ UNCHANGED leader

(* The supervisor unwinds without a result.                                 *)
Abandon ==
  /\ stage \in {"running", "terminating"}
  /\ stage' = "ended"
  /\ verdict' = "abandoned"
  /\ LeaveToBackground
  /\ UNCHANGED leader

BackgroundReap ==
  /\ owner = "background"
  /\ leader = "dead"
  /\ leader' = "reaped"
  /\ owner' = "nobody"
  /\ UNCHANGED <<stage, verdict>>

Next == \/ Refuse \/ Spawn \/ LeaderDies \/ Terminate \/ Reap \/ Conclude
        \/ Abandon \/ BackgroundReap

(* An invocation that began to terminate ends, and a leader that was left   *)
(* to the background reaper does not stay a zombie.                         *)
Spec == /\ Init /\ [][Next]_vars
        /\ WF_vars(Conclude)
        /\ WF_vars(BackgroundReap)

=============================================================================
