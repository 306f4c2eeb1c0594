---------------------------- MODULE ProcessGroup ----------------------------
(***************************************************************************)
(* The operating system as the supervisor sees it: the child it spawns as  *)
(* leader of a process group of its own, the descendants of that child,    *)
(* and the two pipes they write to.  None of this is code of the           *)
(* repository; it is modelled from the calls the supervisor makes (spawn   *)
(* with process_group(0), kill_process_group, waitid, poll, read) and from *)
(* the outcomes it handles.                                                *)
(***************************************************************************)
EXTENDS Naturals, FiniteSets

CONSTANTS
  Descendants,   (* processes the leader, or a descendant, may fork        *)
  PipeCapacity,  (* bytes a pipe buffers before a writer blocks            *)
  Faults         (* the failures of the environment a behaviour may show   *)

FaultKinds == {"supervisorStart", "reaperStart", "deadline", "spawn", "nonblock",
               "interrupt", "poll", "read", "allocation", "signal", "hostReap",
               "panic"}

ASSUME ProcessGroupAssumption ==
  /\ IsFiniteSet(Descendants)
  /\ "leader" \notin Descendants
  /\ PipeCapacity \in Nat \ {0}
  /\ Faults \subseteq FaultKinds

VARIABLES
  proc,     (* life of each process; "killed": SIGKILL is pending           *)
  escaped,  (* descendants that left the leader's group through setsid      *)
  exit,     (* wait status of the leader, once it has exited                *)
  holders,  (* holders[s]: the processes with the write end of s open       *)
  pipe      (* pipe[s]: bytes written to s and not read yet                 *)

osVars == <<proc, escaped, exit, holders, pipe>>

Leader  == "leader"
Procs   == {Leader} \cup Descendants
Streams == {"stdout", "stderr"}

ProcStates == {"unborn", "running", "killed", "zombie", "gone"}
ExitStates == {"none", "zero", "nonzero"}

OsTypeOK ==
  /\ proc \in [Procs -> ProcStates]
  /\ escaped \in SUBSET Descendants
  /\ exit \in ExitStates
  /\ holders \in [Streams -> SUBSET Procs]
  /\ pipe \in [Streams -> 0 .. PipeCapacity]

OsInit ==
  /\ proc = [p \in Procs |-> "unborn"]
  /\ escaped = {}
  /\ exit = "none"
  /\ holders = [s \in Streams |-> {}]
  /\ pipe = [s \in Streams |-> 0]

-----------------------------------------------------------------------------
(* The leader exists, and has not been waited for, in these states: its     *)
(* process identifier, which names the group, cannot be reused meanwhile.   *)
LeaderUnreaped == proc[Leader] \in {"running", "killed", "zombie"}

(* The members a signal to the group reaches; a zombie is still a member.   *)
Group == {p \in Procs \ escaped : proc[p] \in {"running", "killed", "zombie"}}

(* spawn: the leader inherits the write end of every piped stream.          *)
LaunchLeader(piped) ==
  /\ proc' = [proc EXCEPT ![Leader] = "running"]
  /\ holders' = [s \in Streams |-> IF s \in piped THEN {Leader} ELSE {}]
  /\ UNCHANGED <<escaped, exit, pipe>>

(* SIGKILL to the group is atomic with respect to fork.                     *)
KillGroup ==
  proc' = [p \in Procs |-> IF p \in Group /\ proc[p] = "running"
                           THEN "killed" ELSE proc[p]]

-----------------------------------------------------------------------------
(* What the processes do on their own.                                      *)

Fork(p, d) ==
  /\ proc[p] = "running"
  /\ proc[d] = "unborn"
  /\ proc' = [proc EXCEPT ![d] = "running"]
  /\ escaped' = IF p \in escaped THEN escaped \cup {d} ELSE escaped
  /\ holders' = [s \in Streams |-> IF p \in holders[s] THEN holders[s] \cup {d}
                                   ELSE holders[s]]
  /\ UNCHANGED <<exit, pipe>>

(* A group leader cannot call setsid; a descendant can.                     *)
Escape(d) ==
  /\ proc[d] = "running"
  /\ d \notin escaped
  /\ escaped' = escaped \cup {d}
  /\ UNCHANGED <<proc, exit, holders, pipe>>

CloseOutput(p, s) ==
  /\ proc[p] = "running"
  /\ p \in holders[s]
  /\ holders' = [holders EXCEPT ![s] = @ \ {p}]
  /\ UNCHANGED <<proc, escaped, exit, pipe>>

Write(p, s) ==
  /\ proc[p] = "running"
  /\ p \in holders[s]
  /\ pipe[s] < PipeCapacity
  /\ pipe' = [pipe EXCEPT ![s] = @ + 1]
  /\ UNCHANGED <<proc, escaped, exit, holders>>

(* A dead leader stays a zombie until somebody waits for it; a dead         *)
(* descendant is waited for by its own parent or by init.                   *)
Ends(p, code) ==
  /\ proc' = [proc EXCEPT ![p] = IF p = Leader THEN "zombie" ELSE "gone"]
  /\ exit' = IF p = Leader THEN code ELSE exit
  /\ holders' = [s \in Streams |-> holders[s] \ {p}]
  /\ UNCHANGED <<escaped, pipe>>

Exit(p) ==
  /\ proc[p] = "running"
  /\ \E code \in {"zero", "nonzero"} : Ends(p, code)

Die(p) == proc[p] = "killed" /\ Ends(p, "nonzero")

(* The embedding program waits for any child (or ignores SIGCHLD), and so   *)
(* takes the status the supervisor was going to collect.                    *)
HostReap ==
  /\ "hostReap" \in Faults
  /\ proc[Leader] = "zombie"
  /\ proc' = [proc EXCEPT ![Leader] = "gone"]
  /\ UNCHANGED <<escaped, exit, holders, pipe>>

(* Every step of the processes but Write, which needs an open read end.     *)
ProcessStep ==
  \/ \E p \in Procs, d \in Descendants : Fork(p, d)
  \/ \E d \in Descendants : Escape(d)
  \/ \E p \in Procs, s \in Streams : CloseOutput(p, s)
  \/ \E p \in Procs : Exit(p)
  \/ \E p \in Procs : Die(p)
  \/ HostReap

=============================================================================
