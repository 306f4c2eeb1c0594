--------------------------- MODULE CommandPolicy ---------------------------
(***************************************************************************)
(* The typestate builder (command.rs, policy.rs) and `prepare`, which      *)
(* turns a command into a process to spawn.  The builder is owned by one   *)
(* thread, but what it is checked against is not: the environment of the   *)
(* parent process is changed by other threads, and the clock goes on.      *)
(* Arguments and the working directory are passed on as they are and left  *)
(* out; a program is "bare" when its path has one component and no root.   *)
(***************************************************************************)
EXTENDS Naturals, Sequences

CONSTANTS
  Keys,         (* names of environment variables                           *)
  Values,
  Path,         (* "PATH"                                                   *)
  Durations,    (* deadlines a caller may ask for                           *)
  LastInstant,  (* the last instant the monotonic clock can represent       *)
  MaxCalls      (* bound: calls of the builder                              *)

Unset == "unset"

ASSUME CommandPolicyAssumption ==
  /\ Path \in Keys
  /\ Unset \notin Values
  /\ Durations \subseteq Nat
  /\ LastInstant \in Nat
  /\ MaxCalls \in Nat

VARIABLES
  program,      (* "bare" or "located"                                      *)
  environment,  (* EnvironmentPolicy                                        *)
  envOps,       (* EnvOp, in the order of the calls                         *)
  customized,   (* streams whose CapturePolicy is not the default           *)
  redirected,   (* streams with a Stdio that is not a pipe                  *)
  execution,    (* ExecutionPolicy                                          *)
  phase,        (* the typestate, then the stage of prepare and execute     *)
  outcome,      (* "pending", "launched", or the PolicyViolation            *)
  calls,
  parent,       (* the environment of the parent process                    *)
  now,
  toCopy,       (* allowlisted keys still to be looked up                   *)
  child,        (* the environment of the process to spawn                  *)
  parentMoved,  (* history: the parent changed after the path was checked   *)
  acceptedAt    (* history: when the deadline was validated                 *)

builderVars == <<program, environment, envOps, customized, redirected, execution>>
prepareVars == <<toCopy, child>>
worldVars   == <<parent, now, parentMoved, acceptedAt>>
vars        == <<builderVars, phase, outcome, calls, prepareVars, worldVars>>

Streams == {"stdout", "stderr"}
Environments == [Keys -> Values \cup {Unset}]

(* Clean, Allowlist and InheritAll; the keys are those of the allowlist.    *)
Policies == [kind : {"clean", "inherit"}, keys : {{}}]
              \cup [kind : {"allowlist"}, keys : SUBSET Keys]

EnvOps == [key : Keys, value : Values \cup {Unset}]

Executions == [kind : {"undeclared", "unbounded"}, duration : {0}]
                \cup [kind : {"deadline"}, duration : Durations]
Undeclared == [kind |-> "undeclared", duration |-> 0]
Unbounded  == [kind |-> "unbounded", duration |-> 0]
Deadline(d) == [kind |-> "deadline", duration |-> d]

Typestates == {"draft", "ready", "streaming"}
Stages     == {"check", "copy", "prepared"}

TypeOK ==
  /\ program \in {"bare", "located"}
  /\ environment \in Policies
  /\ envOps \in Seq(EnvOps)
  /\ customized \subseteq Streams /\ redirected \subseteq Streams
  /\ execution \in Executions
  /\ phase \in Typestates \cup Stages \cup {"ended"}
  /\ outcome \in {"pending", "launched", "emptyReason", "deadlineOverflow",
                  "bareProgramWithoutPath", "capturePolicyWithStreaming"}
  /\ calls \in 0 .. MaxCalls
  /\ parent \in Environments /\ child \in Environments
  /\ now \in 0 .. LastInstant /\ acceptedAt \in 0 .. LastInstant
  /\ toCopy \subseteq Keys
  /\ parentMoved \in BOOLEAN

Empty == [k \in Keys |-> Unset]

(* Command::new: a clean environment and bounded capture.                   *)
Init ==
  /\ program \in {"bare", "located"}
  /\ environment = [kind |-> "clean", keys |-> {}]
  /\ envOps = <<>>
  /\ customized = {} /\ redirected = {}
  /\ execution = Undeclared
  /\ phase = "draft" /\ outcome = "pending"
  /\ calls = 0
  /\ parent \in Environments
  /\ now = 0 /\ acceptedAt = 0
  /\ toCopy = {} /\ child = Empty
  /\ parentMoved = FALSE

-----------------------------------------------------------------------------
(* The builder.  A call takes the command and, when it fails, keeps it.     *)

Call(from) ==
  /\ phase \in from
  /\ calls < MaxCalls
  /\ calls' = calls + 1
  /\ UNCHANGED <<program, prepareVars, parent, now, parentMoved>>

Refuse(violation) == phase' = "ended" /\ outcome' = violation

(* clean_environment, allow_environment, environment, inherit_environment.  *)
SetEnvironment ==
  /\ Call({"draft", "ready"})
  /\ \/ \E policy \in Policies :
          environment' = policy /\ UNCHANGED <<phase, outcome>>
     \/ Refuse("emptyReason") /\ UNCHANGED environment
  /\ UNCHANGED <<envOps, customized, redirected, execution, acceptedAt>>

(* env, envs, env_remove                                                    *)
PushEnvOp ==
  /\ Call({"draft", "ready"})
  /\ \E op \in EnvOps : envOps' = Append(envOps, op)
  /\ UNCHANGED <<environment, customized, redirected, execution, phase, outcome, acceptedAt>>

(* capture_stdout, capture_stderr, stdout, stderr: the last call counts.    *)
ConfigureStream ==
  /\ Call({"draft", "ready"})
  /\ \E s \in Streams :
       \/ customized' \in {customized \cup {s}, customized \ {s}} /\ UNCHANGED redirected
       \/ redirected' \in {redirected \cup {s}, redirected \ {s}} /\ UNCHANGED customized
  /\ UNCHANGED <<environment, envOps, execution, phase, outcome, acceptedAt>>

(* Instant::checked_add                                                     *)
Representable(duration) == now + duration <= LastInstant

(* A mutated validation: only Duration::MAX is refused.                     *)
ValidBelowMax(duration) == duration <= LastInstant

(* validate_deadline; Duration::MAX is never representable.                 *)
ValidDeadline(duration) == Representable(duration)

DeclareDeadline ==
  /\ Call({"draft"})
  /\ \E d \in Durations :
       IF ValidDeadline(d)
       THEN execution' = Deadline(d) /\ phase' = "ready" /\ acceptedAt' = now /\ UNCHANGED outcome
       ELSE Refuse("deadlineOverflow") /\ UNCHANGED <<execution, acceptedAt>>
  /\ UNCHANGED <<environment, envOps, customized, redirected>>

DeclareUnbounded ==
  /\ Call({"draft"})
  /\ \/ execution' = Unbounded /\ phase' = "ready" /\ UNCHANGED outcome
     \/ Refuse("emptyReason") /\ UNCHANGED execution
  /\ UNCHANGED <<environment, envOps, customized, redirected, acceptedAt>>

(* streaming rejects what managed streaming would silently discard.         *)
EnterStreaming ==
  /\ Call({"ready"})
  /\ IF customized # {} THEN Refuse("capturePolicyWithStreaming")
     ELSE phase' = "streaming" /\ UNCHANGED outcome
  /\ UNCHANGED <<environment, envOps, customized, redirected, execution, acceptedAt>>

-----------------------------------------------------------------------------
(* The environment the declared policy and operations stand for.            *)

Allows(k) == environment.kind = "inherit" \/ k \in environment.keys

(* The three loops over env_ops: the function gives what the loop has made  *)
(* of the first n operations.                                               *)

(* process.env and process.env_remove, after the base policy.               *)
Replay(ops, base) ==
  LET env[n \in 0 .. Len(ops)] ==
        IF n = 0 THEN base ELSE [env[n - 1] EXCEPT ![ops[n].key] = ops[n].value]
  IN  env[Len(ops)]

(* get_envs: the effective operation on every key that has one.             *)
Effective(ops) ==
  LET insert(map, op) == [k \in DOMAIN map \cup {op.key} |->
                            IF k = op.key THEN op.value ELSE map[k]]
      effective[n \in 0 .. Len(ops)] ==
        IF n = 0 THEN <<>> ELSE insert(effective[n - 1], ops[n])
  IN  effective[Len(ops)]

GetEnvs == Effective(envOps)

(* A mutated check: only setting the path is noticed, not its removal.      *)
PathSetByOps(ops, inherited) ==
  inherited \/ \E n \in DOMAIN ops : ops[n].key = Path /\ ops[n].value # Unset

(* The loop of validate_path_policy; `inherited` is what it starts from.    *)
PathAfter(ops, inherited) ==
  LET available[n \in 0 .. Len(ops)] ==
        IF n = 0 THEN inherited
        ELSE IF ops[n].key = Path THEN ops[n].value # Unset ELSE available[n - 1]
  IN  available[Len(ops)]

PathAvailable == PathAfter(envOps, Allows(Path) /\ parent[Path] # Unset)

-----------------------------------------------------------------------------
(* prepare and the start of execute.                                        *)

(* run, output, status, spawn of a ready command; spawn of a streaming one. *)
Run ==
  /\ phase \in {"ready", "streaming"}
  /\ phase' = "check"
  /\ UNCHANGED <<builderVars, outcome, calls, prepareVars, worldVars>>

(* validate_path_policy, then env_clear on a new process.                   *)
CheckPath ==
  /\ phase = "check"
  /\ IF program = "located" \/ PathAvailable
     THEN phase' = "copy" /\ UNCHANGED outcome
     ELSE Refuse("bareProgramWithoutPath")
  /\ toCopy' = environment.keys
  /\ child' = Empty
  /\ UNCHANGED <<builderVars, calls, worldVars>>

(* One lookup in the environment of the parent, in some order of the keys.  *)
CopyKey ==
  /\ phase = "copy"
  /\ \E k \in toCopy :
       /\ child' = [child EXCEPT ![k] = parent[k]]
       /\ toCopy' = toCopy \ {k}
  /\ UNCHANGED <<builderVars, phase, outcome, calls, worldVars>>

(* A mutated preparation: the parent's environment is not cleared.          *)
InheritedBase == [k \in Keys |-> IF child[k] # Unset THEN child[k] ELSE parent[k]]

(* The base environment; vars_os is one snapshot.                           *)
Base == IF environment.kind = "inherit" THEN parent ELSE child

FinishPrepare ==
  /\ phase = "copy"
  /\ toCopy = {}
  /\ child' = Replay(envOps, Base)
  /\ phase' = "prepared"
  /\ UNCHANGED <<builderVars, outcome, calls, toCopy, worldVars>>

(* ExecutionPolicy::deadline from the instant of the start, then the spawn. *)
Launch ==
  /\ phase = "prepared"
  /\ phase' = "ended"
  /\ outcome' = IF execution = Unbounded \/ Representable(execution.duration)
                THEN "launched" ELSE "deadlineOverflow"
  /\ UNCHANGED <<builderVars, calls, prepareVars, worldVars>>

(* std::env::set_var and remove_var by any thread of the program.           *)
ParentChanges ==
  /\ phase # "ended"
  /\ \E k \in Keys, v \in Values \cup {Unset} :
       v # parent[k] /\ parent' = [parent EXCEPT ![k] = v]
  /\ parentMoved' = (parentMoved \/ phase \in {"copy", "prepared"})
  /\ UNCHANGED <<builderVars, phase, outcome, calls, prepareVars, now, acceptedAt>>

Tick ==
  /\ phase # "ended"
  /\ now < LastInstant
  /\ now' = now + 1
  /\ UNCHANGED <<builderVars, phase, outcome, calls, prepareVars, parent, parentMoved, acceptedAt>>

(* A command may also be dropped, or kept, in any typestate.                *)
Finished == phase \in Typestates \cup {"ended"} /\ UNCHANGED vars

Next == \/ SetEnvironment \/ PushEnvOp \/ ConfigureStream
        \/ DeclareDeadline \/ DeclareUnbounded \/ EnterStreaming
        \/ Run \/ CheckPath \/ CopyKey \/ FinishPrepare \/ Launch
        \/ ParentChanges \/ Tick \/ Finished

Spec == Init /\ [][Next]_vars

-----------------------------------------------------------------------------

Launched == phase = "ended" /\ outcome = "launched"

(* The child sees what was declared and nothing else: on a key that has     *)
(* operations, what get_envs reports of them, in whatever order they and    *)
(* the policy were declared; on another key, the value of the parent if the *)
(* policy admits it, and never a value if it does not.                      *)
EnvironmentIsDeclared ==
  /\ TypeOK
  /\ Launched =>
       \A k \in Keys :
         /\ k \in DOMAIN GetEnvs => child[k] = GetEnvs[k]
         /\ k \notin DOMAIN GetEnvs =>
              /\ ~Allows(k) => child[k] = Unset
              /\ Allows(k) /\ ~parentMoved => child[k] = parent[k]

(* The check of the path agrees with the environment that is built after    *)
(* it, as long as the parent keeps its own: a bare program is started with  *)
(* a PATH, and is refused only if it would have had none.                   *)
PathPolicyAgrees ==
  program = "bare" /\ ~parentMoved =>
    /\ Launched => child[Path] # Unset
    /\ outcome = "bareProgramWithoutPath" =>
         Replay(envOps, [k \in Keys |-> IF Allows(k) THEN parent[k] ELSE Unset])[Path] = Unset

(* A deadline that was validated is refused by the start only because the   *)
(* clock went on in between: the two checks read it at different times.     *)
DeadlineRefusedLate ==
  outcome = "deadlineOverflow" /\ execution # Undeclared => now > acceptedAt

(* BareProgramWithoutPath (policy.rs): a lookup in PATH without making PATH *)
(* visible to the child is a violation detected before process creation.    *)
BareLookupHasPath == Launched /\ program = "bare" => child[Path] # Unset

=============================================================================
