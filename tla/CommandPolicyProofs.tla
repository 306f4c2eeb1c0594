------------------------ MODULE CommandPolicyProofs ------------------------
(***************************************************************************)
(* Theorems about CommandPolicy for every set of keys, values and          *)
(* durations, and every number of calls.  The loops over env_ops are       *)
(* recursive functions of the number of operations done; what they compute *)
(* is proved by induction on that number, stated for a set of numbers and  *)
(* derived from the well-foundedness of Nat (a minimal counterexample).    *)
(***************************************************************************)
EXTENDS CommandPolicy, WellFoundedInduction, TLAPS

-----------------------------------------------------------------------------
(* Induction and recursion over the first n elements of a sequence.         *)

LEMMA PrefixInduction ==
  ASSUME NEW N \in Nat, NEW T,
         0 \in T,
         \A n \in 1 .. N : n - 1 \in T => n \in T
  PROVE  0 .. N \subseteq T
<1> SUFFICES ASSUME (0 .. N) \ T # {} PROVE FALSE
  OBVIOUS
<1>1. (0 .. N) \ T \subseteq Nat
  OBVIOUS
<1>2. PICK x \in (0 .. N) \ T : \A y \in (0 .. N) \ T : <<y, x>> \notin OpToRel(<, Nat)
  BY <1>1, NatLessThanWellFounded, WFMin
<1>3. x \in 1 .. N /\ x - 1 \in 0 .. N
  OBVIOUS
<1>4. <<x - 1, x>> \in OpToRel(<, Nat)
  BY <1>3 DEF OpToRel
<1>5. x - 1 \in T
  BY <1>2, <1>3, <1>4
<1> QED
  BY <1>3, <1>5

(* A loop: what the body `step[n]` makes of the state after n - 1 rounds.   *)
Bodies(S, N) == [1 .. N -> [S -> S]]
Loop(f, S, N, base, step) ==
  /\ f \in [0 .. N -> S]
  /\ \A n \in 0 .. N : f[n] = IF n = 0 THEN base ELSE step[n][f[n - 1]]

(* A loop over N elements has a result: the recursive function exists.      *)
LEMMA PrefixRecursion ==
  ASSUME NEW S, NEW N \in Nat, NEW base \in S, NEW step \in Bodies(S, N)
  PROVE  \E f : Loop(f, S, N, base, step)
<1> USE DEF Bodies
<1> DEFINE Solves(f, m) == \A n \in 0 .. m : f[n] = IF n = 0 THEN base ELSE step[n][f[n - 1]]
           Solved(m) == \E f \in [0 .. m -> S] : Solves(f, m)
           T == {m \in 0 .. N : Solved(m)}
<1>1. Solved(0)
  <2>1. [n \in 0 .. 0 |-> base] \in [0 .. 0 -> S] /\ Solves([n \in 0 .. 0 |-> base], 0)
    OBVIOUS
  <2> QED
    BY <2>1
<1>2. ASSUME NEW m \in 1 .. N, Solved(m - 1) PROVE Solved(m)
  <2>1. PICK f \in [0 .. m - 1 -> S] : Solves(f, m - 1)
    BY <1>2
  <2> DEFINE g == [n \in 0 .. m |-> IF n = m THEN step[m][f[m - 1]] ELSE f[n]]
  <2>2. g \in [0 .. m -> S]
    OBVIOUS
  <2>3. ASSUME NEW n \in 0 .. m PROVE g[n] = IF n = 0 THEN base ELSE step[n][g[n - 1]]
    <3>1. CASE n = m
      BY <3>1
    <3>2. CASE n \in 0 .. m - 1
      <4>1. n # 0 => n - 1 \in 0 .. m - 1
        BY <3>2
      <4> QED
        BY <2>1, <3>2, <4>1
    <3> QED
      BY <3>1, <3>2
  <2> QED
    BY <2>2, <2>3
<1>3. 0 .. N \subseteq T
  <2>1. 0 \in T /\ \A m \in 1 .. N : m - 1 \in T => m \in T
    <3> HIDE DEF Solved
    <3> QED
      BY <1>1, <1>2
  <2> HIDE DEF T
  <2> QED
    BY <2>1, PrefixInduction
<1>4. Solved(N)
  BY <1>3
<1> QED
  BY <1>4 DEF Loop

-----------------------------------------------------------------------------
(* The three loops over env_ops.                                            *)

LEMMA OpsType ==
  ASSUME NEW ops \in Seq(EnvOps), NEW n \in 1 .. Len(ops)
  PROVE  ops[n].key \in Keys /\ ops[n].value \in Values \cup {Unset}
<1>1. ops[n] \in EnvOps
  OBVIOUS
<1> QED
  BY <1>1 DEF EnvOps

LEMMA ReplayLoop ==
  ASSUME NEW ops \in Seq(EnvOps), NEW base \in Environments
  PROVE  \E env \in [0 .. Len(ops) -> Environments] :
           /\ env[0] = base
           /\ \A n \in 1 .. Len(ops) : \A k \in Keys :
                env[n][k] = IF k = ops[n].key THEN ops[n].value ELSE env[n - 1][k]
           /\ Replay(ops, base) = env[Len(ops)]
<1> DEFINE N == Len(ops)
           Put(e, n) == [e EXCEPT ![ops[n].key] = ops[n].value]
           step == [n \in 1 .. N |-> [e \in Environments |-> Put(e, n)]]
           Solves(f) == f = [n \in 0 .. N |-> IF n = 0 THEN base ELSE Put(f[n - 1], n)]
           env == CHOOSE f : Solves(f)
<1>1. N \in Nat
  OBVIOUS
<1>2. \A n \in 1 .. N : \A e \in Environments : Put(e, n) \in Environments
  BY OpsType DEF Environments
<1>3. Replay(ops, base) = env[N]
  BY DEF Replay
<1> HIDE DEF N, Put, env
<1>4. step \in Bodies(Environments, N)
  BY <1>2 DEF Bodies
<1>5. PICK f : Loop(f, Environments, N, base, step)
  <2> HIDE DEF step
  <2> QED
    BY <1>1, <1>4, PrefixRecursion
<1>6. Solves(f)
  <2>1. ASSUME NEW n \in 1 .. N PROVE step[n][f[n - 1]] = Put(f[n - 1], n)
    BY <1>1, <1>5 DEF Loop
  <2> HIDE DEF step
  <2>2. /\ f \in [0 .. N -> Environments]
        /\ \A n \in 0 .. N : f[n] = IF n = 0 THEN base ELSE Put(f[n - 1], n)
    BY <1>1, <1>5, <2>1 DEF Loop
  <2> QED
    BY <2>2
<1>7. Solves(env)
  BY <1>6 DEF env
<1>8. env[0] = base /\ \A n \in 1 .. N : env[n] = Put(env[n - 1], n)
  BY <1>1, <1>7
<1>9. \A n \in 0 .. N : env[n] \in Environments
  <2> DEFINE T == {n \in 0 .. N : env[n] \in Environments}
  <2>1. 0 \in T /\ \A n \in 1 .. N : n - 1 \in T => n \in T
    BY <1>1, <1>2, <1>8
  <2> HIDE DEF T
  <2>2. 0 .. N \subseteq T
    BY <1>1, <2>1, PrefixInduction
  <2> QED
    BY <2>2 DEF T
<1>10. env \in [0 .. N -> Environments]
  BY <1>7, <1>9
<1>11. ASSUME NEW n \in 1 .. N
       PROVE  \A k \in Keys :
                env[n][k] = IF k = ops[n].key THEN ops[n].value ELSE env[n - 1][k]
  <2> DEFINE op == ops[n]
             e == env[n - 1]
             g == env[n]
  <2>1. e \in Environments
    BY <1>1, <1>9
  <2>2. g = Put(e, n)
    BY <1>8
  <2>3. Put(e, n) = [e EXCEPT ![op.key] = op.value]
    BY DEF Put
  <2> HIDE DEF op, e, g
  <2>4. \A k \in Keys : g[k] = IF k = op.key THEN op.value ELSE e[k]
    BY <2>1, <2>2, <2>3 DEF Environments
  <2> QED
    BY <2>4 DEF op, e, g
<1> QED
  BY <1>3, <1>8, <1>10, <1>11 DEF N

(* What get_envs reports is what prepare makes of the operations: the keys  *)
(* it has are the ones the loop of prepare may have changed.                *)
LEMMA EffectiveLoop ==
  ASSUME NEW ops \in Seq(EnvOps), NEW base \in Environments, NEW k \in Keys
  PROVE  Replay(ops, base)[k] =
           IF k \in DOMAIN Effective(ops) THEN Effective(ops)[k] ELSE base[k]
<1> DEFINE N == Len(ops)
           Insert(m, op) == [x \in DOMAIN m \cup {op.key} |->
                               IF x = op.key THEN op.value ELSE m[x]]
           Solves(f) == f = [n \in 0 .. N |-> IF n = 0 THEN <<>> ELSE Insert(f[n - 1], ops[n])]
           effective == CHOOSE f : Solves(f)
           Written(n) == {ops[i].key : i \in 1 .. n}
<1>1. N \in Nat
  OBVIOUS
<1>2. Effective(ops) = effective[N]
  BY DEF Effective
<1>3. PICK env \in [0 .. N -> Environments] :
          /\ env[0] = base
          /\ \A n \in 1 .. N : \A x \in Keys :
               env[n][x] = IF x = ops[n].key THEN ops[n].value ELSE env[n - 1][x]
          /\ Replay(ops, base) = env[N]
  BY ReplayLoop
<1>4. \A n \in 1 .. N : ops[n].key \in Keys /\ n - 1 \in 0 .. N /\ n \in 0 .. N
  BY OpsType
<1> HIDE DEF N, effective
<1> DEFINE f == [n \in 0 .. N |-> [x \in Written(n) |-> env[n][x]]]
<1>5. \A n \in 1 .. N : Written(n) = Written(n - 1) \cup {ops[n].key}
  BY <1>1
<1>6. \A n \in 0 .. N : Written(n) \subseteq Keys
  BY <1>1, <1>4
<1>7. f[0] = <<>>
  BY <1>1
<1>8. ASSUME NEW n \in 1 .. N PROVE f[n] = Insert(f[n - 1], ops[n])
  <2>1. /\ f[n] = [x \in Written(n) |-> env[n][x]]
        /\ f[n - 1] = [x \in Written(n - 1) |-> env[n - 1][x]]
    BY <1>4
  <2>2. \A x \in Written(n) :
          env[n][x] = IF x = ops[n].key THEN ops[n].value ELSE env[n - 1][x]
    BY <1>3, <1>4, <1>6
  <2> HIDE DEF Written, f
  <2> QED
    BY <1>5, <2>1, <2>2
<1> HIDE DEF Insert, Written
<1>9. Solves(f)
  <2>1. \A n \in 0 .. N : f[n] = IF n = 0 THEN <<>> ELSE Insert(f[n - 1], ops[n])
    <3> HIDE DEF f
    <3> QED
      BY <1>1, <1>7, <1>8
  <2> QED
    BY <2>1
<1>10. Solves(effective)
  <2> HIDE DEF f
  <2> QED
    BY <1>9 DEF effective
<1> HIDE DEF f
<1>11. effective[0] = <<>> /\ \A n \in 1 .. N : effective[n] = Insert(effective[n - 1], ops[n])
  BY <1>1, <1>10
<1>12. effective[N] = f[N]
  <2> DEFINE T == {n \in 0 .. N : effective[n] = f[n]}
  <2>1. 0 \in T /\ \A n \in 1 .. N : n - 1 \in T => n \in T
    BY <1>1, <1>7, <1>8, <1>11
  <2> HIDE DEF T
  <2>2. 0 .. N \subseteq T
    BY <1>1, <2>1, PrefixInduction
  <2> QED
    BY <1>1, <2>2 DEF T
<1>13. k \notin Written(N) => env[N][k] = base[k]
  <2> DEFINE T == {n \in 0 .. N : k \notin Written(n) => env[n][k] = base[k]}
  <2>1. 0 \in T /\ \A n \in 1 .. N : n - 1 \in T => n \in T
    BY <1>1, <1>3, <1>4, <1>5
  <2> HIDE DEF T
  <2>2. 0 .. N \subseteq T
    BY <1>1, <2>1, PrefixInduction
  <2> QED
    BY <1>1, <2>2 DEF T
<1>14. f[N] = [x \in Written(N) |-> env[N][x]]
  BY <1>1 DEF f
<1> QED
  BY <1>2, <1>3, <1>12, <1>13, <1>14

(* The check of the path finds what the child will have.                    *)
LEMMA PathLoop ==
  ASSUME NEW ops \in Seq(EnvOps), NEW base \in Environments
  PROVE  PathAfter(ops, base[Path] # Unset) = (Replay(ops, base)[Path] # Unset)
<1> DEFINE N == Len(ops)
           Solves(f) == f = [n \in 0 .. N |->
                               IF n = 0 THEN base[Path] # Unset
                               ELSE IF ops[n].key = Path THEN ops[n].value # Unset
                               ELSE f[n - 1]]
           available == CHOOSE f : Solves(f)
<1>1. N \in Nat
  OBVIOUS
<1>2. PathAfter(ops, base[Path] # Unset) = available[N]
  BY DEF PathAfter
<1>3. PICK env \in [0 .. N -> Environments] :
          /\ env[0] = base
          /\ \A n \in 1 .. N : \A x \in Keys :
               env[n][x] = IF x = ops[n].key THEN ops[n].value ELSE env[n - 1][x]
          /\ Replay(ops, base) = env[N]
  BY ReplayLoop
<1> HIDE DEF N, available
<1> DEFINE f == [n \in 0 .. N |-> env[n][Path] # Unset]
<1>4. \A n \in 1 .. N : n - 1 \in 0 .. N /\ n \in 0 .. N
  BY <1>1
<1>5. \A n \in 1 .. N :
        env[n][Path] = IF ops[n].key = Path THEN ops[n].value ELSE env[n - 1][Path]
  <2> HIDE DEF f
  <2> QED
    BY <1>3, CommandPolicyAssumption
<1>6. /\ f[0] = (base[Path] # Unset)
      /\ \A n \in 1 .. N : f[n] = IF ops[n].key = Path THEN ops[n].value # Unset ELSE f[n - 1]
  BY <1>1, <1>3, <1>4, <1>5
<1>7. Solves(f)
  <2>1. \A n \in 0 .. N : f[n] = IF n = 0 THEN base[Path] # Unset
                                 ELSE IF ops[n].key = Path THEN ops[n].value # Unset
                                 ELSE f[n - 1]
    <3> HIDE DEF f
    <3> QED
      BY <1>1, <1>6
  <2> QED
    BY <2>1
<1>8. Solves(available)
  <2> HIDE DEF f
  <2> QED
    BY <1>7 DEF available
<1> HIDE DEF f
<1>9. /\ available[0] = (base[Path] # Unset)
      /\ \A n \in 1 .. N :
           available[n] = IF ops[n].key = Path THEN ops[n].value # Unset ELSE available[n - 1]
  BY <1>1, <1>8
<1>10. available[N] = f[N]
  <2> DEFINE T == {n \in 0 .. N : available[n] = f[n]}
  <2>1. 0 \in T /\ \A n \in 1 .. N : n - 1 \in T => n \in T
    BY <1>1, <1>6, <1>9
  <2> HIDE DEF T
  <2>2. 0 .. N \subseteq T
    BY <1>1, <2>1, PrefixInduction
  <2> QED
    BY <1>1, <2>2 DEF T
<1>11. f[N] = (env[N][Path] # Unset)
  BY <1>1 DEF f
<1> QED
  BY <1>2, <1>3, <1>10, <1>11

-----------------------------------------------------------------------------
(* The inductive invariant.                                                 *)

(* Until the process is started or the command refused, nothing is decided, *)
(* and the parent is only watched from the check of the path on.            *)
Undecided ==
  /\ phase # "ended" => outcome = "pending"
  /\ parentMoved => phase \in {"copy", "prepared", "ended"}

(* While the keys are copied, the child has those that were looked up.      *)
Copying ==
  phase = "copy" =>
    /\ toCopy \subseteq environment.keys
    /\ \A k \in Keys :
         IF k \in environment.keys \ toCopy THEN ~parentMoved => child[k] = parent[k]
                                            ELSE child[k] = Unset
    /\ program = "bare" /\ ~parentMoved => PathAvailable

(* From the end of prepare on, the child has what was declared.             *)
Declared ==
  \A k \in Keys :
    /\ k \in DOMAIN GetEnvs => child[k] = GetEnvs[k]
    /\ k \notin DOMAIN GetEnvs =>
         /\ ~Allows(k) => child[k] = Unset
         /\ Allows(k) /\ ~parentMoved => child[k] = parent[k]

Prepared ==
  phase = "prepared" \/ Launched =>
    /\ Declared
    /\ program = "bare" /\ ~parentMoved => child[Path] # Unset

Refused == outcome = "bareProgramWithoutPath" => ~PathAvailable

(* A deadline was representable when it was declared.                       *)
Accepted ==
  /\ acceptedAt <= now
  /\ phase = "draft" => execution = Undeclared
  /\ execution.kind = "deadline" => acceptedAt + execution.duration <= LastInstant

IInv == TypeOK /\ Undecided /\ Copying /\ Prepared /\ Refused
          /\ Accepted /\ DeadlineRefusedLate

-----------------------------------------------------------------------------
(* Types.                                                                   *)

LEMMA PolicyParts ==
  ASSUME environment \in Policies
  PROVE  /\ environment.keys \subseteq Keys
         /\ environment.kind = "inherit" => environment.keys = {}
BY DEF Policies

LEMMA ExecutionParts ==
  ASSUME execution \in Executions
  PROVE  /\ execution \in {Undeclared, Unbounded} \/ execution.kind = "deadline"
         /\ execution.duration \in Nat
<1>1. CASE execution \in [kind : {"undeclared", "unbounded"}, duration : {0}]
  <2>1. execution = [kind |-> execution.kind, duration |-> execution.duration]
    BY <1>1
  <2> QED
    BY <1>1, <2>1 DEF Undeclared, Unbounded
<1>2. CASE execution \in [kind : {"deadline"}, duration : Durations]
  BY <1>2, CommandPolicyAssumption
<1> QED
  BY <1>1, <1>2 DEF Executions

LEMMA ReplayType ==
  ASSUME NEW ops \in Seq(EnvOps), NEW base \in Environments
  PROVE  Replay(ops, base) \in Environments
<1>1. Len(ops) \in 0 .. Len(ops)
  OBVIOUS
<1> QED
  BY <1>1, ReplayLoop

LEMMA BaseType ==
  ASSUME TypeOK
  PROVE  Base \in Environments
BY DEF TypeOK, Base

LEMMA EmptyType == Empty \in Environments
BY DEF Empty, Environments

LEMMA TypeStep ==
  ASSUME TypeOK, Next
  PROVE  TypeOK'
<1> USE CommandPolicyAssumption DEF builderVars, prepareVars, worldVars, Typestates, Stages
<1>1. CASE SetEnvironment
  BY <1>1 DEF SetEnvironment, Call, Refuse, TypeOK
<1>2. CASE PushEnvOp
  BY <1>2 DEF PushEnvOp, Call, TypeOK
<1>3. CASE ConfigureStream
  <2>1. customized' \subseteq Streams /\ redirected' \subseteq Streams
    BY <1>3, Zenon DEF ConfigureStream, TypeOK
  <2> QED
    BY <1>3, <2>1 DEF ConfigureStream, Call, TypeOK
<1>4. CASE DeclareDeadline
  <2>1. PICK d \in Durations :
          IF ValidDeadline(d)
          THEN /\ execution' = Deadline(d) /\ phase' = "ready"
               /\ acceptedAt' = now /\ UNCHANGED outcome
          ELSE Refuse("deadlineOverflow") /\ UNCHANGED <<execution, acceptedAt>>
    BY <1>4 DEF DeclareDeadline
  <2>2. Deadline(d) \in Executions
    BY DEF Deadline, Executions
  <2> QED
    BY <1>4, <2>1, <2>2 DEF DeclareDeadline, Call, Refuse, TypeOK
<1>5. CASE DeclareUnbounded
  <2>1. Unbounded \in Executions
    BY DEF Unbounded, Executions
  <2> QED
    BY <1>5, <2>1 DEF DeclareUnbounded, Call, Refuse, TypeOK
<1>6. CASE EnterStreaming
  BY <1>6 DEF EnterStreaming, Call, Refuse, TypeOK
<1>7. CASE Run
  BY <1>7 DEF Run, TypeOK
<1>8. CASE CheckPath
  <2>1. toCopy' \subseteq Keys
    BY <1>8, PolicyParts DEF CheckPath, TypeOK
  <2> QED
    BY <1>8, <2>1, EmptyType DEF CheckPath, Refuse, TypeOK
<1>9. CASE CopyKey
  <2>1. PICK k \in toCopy : child' = [child EXCEPT ![k] = parent[k]] /\ toCopy' = toCopy \ {k}
    BY <1>9 DEF CopyKey
  <2>2. child' \in Environments
    BY <2>1 DEF TypeOK, Environments
  <2> QED
    BY <1>9, <2>1, <2>2 DEF CopyKey, TypeOK
<1>10. CASE FinishPrepare
  <2>1. child' \in Environments
    BY <1>10, BaseType, ReplayType DEF FinishPrepare, TypeOK
  <2> QED
    BY <1>10, <2>1 DEF FinishPrepare, TypeOK
<1>11. CASE Launch
  BY <1>11 DEF Launch, TypeOK
<1>12. CASE ParentChanges
  <2>1. parent' \in Environments
    BY <1>12 DEF ParentChanges, TypeOK, Environments
  <2> QED
    BY <1>12, <2>1 DEF ParentChanges, TypeOK
<1>13. CASE Tick
  BY <1>13 DEF Tick, TypeOK
<1>14. CASE Finished
  BY <1>14 DEF Finished, vars, TypeOK
<1> QED
  BY <1>1, <1>2, <1>3, <1>4, <1>5, <1>6, <1>7, <1>8, <1>9, <1>10, <1>11, <1>12, <1>13, <1>14
     DEF Next

-----------------------------------------------------------------------------
(* The invariant holds at first, and every step keeps each of its parts.    *)

LEMMA InitInv == Init => IInv
<1> SUFFICES ASSUME Init PROVE IInv
  OBVIOUS
<1> USE CommandPolicyAssumption DEF Init
<1>1. TypeOK
  <2>1. environment \in Policies
    BY DEF Policies
  <2>2. execution \in Executions
    BY DEF Executions, Undeclared
  <2>3. envOps \in Seq(EnvOps)
    OBVIOUS
  <2>4. calls \in 0 .. MaxCalls /\ now \in 0 .. LastInstant /\ acceptedAt \in 0 .. LastInstant
    OBVIOUS
  <2> QED
    BY <2>1, <2>2, <2>3, <2>4, EmptyType DEF TypeOK, Typestates
<1>2. Undecided /\ Copying /\ Prepared /\ Refused
  BY DEF Undecided, Copying, Prepared, Refused, Launched
<1>3. Accepted /\ DeadlineRefusedLate
  BY DEF Accepted, DeadlineRefusedLate, Undeclared
<1> QED
  BY <1>1, <1>2, <1>3 DEF IInv

LEMMA UndecidedStep ==
  ASSUME IInv, Next
  PROVE  Undecided'
<1> USE DEF IInv, Undecided, Next, Call, Refuse, builderVars, prepareVars, worldVars
<1>1. CASE SetEnvironment \/ PushEnvOp \/ ConfigureStream
  BY <1>1 DEF SetEnvironment, PushEnvOp, ConfigureStream
<1>2. CASE DeclareDeadline \/ DeclareUnbounded \/ EnterStreaming
  BY <1>2 DEF DeclareDeadline, DeclareUnbounded, EnterStreaming
<1>3. CASE Run \/ CheckPath \/ CopyKey \/ FinishPrepare \/ Launch
  BY <1>3 DEF Run, CheckPath, CopyKey, FinishPrepare, Launch
<1>4. CASE ParentChanges
  <2>1. parentMoved' => parentMoved \/ phase \in {"copy", "prepared"}
    BY <1>4, Zenon DEF ParentChanges
  <2>2. phase' = phase /\ outcome' = outcome
    BY <1>4 DEF ParentChanges
  <2> QED
    BY <2>1, <2>2
<1>5. CASE Tick \/ Finished
  BY <1>5 DEF Tick, Finished, vars
<1> QED
  BY <1>1, <1>2, <1>3, <1>4, <1>5

LEMMA CopyingStep ==
  ASSUME IInv, Next
  PROVE  Copying'
<1> USE DEF Copying, builderVars, prepareVars, worldVars
<1>1. CASE SetEnvironment \/ PushEnvOp \/ ConfigureStream
  BY <1>1 DEF SetEnvironment, PushEnvOp, ConfigureStream, Call, Refuse
<1>2. CASE DeclareDeadline \/ DeclareUnbounded \/ EnterStreaming
  BY <1>2 DEF DeclareDeadline, DeclareUnbounded, EnterStreaming, Call, Refuse
<1>3. CASE Run \/ FinishPrepare \/ Launch
  BY <1>3 DEF Run, FinishPrepare, Launch
<1>4. CASE CheckPath
  <2>1. \A k \in Keys : child'[k] = Unset
    BY <1>4 DEF CheckPath, Empty
  <2>2. PathAvailable' = PathAvailable
    BY <1>4 DEF CheckPath, PathAvailable, Allows
  <2> QED
    BY <1>4, <2>1, <2>2 DEF CheckPath, Refuse
<1>5. CASE CopyKey
  <2>1. PICK k \in toCopy : child' = [child EXCEPT ![k] = parent[k]] /\ toCopy' = toCopy \ {k}
    BY <1>5 DEF CopyKey
  <2>2. k \in environment.keys /\ k \in Keys
    BY <1>5, PolicyParts DEF CopyKey, IInv, TypeOK
  <2>3. \A x \in Keys : child'[x] = IF x = k THEN parent[k] ELSE child[x]
    BY <2>1 DEF IInv, TypeOK, Environments
  <2>4. PathAvailable' = PathAvailable
    BY <1>5 DEF CopyKey, PathAvailable, Allows
  <2> QED
    BY <1>5, <2>1, <2>2, <2>3, <2>4 DEF CopyKey, IInv
<1>6. CASE ParentChanges
  <2>1. phase = "copy" => parentMoved'
    BY <1>6 DEF ParentChanges
  <2> QED
    BY <1>6, <2>1 DEF ParentChanges, IInv
<1>7. CASE Tick \/ Finished
  <2>1. PathAvailable' = PathAvailable
    BY <1>7 DEF Tick, Finished, vars, PathAvailable, Allows
  <2> QED
    BY <1>7, <2>1 DEF Tick, Finished, vars, IInv
<1> QED
  BY <1>1, <1>2, <1>3, <1>4, <1>5, <1>6, <1>7 DEF Next

(* Once the keys are copied, the base of the child is what the policy       *)
(* admits of the parent, as long as the parent has kept its environment.    *)
LEMMA BaseIsAdmitted ==
  ASSUME IInv, phase = "copy", toCopy = {}, NEW k \in Keys
  PROVE  /\ ~Allows(k) => Base[k] = Unset
         /\ Allows(k) /\ ~parentMoved => Base[k] = parent[k]
<1>1. environment.kind = "inherit" => environment.keys = {}
  BY PolicyParts DEF IInv, TypeOK
<1> QED
  BY <1>1 DEF IInv, Copying, Allows, Base

(* What prepare builds is what was declared.                                *)
LEMMA FinishDeclares ==
  ASSUME IInv, FinishPrepare
  PROVE  Prepared'
<1>1. envOps \in Seq(EnvOps) /\ Base \in Environments
  BY BaseType DEF IInv, TypeOK
<1>2. child' = Replay(envOps, Base)
  BY DEF FinishPrepare
<1>3. UNCHANGED <<program, environment, envOps, parent, parentMoved>>
  BY DEF FinishPrepare, builderVars, worldVars
<1>4. phase = "copy" /\ toCopy = {}
  BY DEF FinishPrepare
<1>5. ASSUME NEW k \in Keys
      PROVE  child'[k] = IF k \in DOMAIN GetEnvs THEN GetEnvs[k] ELSE Base[k]
  BY <1>1, <1>2, EffectiveLoop DEF GetEnvs
<1>6. Declared'
  <2>1. GetEnvs' = GetEnvs
    BY <1>3 DEF GetEnvs
  <2>2. \A k \in Keys : Allows(k)' = Allows(k)
    BY <1>3 DEF Allows
  <2> QED
    BY <1>3, <1>4, <1>5, <2>1, <2>2, BaseIsAdmitted DEF Declared
<1>7. program = "bare" /\ ~parentMoved => child'[Path] # Unset
  <2> SUFFICES ASSUME program = "bare", ~parentMoved PROVE child'[Path] # Unset
    OBVIOUS
  <2>1. (Base[Path] # Unset) = (Allows(Path) /\ parent[Path] # Unset)
    BY <1>4, BaseIsAdmitted, CommandPolicyAssumption
  <2>2. PathAvailable
    BY <1>4 DEF IInv, Copying
  <2>3. PathAfter(envOps, Base[Path] # Unset)
    BY <2>1, <2>2 DEF PathAvailable
  <2> QED
    BY <1>1, <1>2, <2>3, PathLoop
<1> QED
  BY <1>3, <1>6, <1>7 DEF Prepared

LEMMA PreparedStep ==
  ASSUME IInv, Next
  PROVE  Prepared'
<1> USE DEF Launched, builderVars, prepareVars, worldVars
<1>1. CASE SetEnvironment \/ PushEnvOp \/ ConfigureStream
  BY <1>1 DEF SetEnvironment, PushEnvOp, ConfigureStream, Call, Refuse, IInv, Undecided, Prepared
<1>2. CASE DeclareDeadline \/ DeclareUnbounded \/ EnterStreaming
  BY <1>2 DEF DeclareDeadline, DeclareUnbounded, EnterStreaming, Call, Refuse, IInv, Undecided,
              Prepared
<1>3. CASE Run \/ CheckPath \/ CopyKey
  BY <1>3 DEF Run, CheckPath, CopyKey, Refuse, IInv, Undecided, Prepared
<1>4. CASE FinishPrepare
  BY <1>4, FinishDeclares
<1>5. CASE Launch \/ Tick \/ Finished
  <2>1. UNCHANGED <<builderVars, child, parent, parentMoved>>
    BY <1>5 DEF Launch, Tick, Finished, vars
  <2>2. phase' = "prepared" \/ Launched' => phase = "prepared" \/ Launched
    BY <1>5 DEF Launch, Tick, Finished, vars
  <2>3. Declared' = Declared
    BY <2>1 DEF Declared, GetEnvs, Allows
  <2> QED
    BY <2>1, <2>2, <2>3 DEF IInv, Prepared
<1>6. CASE ParentChanges
  <2>1. UNCHANGED <<builderVars, child, phase, outcome>> /\ phase # "ended"
    BY <1>6 DEF ParentChanges
  <2>2. phase = "prepared" => parentMoved'
    BY <1>6 DEF ParentChanges
  <2>3. GetEnvs' = GetEnvs /\ \A k \in Keys : Allows(k)' = Allows(k)
    BY <2>1 DEF GetEnvs, Allows
  <2>4. phase = "prepared" => Declared'
    BY <2>1, <2>2, <2>3 DEF IInv, Prepared, Declared
  <2> QED
    BY <2>1, <2>2, <2>4 DEF Prepared
<1> QED
  BY <1>1, <1>2, <1>3, <1>4, <1>5, <1>6 DEF Next

(* A command is refused once, by the check itself; it ends there.           *)
LEMMA RefusedStep ==
  ASSUME IInv, Next
  PROVE  Refused'
<1> USE DEF builderVars, prepareVars, worldVars
<1>1. CASE SetEnvironment \/ PushEnvOp \/ ConfigureStream
  BY <1>1 DEF SetEnvironment, PushEnvOp, ConfigureStream, Call, Refuse, IInv, Undecided,
              Refused, Typestates
<1>2. CASE DeclareDeadline \/ DeclareUnbounded \/ EnterStreaming
  BY <1>2 DEF DeclareDeadline, DeclareUnbounded, EnterStreaming, Call, Refuse, IInv, Undecided,
              Refused
<1>3. CASE CheckPath
  <2>1. PathAvailable' = PathAvailable
    BY <1>3 DEF CheckPath, PathAvailable, Allows
  <2> QED
    BY <1>3, <2>1 DEF CheckPath, Refuse, IInv, Undecided, Refused
<1>4. CASE Run \/ CopyKey \/ FinishPrepare \/ Launch
  BY <1>4 DEF Run, CopyKey, FinishPrepare, Launch, IInv, Undecided, Refused
<1>5. CASE ParentChanges \/ Tick
  BY <1>5 DEF ParentChanges, Tick, IInv, Undecided, Refused
<1>6. CASE Finished
  <2>1. PathAvailable' = PathAvailable
    BY <1>6 DEF Finished, vars, PathAvailable, Allows
  <2> QED
    BY <1>6, <2>1 DEF Finished, vars, IInv, Refused
<1> QED
  BY <1>1, <1>2, <1>3, <1>4, <1>5, <1>6 DEF Next

LEMMA AcceptedStep ==
  ASSUME IInv, Next
  PROVE  Accepted' /\ DeadlineRefusedLate'
<1>1. acceptedAt \in Nat /\ now \in Nat /\ LastInstant \in Nat
  BY CommandPolicyAssumption DEF IInv, TypeOK
<1>2. execution.duration \in Nat
  BY ExecutionParts DEF IInv, TypeOK
<1> USE DEF builderVars, prepareVars, worldVars
<1>3. CASE SetEnvironment \/ PushEnvOp \/ ConfigureStream
  BY <1>3 DEF SetEnvironment, PushEnvOp, ConfigureStream, Call, Refuse, IInv, Undecided, Accepted,
              DeadlineRefusedLate
<1>4. CASE DeclareDeadline
  <2>1. PICK d \in Durations :
          IF ValidDeadline(d)
          THEN /\ execution' = Deadline(d) /\ phase' = "ready"
               /\ acceptedAt' = now /\ UNCHANGED outcome
          ELSE Refuse("deadlineOverflow") /\ UNCHANGED <<execution, acceptedAt>>
    BY <1>4 DEF DeclareDeadline
  <2>2. now' = now /\ phase = "draft"
    BY <1>4 DEF DeclareDeadline, Call
  <2> QED
    BY <1>1, <1>2, <2>1, <2>2 DEF ValidDeadline, Representable, Deadline, Refuse, IInv, Undecided,
                                  Accepted, DeadlineRefusedLate
<1>5. CASE DeclareUnbounded \/ EnterStreaming
  BY <1>5 DEF DeclareUnbounded, EnterStreaming, Call, Refuse, Unbounded, IInv, Undecided, Accepted,
              DeadlineRefusedLate
<1>6. CASE Run \/ CheckPath \/ CopyKey \/ FinishPrepare
  BY <1>6 DEF Run, CheckPath, CopyKey, FinishPrepare, Refuse, IInv, Undecided, Accepted,
              DeadlineRefusedLate
<1>7. CASE Launch
  <2>1. UNCHANGED <<execution, now, acceptedAt>> /\ phase' = "ended"
    BY <1>7 DEF Launch
  <2>2. outcome' = "deadlineOverflow" =>
          execution # Unbounded /\ ~(now + execution.duration <= LastInstant)
    BY <1>7 DEF Launch, Representable
  <2>3. execution # Unbounded /\ execution # Undeclared => execution.kind = "deadline"
    BY ExecutionParts DEF IInv, TypeOK
  <2> QED
    BY <1>1, <1>2, <2>1, <2>2, <2>3 DEF IInv, Accepted, DeadlineRefusedLate
<1>8. CASE ParentChanges \/ Tick \/ Finished
  BY <1>1, <1>8 DEF ParentChanges, Tick, Finished, vars, IInv, Undecided, Accepted,
                    DeadlineRefusedLate
<1> QED
  BY <1>3, <1>4, <1>5, <1>6, <1>7, <1>8 DEF Next

LEMMA Invariance == Spec => []IInv
<1>1. IInv /\ [Next]_vars => IInv'
  <2> SUFFICES ASSUME IInv, [Next]_vars PROVE IInv'
    OBVIOUS
  <2>1. CASE Next
    BY <2>1, TypeStep, UndecidedStep, CopyingStep, PreparedStep, RefusedStep, AcceptedStep DEF IInv
  <2>2. CASE UNCHANGED vars
    <3>1. TypeOK' /\ Undecided' /\ Accepted' /\ DeadlineRefusedLate'
      BY <2>2 DEF vars, builderVars, prepareVars, worldVars, IInv, TypeOK, Undecided, Accepted,
                  DeadlineRefusedLate
    <3>2. PathAvailable' = PathAvailable /\ Declared' = Declared
      BY <2>2 DEF vars, builderVars, prepareVars, worldVars, PathAvailable, Declared, GetEnvs,
                  Allows
    <3>3. Copying' /\ Prepared' /\ Refused'
      BY <2>2, <3>2 DEF vars, builderVars, prepareVars, worldVars, IInv, Copying, Prepared, Launched,
                        Refused
    <3> QED
      BY <3>1, <3>3 DEF IInv
  <2> QED
    BY <2>1, <2>2
<1> QED
  BY <1>1, InitInv, PTL DEF Spec

-----------------------------------------------------------------------------

(* The child sees what was declared and nothing else: what get_envs reports *)
(* of a key that has operations, and what the policy admits of the parent   *)
(* on any other key, whatever the calls, their order and the other threads  *)
(* that change the environment of the parent.                               *)
THEOREM DeclaredEnvironment == Spec => []EnvironmentIsDeclared
<1>1. IInv => EnvironmentIsDeclared
  BY DEF IInv, Prepared, Declared, EnvironmentIsDeclared
<1> QED
  BY <1>1, Invariance, PTL

(* What the environment of the child would be built on, were it built now.  *)
Admitted == [k \in Keys |-> IF Allows(k) THEN parent[k] ELSE Unset]

(* The check of the path and the environment that is built after it go over *)
(* the operations separately and agree: a bare program is started with a    *)
(* PATH, and refused only if it would have had none, unless the environment *)
(* of the parent is changed between the two.                                *)
THEOREM PathAgrees == Spec => []PathPolicyAgrees
<1>1. IInv => PathPolicyAgrees
  <2> SUFFICES ASSUME IInv, program = "bare", ~parentMoved,
                      outcome = "bareProgramWithoutPath"
               PROVE  Replay(envOps, Admitted)[Path] = Unset
    BY DEF IInv, Prepared, PathPolicyAgrees, Admitted
  <2>1. envOps \in Seq(EnvOps) /\ Admitted \in Environments
    BY DEF IInv, TypeOK, Admitted, Environments
  <2>2. (Admitted[Path] # Unset) = (Allows(Path) /\ parent[Path] # Unset)
    BY CommandPolicyAssumption DEF Admitted
  <2>3. ~PathAfter(envOps, Admitted[Path] # Unset)
    BY <2>2 DEF IInv, Refused, PathAvailable
  <2> QED
    BY <2>1, <2>3, PathLoop
<1> QED
  BY <1>1, Invariance, PTL

(* A deadline that was validated when it was declared is refused by the     *)
(* start only because the clock went on in between.                         *)
THEOREM RefusedLate == Spec => []DeadlineRefusedLate
<1>1. IInv => DeadlineRefusedLate
  BY DEF IInv
<1> QED
  BY <1>1, Invariance, PTL

=============================================================================
