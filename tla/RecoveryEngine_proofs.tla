------------------------ MODULE RecoveryEngine_proofs ------------------------
(***************************************************************************)
(* Proofs about modules RecoveryEngine and DefectRepair, for any tasks,    *)
(* error messages and bounds.                                              *)
(***************************************************************************)
EXTENDS RecoveryEngine, FiniteSetTheorems, SequenceTheorems, TLAPS

----------------------------------------------------------------------------
(* Numbers.                                                                *)

(* Induction over the natural numbers for a set.  If n were missing, adding *)
(* one would map the numbers of P up to n into those of them that are not   *)
(* 0, and no two to the same one.                                           *)
LEMMA InductionOverNat ==
    ASSUME NEW P, 0 \in P, \A n \in Nat : n \in P => n + 1 \in P
    PROVE  Nat \subseteq P
<1> SUFFICES ASSUME NEW n \in Nat, n \notin P
             PROVE  FALSE
  OBVIOUS
<1> DEFINE A == P \cap (0 .. n)
           B == A \ {0}
           next == [x \in A |-> x + 1]
<1>1. IsFiniteSet(A)
  <2>1. IsFiniteSet(0 .. n)
    BY ONLY FS_Interval, n \in Nat
  <2>2. A \in SUBSET (0 .. n)
    OBVIOUS
  <2> HIDE DEF A
  <2> QED  BY ONLY <2>1, <2>2, FS_Subset
<1>2. Cardinality(A) \in Nat /\ 0 \in A
  BY <1>1, FS_CardinalityType
<1>3. next \in [A -> B]
  OBVIOUS
<1>4. \A x, y \in A : next[x] = next[y] => x = y
  OBVIOUS
<1>5. IsFiniteSet(B) /\ Cardinality(B) = Cardinality(A) - 1
  <2> HIDE DEF A
  <2> QED  BY ONLY <1>1, <1>2, FS_RemoveElement
<1> HIDE DEF A, B, next
<1> QED  BY <1>1, <1>2, <1>3, <1>4, <1>5, FS_PigeonHole

(* A set of numbers that is not empty has a least one. *)
LEMMA LeastNumber ==
    ASSUME NEW S \in SUBSET Nat, S # {}
    PROVE  \E n \in S : \A m \in S : n <= m
<1> SUFFICES ASSUME \A n \in S : \E m \in S : m < n
             PROVE  FALSE
  OBVIOUS
<1> DEFINE P == {n \in Nat : \A m \in S : m >= n}
<1>1. 0 \in P
  OBVIOUS
<1>2. \A n \in Nat : n \in P => n + 1 \in P
  OBVIOUS
<1>3. Nat \subseteq P
  <2> HIDE DEF P
  <2> QED  BY ONLY <1>1, <1>2, InductionOverNat
<1>4. PICK n \in S : TRUE
  OBVIOUS
<1> QED  BY <1>3, <1>4, n + 1 \in P

----------------------------------------------------------------------------
(* The inductive invariant.                                                *)

(* A repair runs code at most as often as its attempts allow, and once it   *)
(* is over, a success means that the last execution, of its own code, passed. *)
RepairGood(t) ==
    LET r == repair[t] IN
    /\ r.phase = "idle" => r.attempts = 0 /\ executions[t] = 0
    /\ r.phase = "strategy" => /\ r.level \in RepairLevel
                               /\ r.attempts < MAX_RETRIES
                               /\ executions[t] <= r.attempts
    /\ r.phase = "verify" => /\ executions[t] <= MAX_RETRIES
                             /\ r.code \in Code
    /\ r.phase \in {"store", "done"} => executions[t] <= MAX_RETRIES + 1
    /\ r.phase \in {"store", "done"} /\ r.status = "success" =>
          /\ executed[t] = [code |-> r.code, passed |-> TRUE]
          /\ last_repaired_code[t] = r.code

RepairInv == \A t \in Task : RepairGood(t)

(* The task that is run has a context, and the state its run has reached. *)
RunInv ==
    pc \in RunPhase =>
        /\ context[ctx.task] \in Context
        /\ pc = "execute" => states[ctx.task] = "implementing"
        /\ pc = "verify" => states[ctx.task] = "verifying"

(* What is under way has its call, whose event is in the log; while the *)
(* pipeline works for it, the task has a context.                          *)
CallInv ==
    /\ pc # "idle" => ctx \in Call
    /\ pc = "act" => ctx.event <= Len(log)
    /\ pc = "repair" => context[ctx.task] \in Context

(* The last event of the log announces the recovery's answer. *)
Announced(ok) ==
    /\ log # <<>>
    /\ log[Len(log)] = [type |-> IF ok THEN "task_completed" ELSE "task_failed", task |-> ctx.task]

AnnounceInv ==
    faults = 0 => /\ pc = "settle" => Announced(success)
                  /\ Returned => Announced(result)

(* The tasks that a refused transition leaves to nobody. *)
Unsettled(s) ==
    \/ s \in Terminal \union {None}
    \/ success /\ s \in {"implementing", "verifying"}

SettleInv ==
    /\ pc = "raised" => Unsettled(states[ctx.task])
    /\ Returned /\ ~result => Unsettled(states[ctx.task])

IInv ==
    /\ TypeOK /\ RepairInv /\ RunInv /\ CallInv /\ AnnounceInv /\ SettleInv
    /\ ExperiencesMatchHistory

----------------------------------------------------------------------------
(* The replay of events.                                                   *)

(* What a task may be replayed to: from a terminal state to no other. *)
Replayed(t) ==
    {r \in [state : TaskState \union {None}, status : ContextStatus] :
        states[t] \in Terminal => r.state = states[t]}

Start(t) == [state |-> states[t], status |-> OwnContext(t).status]

LEMMA StartIsReplayed ==
    ASSUME TypeOK, NEW t \in Task
    PROVE  Start(t) \in Replayed(t)
<1>1. OwnContext(t).status \in ContextStatus
  BY DEF TypeOK, OwnContext, Context, ContextStatus
<1> QED
  BY <1>1 DEF TypeOK, Start, Replayed

LEMMA EventKeepsReplayed ==
    ASSUME TypeOK, NEW t \in Task, NEW r \in Replayed(t), NEW e \in Event
    PROVE  ApplyEvent(t, r, e) \in Replayed(t)
<1>1. \A new \in {"implementing", "completed", "failed", "blocked_hitl"} :
          /\ SafeTransition(r.state, new) \in TaskState \union {None}
          /\ states[t] \in Terminal => SafeTransition(r.state, new) = states[t]
  BY NoneAssumption DEF Replayed, SafeTransition, CanTransition, EmergencyTransition, Terminal,
     TaskState, VALID_TRANSITIONS
<1>2. CASE e.task # t \/ e.type \notin DOMAIN ReplayedAs
  BY <1>2 DEF ApplyEvent
<1>3. CASE e.task = t /\ e.type \in DOMAIN ReplayedAs
  <2> DEFINE new == ReplayedAs[e.type]
  <2>1. /\ new \in {"implementing", "completed", "failed", "blocked_hitl"}
        /\ e.type # "task_blocked" => new \in ContextStatus
    BY <1>3 DEF ReplayedAs, ContextStatus
  <2>2. r.status \in ContextStatus
    BY DEF Replayed
  <2>3. ApplyEvent(t, r, e) =
            [state  |-> SafeTransition(r.state, new),
             status |-> IF e.type = "task_blocked" THEN r.status ELSE new]
    BY <1>3 DEF ApplyEvent
  <2> HIDE DEF new
  <2> QED
    BY <1>1, <2>1, <2>2, <2>3 DEF Replayed
<1> QED
  BY <1>2, <1>3

(* The function Replay defines by recursion, for the events up to n. *)
IsReplay(t, i, n, f) ==
    f = [j \in (i - 1) .. n |-> IF j = i - 1 THEN Start(t) ELSE ApplyEvent(t, f[j - 1], log[j])]

LEMMA ReplayExists ==
    ASSUME NEW t, NEW i \in Nat \ {0}
    PROVE  \A n \in Nat : \E f : IsReplay(t, i, i - 1 + n, f)
<1> DEFINE P == {n \in Nat : \E f : IsReplay(t, i, i - 1 + n, f)}
<1>1. 0 \in P
  <2> DEFINE f == [j \in (i - 1) .. (i - 1 + 0) |-> Start(t)]
  <2>1. IsReplay(t, i, i - 1 + 0, f)
    BY DEF IsReplay
  <2> QED  BY <2>1
<1>2. ASSUME NEW n \in Nat, n \in P
      PROVE  n + 1 \in P
  <2>1. PICK f : IsReplay(t, i, i - 1 + n, f)
    BY <1>2
  <2> DEFINE last == i - 1 + (n + 1)
             g == [j \in (i - 1) .. last |->
                     IF j = last THEN ApplyEvent(t, f[j - 1], log[j]) ELSE f[j]]
  <2>2. \A j \in (i - 1) .. last :
            g[j] = IF j = i - 1 THEN Start(t) ELSE ApplyEvent(t, g[j - 1], log[j])
    BY <2>1 DEF IsReplay
  <2>3. IsReplay(t, i, last, g)
    BY <2>2 DEF IsReplay
  <2> QED  BY <2>3
<1>3. Nat \subseteq P
  <2> HIDE DEF P
  <2> QED  BY ONLY <1>1, <1>2, InductionOverNat
<1> QED  BY <1>3

(* A replay of events ends in a state and a status a task may be replayed to. *)
LEMMA ReplayIsReplayed ==
    ASSUME TypeOK, NEW t \in Task, NEW i \in 1 .. Len(log), NEW last \in (i - 1) .. Len(log)
    PROVE  Replay(t, i, last) \in Replayed(t)
<1> DEFINE f == CHOOSE f : IsReplay(t, i, last, f)
<1>1. /\ last \in Nat /\ i - 1 <= last /\ i \in Nat \ {0}
      /\ \A j \in 1 .. last : log[j] \in Event
  <2>1. Len(log) \in Nat /\ \A j \in 1 .. Len(log) : log[j] \in Event
    BY ElementOfSeq, LenProperties DEF TypeOK
  <2> QED  BY <2>1
<1>2. IsReplay(t, i, last, f)
  <2> DEFINE n == last - (i - 1)
  <2>1. n \in Nat /\ i \in Nat \ {0} /\ i - 1 + n = last
    BY <1>1
  <2>2. \E g : IsReplay(t, i, i - 1 + n, g)
    <3> HIDE DEF n
    <3> QED  BY <2>1, ReplayExists
  <2> QED  BY <2>1, <2>2
<1>3. Replay(t, i, last) = f[last]
  BY DEF Replay, IsReplay, Start
<1> HIDE DEF f
<1> DEFINE P == {n \in Nat : i - 1 + n <= last => f[i - 1 + n] \in Replayed(t)}
<1>4. 0 \in P
  BY <1>1, <1>2, StartIsReplayed DEF IsReplay
<1>5. ASSUME NEW n \in Nat, n \in P
      PROVE  n + 1 \in P
  <2> SUFFICES ASSUME i - 1 + (n + 1) <= last
               PROVE  f[i - 1 + (n + 1)] \in Replayed(t)
    BY DEF P
  <2> DEFINE j == i - 1 + (n + 1)
  <2>1. /\ j \in 1 .. last /\ j \in (i - 1) .. last /\ j # i - 1
        /\ j - 1 = i - 1 + n
    BY <1>1
  <2>2. f[j - 1] \in Replayed(t)
    BY <1>1, <1>5, <2>1
  <2>3. f[j] = ApplyEvent(t, f[j - 1], log[j])
    BY <1>2, <2>1 DEF IsReplay
  <2> QED
    BY <1>1, <2>1, <2>2, <2>3, EventKeepsReplayed
<1>6. Nat \subseteq P
  <2> HIDE DEF P
  <2> QED  BY ONLY <1>4, <1>5, InductionOverNat
<1>7. f[last] \in Replayed(t)
  <2> DEFINE n == last - (i - 1)
  <2>1. n \in Nat /\ i - 1 + n = last /\ last <= last
    BY <1>1
  <2>2. n \in P
    BY <1>6, <2>1
  <2> HIDE DEF n
  <2> QED  BY <2>1, <2>2
<1> QED
  BY <1>3, <1>7
----------------------------------------------------------------------------
(* The repair pipeline.                                                    *)

(* Every error message is given a level. *)
LEMMA ClassifyErrorType == ASSUME NEW e \in Error PROVE ClassifyError(e) \in RepairLevel
<1> DEFINE matching == {i \in DOMAIN Patterns : Patterns[i].name \in e.matches}
<1>1. \A i \in DOMAIN Patterns : i \in Nat /\ Patterns[i].level \in RepairLevel
  BY DEF Patterns, RepairLevel
<1>2. matching # {} => \E i \in matching : \A j \in matching : i <= j
  <2>1. matching \in SUBSET Nat
    BY <1>1
  <2> HIDE DEF matching
  <2> QED  BY <2>1, LeastNumber
<1>3. matching # {} => (CHOOSE i \in matching : \A j \in matching : i <= j) \in DOMAIN Patterns
  <2>1. matching \subseteq DOMAIN Patterns
    OBVIOUS
  <2> HIDE DEF matching
  <2> QED  BY <1>2, <2>1
<1>4. ClassifyError(e) =
        IF matching = {} THEN "L2"
        ELSE Patterns[CHOOSE i \in matching : \A j \in matching : i <= j].level
  BY DEF ClassifyError
<1> HIDE DEF matching
<1> QED
  BY <1>1, <1>3, <1>4 DEF RepairLevel

LEMMA ExecuteFacts ==
    ASSUME RepairTypeOK, NEW t \in Task, NEW code \in Code, NEW o \in Outcome,
           Execute(t, code, o)
    PROVE  /\ executions' \in [Task -> Nat]
           /\ executed' \in [Task -> [code : Code, passed : BOOLEAN] \union {None}]
           /\ last_repaired_code' \in [Task -> Code \union {None}]
           /\ executions'[t] = executions[t] + 1
           /\ executed'[t] = [code |-> code, passed |-> o = "accepted"]
           /\ o = "accepted" => last_repaired_code'[t] = code
           /\ \A u \in Task \ {t} : /\ executions'[u] = executions[u]
                                    /\ executed'[u] = executed[u]
                                    /\ last_repaired_code'[u] = last_repaired_code[u]
  BY DEF Execute, RepairTypeOK

(* The fields a repair has, whatever its phase. *)
Repair == [phase : {"idle", "strategy", "verify", "store", "done"},
           error : Error \union {None}, level : RepairLevel \union {None},
           attempts : 0 .. MAX_RETRIES, status : Status, code : Code \union {None}]

LEMMA RepairFacts ==
    ASSUME RepairTypeOK, NEW t \in Task
    PROVE  /\ repair \in [Task -> Repair] /\ repair[t] \in Repair
           /\ repair[t].attempts \in 0 .. 3 /\ repair[t].status \in Status
           /\ repair[t].code \in Code \union {None}
           /\ executions[t] \in Nat
<1>1. repair \in [Task -> Repair]
  BY DEF RepairTypeOK, Repair
<1>2. repair[t] \in Repair
  BY <1>1
<1>3. executions[t] \in Nat
  BY DEF RepairTypeOK
<1> QED
  BY <1>1, <1>2, <1>3 DEF Repair, MAX_RETRIES

LEMMA StepFacts ==
    ASSUME RepairTypeOK, NEW t \in Task, NEW phase \in {"strategy", "verify", "store"},
           NEW status \in Status, NEW code \in Code \union {None}, NEW n \in 0 .. MAX_RETRIES,
           Step(t, phase, status, code, n)
    PROVE  /\ repair' \in [Task -> Repair]
           /\ repair'[t].phase = phase /\ repair'[t].status = status
           /\ repair'[t].code = code /\ repair'[t].attempts = n
           /\ repair'[t].level = repair[t].level
           /\ \A u \in Task \ {t} : repair'[u] = repair[u]
<1> DEFINE r == [repair[t] EXCEPT !.phase = phase, !.status = status, !.code = code,
                                  !.attempts = n]
<1>1. repair \in [Task -> Repair] /\ repair[t] \in Repair
  BY RepairFacts
<1>2. /\ r \in Repair /\ r.phase = phase /\ r.status = status /\ r.code = code
      /\ r.attempts = n /\ r.level = repair[t].level
  BY <1>1 DEF Repair
<1>3. repair' = [repair EXCEPT ![t] = r]
  BY <1>1 DEF Step
<1> HIDE DEF r
<1> QED
  BY <1>1, <1>2, <1>3

(* How one repair may move. *)
RepairMove(t) == (\E e \in Error : BeginRepair(t, e)) \/ RepairStep(t) \/ EndRepair(t)

LEMMA OtherRepairs ==
    ASSUME RepairInv, NEW t \in Task, NEW u \in Task,
           repair'[u] = repair[u], executions'[u] = executions[u],
           executed'[u] = executed[u], last_repaired_code'[u] = last_repaired_code[u]
    PROVE  RepairGood(u)'
<1>1. RepairGood(u)
  BY DEF RepairInv
<1> QED
  BY <1>1 DEF RepairGood

LEMMA RepairMoves ==
    ASSUME RepairTypeOK, RepairInv, NEW t \in Task, RepairMove(t)
    PROVE  RepairTypeOK' /\ RepairInv'
<1> DEFINE same(u) == /\ repair'[u] = repair[u] /\ executions'[u] = executions[u]
                      /\ executed'[u] = executed[u]
                      /\ last_repaired_code'[u] = last_repaired_code[u]
<1> SUFFICES RepairTypeOK' /\ RepairGood(t)' /\ \A u \in Task \ {t} : same(u)
  BY OtherRepairs DEF RepairInv
<1>g. RepairGood(t)
  BY DEF RepairInv
<1>1. ASSUME NEW e \in Error, BeginRepair(t, e)
      PROVE  RepairTypeOK' /\ RepairGood(t)' /\ \A u \in Task \ {t} : same(u)
  <2>1. ClassifyError(e) \in RepairLevel
    BY ClassifyErrorType
  <2> DEFINE r == [Idle EXCEPT !.phase = "strategy", !.error = e, !.level = ClassifyError(e)]
  <2>2. /\ repair' = [repair EXCEPT ![t] = r] /\ repair[t].phase = "idle"
        /\ UNCHANGED <<repair_history, experiences, memory, last_repaired_code, executed,
                       executions>>
    BY <1>1 DEF BeginRepair
  <2>3. r \in Repair /\ r.phase = "strategy" /\ r.level = ClassifyError(e) /\ r.attempts = 0
    <3>1. "failed" \in Status /\ 0 \in 0 .. MAX_RETRIES
      BY DEF Status, MAX_RETRIES
    <3>2. r \in Repair
      BY <2>1, <3>1 DEF Idle, Repair
    <3> QED
      BY <3>2 DEF Idle
  <2>4. executions[t] = 0
    BY <1>g, <2>2 DEF RepairGood
  <2> HIDE DEF r
  <2>5. repair' \in [Task -> Repair] /\ repair'[t] = r
    BY <2>2, <2>3, RepairFacts
  <2>6. RepairTypeOK'
    BY <2>2, <2>5 DEF RepairTypeOK, Repair
  <2>7. RepairGood(t)'
    BY <2>1, <2>2, <2>3, <2>4, <2>5 DEF RepairGood, MAX_RETRIES
  <2>8. \A u \in Task \ {t} : same(u)
    BY <2>2
  <2> QED  BY <2>6, <2>7, <2>8
<1>2. ASSUME NEW o \in Outcome, RetryExecution(t, o)
      PROVE  RepairTypeOK' /\ RepairGood(t)' /\ \A u \in Task \ {t} : same(u)
  <2> DEFINE n == repair[t].attempts + 1
  <2>1. /\ n \in 0 .. MAX_RETRIES /\ executions[t] + 1 <= n
        /\ repair[t].level \in RepairLevel /\ repair[t].phase = "strategy"
    <3>1. repair[t].phase = "strategy"
      BY <1>2 DEF RetryExecution
    <3>2. /\ repair[t].level \in RepairLevel /\ repair[t].attempts < 3
          /\ executions[t] <= repair[t].attempts
      BY <1>g, <3>1 DEF RepairGood, MAX_RETRIES
    <3>3. repair[t].attempts \in 0 .. 3 /\ executions[t] \in Nat
      BY RepairFacts
    <3> QED
      BY <3>1, <3>2, <3>3 DEF MAX_RETRIES
  <2>2. "original" \in Code /\ {"success", "failed"} \subseteq Status
    BY DEF Code, Status
  <2>3. Execute(t, "original", o)
    BY <1>2 DEF RetryExecution
  <2>4. \/ Step(t, "verify", "success", "original", n)
        \/ Step(t, "store", "failed", None, n)
        \/ n < MAX_RETRIES /\ Step(t, "strategy", "failed", None, n)
    <3> HIDE DEF n
    <3>1. CASE o = "accepted"
      BY <1>2, <3>1 DEF RetryExecution, n
    <3>2. CASE o # "accepted" /\ n = MAX_RETRIES
      BY <1>2, <3>2 DEF RetryExecution, n
    <3>3. CASE o # "accepted" /\ n # MAX_RETRIES
      BY <1>2, <2>1, <3>3 DEF RetryExecution, n, MAX_RETRIES
    <3> QED  BY <3>1, <3>2, <3>3
  <2> HIDE DEF n
  <2>5. /\ executions'[t] <= n
        /\ executions' \in [Task -> Nat]
        /\ executed' \in [Task -> [code : Code, passed : BOOLEAN] \union {None}]
        /\ last_repaired_code' \in [Task -> Code \union {None}]
        /\ \A u \in Task \ {t} : /\ executions'[u] = executions[u]
                                 /\ executed'[u] = executed[u]
                                 /\ last_repaired_code'[u] = last_repaired_code[u]
    BY <2>1, <2>2, <2>3, ExecuteFacts
  <2>6. repair' \in [Task -> Repair] /\ \A u \in Task \ {t} : repair'[u] = repair[u]
    BY <2>1, <2>2, <2>4, StepFacts
  <2>7. RepairTypeOK'
    BY <1>2, <2>5, <2>6 DEF RetryExecution, RepairTypeOK, Repair
  <2>8. RepairGood(t)'
    <3>1. CASE Step(t, "verify", "success", "original", n)
      BY <2>1, <2>2, <2>5, <3>1, StepFacts DEF RepairGood, MAX_RETRIES
    <3>2. CASE Step(t, "store", "failed", None, n)
      BY <2>1, <2>2, <2>5, <3>2, StepFacts DEF RepairGood, MAX_RETRIES
    <3>3. CASE n < MAX_RETRIES /\ Step(t, "strategy", "failed", None, n)
      BY <2>1, <2>2, <2>5, <3>3, StepFacts DEF RepairGood, MAX_RETRIES
    <3> QED  BY <2>4, <3>1, <3>2, <3>3
  <2> QED  BY <2>5, <2>6, <2>7, <2>8
<1>3. ASSUME ApplyTemplate(t) \/ ReviewByAgents(t) \/ EscalateRepair(t)
      PROVE  RepairTypeOK' /\ RepairGood(t)' /\ \A u \in Task \ {t} : same(u)
  <2>1. /\ repair[t].phase = "strategy" /\ executions[t] \in Nat /\ executions[t] <= MAX_RETRIES
        /\ UNCHANGED <<repair_history, experiences, memory, last_repaired_code, executed,
                       executions>>
        /\ \/ \E code \in Code : Step(t, "verify", "success", code, 1)
           \/ \E status \in Status \ {"success"} : Step(t, "store", status, None, 1)
    <3>1. repair[t].phase = "strategy"
      BY <1>3 DEF ApplyTemplate, ReviewByAgents, EscalateRepair
    <3>2. executions[t] \in Nat /\ executions[t] <= MAX_RETRIES
      <4>1. repair[t].attempts < 3 /\ executions[t] <= repair[t].attempts
        BY <1>g, <3>1 DEF RepairGood, MAX_RETRIES
      <4>2. repair[t].attempts \in 0 .. 3 /\ executions[t] \in Nat
        BY RepairFacts
      <4> QED
        BY <4>1, <4>2 DEF MAX_RETRIES
    <3> QED
      BY <1>3, <3>1, <3>2 DEF ApplyTemplate, ReviewByAgents, EscalateRepair, Code, Status
  <2>2. 1 \in 0 .. MAX_RETRIES /\ "success" \in Status
    BY DEF MAX_RETRIES, Status
  <2>3. CASE \E code \in Code : Step(t, "verify", "success", code, 1)
    <3>1. PICK code \in Code : Step(t, "verify", "success", code, 1)
      BY <2>3
    <3>2. /\ repair' \in [Task -> Repair] /\ \A u \in Task \ {t} : repair'[u] = repair[u]
          /\ repair'[t].phase = "verify" /\ repair'[t].code = code
      BY <2>2, <3>1, StepFacts
    <3> QED
      BY <2>1, <3>2 DEF RepairTypeOK, RepairGood, Repair
  <2>4. CASE \E status \in Status \ {"success"} : Step(t, "store", status, None, 1)
    <3>1. PICK status \in Status \ {"success"} : Step(t, "store", status, None, 1)
      BY <2>4
    <3>2. /\ repair' \in [Task -> Repair] /\ \A u \in Task \ {t} : repair'[u] = repair[u]
          /\ repair'[t].phase = "store" /\ repair'[t].status # "success"
      BY <2>2, <3>1, StepFacts
    <3> QED
      BY <2>1, <3>2 DEF RepairTypeOK, RepairGood, Repair, MAX_RETRIES
  <2> QED  BY <2>1, <2>3, <2>4
<1>4. ASSUME NEW o \in Outcome, VerifyRepair(t, o)
      PROVE  RepairTypeOK' /\ RepairGood(t)' /\ \A u \in Task \ {t} : same(u)
  <2> DEFINE status == IF o = "accepted" THEN "success" ELSE "failed"
             code == repair[t].code
             n == repair[t].attempts
  <2>1. /\ n \in 0 .. MAX_RETRIES /\ executions[t] <= MAX_RETRIES /\ executions[t] \in Nat
        /\ code \in Code
    BY <1>g, <1>4 DEF VerifyRepair, RepairGood, RepairTypeOK
  <2>2. status \in Status /\ (status = "success" => o = "accepted")
    BY DEF Status
  <2>3. /\ Execute(t, code, o) /\ Step(t, "store", status, code, n)
        /\ UNCHANGED <<repair_history, experiences, memory>>
    BY <1>4 DEF VerifyRepair
  <2> HIDE DEF n, code, status
  <2>4. /\ executions'[t] = executions[t] + 1
        /\ executions' \in [Task -> Nat]
        /\ executed' \in [Task -> [code : Code, passed : BOOLEAN] \union {None}]
        /\ last_repaired_code' \in [Task -> Code \union {None}]
        /\ \A u \in Task \ {t} : /\ executions'[u] = executions[u]
                                 /\ executed'[u] = executed[u]
                                 /\ last_repaired_code'[u] = last_repaired_code[u]
        /\ o = "accepted" => /\ executed'[t] = [code |-> code, passed |-> TRUE]
                             /\ last_repaired_code'[t] = code
    BY <2>1, <2>3, ExecuteFacts
  <2>5. /\ repair' \in [Task -> Repair] /\ \A u \in Task \ {t} : repair'[u] = repair[u]
        /\ repair'[t].phase = "store" /\ repair'[t].status = status /\ repair'[t].code = code
    BY <2>1, <2>2, <2>3, StepFacts
  <2>6. RepairTypeOK'
    BY <2>3, <2>4, <2>5 DEF RepairTypeOK, Repair
  <2>7. RepairGood(t)'
    BY <2>1, <2>2, <2>4, <2>5 DEF RepairGood, MAX_RETRIES
  <2> QED  BY <2>4, <2>5, <2>6, <2>7
<1>5. ASSUME NEW saved \in BOOLEAN, StoreExperience(t, saved)
      PROVE  RepairTypeOK' /\ RepairGood(t)' /\ \A u \in Task \ {t} : same(u)
  <2>1. /\ experiences' \in Seq([task : Task, status : Status])
        /\ repair_history' \in [Task -> Seq(Result)]
        /\ memory' \in [Task -> Nat]
    <3>1. [status |-> repair[t].status, code |-> repair[t].code,
           attempts |-> repair[t].attempts] \in Result
      BY RepairFacts DEF Result, MAX_RETRIES
    <3>2. [task |-> t, status |-> repair[t].status] \in [task : Task, status : Status]
      BY RepairFacts
    <3> QED
      BY <1>5, <3>1, <3>2 DEF StoreExperience, RepairTypeOK
  <2> DEFINE r == [repair[t] EXCEPT !.phase = "done"]
  <2>2. /\ repair[t].phase = "store" /\ repair' = [repair EXCEPT ![t] = r]
        /\ UNCHANGED <<last_repaired_code, executed, executions>>
    BY <1>5 DEF StoreExperience
  <2>3. /\ r \in Repair /\ r.phase = "done" /\ r.status = repair[t].status
        /\ r.code = repair[t].code
    BY RepairFacts DEF Repair
  <2> HIDE DEF r
  <2>4. repair' \in [Task -> Repair] /\ repair'[t] = r /\ \A u \in Task \ {t} : same(u)
    BY <2>2, <2>3, RepairFacts
  <2>5. RepairTypeOK'
    BY <2>1, <2>2, <2>4 DEF RepairTypeOK, Repair
  <2>6. RepairGood(t)'
    BY <1>g, <2>2, <2>3, <2>4 DEF RepairGood
  <2> QED  BY <2>4, <2>5, <2>6
<1>6. ASSUME EndRepair(t)
      PROVE  RepairTypeOK' /\ RepairGood(t)' /\ \A u \in Task \ {t} : same(u)
  BY <1>6 DEF EndRepair, RepairTypeOK, RepairGood, Idle, Status, MAX_RETRIES
<1> QED
  BY <1>1, <1>2, <1>3, <1>4, <1>5, <1>6 DEF RepairMove, RepairStep
(* Whatever a recovery does, the pipeline moves a repair by one of its own  *)
(* steps, or is forgotten with the process.                                *)
LEMMA PipelineMoves ==
    ASSUME IInv, [Next]_vars
    PROVE  \/ UNCHANGED repairVars
           \/ \E t \in Task : RepairMove(t)
           \/ RepairInit'
<1>c. pc # "idle" => ctx.task \in Task
  BY DEF IInv, CallInv, Call
<1>1. ASSUME NEW t \in Task, Run(t) \/ Ask(t)
      PROVE  UNCHANGED repairVars
  BY <1>1 DEF Run, Ask, ExecuteRecovery
<1>2. ASSUME RunStep \/ Retry \/ EventReplay \/ SnapshotRestore \/ NothingToRepair \/ HandOver
             \/ Announce \/ Settle \/ Raised
      PROVE  UNCHANGED repairVars
  BY <1>2 DEF RunStep, LoadCheckpoint, LoadFails, BeginRun, Execution, Verification,
     SaveCheckpoint, SaveFails, PublishRun, Retry, EventReplay, SnapshotRestore, NothingToRepair,
     HandOver, Announce, Settle, Raised
<1>3. CASE CallPipeline
  BY <1>c, <1>3 DEF CallPipeline, Acting, RepairMove
<1>4. CASE PipelineStep
  BY <1>c, <1>4 DEF PipelineStep, RepairMove
<1>5. CASE RepairReturns
  BY <1>c, <1>5 DEF RepairReturns, RepairMove
<1>6. CASE Crash
  BY <1>6 DEF Crash, RepairInit
<1>7. CASE UNCHANGED vars
  BY <1>7 DEF vars
<1> QED
  BY <1>1, <1>2, <1>3, <1>4, <1>5, <1>6, <1>7 DEF Next, Recovery

LEMMA RepairStarts == RepairInit => RepairTypeOK /\ RepairInv /\ ExperiencesMatchHistory
<1> SUFFICES ASSUME RepairInit PROVE RepairTypeOK /\ RepairInv /\ ExperiencesMatchHistory
  OBVIOUS
<1>1. Idle \in Repair /\ Idle.phase = "idle" /\ Idle.attempts = 0
  BY DEF Idle, Repair, Status, MAX_RETRIES
<1>2. RepairTypeOK
  <2> HIDE DEF Idle
  <2> QED  BY <1>1 DEF RepairInit, RepairTypeOK, Repair
<1>3. RepairInv
  <2> HIDE DEF Idle
  <2> QED  BY <1>1 DEF RepairInit, RepairInv, RepairGood
<1>4. ExperiencesMatchHistory
  <2>1. \A t \in Task : Mine(t) = {}
    BY DEF RepairInit, Mine
  <2>2. \A t \in Task : repair_history[t] = <<>> /\ memory[t] = 0
    BY DEF RepairInit
  <2>3. Cardinality({}) = 0 /\ Len(<<>>) = 0
    BY FS_EmptySet
  <2> QED
    <3> SUFFICES ASSUME NEW t \in Task
                 PROVE  /\ Cardinality(Mine(t)) = Len(repair_history[t])
                        /\ \A i \in Mine(t) : experiences[i].status
                                             = repair_history[t][Rank(t, i)].status
                        /\ memory[t] <= Len(repair_history[t])
      BY DEF ExperiencesMatchHistory
    <3>1. Mine(t) = {} /\ repair_history[t] = <<>> /\ memory[t] = 0
      BY <2>1, <2>2
    <3>2. memory[t] <= Len(repair_history[t])
      BY <2>3, <3>1
    <3> QED
      BY <2>3, <3>1, <3>2
<1> QED  BY <1>2, <1>3, <1>4

LEMMA RepairStays ==
    ASSUME RepairTypeOK, RepairInv, UNCHANGED repairVars
    PROVE  RepairTypeOK' /\ RepairInv'
  BY DEF repairVars, RepairTypeOK, RepairInv, RepairGood

LEMMA PipelineStays == ASSUME IInv, [Next]_vars PROVE RepairTypeOK' /\ RepairInv'
<1>1. RepairTypeOK /\ RepairInv
  BY DEF IInv, TypeOK
<1>2. CASE UNCHANGED repairVars
  BY <1>1, <1>2, RepairStays
<1>3. ASSUME NEW t \in Task, RepairMove(t)
      PROVE  RepairTypeOK' /\ RepairInv'
  BY <1>1, <1>3, RepairMoves
<1>4. CASE RepairInit'
  <2>1. (RepairInit => RepairTypeOK /\ RepairInv /\ ExperiencesMatchHistory)'
    BY RepairStarts, PTL
  <2> QED  BY <1>4, <2>1
<1> QED
  BY <1>2, <1>3, <1>4, PipelineMoves

----------------------------------------------------------------------------
(* History and experiences.                                                *)

(* What holds of the positions of a task's experiences. *)
LEMMA MineFacts ==
    ASSUME RepairTypeOK, NEW t \in Task
    PROVE  /\ Mine(t) \subseteq 1 .. Len(experiences)
           /\ IsFiniteSet(Mine(t))
           /\ \A i \in Mine(t) : Rank(t, i) \in 1 .. Cardinality(Mine(t))
<1>1. Mine(t) \subseteq 1 .. Len(experiences) /\ Len(experiences) \in Nat
  BY LenProperties DEF Mine, RepairTypeOK
<1>2. IsFiniteSet(Mine(t))
  <2>1. IsFiniteSet(1 .. Len(experiences))
    BY <1>1, FS_Interval
  <2> QED  BY <1>1, <2>1, FS_Subset
<1>3. ASSUME NEW i \in Mine(t)
      PROVE  Rank(t, i) \in 1 .. Cardinality(Mine(t))
  <2> DEFINE S == {j \in Mine(t) : j <= i}
  <2>1. S \subseteq Mine(t) /\ i \in S
    BY <1>1
  <2> HIDE DEF S
  <2>2. IsFiniteSet(S) /\ Cardinality(S) <= Cardinality(Mine(t))
    BY <1>2, <2>1, FS_Subset
  <2>3. Cardinality(S) \in Nat /\ Cardinality(S) # 0 /\ Cardinality(Mine(t)) \in Nat
    BY <1>2, <2>1, <2>2, FS_CardinalityType, FS_EmptySet
  <2>4. Rank(t, i) = Cardinality(S)
    BY DEF Rank, S
  <2> QED  BY <2>2, <2>3, <2>4
<1> QED  BY <1>1, <1>2, <1>3

LEMMA ExperienceStored ==
    ASSUME RepairTypeOK, ExperiencesMatchHistory,
           NEW t \in Task, NEW saved \in BOOLEAN, StoreExperience(t, saved)
    PROVE  ExperiencesMatchHistory'
<1>n. PICK n \in Nat : n = Len(experiences)
  BY LenProperties DEF RepairTypeOK
<1> DEFINE x == [task |-> t, status |-> repair[t].status]
           h == [status |-> repair[t].status, code |-> repair[t].code,
                 attempts |-> repair[t].attempts]
<1>1. /\ n \in Nat /\ DOMAIN experiences = 1 .. n
      /\ experiences' = Append(experiences, x)
      /\ DOMAIN experiences' = 1 .. (n + 1)
      /\ \A i \in 1 .. n : experiences'[i] = experiences[i]
      /\ experiences'[n + 1] = x
  <2>1. x \in [task : Task, status : Status]
    BY RepairFacts
  <2>2. experiences' = Append(experiences, x)
    BY DEF StoreExperience
  <2>3. experiences \in Seq([task : Task, status : Status])
    BY DEF RepairTypeOK
  <2> HIDE DEF x
  <2> QED
    BY <1>n, <2>1, <2>2, <2>3, AppendProperties, LenProperties
<1>2. \A u \in Task : Mine(u)' = IF u = t THEN Mine(u) \union {n + 1} ELSE Mine(u)
  BY <1>1 DEF Mine
<1>3. \A u \in Task : \A i \in Mine(u) : i \in 1 .. n /\ Rank(u, i)' = Rank(u, i)
  <2> TAKE u \in Task
  <2> TAKE i \in Mine(u)
  <2>1. i \in 1 .. n
    BY <1>n, MineFacts
  <2>2. {j \in Mine(u)' : j <= i} = {j \in Mine(u) : j <= i}
    BY <1>1, <1>2, <2>1
  <2> QED  BY <2>1, <2>2 DEF Rank
<1>4. /\ repair_history' = [repair_history EXCEPT ![t] = Append(@, h)]
      /\ memory' \in {memory, [memory EXCEPT ![t] = @ + 1]}
  BY DEF StoreExperience
<1>5. \A u \in Task : /\ repair_history[u] \in Seq(Result) /\ Len(repair_history[u]) \in Nat
                      /\ memory[u] \in Nat
  BY LenProperties DEF RepairTypeOK
<1>6. ASSUME NEW u \in Task \ {t}
      PROVE  /\ Cardinality(Mine(u))' = Len(repair_history[u])'
             /\ \A i \in Mine(u)' :
                    experiences'[i].status = repair_history'[u][Rank(u, i)'].status
             /\ memory'[u] <= Len(repair_history[u])'
  <2>1. repair_history'[u] = repair_history[u] /\ memory'[u] = memory[u] /\ Mine(u)' = Mine(u)
    BY <1>2, <1>4 DEF RepairTypeOK
  <2>2. \A i \in Mine(u) : experiences'[i] = experiences[i]
    BY <1>1, <1>3
  <2> QED
    BY <1>3, <2>1, <2>2 DEF ExperiencesMatchHistory
<1>7. /\ Cardinality(Mine(t))' = Len(repair_history[t])'
      /\ \A i \in Mine(t)' :
             experiences'[i].status = repair_history'[t][Rank(t, i)'].status
      /\ memory'[t] <= Len(repair_history[t])'
  <2> DEFINE k == Len(repair_history[t])
  <2>1. /\ k \in Nat /\ Cardinality(Mine(t)) = k /\ memory[t] <= k /\ memory[t] \in Nat
        /\ IsFiniteSet(Mine(t)) /\ Mine(t) \subseteq 1 .. n
    BY <1>n, <1>5, MineFacts DEF ExperiencesMatchHistory
  <2>2. /\ Len(repair_history'[t]) = k + 1
        /\ \A j \in 1 .. k : repair_history'[t][j] = repair_history[t][j]
        /\ repair_history'[t][k + 1] = h
    <3>1. repair_history'[t] = Append(repair_history[t], h)
      BY <1>4 DEF RepairTypeOK
    <3>2. h \in Result
      BY RepairFacts DEF Result, MAX_RETRIES
    <3> HIDE DEF h
    <3> QED
      BY <1>5, <3>1, <3>2, AppendProperties
  <2>3. Mine(t)' = Mine(t) \union {n + 1} /\ n + 1 \notin Mine(t)
    BY <1>1, <1>2, <2>1
  <2>4. Cardinality(Mine(t)') = k + 1
    BY <2>1, <2>3, FS_AddElement
  <2>5. memory'[t] <= k + 1
    BY <1>4, <2>1 DEF RepairTypeOK
  <2>6. ASSUME NEW i \in Mine(t)
        PROVE  experiences'[i].status = repair_history'[t][Rank(t, i)'].status
    <3>1. /\ experiences'[i] = experiences[i] /\ Rank(t, i)' = Rank(t, i)
          /\ Rank(t, i) \in 1 .. k
      BY <1>1, <1>3, <2>1, MineFacts
    <3> QED
      BY <2>2, <3>1 DEF ExperiencesMatchHistory
  <2>7. experiences'[n + 1].status = repair_history'[t][Rank(t, n + 1)'].status
    <3>1. {j \in Mine(t)' : j <= n + 1} = Mine(t)'
      BY <1>1, <2>1, <2>3
    <3>2. Rank(t, n + 1)' = k + 1
      BY <1>1, <2>4, <3>1 DEF Rank
    <3> QED
      BY <1>1, <2>2, <3>2
  <2> QED
    BY <2>2, <2>3, <2>4, <2>5, <2>6, <2>7
<1> QED
  BY <1>6, <1>7 DEF ExperiencesMatchHistory

LEMMA ExperiencesStep == ASSUME IInv, [Next]_vars PROVE ExperiencesMatchHistory'
<1>1. RepairTypeOK /\ ExperiencesMatchHistory
  BY DEF IInv, TypeOK
<1>2. ASSUME UNCHANGED <<experiences, repair_history, memory>>
      PROVE  ExperiencesMatchHistory'
  <2>1. \A t \in Task : Mine(t)' = Mine(t)
    BY <1>2 DEF Mine
  <2>2. \A t \in Task : \A i \in Mine(t) : Rank(t, i)' = Rank(t, i)
    BY <2>1 DEF Rank
  <2> QED
    BY <1>1, <1>2, <2>1, <2>2 DEF ExperiencesMatchHistory
<1>3. CASE UNCHANGED repairVars
  BY <1>2, <1>3 DEF repairVars
<1>4. ASSUME NEW t \in Task, RepairMove(t)
      PROVE  ExperiencesMatchHistory'
  <2>1. CASE \E saved \in BOOLEAN : StoreExperience(t, saved)
    BY <1>1, <2>1, ExperienceStored
  <2>2. CASE ~\E saved \in BOOLEAN : StoreExperience(t, saved)
    BY <1>2, <1>4, <2>2 DEF RepairMove, RepairStep, BeginRepair, RetryExecution, VerifyRepair,
       ApplyTemplate, ReviewByAgents, EscalateRepair, EndRepair
  <2> QED  BY <2>1, <2>2
<1>5. CASE RepairInit'
  <2>1. (RepairInit => RepairTypeOK /\ RepairInv /\ ExperiencesMatchHistory)'
    BY RepairStarts, PTL
  <2> QED  BY <1>5, <2>1
<1> QED
  BY <1>3, <1>4, <1>5, PipelineMoves

----------------------------------------------------------------------------
(* Events.                                                                 *)

LEMMA PublishFacts ==
    ASSUME TypeOK, ctx.task \in Task, NEW ty \in EventType, Publish(ty)
    PROVE  /\ log' \in Seq(Event) /\ Len(log) <= Len(log') /\ faults' \in Nat
           /\ faults' = 0 =>
                 /\ faults = 0 /\ log' # <<>>
                 /\ log'[Len(log')] = [type |-> ty, task |-> ctx.task]
<1> DEFINE e == [type |-> ty, task |-> ctx.task]
<1>1. e \in Event /\ log \in Seq(Event) /\ faults \in Nat /\ Len(log) \in Nat
  BY LenProperties DEF TypeOK, Event
<1>2. CASE log' = Append(log, e) /\ UNCHANGED faults
  <2> HIDE DEF e
  <2>1. /\ log' \in Seq(Event) /\ Len(log') = Len(log) + 1 /\ log'[Len(log) + 1] = e
    BY <1>1, <1>2, AppendProperties
  <2>2. log' # <<>>
    BY <1>1, <2>1, EmptySeq
  <2> QED
    BY <1>1, <1>2, <2>1, <2>2 DEF e
<1>3. CASE faults' = faults + 1 /\ UNCHANGED log
  BY <1>1, <1>3
<1> QED
  BY <1>2, <1>3 DEF Publish, Fault

----------------------------------------------------------------------------
(* Task states.                                                            *)

States == TaskState \union {None}

(* A state that may follow s. *)
Follows(s, new) == new \in States /\ (s \in Terminal => new = s)

LEMMA Transitions ==
    ASSUME NEW s \in States
    PROVE  /\ Follows(s, SafeTransition(s, "completed"))
           /\ Follows(s, SafeTransition(s, "blocked_hitl"))
           /\ Follows(s, s)
           /\ Follows(s, IF s = None THEN "pending" ELSE s)
           /\ Transition(s, "implementing") # None => Follows(s, "implementing")
           /\ Transition(s, "failed") # None => Follows(s, "failed")
           /\ s = "implementing" => Follows(s, "verifying")
           /\ s = "verifying" => Follows(s, "completed") /\ Follows(s, "failed")
           /\ Transition(s, "blocked_hitl") # None => Follows(s, "blocked_hitl")
  BY NoneAssumption DEF States, Follows, CanTransition, EmergencyTransition, VALID_TRANSITIONS,
     Transition, SafeTransition, Terminal, TaskState

(* The state a recovery settles in; when it is refused, the task is left    *)
(* to nobody.                                                              *)
LEMMA SettledFacts ==
    ASSUME TypeOK, NEW s \in States
    PROVE  /\ SettledState(s) # None => Follows(s, SettledState(s))
           /\ SettledState(s) = None => Unsettled(s)
           /\ SettledState(s) # None /\ ~success => SettledState(s) \in Terminal
  BY NoneAssumption DEF States, Follows, SettledState, Unsettled, CanTransition,
     EmergencyTransition, VALID_TRANSITIONS, Transition, Terminal, TaskState

TaskTypes ==
    /\ states \in [Task -> TaskState \union {None}]
    /\ context \in [Task -> Context \union {None}]
    /\ registry \subseteq Task
    /\ checkpoint \in [Task -> Context \union {None}]
    /\ log \in Seq(Event)

(* Only the task in hand moves, and as it may. *)
LEMMA OneTaskMoves ==
    ASSUME TaskTypes, NEW t \in Task, NEW new \in States, Follows(states[t], new),
           states' = [states EXCEPT ![t] = new]
    PROVE  /\ states' \in [Task -> States] /\ states'[t] = new
           /\ \A u \in Task : Follows(states[u], states'[u])
<1>1. \A u \in Task : states[u] \in States /\ Follows(states[u], states[u])
  BY Transitions DEF TaskTypes, States
<1> QED
  BY <1>1 DEF TaskTypes, States

LEMMA OneContextChanges ==
    ASSUME TaskTypes, NEW t \in Task, NEW c \in Context, context' = [context EXCEPT ![t] = c]
    PROVE  context' \in [Task -> Context \union {None}] /\ context'[t] = c
  BY DEF TaskTypes

LEMMA MarkFacts ==
    ASSUME TaskTypes, ctx.task \in Task, context[ctx.task] \in Context,
           NEW status \in ContextStatus, Mark(status)
    PROVE  context' \in [Task -> Context \union {None}] /\ context'[ctx.task] \in Context
<1> DEFINE c == [context[ctx.task] EXCEPT !.status = status]
<1>1. c \in Context
  BY DEF Context
<1>2. context' = [context EXCEPT ![ctx.task] = c]
  BY DEF Mark, TaskTypes
<1> HIDE DEF c
<1> QED
  BY <1>1, <1>2, OneContextChanges

LEMMA StartRunFacts ==
    ASSUME TaskTypes, NEW t \in Task, StartRun(t)
    PROVE  /\ TaskTypes' /\ log' = log /\ context'[t] \in Context
           /\ \A u \in Task : Follows(states[u], states'[u])
<1>1. [status |-> "implementing", manual |-> FALSE] \in Context
  BY DEF Context, ContextStatus
<1>2. context' \in [Task -> Context \union {None}] /\ context'[t] \in Context
  BY <1>1, OneContextChanges DEF StartRun
<1> DEFINE new == IF states[t] = None THEN "pending" ELSE states[t]
<1>3. /\ new \in States /\ Follows(states[t], new) /\ states' = [states EXCEPT ![t] = new]
  BY Transitions DEF StartRun, TaskTypes, States, TaskState
<1> HIDE DEF new
<1>4. states' \in [Task -> States] /\ \A u \in Task : Follows(states[u], states'[u])
  BY <1>3, OneTaskMoves
<1> QED
  BY <1>2, <1>4 DEF StartRun, TaskTypes, States

LEMMA HandleErrorFacts ==
    ASSUME TaskTypes, ctx.task \in Task, context[ctx.task] \in Context, HandleError
    PROVE  /\ states' \in [Task -> States]
           /\ \A u \in Task : Follows(states[u], states'[u])
           /\ context' \in [Task -> Context \union {None}] /\ context'[ctx.task] \in Context
<1>1. "failed" \in ContextStatus /\ "failed" \in States
  BY DEF ContextStatus, States, TaskState
<1>2. context' \in [Task -> Context \union {None}] /\ context'[ctx.task] \in Context
  BY <1>1, MarkFacts DEF HandleError
<1>3. \A u \in Task : states[u] \in States /\ Follows(states[u], states[u])
  BY Transitions DEF TaskTypes, States
<1>4. states' \in [Task -> States] /\ \A u \in Task : Follows(states[u], states'[u])
  <2>1. CASE Transition(states[ctx.task], "failed") = None
    BY <1>3, <2>1 DEF HandleError, TaskTypes, States
  <2>2. CASE Transition(states[ctx.task], "failed") # None
    <3>1. states' = [states EXCEPT ![ctx.task] = "failed"]
      BY <2>2 DEF HandleError, MoveTo
    <3>2. Follows(states[ctx.task], "failed")
      BY <1>3, <2>2, Transitions
    <3> QED
      BY <1>1, <3>1, <3>2, OneTaskMoves
  <2> QED  BY <2>1, <2>2
<1> QED
  BY <1>2, <1>4

(* A step of a run keeps the types, and the task it is about a context.    *)
LEMMA RunStepFacts ==
    ASSUME TypeOK, RunInv, ctx.task \in Task, RunStep
    PROVE  /\ TaskTypes' /\ Len(log) <= Len(log') /\ faults' \in Nat
           /\ context'[ctx.task] \in Context
           /\ \A u \in Task : Follows(states[u], states'[u])
<1> DEFINE Moves == \A u \in Task : Follows(states[u], states'[u])
           Goal == /\ TaskTypes' /\ Len(log) <= Len(log') /\ faults' \in Nat
                   /\ context'[ctx.task] \in Context /\ Moves
<1>t. /\ TaskTypes /\ context[ctx.task] \in Context /\ Len(log) \in Nat /\ faults \in Nat
      /\ pc = "execute" => states[ctx.task] = "implementing"
      /\ pc = "verify" => states[ctx.task] = "verifying"
  BY LenProperties DEF TypeOK, TaskTypes, RunInv, RunPhase, RunStep, LoadCheckpoint, LoadFails,
     BeginRun, Execution, Verification, SaveCheckpoint, SaveFails, PublishRun
<1>s. \A u \in Task : states[u] \in States /\ Follows(states[u], states[u])
  BY <1>t, Transitions DEF TaskTypes, States
<1>e. {"implementing", "verifying", "completed", "failed"} \subseteq States
  BY DEF States, TaskState
<1>1. CASE LoadCheckpoint
  <2>1. PICK c \in Context : context' = [context EXCEPT ![ctx.task] = c]
    BY <1>t, <1>1 DEF LoadCheckpoint, TaskTypes
  <2>2. log' \in Seq(Event) /\ Len(log) <= Len(log') /\ faults' \in Nat
    <3>1. Publish("task_started") /\ "task_started" \in EventType
      BY <1>1 DEF LoadCheckpoint, EventType
    <3> QED
      BY <3>1, PublishFacts
  <2>3. context' \in [Task -> Context \union {None}] /\ context'[ctx.task] \in Context
    BY <1>t, <2>1, OneContextChanges
  <2>4. UNCHANGED <<states, registry, checkpoint>>
    BY <1>1 DEF LoadCheckpoint
  <2> QED
    BY <1>t, <1>s, <2>2, <2>3, <2>4 DEF TaskTypes
<1>2. CASE LoadFails
  <2>1. HandleError /\ faults' \in Nat /\ UNCHANGED <<registry, checkpoint, log>>
    BY <1>t, <1>2 DEF LoadFails, Fault
  <2> QED
    BY <1>t, <2>1, HandleErrorFacts DEF TaskTypes, States
<1>3. CASE BeginRun
  <2>1. UNCHANGED <<registry, checkpoint, log, faults>>
    BY <1>3 DEF BeginRun, envVars
  <2>2. CASE HandleError
    BY <1>t, <2>1, <2>2, HandleErrorFacts DEF TaskTypes, States
  <2>3. CASE Transition(states[ctx.task], "implementing") # None
    <3>1. states' = [states EXCEPT ![ctx.task] = "implementing"] /\ UNCHANGED context
      BY <1>3, <2>3 DEF BeginRun, MoveTo
    <3>2. Follows(states[ctx.task], "implementing")
      BY <1>s, <2>3, Transitions
    <3>3. states' \in [Task -> States] /\ Moves
      BY <1>t, <1>e, <3>1, <3>2, OneTaskMoves
    <3> QED
      BY <1>t, <2>1, <3>1, <3>3 DEF TaskTypes, States
  <2> QED
    BY <1>3, <2>2, <2>3 DEF BeginRun
<1>4. CASE Execution
  <2>1. /\ states' = [states EXCEPT ![ctx.task] = "verifying"]
        /\ UNCHANGED <<context, registry, checkpoint, log, faults>>
        /\ Follows(states[ctx.task], "verifying")
    BY <1>t, <1>s, <1>4, Transitions DEF Execution, MoveTo, envVars
  <2>2. states' \in [Task -> States] /\ Moves
    BY <1>t, <1>e, <2>1, OneTaskMoves
  <2> QED
    BY <1>t, <2>1, <2>2 DEF TaskTypes, States
<1>5. CASE Verification
  <2>1. PICK end \in {"completed", "failed"} : MoveTo(end) /\ Mark(end)
    BY <1>5 DEF Verification
  <2>2. UNCHANGED <<registry, checkpoint, log, faults>> /\ Follows(states[ctx.task], end)
    BY <1>t, <1>s, <1>5, Transitions DEF Verification, envVars
  <2>3. states' \in [Task -> States] /\ Moves
    BY <1>t, <1>e, <2>1, <2>2, OneTaskMoves DEF MoveTo
  <2>4. context' \in [Task -> Context \union {None}] /\ context'[ctx.task] \in Context
    BY <1>t, <2>1, MarkFacts DEF ContextStatus
  <2> QED
    BY <1>t, <2>2, <2>3, <2>4 DEF TaskTypes, States
<1>6. CASE SaveCheckpoint
  <2>1. /\ checkpoint' = [checkpoint EXCEPT ![ctx.task] = context[ctx.task]]
        /\ UNCHANGED <<states, context, registry, log, faults>>
    BY <1>6 DEF SaveCheckpoint, envVars
  <2> QED
    BY <1>t, <1>s, <2>1 DEF TaskTypes
<1>7. CASE SaveFails
  <2>1. /\ Mark("failed") /\ "failed" \in ContextStatus /\ faults' \in Nat
        /\ UNCHANGED <<states, registry, checkpoint, log>>
    BY <1>t, <1>7 DEF SaveFails, Fault, ContextStatus
  <2>2. context' \in [Task -> Context \union {None}] /\ context'[ctx.task] \in Context
    BY <1>t, <2>1, MarkFacts
  <2> QED
    BY <1>t, <1>s, <2>1, <2>2 DEF TaskTypes
<1>8. CASE PublishRun
  <2>1. PICK ty \in EventType : Publish(ty)
    BY <1>8 DEF PublishRun, EventType
  <2>2. log' \in Seq(Event) /\ Len(log) <= Len(log') /\ faults' \in Nat
    BY <2>1, PublishFacts
  <2>3. UNCHANGED <<states, context, registry, checkpoint>>
    BY <1>8 DEF PublishRun
  <2> QED
    BY <1>t, <1>s, <2>2, <2>3 DEF TaskTypes
<1> QED
  BY <1>1, <1>2, <1>3, <1>4, <1>5, <1>6, <1>7, <1>8 DEF RunStep

(* What a repository holds after a crash has followed from what it held.   *)
LEMMA WrittenFacts ==
    ASSUME TypeOK, TaskTypes, CallInv, NEW written \in Written
    PROVE  /\ written \in [Task -> States]
           /\ \A u \in Task : Follows(states[u], written[u])
<1>s. \A u \in Task : states[u] \in States /\ Follows(states[u], states[u])
  BY Transitions DEF TaskTypes, States
<1>1. CASE written = states
  BY <1>s, <1>1 DEF TaskTypes, States
<1>2. CASE Acting("event_replay") /\ ctx.event # 0 /\ written # states
  <2> DEFINE t == ctx.task
             i == ctx.event
  <2>1. t \in Task /\ i \in 1 .. Len(log)
    BY <1>2, LenProperties DEF CallInv, Call, Acting, TypeOK
  <2>2. PICK new : /\ written = [states EXCEPT ![t] = new]
                   /\ \/ new = IF states[t] = None THEN "pending" ELSE states[t]
                      \/ \E n \in (i - 1) .. Len(log) : new = Replay(t, i, n).state
    BY <1>2 DEF Written
  <2>3. Follows(states[t], new)
    <3>1. CASE new = IF states[t] = None THEN "pending" ELSE states[t]
      BY <1>s, <2>1, <3>1, Transitions
    <3>2. ASSUME NEW n \in (i - 1) .. Len(log), new = Replay(t, i, n).state
          PROVE  Follows(states[t], new)
      <4> DEFINE r == Replay(t, i, n)
      <4>1. r \in Replayed(t)
        BY <2>1, ReplayIsReplayed
      <4> HIDE DEF r, t
      <4> QED
        BY <3>2, <4>1 DEF Replayed, Follows, States, r
    <3> QED
      BY <2>2, <3>1, <3>2
  <2> HIDE DEF t, i
  <2>4. new \in States
    BY <2>3 DEF Follows
  <2> QED
    BY <1>s, <2>1, <2>2, <2>3, <2>4 DEF TaskTypes, States
<1> QED
  BY <1>1, <1>2 DEF Written

(* Tasks, contexts, checkpoints and log keep their types; the log grows;    *)
(* and only a crash without a repository may take a task out of a terminal *)
(* state.                                                                  *)
LEMMA TaskStep ==
    ASSUME IInv, [Next]_vars
    PROVE  /\ TaskTypes' /\ Len(log) <= Len(log')
           /\ (Crash /\ ~durable) \/ \A u \in Task : Follows(states[u], states'[u])
<1> DEFINE Moves == \A u \in Task : Follows(states[u], states'[u])
           Goal == TaskTypes' /\ Len(log) <= Len(log') /\ Moves
<1>t. /\ TypeOK /\ RunInv /\ TaskTypes /\ Len(log) \in Nat
      /\ pc # "idle" => ctx \in Call /\ ctx.task \in Task
  BY LenProperties DEF IInv, TypeOK, TaskTypes, CallInv, Call
<1>s. \A u \in Task : states[u] \in States /\ Follows(states[u], states[u])
  BY <1>t, Transitions DEF TaskTypes, States
<1>q. ASSUME UNCHANGED taskVars
      PROVE  Goal
  BY <1>t, <1>s, <1>q DEF taskVars, TaskTypes
<1>c. ASSUME UNCHANGED <<states, registry, checkpoint, log>>,
             context' \in [Task -> Context \union {None}]
      PROVE  Goal
  BY <1>t, <1>s, <1>c DEF TaskTypes
<1>o. \A t \in Task : OwnContext(t) \in Context
  BY <1>t DEF TaskTypes, OwnContext, Context, ContextStatus
<1>0. ASSUME RunStep
      PROVE  Goal
  <2>1. ctx.task \in Task
    BY <1>t, <1>0 DEF RunStep, LoadCheckpoint, LoadFails, BeginRun, Execution, Verification,
       SaveCheckpoint, SaveFails, PublishRun
  <2> QED
    BY <1>t, <1>0, <2>1, RunStepFacts
<1>1. ASSUME NEW t \in Task, Run(t)
      PROVE  Goal
  <2>1. StartRun(t)
    BY <1>1 DEF Run
  <2> QED
    BY <1>t, <2>1, StartRunFacts
<1>2. ASSUME NEW t \in Task, Ask(t)
      PROVE  Goal
  BY <1>2, <1>q DEF Ask, ExecuteRecovery
<1>3. ASSUME Retry
      PROVE  Goal
  <2>t. ctx.task \in Task /\ Acting("retry")
    BY <1>t, <1>3 DEF Retry, Acting
  <2>1. CASE UNCHANGED taskVars
    BY <2>1, <1>q
  <2>2. CASE /\ context' = [context EXCEPT ![ctx.task] = OwnContext(ctx.task)]
             /\ UNCHANGED <<states, registry, checkpoint, log>>
    BY <1>t, <1>o, <1>c, <2>t, <2>2 DEF TaskTypes
  <2>3. CASE StartRun(ctx.task)
    BY <1>t, <2>t, <2>3, StartRunFacts
  <2> QED
    BY <1>3, <2>1, <2>2, <2>3 DEF Retry
<1>4. ASSUME EventReplay
      PROVE  Goal
  <2> DEFINE t == ctx.task
             i == ctx.event
  <2>t. t \in Task /\ i \in Nat /\ i <= Len(log) /\ UNCHANGED <<registry, checkpoint, log>>
    BY <1>t, <1>4 DEF EventReplay, Acting, IInv, CallInv, Call
  <2>1. CASE i = 0
    BY <1>4, <2>1, <1>q DEF EventReplay, taskVars
  <2>2. CASE i # 0
    <3> DEFINE r == Replay(t, i, Len(log))
    <3>1. /\ states' = [states EXCEPT ![t] = r.state]
          /\ context' = [context EXCEPT ![t] = [OwnContext(t) EXCEPT !.status = r.status]]
      BY <1>4, <2>2 DEF EventReplay
    <3>2. r \in Replayed(t)
      BY <1>t, <2>t, <2>2, ReplayIsReplayed, i \in 1 .. Len(log), Len(log) \in (i - 1) .. Len(log)
    <3> HIDE DEF r
    <3>3. Follows(states[t], r.state) /\ r.state \in TaskState \union {None}
      BY <3>2 DEF Replayed, Follows, States
    <3>4. [OwnContext(t) EXCEPT !.status = r.status] \in Context
      BY <1>o, <2>t, <3>2 DEF Replayed, Context
    <3> HIDE DEF t, i
    <3> QED
      BY <1>t, <1>s, <2>t, <3>1, <3>3, <3>4 DEF TaskTypes
  <2> QED  BY <2>1, <2>2
<1>5. ASSUME SnapshotRestore
      PROVE  Goal
  <2>1. /\ ctx.task \in Task /\ UNCHANGED <<states, registry, checkpoint, log>>
        /\ \/ UNCHANGED context
           \/ /\ checkpoint[ctx.task] # None
              /\ context' = [context EXCEPT ![ctx.task] = checkpoint[ctx.task]]
    BY <1>t, <1>5 DEF SnapshotRestore, Acting
  <2> QED
    BY <1>t, <1>c, <2>1 DEF TaskTypes
<1>6. ASSUME NothingToRepair \/ CallPipeline
      PROVE  Goal
  <2>1. /\ ctx.task \in Task /\ UNCHANGED <<states, registry, checkpoint, log>>
        /\ context' = [context EXCEPT ![ctx.task] = OwnContext(ctx.task)]
    BY <1>t, <1>6 DEF NothingToRepair, CallPipeline, Acting
  <2> QED
    BY <1>t, <1>o, <1>c, <2>1 DEF TaskTypes
<1>7. ASSUME PipelineStep
      PROVE  Goal
  BY <1>7, <1>q DEF PipelineStep
<1>8. ASSUME RepairReturns
      PROVE  Goal
  <2>t. /\ ctx.task \in Task /\ context[ctx.task] \in Context
        /\ UNCHANGED <<registry, checkpoint, log>>
    BY <1>t, <1>8 DEF RepairReturns, IInv, CallInv
  <2>1. \/ UNCHANGED <<states, context>>
        \/ /\ states' = [states EXCEPT ![ctx.task] = SafeTransition(@, "completed")]
           /\ context' = [context EXCEPT ![ctx.task].status = "completed"]
        \/ /\ states' = [states EXCEPT ![ctx.task] = SafeTransition(@, "blocked_hitl")]
           /\ context' = [context EXCEPT ![ctx.task].manual = TRUE]
    BY <1>8 DEF RepairReturns
  <2>2. \A new \in {"completed", "blocked_hitl"} :
            /\ Follows(states[ctx.task], SafeTransition(states[ctx.task], new))
            /\ SafeTransition(states[ctx.task], new) \in TaskState \union {None}
    BY <1>s, <2>t, Transitions DEF Follows, States
  <2>3. context' \in [Task -> Context \union {None}]
    <3>1. PICK c \in Context : context' \in {context, [context EXCEPT ![ctx.task] = c]}
      <4>1. /\ [context[ctx.task] EXCEPT !.status = "completed"] \in Context
            /\ [context[ctx.task] EXCEPT !.manual = TRUE] \in Context
        BY <2>t DEF Context, ContextStatus
      <4> QED
        BY <1>t, <2>t, <2>1, <4>1 DEF TaskTypes
    <3> QED
      BY <1>t, <2>t, <3>1 DEF TaskTypes
  <2>4. states' \in [Task -> TaskState \union {None}] /\ Moves
    BY <1>t, <1>s, <2>t, <2>1, <2>2 DEF TaskTypes
  <2> QED
    BY <1>t, <2>t, <2>3, <2>4 DEF TaskTypes
<1>9. ASSUME HandOver
      PROVE  Goal
  <2>t. ctx.task \in Task /\ UNCHANGED <<registry, checkpoint, log>>
    BY <1>t, <1>9 DEF HandOver
  <2>1. context' = [context EXCEPT ![ctx.task] = [OwnContext(ctx.task) EXCEPT !.manual = TRUE]]
    BY <1>9 DEF HandOver
  <2>2. context' \in [Task -> Context \union {None}]
    BY <1>t, <1>o, <2>t, <2>1 DEF TaskTypes, Context
  <2>3. \/ UNCHANGED states
        \/ /\ Transition(states[ctx.task], "blocked_hitl") # None
           /\ states' = [states EXCEPT ![ctx.task] = "blocked_hitl"]
    BY <1>9 DEF HandOver
  <2>4. states' \in [Task -> TaskState \union {None}] /\ Moves
    <3>1. "blocked_hitl" \in TaskState
      BY DEF TaskState
    <3> QED
      BY <1>t, <1>s, <2>t, <2>3, <3>1, Transitions DEF TaskTypes
  <2> QED
    BY <1>t, <2>t, <2>2, <2>4 DEF TaskTypes
<1>10. ASSUME Announce \/ Raised
       PROVE  Goal
  <2>1. PICK ty \in EventType : Publish(ty)
    BY <1>10 DEF Announce, Raised, EventType
  <2>2. ctx.task \in Task /\ UNCHANGED <<states, context, registry, checkpoint>>
    BY <1>t, <1>10 DEF Announce, Raised
  <2>3. log' \in Seq(Event) /\ Len(log) <= Len(log')
    BY <1>t, <2>1, <2>2, PublishFacts
  <2> QED
    BY <1>t, <1>s, <2>2, <2>3 DEF TaskTypes
<1>11. ASSUME Settle
       PROVE  Goal
  <2> DEFINE t == ctx.task
             new == SettledState(states[t])
  <2>t. t \in Task /\ UNCHANGED <<context, registry, checkpoint, log>>
    BY <1>t, <1>11 DEF Settle
  <2>1. \/ UNCHANGED states
        \/ new # None /\ states' = [states EXCEPT ![t] = new]
    BY <1>11 DEF Settle
  <2>2. new # None => Follows(states[t], new) /\ new \in TaskState \union {None}
    BY <1>t, <1>s, <2>t, SettledFacts DEF Follows, States
  <2> HIDE DEF t, new
  <2> QED
    BY <1>t, <1>s, <2>t, <2>1, <2>2 DEF TaskTypes
<1>12. ASSUME Crash
       PROVE  TaskTypes' /\ Len(log) <= Len(log') /\ (~durable \/ Moves)
  <2>1. /\ context' = [t \in Task |-> None] /\ registry' = {} /\ UNCHANGED <<checkpoint, log>>
    BY <1>12 DEF Crash
  <2>2. states' \in [Task -> States] /\ (~durable \/ Moves)
    <3>1. CASE durable
      <4>1. states' \in Written
        BY <1>12, <3>1 DEF Crash
      <4> QED
        BY <1>t, <4>1, WrittenFacts DEF IInv
    <3>2. CASE ~durable
      BY <1>12, <3>2 DEF Crash, States
    <3> QED  BY <3>1, <3>2
  <2> QED
    BY <1>t, <2>1, <2>2 DEF TaskTypes, States
<1>13. ASSUME UNCHANGED vars
       PROVE  Goal
  BY <1>13, <1>q DEF vars
<1> QED
  BY <1>0, <1>1, <1>2, <1>3, <1>4, <1>5, <1>6, <1>7, <1>8, <1>9, <1>10, <1>11, <1>12, <1>13
     DEF Next, Recovery

(* The call, its flags and the counters. *)
CallTypes ==
    /\ recovery_history \in [Task -> Nat]
    /\ pc \in {"idle", "act", "repair", "announce", "settle", "raised"} \union RunPhase
    /\ ctx \in Call \union {None}
    /\ success \in BOOLEAN /\ result \in BOOLEAN
    /\ durable \in BOOLEAN
    /\ calls \in Nat /\ faults \in Nat /\ crashes \in Nat

LEMMA CallStep == ASSUME IInv, [Next]_vars PROVE CallTypes' /\ CallInv'
<1>t. /\ TypeOK /\ CallTypes /\ CallInv /\ log \in Seq(Event)
      /\ pc # "idle" => ctx \in Call /\ ctx.task \in Task
  BY DEF IInv, TypeOK, CallTypes, CallInv, Call
<1>l. Len(log) \in Nat /\ Len(log') \in Nat /\ Len(log) <= Len(log')
  BY <1>t, TaskStep, LenProperties DEF TaskTypes
<1>a. ASSUME pc # "idle", UNCHANGED <<recovery_history, ctx, durable, calls, crashes>>,
             success' \in BOOLEAN, result' \in BOOLEAN, faults' \in Nat,
             pc' \in {"idle", "announce", "settle", "raised"} \union RunPhase
      PROVE  CallTypes' /\ CallInv'
  BY <1>t, <1>a DEF CallTypes, CallInv, RunPhase
<1>b. ASSUME RunStep
      PROVE  CallTypes' /\ CallInv'
  <2>1. /\ pc \in RunPhase /\ pc # "idle" /\ UNCHANGED <<durable, calls, crashes>>
        /\ \/ \E ok \in BOOLEAN : RunReturns(ok)
           \/ /\ pc' \in RunPhase /\ UNCHANGED <<recovery_history, ctx, result>>
              /\ success' \in BOOLEAN
    BY <1>t, <1>b DEF RunStep, LoadCheckpoint, LoadFails, HandleError, BeginRun, Execution,
       Verification, SaveCheckpoint, SaveFails, PublishRun, RunPhase, envVars, CallTypes
  <2>2. faults' \in Nat
    BY <1>t, <1>b, <2>1, RunStepFacts DEF IInv
  <2>3. CASE \E ok \in BOOLEAN : Acted(ok)
    BY <1>t, <1>a, <2>1, <2>2, <2>3 DEF Acted, CallTypes
  <2>4. CASE /\ pc' = "idle" /\ ctx' = None /\ success' = FALSE
             /\ UNCHANGED <<recovery_history, result>>
    BY <1>t, <2>1, <2>2, <2>4 DEF CallTypes, CallInv
  <2>5. CASE /\ pc' \in RunPhase /\ UNCHANGED <<recovery_history, ctx, result>>
             /\ success' \in BOOLEAN
    BY <1>t, <1>a, <2>1, <2>2, <2>5 DEF CallTypes
  <2> QED
    BY <2>1, <2>3, <2>4, <2>5 DEF RunReturns
<1>1. ASSUME NEW t \in Task, Run(t)
      PROVE  CallTypes' /\ CallInv'
  <2> DEFINE c == [task |-> t, strategy |-> None, retry_count |-> 0, event |-> 0,
                   checkpoint_id |-> None]
  <2>1. c \in Call
    BY DEF Call
  <2>2. /\ ctx' = c /\ pc' = "load" /\ calls' = calls + 1
        /\ UNCHANGED <<recovery_history, success, result, durable, faults, crashes>>
    BY <1>1 DEF Run, StartRun
  <2> HIDE DEF c
  <2> QED
    BY <1>t, <2>1, <2>2 DEF CallTypes, CallInv, RunPhase
<1>2. ASSUME NEW t \in Task, Ask(t)
      PROVE  CallTypes' /\ CallInv'
  <2>1. PICK strategy \in Strategy, n \in {0, MAX_RETRY_ATTEMPTS}, i \in 0 .. Len(log),
             id \in {None, "right", "wrong"} :
             ExecuteRecovery(t, strategy, n, i, id)
    <3>1. \A f \in DOMAIN Recommended : Recommended[f] \in Strategy
      BY DEF Recommended, Strategy
    <3>2. /\ {"retry", "event_replay", "snapshot_restore", "defect_repair"} \subseteq Strategy
          /\ 0 \in 0 .. Len(log) /\ 1 .. Len(log) \subseteq 0 .. Len(log)
      BY <1>l DEF Strategy
    <3> QED
      BY <1>2, <3>1, <3>2 DEF Ask
  <2> DEFINE c == [task |-> t, strategy |-> strategy, retry_count |-> n, event |-> i,
                   checkpoint_id |-> id]
  <2>2. c \in Call /\ c.event <= Len(log) /\ i \in Nat
    BY <1>l DEF Call
  <2>3. /\ ctx' = c /\ pc' = "act" /\ success' = FALSE /\ result' = FALSE /\ calls' = calls + 1
        /\ recovery_history' = [recovery_history EXCEPT ![t] = @ + 1]
        /\ UNCHANGED <<log, durable, faults, crashes>>
    BY <2>1 DEF ExecuteRecovery, taskVars
  <2> HIDE DEF c
  <2>4. recovery_history' \in [Task -> Nat] /\ calls' \in Nat
    BY <1>t, <2>3 DEF CallTypes
  <2>5. CallTypes'
    BY <1>t, <2>2, <2>3, <2>4 DEF CallTypes
  <2>6. CallInv'
    BY <2>2, <2>3 DEF CallInv
  <2> QED  BY <2>5, <2>6
<1>3. ASSUME Retry \/ EventReplay \/ SnapshotRestore \/ NothingToRepair \/ HandOver
      PROVE  CallTypes' /\ CallInv'
  <2>1. /\ pc = "act" /\ UNCHANGED envVars
        /\ \/ \E ok \in BOOLEAN : Acted(ok)
           \/ pc' = "load" /\ UNCHANGED <<recovery_history, ctx, success, result>>
    BY <1>3 DEF Retry, StartRun, EventReplay, SnapshotRestore, NothingToRepair, HandOver, Acting
  <2> QED
    BY <1>t, <1>a, <2>1 DEF Acted, envVars, CallTypes, RunPhase
<1>4. ASSUME CallPipeline
      PROVE  CallTypes' /\ CallInv'
  <2>1. /\ ctx \in Call /\ ctx.task \in Task /\ pc' = "repair"
        /\ UNCHANGED <<recovery_history, ctx, success, result>> /\ UNCHANGED envVars
        /\ context' = [context EXCEPT ![ctx.task] = OwnContext(ctx.task)]
    BY <1>t, <1>4 DEF CallPipeline, Acting
  <2>2. context'[ctx.task] \in Context
    BY <1>t, <2>1 DEF TypeOK, OwnContext, Context, ContextStatus
  <2> QED
    BY <1>t, <2>1, <2>2 DEF CallTypes, CallInv, envVars
<1>5. ASSUME PipelineStep
      PROVE  CallTypes' /\ CallInv'
  BY <1>t, <1>5 DEF PipelineStep, taskVars, callVars, envVars, CallTypes, CallInv
<1>6. ASSUME RepairReturns
      PROVE  CallTypes' /\ CallInv'
  <2>1. pc = "repair" /\ UNCHANGED envVars /\ \E ok \in BOOLEAN : Acted(ok)
    BY <1>6 DEF RepairReturns
  <2> QED
    BY <1>t, <1>a, <2>1 DEF Acted, envVars, CallTypes
<1>7. ASSUME Announce \/ Raised
      PROVE  CallTypes' /\ CallInv'
  <2>1. PICK ty \in EventType : Publish(ty)
    BY <1>7 DEF Announce, Raised, EventType
  <2>2. /\ pc # "idle" /\ pc' \in {"settle", "idle"}
        /\ UNCHANGED <<recovery_history, ctx, success, durable, calls, crashes>>
        /\ result' \in BOOLEAN
    BY <1>t, <1>7 DEF Announce, Raised, CallTypes
  <2>3. faults' \in Nat
    BY <1>t, <2>1, <2>2, PublishFacts
  <2> QED
    BY <1>t, <1>a, <2>2, <2>3 DEF CallTypes
<1>8. ASSUME Settle
      PROVE  CallTypes' /\ CallInv'
  BY <1>t, <1>a, <1>8 DEF Settle, envVars, CallTypes
<1>9. ASSUME Crash
      PROVE  CallTypes' /\ CallInv'
  <2>1. /\ recovery_history' = [t \in Task |-> 0] /\ pc' = "idle" /\ ctx' = None
        /\ success' = FALSE /\ result' = FALSE /\ crashes' = crashes + 1
        /\ UNCHANGED <<durable, calls, faults>>
    BY <1>9 DEF Crash
  <2>2. recovery_history' \in [Task -> Nat] /\ crashes' \in Nat
    BY <1>t, <2>1 DEF CallTypes
  <2>3. success' \in BOOLEAN /\ result' \in BOOLEAN /\ durable' \in BOOLEAN
    BY <1>t, <2>1 DEF CallTypes
  <2>4. CallTypes'
    BY <1>t, <2>1, <2>2, <2>3 DEF CallTypes
  <2> QED
    BY <2>1, <2>4 DEF CallInv
<1>10. ASSUME UNCHANGED vars
       PROVE  CallTypes' /\ CallInv'
  BY <1>t, <1>10 DEF vars, taskVars, callVars, envVars, CallTypes, CallInv
<1> QED
  BY <1>b, <1>1, <1>2, <1>3, <1>4, <1>5, <1>6, <1>7, <1>8, <1>9, <1>10 DEF Next, Recovery

(* The task that is run. *)
LEMMA RunInvStep == ASSUME IInv, [Next]_vars PROVE RunInv'
<1>t. /\ TypeOK /\ TaskTypes /\ RunInv /\ (pc # "idle" => ctx.task \in Task)
  BY DEF IInv, TypeOK, TaskTypes, CallInv, Call
<1>1. ASSUME pc' \notin RunPhase
      PROVE  RunInv'
  BY <1>1 DEF RunInv
<1>2. ASSUME UNCHANGED <<pc, ctx, states, context>>
      PROVE  RunInv'
  BY <1>t, <1>2 DEF RunInv
<1>3. ASSUME NEW t \in Task, StartRun(t), ctx'.task = t
      PROVE  RunInv'
  <2>1. context'[t] \in Context /\ pc' = "load"
    BY <1>t, <1>3, StartRunFacts DEF StartRun
  <2> QED
    BY <1>3, <2>1 DEF RunInv
<1>4. CASE RunStep
  <2>1. context'[ctx.task] \in Context /\ ctx.task \in Task
    BY <1>t, <1>4, RunStepFacts DEF RunStep, LoadCheckpoint, LoadFails, BeginRun, Execution,
       Verification, SaveCheckpoint, SaveFails, PublishRun
  <2>2. CASE pc' \in {"idle", "announce"}
    BY <1>1, <2>2 DEF RunPhase
  <2>3. CASE pc' \in {"begin", "save", "publish"} /\ ctx' = ctx
    BY <2>1, <2>3 DEF RunInv
  <2>4. CASE pc' = "execute" /\ ctx' = ctx /\ MoveTo("implementing")
    BY <1>t, <2>1, <2>4 DEF RunInv, MoveTo, TaskTypes
  <2>5. CASE pc' = "verify" /\ ctx' = ctx /\ MoveTo("verifying")
    BY <1>t, <2>1, <2>5 DEF RunInv, MoveTo, TaskTypes
  <2> QED
    BY <1>4, <2>2, <2>3, <2>4, <2>5 DEF RunStep, LoadCheckpoint, LoadFails, HandleError, BeginRun,
       Execution, Verification, SaveCheckpoint, SaveFails, PublishRun, RunReturns, Acted
<1>5. ASSUME NEW t \in Task, Run(t) \/ Ask(t)
      PROVE  RunInv'
  <2>1. CASE Run(t)
    <3>1. StartRun(t) /\ ctx'.task = t
      BY <2>1 DEF Run
    <3> QED
      BY <1>3, <3>1
  <2>2. CASE Ask(t)
    BY <1>1, <2>2 DEF Ask, ExecuteRecovery, RunPhase
  <2> QED
    BY <1>5, <2>1, <2>2
<1>6. CASE Retry
  <2>1. CASE StartRun(ctx.task) /\ UNCHANGED ctx
    <3>1. ctx.task \in Task
      BY <1>t, <1>6 DEF Retry, Acting
    <3> QED
      BY <1>3, <2>1, <3>1
  <2>2. CASE \E ok \in BOOLEAN : Acted(ok)
    BY <1>1, <2>2 DEF Acted, RunPhase
  <2> QED
    BY <1>6, <2>1, <2>2 DEF Retry
<1>7. CASE \/ EventReplay \/ SnapshotRestore \/ NothingToRepair \/ HandOver \/ CallPipeline
           \/ RepairReturns \/ Announce \/ Settle \/ Raised \/ Crash
  BY <1>1, <1>7 DEF EventReplay, SnapshotRestore, NothingToRepair, HandOver, CallPipeline,
     RepairReturns, Announce, Settle, Raised, Crash, Acted, RunPhase
<1>8. CASE PipelineStep \/ UNCHANGED vars
  BY <1>2, <1>8 DEF PipelineStep, vars, taskVars, callVars, envVars
<1> QED
  BY <1>4, <1>5, <1>6, <1>7, <1>8 DEF Next, Recovery

(* An announcement stays the last event until the next run or recovery. *)
LEMMA AnnounceStep == ASSUME IInv, [Next]_vars PROVE AnnounceInv'
<1>t. TypeOK /\ CallInv /\ AnnounceInv /\ (pc # "idle" => ctx.task \in Task) /\ faults \in Nat
  BY DEF IInv, TypeOK, CallInv, Call
<1>1. ASSUME UNCHANGED <<log, pc, ctx, success, result, faults>>
      PROVE  AnnounceInv'
  BY <1>t, <1>1 DEF AnnounceInv, Announced, Returned
<1>2. ASSUME pc' \notin {"idle", "settle"}
      PROVE  AnnounceInv'
  BY <1>2 DEF AnnounceInv, Returned
<1>3. ASSUME ctx' = None, pc' = "idle"
      PROVE  AnnounceInv'
  BY <1>3 DEF AnnounceInv, Returned
<1>0. CASE RunStep
  BY <1>2, <1>3, <1>0 DEF RunStep, LoadCheckpoint, LoadFails, HandleError, BeginRun, Execution,
     Verification, SaveCheckpoint, SaveFails, PublishRun, RunReturns, Acted
<1>4. CASE \E t \in Task : Run(t) \/ Ask(t)
  BY <1>2, <1>3, <1>4 DEF Run, StartRun, Ask, ExecuteRecovery
<1>5. CASE \/ Retry \/ EventReplay \/ SnapshotRestore \/ NothingToRepair \/ HandOver
           \/ CallPipeline \/ RepairReturns
  BY <1>2, <1>5 DEF Retry, StartRun, EventReplay, SnapshotRestore, NothingToRepair, HandOver,
     CallPipeline, RepairReturns, Acted
<1>6. CASE PipelineStep \/ UNCHANGED vars
  BY <1>1, <1>6 DEF PipelineStep, vars, taskVars, callVars, envVars
<1>7. CASE Announce
  <2> DEFINE ty == IF success THEN "task_completed" ELSE "task_failed"
  <2>1. /\ ctx.task \in Task /\ ty \in EventType /\ Publish(ty)
        /\ pc' = "settle" /\ UNCHANGED <<ctx, success>>
    BY <1>t, <1>7 DEF Announce, EventType
  <2> HIDE DEF ty
  <2>2. faults' = 0 => /\ log' # <<>>
                       /\ log'[Len(log')] = [type |-> ty, task |-> ctx.task]
    BY <1>t, <2>1, PublishFacts
  <2> QED
    BY <2>1, <2>2 DEF AnnounceInv, Announced, Returned, ty
<1>8. CASE Settle
  <2>1. CASE pc' = "idle" /\ result' = success
    BY <1>t, <1>8, <2>1 DEF Settle, envVars, AnnounceInv, Announced, Returned
  <2>2. CASE pc' = "raised"
    BY <1>2, <2>2
  <2> QED
    BY <1>8, <2>1, <2>2 DEF Settle
<1>9. CASE Raised
  <2>1. /\ ctx.task \in Task /\ Publish("task_failed") /\ "task_failed" \in EventType
        /\ pc' = "idle" /\ result' = FALSE /\ UNCHANGED ctx
    BY <1>t, <1>9 DEF Raised, EventType
  <2>2. faults' = 0 => /\ log' # <<>>
                       /\ log'[Len(log')] = [type |-> "task_failed", task |-> ctx.task]
    BY <1>t, <2>1, PublishFacts
  <2> QED
    BY <2>1, <2>2 DEF AnnounceInv, Announced, Returned
<1>10. CASE Crash
  BY <1>3, <1>10 DEF Crash
<1> QED
  BY <1>0, <1>4, <1>5, <1>6, <1>7, <1>8, <1>9, <1>10 DEF Next, Recovery

(* Where a recovery leaves a task. *)
LEMMA SettleStep == ASSUME IInv, [Next]_vars PROVE SettleInv'
<1>t. /\ TypeOK /\ SettleInv /\ (pc # "idle" => ctx.task \in Task)
      /\ \A u \in Task : states[u] \in States
  BY DEF IInv, TypeOK, CallInv, Call, States
<1>1. ASSUME UNCHANGED <<states, pc, ctx, success, result>>
      PROVE  SettleInv'
  BY <1>t, <1>1 DEF SettleInv, Unsettled, Returned
<1>2. ASSUME pc' \notin {"idle", "raised"}
      PROVE  SettleInv'
  BY <1>2 DEF SettleInv, Returned
<1>3. ASSUME ctx' = None, pc' = "idle"
      PROVE  SettleInv'
  BY <1>3 DEF SettleInv, Returned
<1>0. CASE RunStep
  BY <1>2, <1>3, <1>0 DEF RunStep, LoadCheckpoint, LoadFails, HandleError, BeginRun, Execution,
     Verification, SaveCheckpoint, SaveFails, PublishRun, RunReturns, Acted
<1>4. CASE \E t \in Task : Run(t) \/ Ask(t)
  BY <1>2, <1>3, <1>4 DEF Run, StartRun, Ask, ExecuteRecovery
<1>5. CASE \/ Retry \/ EventReplay \/ SnapshotRestore \/ NothingToRepair \/ HandOver
           \/ CallPipeline \/ RepairReturns \/ Announce
  BY <1>2, <1>5 DEF Retry, StartRun, EventReplay, SnapshotRestore, NothingToRepair, HandOver,
     CallPipeline, RepairReturns, Acted, Announce
<1>6. CASE PipelineStep \/ UNCHANGED vars
  BY <1>1, <1>6 DEF PipelineStep, vars, taskVars, callVars, envVars
<1>7. CASE Settle
  <2> DEFINE s == states[ctx.task]
             new == SettledState(s)
  <2>1. /\ ctx.task \in Task /\ UNCHANGED <<ctx, success>> /\ s \in States
        /\ \/ /\ new # None /\ states' = [states EXCEPT ![ctx.task] = new]
              /\ result' = success /\ pc' = "idle"
           \/ /\ new = None /\ pc' = "raised" /\ UNCHANGED states
    BY <1>t, <1>7 DEF Settle
  <2>2. /\ new = None => Unsettled(s)
        /\ new # None /\ ~success => new \in Terminal
    <3> HIDE DEF s
    <3> QED  BY <1>t, <2>1, SettledFacts
  <2>3. CASE new = None
    BY <2>1, <2>2, <2>3 DEF SettleInv, Unsettled, Returned
  <2>4. CASE new # None
    <3>1. states'[ctx.task] = new
      BY <1>t, <2>1, <2>4 DEF TypeOK
    <3> HIDE DEF new
    <3> QED
      BY <2>1, <2>2, <2>4, <3>1 DEF SettleInv, Unsettled, Returned
  <2> QED  BY <2>3, <2>4
<1>8. CASE Raised
  BY <1>t, <1>8 DEF Raised, SettleInv, Unsettled, Returned
<1>9. CASE Crash
  BY <1>3, <1>9 DEF Crash
<1> QED
  BY <1>0, <1>4, <1>5, <1>6, <1>7, <1>8, <1>9 DEF Next, Recovery

----------------------------------------------------------------------------
(* The theorems.                                                           *)

LEMMA IInvInit == Init => IInv
<1> SUFFICES ASSUME Init PROVE IInv
  OBVIOUS
<1>1. RepairTypeOK /\ RepairInv /\ ExperiencesMatchHistory
  BY RepairStarts DEF Init
<1>2. TypeOK
  <2>1. log \in Seq(Event)
    <3>1. [type |-> "workflow_started", task |-> None] \in Event
      BY DEF Event, EventType
    <3> QED  BY <3>1 DEF Init
  <2> QED
    BY <1>1, <2>1 DEF Init, TypeOK
<1>3. RunInv /\ CallInv /\ AnnounceInv /\ SettleInv
  BY DEF Init, RunInv, RunPhase, CallInv, AnnounceInv, SettleInv, Returned
<1> QED
  BY <1>1, <1>2, <1>3 DEF IInv

LEMMA IInvStep == IInv /\ [Next]_vars => IInv'
<1> SUFFICES ASSUME IInv, [Next]_vars PROVE IInv'
  OBVIOUS
<1>1. TypeOK'
  BY PipelineStays, TaskStep, CallStep DEF TypeOK, TaskTypes, CallTypes
<1> QED
  BY <1>1, PipelineStays, RunInvStep, CallStep, AnnounceStep, SettleStep, ExperiencesStep DEF IInv

LEMMA IInvHolds == Spec => []IInv
  BY IInvInit, IInvStep, PTL DEF Spec

(* Every variable keeps its type. *)
THEOREM TypeCorrect == Spec => []TypeOK
<1>1. IInv => TypeOK
  BY DEF IInv
<1> QED
  BY <1>1, IInvHolds, PTL

(* A repair that is reported as a success was verified on the code it       *)
(* returns, within four executions, however many repairs and recoveries    *)
(* came before it (repair_pipeline.py:152-162).                            *)
THEOREM RepairsAreVerified == Spec => []SuccessWasVerified
<1>1. IInv => SuccessWasVerified
  <2> SUFFICES ASSUME IInv, NEW t \in Task
               PROVE  /\ executions[t] <= MAX_RETRIES + 1
                      /\ repair[t].phase \in {"store", "done"} /\ repair[t].status = "success" =>
                            /\ executed[t] = [code |-> repair[t].code, passed |-> TRUE]
                            /\ last_repaired_code[t] = repair[t].code
    BY DEF SuccessWasVerified
  <2>1. RepairGood(t) /\ RepairTypeOK
    BY DEF IInv, TypeOK, RepairInv
  <2>2. executions[t] <= MAX_RETRIES + 1
    <3>1. repair[t].attempts \in 0 .. 3 /\ executions[t] \in Nat /\ repair[t] \in Repair
      BY <2>1, RepairFacts
    <3>2. repair[t].phase \in {"idle", "strategy", "verify", "store", "done"}
      BY <3>1 DEF Repair
    <3> QED
      BY <2>1, <3>1, <3>2 DEF RepairGood, MAX_RETRIES
  <2> QED
    BY <2>1, <2>2 DEF RepairGood
<1> QED
  BY <1>1, IInvHolds, PTL

(* The pipeline's history and its experiences agree, whatever memory makes  *)
(* of their copies (repair_pipeline.py:164-174, 304-308).                  *)
THEOREM HistoriesAgree == Spec => []ExperiencesMatchHistory
<1>1. IInv => ExperiencesMatchHistory
  BY DEF IInv
<1> QED
  BY <1>1, IInvHolds, PTL

(* As long as no event was lost, the last event of a task whose recovery    *)
(* returned says what the recovery answered (recovery_engine.py:130, 172). *)
THEOREM AnswersAreAnnounced == Spec => []OutcomeIsAnnounced
<1>1. IInv => OutcomeIsAnnounced
  <2> SUFFICES ASSUME IInv, Returned, faults = 0
               PROVE  \E i \in DOMAIN log :
                         /\ log[i] = [type |-> IF result THEN "task_completed" ELSE "task_failed",
                                      task |-> ctx.task]
                         /\ \A j \in DOMAIN log : log[j].task = ctx.task => j <= i
    BY DEF OutcomeIsAnnounced
  <2>1. Announced(result) /\ log \in Seq(Event)
    BY DEF IInv, AnnounceInv, TypeOK
  <2>2. Len(log) \in DOMAIN log /\ \A j \in DOMAIN log : j <= Len(log)
    BY <2>1, LenProperties, EmptySeq DEF Announced
  <2> QED
    BY <2>1, <2>2 DEF Announced
<1> QED
  BY <1>1, IInvHolds, PTL

(* A recovery that answers FALSE leaves the task finished or with a human,  *)
(* save for the three kinds of tasks it leaves to nobody                   *)
(* (recovery_engine.py:155-168, 737; task_executor.py:334-373).            *)
THEOREM FailuresAreHandedOver == Spec => []FailureIsHandedOver
<1>1. IInv => FailureIsHandedOver
  BY DEF IInv, SettleInv, Unsettled, FailureIsHandedOver
<1> QED
  BY <1>1, IInvHolds, PTL

(* No replay, rerun, repair or settlement takes a task out of a terminal    *)
(* state, whatever the events and checkpoints it is given; only a crash    *)
(* without a repository does (recovery_engine.py:688-716, 739-754).        *)
THEOREM TerminalStatesAreFinal == Spec => TerminalIsFinal
<1> DEFINE Kept == \A t \in Task : states[t] \in Terminal =>
                      states'[t] = states[t] \/ (crashes' # crashes /\ ~durable)
<1>1. ASSUME IInv, [Next]_vars
      PROVE  Kept
  <2>1. CASE Crash /\ ~durable
    <3>1. crashes \in Nat
      BY <1>1 DEF IInv, TypeOK
    <3> QED
      BY <2>1, <3>1 DEF Crash
  <2>2. CASE \A u \in Task : Follows(states[u], states'[u])
    BY <2>2 DEF Follows
  <2> QED
    BY <1>1, <2>1, <2>2, TaskStep
<1>2. IInv /\ [Next]_vars => [Kept]_vars
  BY <1>1
<1> QED
  BY <1>2, IInvHolds, PTL DEF Spec, TerminalIsFinal
============================================================================
