--------------------------- MODULE Queues_proofs ---------------------------
(***************************************************************************)
(* Theorems about the two queues of the workflow engine, each on its own:  *)
(* the dispatch queue (SchedulerEngine), for any number of tasks, any      *)
(* limits and any dependency lists, and the event stream (RedisStreamBus), *)
(* for any messages, loops, callbacks, batches and faults.                 *)
(*                                                                         *)
(* For each of them an inductive invariant (IInv, BusInv) is defined, then *)
(* proved to hold initially and to be kept by every action.  Of the        *)
(* scheduler, the concurrency bound and, under the dispatch loop,          *)
(* DependencyClosed are each inductive once IInv is there.                 *)
(***************************************************************************)
EXTENDS SchedulerEngine, RedisStreamBus, FiniteSetTheorems, SequenceTheorems, TLAPS

----------------------------------------------------------------------------
(* SchedulerEngine: typing.                                                *)

(* Every step of the scheduler leaves its variables in their types. *)
LEMMA TypeStep == TypeOK /\ [Next]_vars => TypeOK'
<1> USE SchedulerAssumption DEF SchedulerAssumption
<1> SUFFICES ASSUME TypeOK, [Next]_vars PROVE TypeOK'
  OBVIOUS
<1> USE DEF TypeOK, Status
<1>1. ASSUME NEW t \in Task, NEW p \in Priority, NEW deps \in DependencySet,
             AddTask(t, p, deps)
      PROVE  TypeOK'
  BY <1>1 DEF AddTask
<1>2. CASE BeginPass
  BY <1>2 DEF BeginPass, taskVars
<1>3. CASE EndPass
  BY <1>3 DEF EndPass, taskVars
<1>4. ASSUME NEW t \in Task, Visit(t) PROVE TypeOK'
  <2>1. CASE Skip(t)
    BY <2>1 DEF Skip, Pop, taskVars
  <2>2. CASE Backoff(t)
    BY <2>2 DEF Backoff, Pop, taskVars
  <2>3. CASE Start(t)
    BY <2>3 DEF Start, Pop
  <2>4. CASE FailPermanent(t)
    BY <2>4 DEF FailPermanent, Conflicted, Pop
  <2>5. CASE FailExhausted(t)
    BY <2>5 DEF FailExhausted, Conflicted, Pop
  <2>6. CASE Defer(t)
    BY <2>6 DEF Defer, Conflicted, Pop
  <2> QED
    BY <1>4, <2>1, <2>2, <2>3, <2>4, <2>5, <2>6 DEF Visit
<1>5. ASSUME NEW t \in Task, MarkCompleted(t) PROVE TypeOK'
  BY <1>5 DEF MarkCompleted, queueVars
<1>6. ASSUME NEW t \in Task, MarkFailed(t) PROVE TypeOK'
  BY <1>6 DEF MarkFailed, queueVars
<1>7. ASSUME NEW t \in Task, Elapse(t) PROVE TypeOK'
  BY <1>7 DEF Elapse, queueVars
<1>8. CASE UNCHANGED vars
  BY <1>8 DEF vars
<1> QED
  BY <1>1, <1>2, <1>3, <1>4, <1>5, <1>6, <1>7, <1>8 DEF Next, Register, Pass

(* The scheduler starts with empty tables. *)
LEMMA TypeInit == Init => TypeOK
<1> SUFFICES ASSUME Init PROVE TypeOK
  OBVIOUS
<1>1. status \in [Task -> Status]
  BY DEF Init, Status
<1>2. dependencies \in [Task -> SUBSET Task]
  BY DEF Init
<1>3. priority \in [Task -> Priority \union {0}] /\ retry_attempts \in [Task -> Nat]
  BY DEF Init
<1> QED
  BY <1>1, <1>2, <1>3 DEF Init, TypeOK

(* Type correctness of every behaviour. *)
THEOREM SchedulerTypes == Spec => []TypeOK
<1> QED
  BY TypeInit, TypeStep, PTL DEF Spec

----------------------------------------------------------------------------

(* How the entries, the deferred entries and the retry counters relate.    *)
QueueInv ==
    /\ execution_queue \intersect deferred = {}
    /\ ~passing => deferred = {}
    /\ \A t \in deferred \union backingOff : retry_attempts[t] > 0
    /\ \A t \in Task : status[t] = "absent" => retry_attempts[t] = 0

IInv == TypeOK /\ RunningSetExact /\ NoPendingTaskLost /\ RetryBudget /\ QueueInv

(* IInv is inductive. *)
LEMMA IInvStep == IInv /\ [Next]_vars => IInv'
<1> USE SchedulerAssumption DEF SchedulerAssumption
<1> SUFFICES ASSUME IInv, [Next]_vars
             PROVE  (RunningSetExact /\ NoPendingTaskLost /\ RetryBudget /\ QueueInv)'
  BY TypeStep DEF IInv
<1>0. TypeOK'
  BY TypeStep DEF IInv
<1> USE DEF IInv, TypeOK, RunningSetExact, NoPendingTaskLost, RetryBudget, QueueInv
<1>1. ASSUME NEW t \in Task, NEW p \in Priority, NEW deps \in DependencySet,
             AddTask(t, p, deps)
      PROVE  (RunningSetExact /\ NoPendingTaskLost /\ RetryBudget /\ QueueInv)'
  BY <1>0, <1>1 DEF AddTask
<1>2. CASE BeginPass
  BY <1>0, <1>2 DEF BeginPass, taskVars
<1>3. CASE EndPass
  BY <1>0, <1>3 DEF EndPass, taskVars
<1>4. ASSUME NEW t \in Task, Visit(t)
      PROVE  (RunningSetExact /\ NoPendingTaskLost /\ RetryBudget /\ QueueInv)'
  <2>1. CASE Skip(t)
    BY <1>0, <2>1 DEF Skip, Pop, IsNext, taskVars
  <2>2. CASE Backoff(t)
    BY <1>0, <2>2 DEF Backoff, Pop, IsNext, taskVars
  <2>3. CASE Start(t)
    BY <1>0, <2>3 DEF Start, Pop, IsNext
  <2>4. CASE FailPermanent(t)
    BY <1>0, <2>4 DEF FailPermanent, Conflicted, Pop, IsNext
  <2>5. CASE FailExhausted(t)
    BY <1>0, <2>5 DEF FailExhausted, Conflicted, Pop, IsNext
  <2>6. CASE Defer(t)
    BY <1>0, <2>6 DEF Defer, Conflicted, Pop, IsNext
  <2> QED
    BY <1>4, <2>1, <2>2, <2>3, <2>4, <2>5, <2>6 DEF Visit
<1>5. ASSUME NEW t \in Task, MarkCompleted(t)
      PROVE  (RunningSetExact /\ NoPendingTaskLost /\ RetryBudget /\ QueueInv)'
  BY <1>0, <1>5 DEF MarkCompleted, queueVars
<1>6. ASSUME NEW t \in Task, MarkFailed(t)
      PROVE  (RunningSetExact /\ NoPendingTaskLost /\ RetryBudget /\ QueueInv)'
  BY <1>0, <1>6 DEF MarkFailed, queueVars
<1>7. ASSUME NEW t \in Task, Elapse(t)
      PROVE  (RunningSetExact /\ NoPendingTaskLost /\ RetryBudget /\ QueueInv)'
  BY <1>0, <1>7 DEF Elapse, queueVars
<1>8. CASE UNCHANGED vars
  BY <1>0, <1>8 DEF vars
<1> QED
  BY <1>1, <1>2, <1>3, <1>4, <1>5, <1>6, <1>7, <1>8 DEF Next, Register, Pass

LEMMA IInvHolds == Spec => []IInv
<1>1. Init => IInv
  BY TypeInit DEF Init, IInv, RunningSetExact, NoPendingTaskLost, RetryBudget, QueueInv
<1> QED
  BY <1>1, IInvStep, PTL DEF Spec

(* The set the concurrency limit is counted on mirrors the statuses. *)
THEOREM RunningSetIsExact == Spec => []RunningSetExact
<1> QED
  BY IInvHolds, PTL DEF IInv

(* No pending task loses its queue entry. *)
THEOREM PendingTasksAreQueued == Spec => []NoPendingTaskLost
<1> QED
  BY IInvHolds, PTL DEF IInv

(* A task that still waits has retries left. *)
THEOREM RetriesAreBounded == Spec => []RetryBudget
<1> QED
  BY IInvHolds, PTL DEF IInv

(* A task is overtaken only by those behind it once it has been deferred. *)
THEOREM HeadIsNotOvertaken == Spec => NoOvertaking
<1> DEFINE Overtaken(t, u) == /\ status[t] = "pending" /\ status'[t] = "running"
                              /\ status[u] = "pending" /\ Precedes(u, t)
<1>1. ASSUME IInv, [Next]_vars, NEW t \in Task, NEW u \in Task, Overtaken(t, u)
      PROVE  retry_attempts[u] > 0
  <2> USE SchedulerAssumption DEF SchedulerAssumption, IInv, TypeOK, Status
  <2>1. Start(t)
    <3>1. ASSUME NEW s \in Task, Start(s) PROVE Start(t)
      BY <1>1, <3>1 DEF Start
    <3>2. ~ \E s \in Task, p \in Priority, deps \in DependencySet : AddTask(s, p, deps)
      BY <1>1 DEF AddTask
    <3>3. ~ \E s \in Task : MarkCompleted(s) \/ MarkFailed(s)
      BY <1>1 DEF MarkCompleted, MarkFailed
    <3>4. ~ \E s \in Task : FailPermanent(s) \/ FailExhausted(s)
      BY <1>1 DEF FailPermanent, FailExhausted
    <3>5. status' # status
      BY <1>1
    <3>6. ~BeginPass /\ ~EndPass /\ vars' # vars
      BY <3>5 DEF BeginPass, EndPass, taskVars, vars
    <3>7. ~ \E s \in Task : Elapse(s) \/ Skip(s) \/ Backoff(s) \/ Defer(s)
      BY <3>5 DEF Elapse, Skip, Backoff, Defer, taskVars
    <3>8. \E s \in Task : Start(s)
      BY <1>1, <3>2, <3>3, <3>4, <3>6, <3>7, Zenon DEF Next, Register, Pass, Visit
    <3> QED
      BY <3>1, <3>8
  <2>2. u # t /\ ~Precedes(t, u)
    <3>1. priority[t] \in Int /\ priority[u] \in Int
      <4>1. Priority \union {0} \subseteq Int
        OBVIOUS
      <4>2. priority[t] \in Priority \union {0} /\ priority[u] \in Priority \union {0}
        BY <1>1
      <4> QED
        BY <4>1, <4>2
    <3>2. t \in Nat /\ u \in Nat
      BY <1>1
    <3>3. Precedes(u, t)
      BY <1>1
    <3> QED
      BY <3>1, <3>2, <3>3 DEF Precedes
  <2>3. u \in deferred
    BY <1>1, <2>1, <2>2 DEF Start, Pop, IsNext, NoPendingTaskLost
  <2> QED
    BY <1>1, <2>3 DEF QueueInv
<1>2. IInv /\ [Next]_vars => [\A t, u \in Task : Overtaken(t, u) => retry_attempts[u] > 0]_vars
  BY <1>1
<1> QED
  BY <1>2, IInvHolds, PTL DEF Spec, NoOvertaking

----------------------------------------------------------------------------

(* The limit holds because only Start adds to the set, and only when the   *)
(* pass has just counted a free slot.                                      *)
Bounded == IsFiniteSet(running_tasks) /\ ConcurrencyBound

(* Passes and marks together never have more than max_concurrent_tasks     *)
(* running at a time.                                                      *)
THEOREM ConcurrencyIsBounded == Spec => []ConcurrencyBound
<1>1. Init => Bounded
  BY FS_EmptySet, SchedulerAssumption DEF SchedulerAssumption, Init, Bounded, ConcurrencyBound
<1>2. Bounded /\ [Next]_vars => Bounded'
  <2> SUFFICES ASSUME Bounded, [Next]_vars PROVE Bounded'
    OBVIOUS
  <2> USE SchedulerAssumption DEF SchedulerAssumption, Bounded, ConcurrencyBound
  <2>0. Cardinality(running_tasks) \in Nat
    BY FS_CardinalityType
  <2>1. CASE UNCHANGED running_tasks
    BY <2>1
  <2>2. ASSUME NEW t \in Task, Start(t) PROVE Bounded'
    <3>1. /\ IsFiniteSet(running_tasks')
          /\ \/ Cardinality(running_tasks') = Cardinality(running_tasks)
             \/ Cardinality(running_tasks') = Cardinality(running_tasks) + 1
      BY <2>2, FS_AddElement DEF Start
    <3>2. Cardinality(running_tasks) < MaxConcurrent
      BY <2>2 DEF Start, Pop
    <3> QED
      BY <2>0, <3>1, <3>2
  <2>3. ASSUME NEW t \in Task, running_tasks' = running_tasks \ {t} PROVE Bounded'
    <3>1. /\ IsFiniteSet(running_tasks')
          /\ \/ Cardinality(running_tasks') = Cardinality(running_tasks)
             \/ Cardinality(running_tasks') = Cardinality(running_tasks) - 1
      BY <2>3, FS_RemoveElement
    <3> QED
      BY <2>0, <3>1
  <2> QED
    BY <2>1, <2>2, <2>3 DEF Next, Register, Pass, Visit, AddTask, BeginPass, EndPass, Skip,
       Backoff, FailPermanent, FailExhausted, Defer, Conflicted, MarkCompleted, MarkFailed,
       Elapse, vars
<1>3. Bounded => ConcurrencyBound
  BY DEF Bounded
<1> QED
  BY <1>1, <1>2, <1>3, PTL DEF Spec

----------------------------------------------------------------------------

(* The dispatch loop is one of the scheduler's callers. *)
LEMMA DispatchIsSpec == DispatchSpec => Spec
<1>1. [DispatchNext]_vars => [Next]_vars
  BY DEF DispatchNext, Next, Finish
<1> QED
  BY <1>1, PTL DEF DispatchSpec, Spec

(* No task runs ahead of a dependency, and none is taken back afterwards. *)
THEOREM DependenciesComeFirst == DispatchSpec => []DependencyClosed
<1>1. Init => DependencyClosed
  BY DEF Init, DependencyClosed
<1>2. IInv /\ DependencyClosed /\ [DispatchNext]_vars => DependencyClosed'
  <2> SUFFICES ASSUME IInv, DependencyClosed, [DispatchNext]_vars PROVE DependencyClosed'
    OBVIOUS
  <2> USE SchedulerAssumption DEF SchedulerAssumption, IInv, TypeOK, Status, DependencyClosed
  <2>1. ASSUME NEW t \in Task, NEW p \in Priority, NEW deps \in DependencySet,
               AddTask(t, p, deps)
        PROVE  DependencyClosed'
    BY <2>1 DEF AddTask
  <2>2. ASSUME NEW t \in Task, Start(t) PROVE DependencyClosed'
    BY <2>2 DEF Start, Pop, IsNext, Conflicts
  <2>3. ASSUME NEW t \in Task, FailPermanent(t) \/ FailExhausted(t) PROVE DependencyClosed'
    <3>1. /\ status[t] = "pending" /\ status' = [status EXCEPT ![t] = "failed"]
          /\ UNCHANGED dependencies
      BY <2>3 DEF FailPermanent, FailExhausted, Conflicted, Pop, IsNext
    <3> QED
      BY <3>1
  <2>4. ASSUME NEW t \in Task, Finish(t) PROVE DependencyClosed'
    BY <2>4 DEF Finish, MarkCompleted, MarkFailed, RunningSetExact
  <2>5. CASE UNCHANGED <<status, dependencies>>
    BY <2>5
  <2> QED
    BY <2>1, <2>2, <2>3, <2>4, <2>5 DEF DispatchNext, Register, Pass, Visit, BeginPass, EndPass,
       Skip, Backoff, Defer, Conflicted, Elapse, taskVars, vars
<1> QED
  BY <1>1, <1>2, IInvHolds, DispatchIsSpec, PTL DEF DispatchSpec

----------------------------------------------------------------------------
(* RedisStreamBus: numbers and sequences.                                  *)

(* Induction over the natural numbers for a set.  If n were missing, adding *)
(* one would map the numbers of P up to n into those of them that are not   *)
(* 0, and no two to the same one.                                           *)
LEMMA InductionOverNat ==
    ASSUME NEW P, 0 \in P, \A n \in Nat : n \in P => n + 1 \in P
    PROVE  Nat \subseteq P
<1> SUFFICES ASSUME NEW n \in Nat, n \notin P
             PROVE  FALSE
  OBVIOUS
<1> DEFINE A == P \cap (0 .. n)
           B == A \ {0}
           next == [x \in A |-> x + 1]
<1>1. IsFiniteSet(A)
  <2>1. IsFiniteSet(0 .. n)
    BY ONLY FS_Interval, n \in Nat
  <2>2. A \in SUBSET (0 .. n)
    OBVIOUS
  <2> HIDE DEF A
  <2> QED  BY ONLY <2>1, <2>2, FS_Subset
<1>2. Cardinality(A) \in Nat /\ 0 \in A
  BY <1>1, FS_CardinalityType
<1>3. next \in [A -> B]
  OBVIOUS
<1>4. \A x, y \in A : next[x] = next[y] => x = y
  OBVIOUS
<1>5. IsFiniteSet(B) /\ Cardinality(B) = Cardinality(A) - 1
  <2> HIDE DEF A
  <2> QED  BY ONLY <1>1, <1>2, FS_RemoveElement
<1> HIDE DEF A, B, next
<1> QED  BY <1>1, <1>2, <1>3, <1>4, <1>5, FS_PigeonHole

(* A set of numbers that is not empty has a least one. *)
LEMMA LeastNumber ==
    ASSUME NEW S \in SUBSET Nat, S # {}
    PROVE  \E n \in S : \A m \in S : n <= m
<1> SUFFICES ASSUME \A n \in S : \E m \in S : m < n
             PROVE  FALSE
  OBVIOUS
<1> DEFINE P == {n \in Nat : \A m \in S : m >= n}
<1>1. 0 \in P
  OBVIOUS
<1>2. \A n \in Nat : n \in P => n + 1 \in P
  OBVIOUS
<1>3. Nat \subseteq P
  <2> HIDE DEF P
  <2> QED  BY ONLY <1>1, <1>2, InductionOverNat
<1>4. PICK n \in S : TRUE
  OBVIOUS
<1> QED  BY <1>3, <1>4, n + 1 \in P

(* RemoveFirst takes out one entry, and the entries behind it move up.      *)
LEMMA RemoveFirstFacts ==
    ASSUME NEW S, NEW s \in Seq(S), NEW e, \E i \in 1 .. Len(s) : s[i] = e
    PROVE  \E k \in 1 .. Len(s) :
              /\ s[k] = e
              /\ RemoveFirst(s, e) \in Seq(S)
              /\ Len(RemoveFirst(s, e)) = Len(s) - 1
              /\ \A i \in 1 .. Len(s) - 1 :
                    RemoveFirst(s, e)[i] = IF i < k THEN s[i] ELSE s[i + 1]
<1> DEFINE I == {i \in 1 .. Len(s) : s[i] = e}
           k == Min(I)
<1>1. RemoveFirst(s, e) = RemoveAt(s, k)
  BY DEF RemoveFirst, SelectInSeq
<1>2. Len(s) \in Nat /\ \A i \in 1 .. Len(s) : s[i] \in S
  BY LenProperties, ElementOfSeq
<1>3. k \in 1 .. Len(s) /\ s[k] = e
  <2>1. I \in SUBSET Nat /\ I # {}
    BY <1>2
  <2>2. \E n \in I : \A m \in I : n <= m
    BY <2>1, LeastNumber
  <2> QED
    BY <2>2 DEF Min
<1> HIDE DEF k
<1> DEFINE a == SubSeq(s, 1, k - 1)
           b == SubSeq(s, k + 1, Len(s))
<1>4. /\ a \in Seq(S) /\ Len(a) = k - 1
      /\ \A i \in 1 .. k - 1 : a[i] = s[i]
  BY <1>2, <1>3, SubSeqProperties, 1 \in Int, k - 1 \in Int, 1 .. k - 1 \subseteq 1 .. Len(s)
<1>5. /\ b \in Seq(S) /\ Len(b) = Len(s) - k
      /\ \A i \in 1 .. Len(s) - k : b[i] = s[k + i]
  BY <1>2, <1>3, SubSeqProperties
<1> HIDE DEF a, b
<1>6. /\ a \o b \in Seq(S)
      /\ Len(a \o b) = Len(s) - 1
      /\ \A i \in 1 .. Len(s) - 1 : (a \o b)[i] = IF i < k THEN s[i] ELSE s[i + 1]
  <2>1. /\ a \o b \in Seq(S)
        /\ Len(a \o b) = Len(a) + Len(b)
        /\ \A i \in 1 .. Len(a) + Len(b) : (a \o b)[i] = IF i <= Len(a) THEN a[i] ELSE b[i - Len(a)]
    BY <1>4, <1>5, ConcatProperties
  <2>2. Len(a) + Len(b) = Len(s) - 1
    BY <1>2, <1>3, <1>4, <1>5
  <2>3. ASSUME NEW i \in 1 .. Len(s) - 1
        PROVE  (a \o b)[i] = IF i < k THEN s[i] ELSE s[i + 1]
    <3>1. CASE i < k
      BY <3>1, <2>1, <2>2, <1>2, <1>3, <1>4
    <3>2. CASE ~(i < k)
      <4>1. PICK j \in 1 .. Len(s) - k : j = i - (k - 1)
        BY <3>2, <1>2, <1>3
      <4>2. (a \o b)[i] = b[j]
        BY <4>1, <3>2, <2>1, <2>2, <1>2, <1>3, <1>4
      <4>3. b[j] = s[k + j] /\ k + j = i + 1
        BY <4>1, <1>2, <1>3, <1>5
      <4> QED
        BY <4>2, <4>3, <3>2
    <3> QED BY <3>1, <3>2
  <2> QED BY <2>1, <2>2, <2>3
<1>7. RemoveAt(s, k) = a \o b
  BY DEF RemoveAt, a, b
<1> QED  BY <1>1, <1>3, <1>6, <1>7

----------------------------------------------------------------------------
(* RedisStreamBus: the inductive invariant.                                *)

(* Without a group nothing is delivered, and what is acknowledged was seen. *)
ServerInv ==
    /\ ~group => delivered = 0
    /\ \A m \in acked : m <= Seen

(* A batch is in order, and its messages were delivered.                   *)
BatchInv ==
    \A l \in Loop :
        /\ loop[l].step \in {"off", "reading"} => loop[l].batch = <<>>
        /\ loop[l].step \in {"calling", "acking", "acked", "burying"} => loop[l].batch # <<>>
        /\ \A i, j \in DOMAIN loop[l].batch : i < j => loop[l].batch[i] < loop[l].batch[j]
        /\ \A i \in DOMAIN loop[l].batch : loop[l].batch[i] <= Seen

(* No message is with two loops.                                           *)
ApartInv ==
    \A l, k \in Loop : \A i \in DOMAIN loop[l].batch, j \in DOMAIN loop[k].batch :
        loop[l].batch[i] = loop[k].batch[j] => l = k

(* The messages of its batch that a loop has not begun to handle.          *)
Rest(l) == IF loop[l].step \in {"calling", "acking", "acked", "burying"}
           THEN Tail(loop[l].batch) ELSE loop[l].batch

(* What a loop is about to handle nobody has handled, and what it handled   *)
(* itself came before.                                                     *)
PastInv ==
    /\ \A h \in DOMAIN handled : handled[h].id <= Seen
    /\ \A h \in DOMAIN handled : \A l \in Loop : \A i \in DOMAIN Rest(l) :
           /\ handled[h].id # Rest(l)[i]
           /\ handled[h].loop = l => handled[h].id < Rest(l)[i]

(* A callback that is due to a loop, me, is ahead: in the list it iterates  *)
(* over, or in the wildcard list that it has yet to look up.               *)
Ahead(me, d) ==
    \/ /\ d[1] = me.key
       /\ \E k \in DOMAIN Callbacks(me) : k > me.next /\ Callbacks(me)[k] = d[2]
    \/ /\ me.key = "exact" /\ d[1] = "wildcard" /\ me.list = None
       /\ \E k \in DOMAIN subscribers["wildcard"] : subscribers["wildcard"][k] = d[2]

(* So none is due when the last list is at its end.                        *)
DueInv ==
    /\ \A l \in Loop : loop[l].step = "calling" => \A d \in loop[l].due : Ahead(loop[l], d)
    /\ \A l \in Loop : loop[l].step = "acking" => Head(loop[l].batch) \in given

(* An acknowledgement fails at most once for each message.                 *)
RetryInv ==
    /\ \A m \in Message : retryCounts[m] <= 1 /\ (m > Seen => retryCounts[m] = 0)
    /\ \A l \in Loop : \A i \in DOMAIN loop[l].batch :
           i # 1 \/ loop[l].step # "burying" => retryCounts[loop[l].batch[i]] = 0
    /\ \A l \in Loop : loop[l].step = "burying" => MaxRetries = 0
    /\ dlq # {} => MaxRetries = 0

(* No message is handled a second time, failed or not.                     *)
NeverRepeated ==
    \A i, j \in DOMAIN handled : handled[i].id = handled[j].id => i = j

BusInv ==
    /\ BusTypeOK /\ ServerInv /\ BatchInv /\ ApartInv /\ PastInv /\ DueInv /\ RetryInv
    /\ NeverRepeated /\ HandledInOrder /\ AckedAfterCallbacks

----------------------------------------------------------------------------
(* Loops and their batches.                                                *)

Steps == {"off", "reading", "read", "calling", "acking", "acked", "burying"}
InHand == {"calling", "acking", "acked", "burying"}

LoopType == [step : Steps, batch : Seq(Message), key : Key, next : Nat,
             list : {None} \union Seq(Callback), due : SUBSET (Key \X Callback)]

LEMMA LoopFacts ==
    ASSUME BusTypeOK, NEW l \in Loop
    PROVE  /\ loop[l] \in LoopType
           /\ loop[l].step \in Steps
           /\ loop[l].batch \in Seq(Message)
           /\ loop[l].key \in Key
           /\ loop[l].next \in Nat
           /\ loop[l].list \in {None} \union Seq(Callback)
           /\ loop[l].due \subseteq Key \X Callback
           /\ Len(loop[l].batch) \in Nat
           /\ DOMAIN loop[l].batch = 1 .. Len(loop[l].batch)
           /\ \A i \in DOMAIN loop[l].batch : loop[l].batch[i] \in Message
<1>1. loop[l] \in LoopType
  BY DEF BusTypeOK, LoopType, Steps
<1>2. loop[l].batch \in Seq(Message)
  BY <1>1 DEF LoopType
<1>3. /\ Len(loop[l].batch) \in Nat
      /\ DOMAIN loop[l].batch = 1 .. Len(loop[l].batch)
      /\ \A i \in DOMAIN loop[l].batch : loop[l].batch[i] \in Message
  BY <1>2, LenProperties, ElementOfSeq
<1> QED
  BY <1>1, <1>2, <1>3 DEF LoopType

LEMMA LoopIsTyped == BusTypeOK => loop \in [Loop -> LoopType]
BY DEF BusTypeOK, LoopType, Steps

LEMMA NumbersAreTyped ==
    ASSUME BusTypeOK
    PROVE  /\ published \in Nat /\ deleted \in Nat /\ delivered \in Nat /\ MaxMessages \in Nat
           /\ Seen \in Nat /\ Seen <= published /\ deleted <= Seen /\ delivered <= Seen
           /\ published <= MaxMessages
BY RedisStreamBusAssumption DEF RedisStreamBusAssumption, BusTypeOK, Seen

LEMMA CountsAreTyped ==
    ASSUME BusTypeOK, NEW m, NEW v \in {0, 1}
    PROVE  [retryCounts EXCEPT ![m] = v] \in [Message -> 0 .. MaxRetries + 1]
<1>1. retryCounts \in [Message -> 0 .. MaxRetries + 1]
  BY DEF BusTypeOK
<1>2. v \in 0 .. MaxRetries + 1
  BY RedisStreamBusAssumption DEF RedisStreamBusAssumption
<1> QED
  BY <1>1, <1>2

LEMMA HandledFacts ==
    ASSUME BusTypeOK
    PROVE  /\ handled \in Seq([loop : Loop, id : Message])
           /\ Len(handled) \in Nat /\ DOMAIN handled = 1 .. Len(handled)
           /\ \A h \in DOMAIN handled : handled[h].loop \in Loop /\ handled[h].id \in Message
<1>1. handled \in Seq([loop : Loop, id : Message])
  BY DEF BusTypeOK
<1>2. Len(handled) \in Nat /\ DOMAIN handled = 1 .. Len(handled)
  BY <1>1, LenProperties
<1>3. \A h \in DOMAIN handled : handled[h] \in [loop : Loop, id : Message]
  BY <1>1, <1>2, ElementOfSeq
<1> QED
  BY <1>1, <1>2, <1>3

(* Records of a loop. *)
LEMMA OffIsTyped ==
    /\ Off \in LoopType /\ Reading \in LoopType
    /\ Off.batch = <<>> /\ Reading.batch = <<>>
    /\ Off.step = "off" /\ Reading.step = "reading"
    /\ \A s \in Steps, b \in Seq(Message) :
           LET new == [Off EXCEPT !.step = s, !.batch = b]
           IN  /\ new \in LoopType
               /\ new.step = s /\ new.batch = b /\ new.due = {}
<1>1. <<>> \in Seq(Message)
  BY EmptySeq
<1>2. Off \in LoopType /\ Off.batch = <<>> /\ Off.step = "off"
  BY <1>1 DEF Off, LoopType, Steps, Key
<1>3. Reading \in LoopType /\ Reading.batch = <<>> /\ Reading.step = "reading"
  BY <1>1 DEF Reading, Off, LoopType, Steps, Key
<1>4. ASSUME NEW s \in Steps, NEW b \in Seq(Message)
      PROVE  LET new == [Off EXCEPT !.step = s, !.batch = b]
             IN  /\ new \in LoopType
                 /\ new.step = s /\ new.batch = b /\ new.due = {}
  BY <1>2 DEF Off, LoopType
<1> QED
  BY <1>2, <1>3, <1>4

(* The loops go on, or end, with what they had. *)
Goes(l) == \/ /\ loop'[l].batch = loop[l].batch
              /\ loop'[l].step = loop[l].step \/ {loop'[l].step, loop[l].step} \subseteq InHand
           \/ loop'[l].batch = <<>> /\ loop'[l].step \in {"off", "reading"}

LEMMA GoingKeepsBatches ==
    ASSUME BusTypeOK, BatchInv, ApartInv, PastInv, Seen' \in Nat, Seen <= Seen',
           UNCHANGED handled, \A l \in Loop : Goes(l)
    PROVE  BatchInv' /\ ApartInv' /\ PastInv'
<1>1. DOMAIN <<>> = {}
  OBVIOUS
<1>2. \A l \in Loop : /\ DOMAIN loop'[l].batch \subseteq DOMAIN loop[l].batch
                      /\ \A i \in DOMAIN loop'[l].batch : loop'[l].batch[i] = loop[l].batch[i]
  BY <1>1 DEF Goes
<1>3. \A l \in Loop : /\ DOMAIN Rest(l)' \subseteq DOMAIN Rest(l)
                      /\ \A i \in DOMAIN Rest(l)' : Rest(l)'[i] = Rest(l)[i]
  BY <1>1 DEF Goes, Rest, InHand
<1>4. Seen \in Nat /\ \A m \in Message : m <= Seen => m <= Seen'
  BY NumbersAreTyped DEF Message
<1>5. BatchInv'
  <2>1. ASSUME NEW l \in Loop
        PROVE  /\ loop'[l].step \in {"off", "reading"} => loop'[l].batch = <<>>
               /\ loop'[l].step \in {"calling", "acking", "acked", "burying"} =>
                      loop'[l].batch # <<>>
    BY DEF Goes, InHand, BatchInv
  <2>2. ASSUME NEW l \in Loop
        PROVE  /\ \A i, j \in DOMAIN loop'[l].batch :
                      i < j => loop'[l].batch[i] < loop'[l].batch[j]
               /\ \A i \in DOMAIN loop'[l].batch : loop'[l].batch[i] <= Seen'
    BY <1>2, <1>4, LoopFacts DEF BatchInv
  <2> QED
    BY <2>1, <2>2 DEF BatchInv
<1>6. ApartInv'
  BY <1>2 DEF ApartInv
<1>7. PastInv'
  <2>1. \A h \in DOMAIN handled : handled[h].id \in Message
    BY HandledFacts
  <2>2. \A h \in DOMAIN handled' : handled'[h].id <= Seen'
    BY <2>1, <1>4 DEF PastInv
  <2>3. \A h \in DOMAIN handled' : \A l \in Loop : \A i \in DOMAIN Rest(l)' :
            /\ handled'[h].id # Rest(l)'[i]
            /\ handled'[h].loop = l => handled'[h].id < Rest(l)'[i]
    BY <1>3 DEF PastInv
  <2> QED
    BY <2>2, <2>3 DEF PastInv
<1> QED
  BY <1>5, <1>6, <1>7

LEMMA RestFacts ==
    ASSUME BusTypeOK, BatchInv, NEW l \in Loop
    PROVE  /\ Rest(l) \in Seq(Message)
           /\ Len(Rest(l)) \in Nat /\ DOMAIN Rest(l) = 1 .. Len(Rest(l))
           /\ \A i \in DOMAIN Rest(l) : Rest(l)[i] \in Message /\ Rest(l)[i] <= Seen
           /\ \A i, j \in DOMAIN Rest(l) : i < j => Rest(l)[i] < Rest(l)[j]
           /\ \A i \in DOMAIN Rest(l) : \E j \in DOMAIN loop[l].batch :
                  /\ Rest(l)[i] = loop[l].batch[j]
                  /\ loop[l].step \in InHand => j # 1
           /\ loop[l].step \in InHand =>
                  /\ loop[l].batch # <<>> /\ 1 \in DOMAIN loop[l].batch
                  /\ Head(loop[l].batch) = loop[l].batch[1]
                  /\ Rest(l) = Tail(loop[l].batch)
<1> DEFINE batch == loop[l].batch
<1>1. /\ batch \in Seq(Message) /\ Len(batch) \in Nat /\ DOMAIN batch = 1 .. Len(batch)
      /\ \A i \in DOMAIN batch : batch[i] \in Message
  BY LoopFacts
<1>2. /\ \A i, j \in DOMAIN batch : i < j => batch[i] < batch[j]
      /\ \A i \in DOMAIN batch : batch[i] <= Seen
      /\ loop[l].step \in InHand => batch # <<>>
  BY DEF BatchInv, InHand
<1>3. CASE loop[l].step \notin InHand
  <2>1. Rest(l) = batch
    BY <1>3 DEF Rest, InHand
  <2> HIDE DEF batch
  <2>2. \A i \in DOMAIN Rest(l) : \E j \in DOMAIN batch : Rest(l)[i] = batch[j]
    BY <2>1
  <2> QED
    BY <1>1, <1>2, <1>3, <2>1, <2>2 DEF batch
<1>4. CASE loop[l].step \in InHand
  <2>1. Rest(l) = Tail(batch) /\ batch # <<>>
    BY <1>2, <1>4 DEF Rest, InHand
  <2> HIDE DEF batch
  <2>2. /\ Rest(l) \in Seq(Message) /\ Len(Rest(l)) = Len(batch) - 1
        /\ \A i \in 1 .. Len(Rest(l)) : Rest(l)[i] = batch[i + 1]
    BY <1>1, <2>1, HeadTailProperties
  <2>3. Len(Rest(l)) \in Nat /\ DOMAIN Rest(l) = 1 .. Len(Rest(l))
    BY <2>2, LenProperties
  <2>4. \A i \in DOMAIN Rest(l) : i + 1 \in DOMAIN batch /\ i + 1 # 1 /\ Rest(l)[i] = batch[i + 1]
    BY <1>1, <2>2, <2>3
  <2>5. Len(batch) >= 1 /\ 1 \in DOMAIN batch /\ Head(batch) = batch[1]
    BY <1>1, <2>1, <2>2, <2>3
  <2>6. \A i \in DOMAIN Rest(l) : Rest(l)[i] \in Message /\ Rest(l)[i] <= Seen
    BY <2>4, <1>1, <1>2
  <2>7. \A i, j \in DOMAIN Rest(l) : i < j => Rest(l)[i] < Rest(l)[j]
    BY <2>3, <2>4, <1>2
  <2>8. \A i \in DOMAIN Rest(l) : \E j \in DOMAIN batch : Rest(l)[i] = batch[j] /\ j # 1
    BY <2>4
  <2> QED
    BY <2>1, <2>2, <2>3, <2>5, <2>6, <2>7, <2>8 DEF batch
<1> QED
  BY <1>3, <1>4

(* A loop takes the next message in hand. *)
LEMMA BeginningKeepsBatches ==
    ASSUME BusTypeOK, BatchInv, ApartInv, PastInv, NeverRepeated, HandledInOrder,
           NEW l \in Loop, NEW new \in LoopType, Rest(l) # <<>>, new.batch = Rest(l),
           new.step \in {"acking", "calling"},
           loop' = [loop EXCEPT ![l] = new],
           handled' = Append(handled, [loop |-> l, id |-> Head(Rest(l))]), UNCHANGED Seen
    PROVE  /\ BatchInv' /\ ApartInv' /\ PastInv' /\ NeverRepeated' /\ HandledInOrder'
           /\ handled' \in Seq([loop : Loop, id : Message])
<1> DEFINE rest == Rest(l)
           m == Head(rest)
<1>1. /\ rest \in Seq(Message)
      /\ Len(rest) \in Nat /\ DOMAIN rest = 1 .. Len(rest)
      /\ \A i \in DOMAIN rest : rest[i] \in Message /\ rest[i] <= Seen
      /\ \A i, j \in DOMAIN rest : i < j => rest[i] < rest[j]
      /\ \A i \in DOMAIN rest : \E j \in DOMAIN loop[l].batch : rest[i] = loop[l].batch[j]
  BY RestFacts
<1>2. rest # <<>> /\ new.batch = rest
  OBVIOUS
<1>3. \A h \in DOMAIN handled : handled[h].id \in Message /\ handled[h].id <= Seen
  BY HandledFacts DEF PastInv
<1>4. \A h \in DOMAIN handled : \A i \in DOMAIN rest :
          handled[h].id # rest[i] /\ (handled[h].loop = l => handled[h].id < rest[i])
  BY DEF PastInv
<1>5. handled' = Append(handled, [loop |-> l, id |-> m])
  OBVIOUS
<1> HIDE DEF rest
<1>6. m \in Message /\ Len(rest) >= 1 /\ m = rest[1]
  BY <1>1, <1>2, EmptySeq, HeadTailProperties
<1> HIDE DEF m
<1>7. /\ handled' \in Seq([loop : Loop, id : Message]) /\ Len(handled') = Len(handled) + 1
      /\ \A h \in 1 .. Len(handled) : handled'[h] = handled[h]
      /\ handled'[Len(handled) + 1] = [loop |-> l, id |-> m]
  BY <1>5, <1>6, HandledFacts, AppendProperties
<1>8. /\ DOMAIN handled' = 1 .. Len(handled) + 1
      /\ Len(handled) \in Nat /\ DOMAIN handled = 1 .. Len(handled)
  BY <1>7, LenProperties, HandledFacts
<1>9. loop'[l] = new /\ \A k \in Loop \ {l} : loop'[k] = loop[k]
  BY DEF BusTypeOK
<1>10. Rest(l)' = Tail(rest) /\ \A k \in Loop \ {l} : Rest(k)' = Rest(k)
  BY <1>2, <1>9 DEF Rest
<1>11. /\ Tail(rest) \in Seq(Message)
       /\ DOMAIN Tail(rest) = 1 .. Len(rest) - 1
       /\ \A i \in 1 .. Len(rest) - 1 : Tail(rest)[i] = rest[i + 1]
  BY <1>1, <1>2, HeadTailProperties, LenProperties
<1>12. Seen \in Nat
  BY NumbersAreTyped
<1>13. BatchInv'
  <2>1. ASSUME NEW k \in Loop \ {l}
        PROVE  /\ loop'[k].step \in {"off", "reading"} => loop'[k].batch = <<>>
               /\ loop'[k].step \in {"calling", "acking", "acked", "burying"} =>
                      loop'[k].batch # <<>>
               /\ \A i, j \in DOMAIN loop'[k].batch : i < j => loop'[k].batch[i] < loop'[k].batch[j]
               /\ \A i \in DOMAIN loop'[k].batch : loop'[k].batch[i] <= Seen'
    BY <1>9 DEF BatchInv
  <2>2. /\ loop'[l].step \in {"acking", "calling"}
        /\ loop'[l].batch = rest /\ rest # <<>>
    BY <1>2, <1>9
  <2>3. /\ \A i, j \in DOMAIN rest : i < j => rest[i] < rest[j]
        /\ \A i \in DOMAIN rest : rest[i] <= Seen'
    BY <1>1
  <2> QED
    BY <2>1, <2>2, <2>3 DEF BatchInv
<1>14. ApartInv'
  <2> SUFFICES ASSUME NEW k1 \in Loop, NEW k2 \in Loop,
                      NEW i \in DOMAIN loop'[k1].batch, NEW j \in DOMAIN loop'[k2].batch,
                      loop'[k1].batch[i] = loop'[k2].batch[j]
               PROVE  k1 = k2
    BY DEF ApartInv
  <2>1. ASSUME NEW k \in Loop, NEW n \in DOMAIN loop'[k].batch
        PROVE  \E n1 \in DOMAIN loop[k].batch : loop'[k].batch[n] = loop[k].batch[n1]
    <3>1. CASE k = l
      <4>1. loop'[k].batch = rest
        BY <3>1, <1>2, <1>9
      <4> QED
        BY <3>1, <4>1, <1>1
    <3>2. CASE k # l
      BY <3>2, <1>9
    <3> QED
      BY <3>1, <3>2
  <2>2. PICK i1 \in DOMAIN loop[k1].batch : loop'[k1].batch[i] = loop[k1].batch[i1]
    BY <2>1
  <2>3. PICK j1 \in DOMAIN loop[k2].batch : loop'[k2].batch[j] = loop[k2].batch[j1]
    BY <2>1
  <2> QED
    BY <2>2, <2>3 DEF ApartInv
<1>15. PastInv'
  <2>1. \A h \in DOMAIN handled' : handled'[h].id <= Seen'
    BY <1>1, <1>3, <1>6, <1>7, <1>8
  <2>2. ASSUME NEW h \in DOMAIN handled', NEW k \in Loop, NEW i \in DOMAIN Rest(k)'
        PROVE  /\ handled'[h].id # Rest(k)'[i]
               /\ handled'[h].loop = k => handled'[h].id < Rest(k)'[i]
    <3>1. CASE k = l /\ h \in DOMAIN handled
      <4>1. i + 1 \in DOMAIN rest /\ Rest(k)'[i] = rest[i + 1]
        BY <3>1, <1>1, <1>10, <1>11
      <4> QED
        BY <3>1, <4>1, <1>4, <1>7, <1>8
    <3>2. CASE k = l /\ h \notin DOMAIN handled
      <4>1. /\ i + 1 \in DOMAIN rest /\ 1 \in DOMAIN rest /\ 1 < i + 1
            /\ Rest(k)'[i] = rest[i + 1]
        BY <3>2, <1>1, <1>10, <1>11
      <4>2. handled'[h].id = m
        BY <3>2, <1>7, <1>8
      <4>3. rest[1] < rest[i + 1] /\ rest[1] \in Message /\ rest[i + 1] \in Message
        BY <4>1, <1>1
      <4> QED
        BY <4>1, <4>2, <4>3, <1>6 DEF Message
    <3>3. CASE k # l /\ h \in DOMAIN handled
      BY <3>3, <1>7, <1>8, <1>10 DEF PastInv
    <3>4. CASE k # l /\ h \notin DOMAIN handled
      <4>1. handled'[h].id = m /\ handled'[h].loop = l /\ Rest(k)'[i] = Rest(k)[i]
            /\ i \in DOMAIN Rest(k)
        BY <3>4, <1>7, <1>8, <1>10
      <4>2. PICK j \in DOMAIN loop[k].batch : Rest(k)[i] = loop[k].batch[j]
        BY <4>1, RestFacts
      <4>3. PICK n \in DOMAIN loop[l].batch : m = loop[l].batch[n]
        BY <1>1, <1>6
      <4> QED
        BY <3>4, <4>1, <4>2, <4>3 DEF ApartInv
    <3> QED
      BY <3>1, <3>2, <3>3, <3>4
  <2> QED
    BY <2>1, <2>2 DEF PastInv
<1>16. 1 \in DOMAIN rest
  BY <1>1, <1>6
<1>17. NeverRepeated'
  <2> SUFFICES ASSUME NEW i \in DOMAIN handled', NEW j \in DOMAIN handled',
                      handled'[i].id = handled'[j].id
               PROVE  i = j
    BY DEF NeverRepeated
  <2>1. \A h \in DOMAIN handled : handled'[h].id # m
    BY <1>4, <1>6, <1>7, <1>8, <1>16
  <2>2. handled'[Len(handled) + 1].id = m
    BY <1>7
  <2>3. CASE i \in DOMAIN handled /\ j \in DOMAIN handled
    BY <2>3, <1>7, <1>8 DEF NeverRepeated
  <2>4. CASE ~(i \in DOMAIN handled /\ j \in DOMAIN handled)
    BY <2>1, <2>2, <2>4, <1>8
  <2> QED
    BY <2>3, <2>4
<1>18. HandledInOrder'
  <2> SUFFICES ASSUME NEW i \in DOMAIN handled', NEW j \in DOMAIN handled', i < j,
                      handled'[i].loop = handled'[j].loop
               PROVE  handled'[i].id < handled'[j].id
    BY DEF HandledInOrder
  <2>1. i \in DOMAIN handled /\ handled'[i] = handled[i]
    BY <1>7, <1>8
  <2>2. CASE j \in DOMAIN handled
    BY <2>1, <2>2, <1>7, <1>8 DEF HandledInOrder
  <2>3. CASE j \notin DOMAIN handled
    BY <2>1, <2>3, <1>4, <1>6, <1>7, <1>8, <1>16
  <2> QED
    BY <2>2, <2>3
<1> QED
  BY <1>7, <1>13, <1>14, <1>15, <1>17, <1>18


(* What the answer of XREADGROUP has. *)
LEMMA BatchFacts ==
    ASSUME BusTypeOK, New # {}
    PROVE  /\ Batch \in Seq(Message) /\ Batch # <<>>
           /\ Len(Batch) \in Nat \ {0} /\ DOMAIN Batch = 1 .. Len(Batch)
           /\ \A i \in DOMAIN Batch : Batch[i] = Seen + i
           /\ Last(Batch) = Seen + Len(Batch) /\ Last(Batch) <= published
           /\ ToSet(Batch) = Seen + 1 .. Last(Batch)
<1> DEFINE size == IF published - Seen < BatchSize THEN published - Seen ELSE BatchSize
<1>1. /\ published \in Nat /\ Seen \in Nat /\ published <= MaxMessages /\ MaxMessages \in Nat
      /\ BatchSize \in Nat \ {0}
  BY NumbersAreTyped, RedisStreamBusAssumption DEF RedisStreamBusAssumption
<1>2. Seen < published
  BY <1>1 DEF New
<1>3. size \in Nat \ {0} /\ Seen + size <= published
  BY <1>1, <1>2
<1>4. Batch = [i \in 1 .. size |-> Seen + i]
  BY DEF Batch
<1> HIDE DEF size
<1>5. Batch \in [1 .. size -> Message]
  BY <1>1, <1>3, <1>4 DEF Message
<1>6. Batch \in Seq(Message)
  BY <1>3, <1>5, SeqDef
<1>7. Len(Batch) = size /\ DOMAIN Batch = 1 .. size
  BY <1>3, <1>5, <1>6, LenProperties
<1>8. Last(Batch) = Seen + size
  BY <1>3, <1>4, <1>7 DEF Last
<1>9. ToSet(Batch) = Seen + 1 .. Seen + size
  <2>1. ToSet(Batch) = {Seen + i : i \in 1 .. size}
    BY <1>4, <1>7 DEF ToSet
  <2>2. \A n \in Seen + 1 .. Seen + size : n - Seen \in 1 .. size /\ n = Seen + (n - Seen)
    BY <1>1, <1>3
  <2>3. \A i \in 1 .. size : Seen + i \in Seen + 1 .. Seen + size
    BY <1>1, <1>3
  <2> QED
    BY <2>1, <2>2, <2>3
<1>10. Batch # <<>>
  BY <1>3, <1>6, <1>7, EmptySeq
<1> QED
  BY <1>1, <1>3, <1>4, <1>6, <1>7, <1>8, <1>9, <1>10

(* Messages that are delivered are new to everybody. *)
LEMMA DeliveryKeepsBatches ==
    ASSUME BusTypeOK, BatchInv, ApartInv, PastInv, NEW l \in Loop, New # {},
           NEW new \in LoopType, new.step = "read", new.batch = Batch,
           loop' = [loop EXCEPT ![l] = new], loop[l].step = "reading",
           Seen' = Last(Batch), UNCHANGED handled
    PROVE  BatchInv' /\ ApartInv' /\ PastInv'
<1>1. /\ Batch \in Seq(Message) /\ Batch # <<>>
      /\ Len(Batch) \in Nat \ {0} /\ DOMAIN Batch = 1 .. Len(Batch)
      /\ \A i \in DOMAIN Batch : Batch[i] = Seen + i
      /\ Seen' = Seen + Len(Batch) /\ Seen \in Nat
  BY BatchFacts, NumbersAreTyped
<1>2. /\ loop'[l].batch = Batch /\ loop'[l].step = "read"
      /\ \A k \in Loop \ {l} : loop'[k] = loop[k]
  BY DEF BusTypeOK
<1>3. Rest(l)' = Batch /\ \A k \in Loop \ {l} : Rest(k)' = Rest(k)
  BY <1>2 DEF Rest
<1>4. \A m \in Message : m <= Seen => m <= Seen'
  BY <1>1 DEF Message
<1>5. \A i \in DOMAIN Batch : /\ Batch[i] \in Nat /\ Batch[i] <= Seen'
                             /\ \A m \in Message : m <= Seen => m < Batch[i] /\ m # Batch[i]
  BY <1>1 DEF Message
<1>6. \A k \in Loop : \A i \in DOMAIN loop[k].batch :
          loop[k].batch[i] \in Message /\ loop[k].batch[i] <= Seen
  BY LoopFacts DEF BatchInv
<1>7. \A h \in DOMAIN handled : handled[h].id \in Message /\ handled[h].id <= Seen
  BY HandledFacts DEF PastInv
<1>8. BatchInv'
  <2>1. ASSUME NEW k \in Loop \ {l}
        PROVE  /\ loop'[k].step \in {"off", "reading"} => loop'[k].batch = <<>>
               /\ loop'[k].step \in {"calling", "acking", "acked", "burying"} =>
                      loop'[k].batch # <<>>
               /\ \A i, j \in DOMAIN loop'[k].batch : i < j => loop'[k].batch[i] < loop'[k].batch[j]
               /\ \A i \in DOMAIN loop'[k].batch : loop'[k].batch[i] <= Seen'
    BY <1>2, <1>4, <1>6 DEF BatchInv
  <2>2. \A i, j \in DOMAIN Batch : i < j => Batch[i] < Batch[j]
    BY <1>1
  <2> QED
    BY <2>1, <2>2, <1>2, <1>5 DEF BatchInv
<1>9. ApartInv'
  <2> SUFFICES ASSUME NEW k1 \in Loop, NEW k2 \in Loop,
                      NEW i \in DOMAIN loop'[k1].batch, NEW j \in DOMAIN loop'[k2].batch,
                      loop'[k1].batch[i] = loop'[k2].batch[j]
               PROVE  k1 = k2
    BY DEF ApartInv
  <2>1. \A k \in Loop \ {l} : \A n \in DOMAIN loop'[k].batch :
            \A p \in DOMAIN Batch : loop'[k].batch[n] # Batch[p]
    BY <1>2, <1>5, <1>6
  <2>2. CASE k1 # l /\ k2 # l
    BY <2>2, <1>2 DEF ApartInv
  <2>3. CASE k1 = l \/ k2 = l
    BY <2>1, <2>3, <1>2
  <2> QED
    BY <2>2, <2>3
<1>10. PastInv'
  <2>1. \A h \in DOMAIN handled : handled[h].id <= Seen'
    BY <1>4, <1>7
  <2>2. ASSUME NEW h \in DOMAIN handled, NEW k \in Loop, NEW i \in DOMAIN Rest(k)'
        PROVE  /\ handled[h].id # Rest(k)'[i]
               /\ handled[h].loop = k => handled[h].id < Rest(k)'[i]
    <3>1. CASE k = l
      BY <3>1, <1>3, <1>5, <1>7
    <3>2. CASE k # l
      BY <3>2, <1>3 DEF PastInv
    <3> QED
      BY <3>1, <3>2
  <2> QED
    BY <2>1, <2>2 DEF PastInv
<1> QED
  BY <1>8, <1>9, <1>10

----------------------------------------------------------------------------
(* Callbacks and retries.                                                  *)

(* A loop that calls goes on with what was due to it and is still ahead.    *)
LEMMA DueStays ==
    ASSUME DueInv, given \subseteq given',
           \A l \in Loop : loop'[l].step = "calling" =>
               /\ loop[l].step = "calling"
               /\ \A d \in loop'[l].due :
                      d \in loop[l].due /\ (Ahead(loop[l], d) => Ahead(loop[l], d)'),
           \A l \in Loop : loop'[l].step = "acking" =>
               loop[l].step = "acking" /\ loop'[l].batch = loop[l].batch
    PROVE  DueInv'
<1>1. ASSUME NEW l \in Loop, loop'[l].step = "calling", NEW d \in loop'[l].due
      PROVE  Ahead(loop[l], d)'
  BY <1>1 DEF DueInv
<1>2. ASSUME NEW l \in Loop, loop'[l].step = "acking"
      PROVE  Head(loop'[l].batch) \in given'
  BY <1>2 DEF DueInv
<1> QED
  BY <1>1, <1>2 DEF DueInv

(* A loop that stays as it is, while no list changes. *)
LEMMA AheadStays ==
    ASSUME NEW l \in Loop, loop'[l] = loop[l], UNCHANGED subscribers, NEW d
    PROVE  Ahead(loop[l], d) => Ahead(loop[l], d)'
BY DEF Ahead, Callbacks

(* _trigger_callbacks goes on without passing over a callback that is due. *)
LEMMA AdvanceFacts ==
    ASSUME BusTypeOK, NEW me \in LoopType, me.step = "calling", \A d \in me.due : Ahead(me, d)
    PROVE  /\ Advance(me) \in LoopType
           /\ Advance(me).batch = me.batch
           /\ Advance(me).step \in {"calling", "acking"}
           /\ Advance(me).step = "calling" => \A d \in Advance(me).due : Ahead(Advance(me), d)
           /\ Advance(me).step = "acking" => me.due = {}
<1> DEFINE list == Callbacks(me)
           wildcard == subscribers["wildcard"]
<1>1. /\ me.step \in Steps /\ me.batch \in Seq(Message) /\ me.key \in Key /\ me.next \in Nat
      /\ me.list \in {None} \union Seq(Callback) /\ me.due \subseteq Key \X Callback
  BY DEF LoopType
<1>2. /\ list \in Seq(Callback) /\ Len(list) \in Nat /\ DOMAIN list = 1 .. Len(list)
      /\ wildcard \in Seq(Callback) /\ Len(wildcard) \in Nat
      /\ DOMAIN wildcard = 1 .. Len(wildcard)
  <2>1. list \in Seq(Callback) /\ wildcard \in Seq(Callback)
    BY <1>1 DEF BusTypeOK, Callbacks, Key
  <2> QED
    BY <2>1, LenProperties
<1>3. \A d \in me.due :
          \/ d[1] = me.key /\ \E k \in DOMAIN list : k > me.next /\ list[k] = d[2]
          \/ /\ me.key = "exact" /\ d[1] = "wildcard" /\ me.list = None
             /\ \E k \in DOMAIN wildcard : wildcard[k] = d[2]
  BY DEF Ahead
<1>4. \A d \in me.due : d = <<d[1], d[2]>>
  BY <1>1
<1>5. CASE me.next < Len(list)
  <2> DEFINE gone == <<me.key, list[me.next + 1]>>
             new == [me EXCEPT !.next = me.next + 1, !.due = me.due \ {gone}]
  <2>1. Advance(me) = new
    BY <1>5 DEF Advance
  <2>2. /\ new \in LoopType /\ new.batch = me.batch /\ new.step = "calling" /\ new.key = me.key
        /\ new.next = me.next + 1 /\ new.list = me.list /\ new.due = me.due \ {gone}
    <3> DEFINE n == me.next + 1
               rest == me.due \ {gone}
    <3>1. n \in Nat /\ rest \subseteq Key \X Callback
      BY <1>1
    <3> HIDE DEF n, rest, gone
    <3>2. [me EXCEPT !.next = n, !.due = rest] \in LoopType
      BY <3>1 DEF LoopType
    <3> QED
      BY <3>2 DEF LoopType, n, rest
  <2>3. Callbacks(new) = list
    BY <2>2 DEF Callbacks
  <2>4. ASSUME NEW d \in new.due
        PROVE  Ahead(new, d)
    <3>1. d \in me.due /\ d # gone /\ d = <<d[1], d[2]>>
      BY <2>2, <2>4, <1>4
    <3>2. CASE d[1] = me.key /\ \E k \in DOMAIN list : k > me.next /\ list[k] = d[2]
      <4>1. PICK k \in DOMAIN list : k > me.next /\ list[k] = d[2]
        BY <3>2
      <4>2. k # me.next + 1
        BY <3>1, <3>2, <4>1
      <4>3. k > me.next + 1
        BY <4>1, <4>2, <1>1, <1>2
      <4> HIDE DEF new, list
      <4> QED
        BY <3>2, <4>1, <4>3, <2>2, <2>3 DEF Ahead
    <3>3. CASE /\ me.key = "exact" /\ d[1] = "wildcard" /\ me.list = None
               /\ \E k \in DOMAIN wildcard : wildcard[k] = d[2]
      <4> HIDE DEF new
      <4> QED
        BY <3>3, <2>2 DEF Ahead
    <3> QED
      BY <3>1, <3>2, <3>3, <1>3
  <2> HIDE DEF new
  <2> QED
    BY <2>1, <2>2, <2>4
<1>6. CASE ~(me.next < Len(list)) /\ me.key = "exact" /\ wildcard # <<>>
  <2> DEFINE gone == <<"wildcard", wildcard[1]>>
             new == [me EXCEPT !.key = "wildcard", !.next = 1, !.list = None,
                               !.due = me.due \ {gone}]
  <2>1. Advance(me) = new
    BY <1>6 DEF Advance
  <2>2. /\ new \in LoopType /\ new.batch = me.batch /\ new.step = "calling"
        /\ new.key = "wildcard" /\ new.next = 1 /\ new.list = None /\ new.due = me.due \ {gone}
    <3> DEFINE rest == me.due \ {gone}
    <3>1. rest \subseteq Key \X Callback
      BY <1>1
    <3> HIDE DEF rest, gone
    <3>2. [me EXCEPT !.key = "wildcard", !.next = 1, !.list = None, !.due = rest] \in LoopType
      BY <3>1 DEF LoopType, Key
    <3> QED
      BY <3>2 DEF LoopType, rest
  <2>3. Callbacks(new) = wildcard
    BY <2>2 DEF Callbacks
  <2>4. ASSUME NEW d \in new.due
        PROVE  Ahead(new, d)
    <3>1. d \in me.due /\ d # gone /\ d = <<d[1], d[2]>>
      BY <2>2, <2>4, <1>4
    <3>2. d[1] = "wildcard" /\ \E k \in DOMAIN wildcard : wildcard[k] = d[2]
      BY <3>1, <1>1, <1>2, <1>3, <1>6
    <3>3. PICK k \in DOMAIN wildcard : wildcard[k] = d[2]
      BY <3>2
    <3>4. k # 1
      BY <3>1, <3>2, <3>3
    <3>5. k > 1
      BY <3>3, <3>4, <1>2
    <3> HIDE DEF new, wildcard
    <3> QED
      BY <3>2, <3>3, <3>5, <2>2, <2>3 DEF Ahead
  <2> HIDE DEF new
  <2> QED
    BY <2>1, <2>2, <2>4
<1>7. CASE ~(me.next < Len(list)) /\ ~(me.key = "exact" /\ wildcard # <<>>)
  <2>1. Advance(me) = [Off EXCEPT !.step = "acking", !.batch = me.batch]
    BY <1>7 DEF Advance
  <2>2. Advance(me) \in LoopType /\ Advance(me).step = "acking" /\ Advance(me).batch = me.batch
    <3> DEFINE b == me.batch
               after == [Off EXCEPT !.step = "acking", !.batch = b]
    <3>1. b \in Seq(Message) /\ "acking" \in Steps
      BY <1>1 DEF Steps
    <3>2. Advance(me) = after
      BY <2>1
    <3> HIDE DEF b
    <3>3. after \in LoopType /\ after.step = "acking" /\ after.batch = b
      BY <3>1, OffIsTyped
    <3> HIDE DEF after
    <3>4. Advance(me) \in LoopType /\ Advance(me).step = "acking" /\ Advance(me).batch = b
      BY <3>2, <3>3
    <3> QED
      BY <3>4 DEF b
  <2>3. wildcard = <<>> => DOMAIN wildcard = {}
    OBVIOUS
  <2>4. me.due = {}
    BY <1>1, <1>2, <1>3, <1>7, <2>3
  <2> QED
    BY <2>2, <2>4
<1> QED
  BY <1>5, <1>6, <1>7

(* One loop goes on to new while the lists stay as they are.               *)
LEMMA NextIsDue ==
    ASSUME DueInv, NEW l \in Loop, NEW new,
           loop'[l] = new, \A k \in Loop \ {l} : loop'[k] = loop[k],
           UNCHANGED subscribers, given \subseteq given',
           new.step = "calling" => \A d \in new.due : Ahead(new, d),
           new.step = "acking" => Head(new.batch) \in given'
    PROVE  DueInv'
<1>1. ASSUME NEW k \in Loop, loop'[k].step = "calling", NEW d \in loop'[k].due
      PROVE  Ahead(loop[k], d)'
  <2>1. CASE k = l
    <3>1. Ahead(new, d)
      BY <1>1, <2>1
    <3> QED
      BY <2>1, <3>1 DEF Ahead, Callbacks
  <2>2. CASE k # l
    BY <1>1, <2>2, AheadStays DEF DueInv
  <2> QED
    BY <2>1, <2>2
<1>2. ASSUME NEW k \in Loop, loop'[k].step = "acking"
      PROVE  Head(loop'[k].batch) \in given'
  BY <1>2 DEF DueInv
<1> QED
  BY <1>1, <1>2 DEF DueInv

(* What is subscribed when a message's turn comes is ahead.                *)
LEMMA StartFacts ==
    ASSUME BusTypeOK, NEW batch \in Seq(Message)
    PROVE  /\ Starting(batch) \in LoopType
           /\ Starting(batch).step = "calling" /\ Starting(batch).batch = batch
           /\ \A d \in Starting(batch).due : Ahead(Starting(batch), d)
<1> DEFINE me == Starting(batch)
<1>1. Subscribed \subseteq Key \X Callback
  BY DEF Subscribed
<1>2. /\ me \in LoopType /\ me.step = "calling" /\ me.batch = batch
      /\ me.key = "exact" /\ me.next = 0 /\ me.list = None /\ me.due = Subscribed
  <2>1. <<>> \in Seq(Message)
    BY EmptySeq
  <2> DEFINE sub == Subscribed
  <2> HIDE DEF sub
  <2>2. sub \subseteq Key \X Callback
    BY <1>1 DEF sub
  <2>3. [Off EXCEPT !.step = "calling", !.batch = batch, !.due = sub] \in LoopType
    BY <2>1, <2>2 DEF Off, LoopType, Steps, Key
  <2> QED
    BY <2>3 DEF Starting, Off, sub
<1> HIDE DEF me
<1>3. Callbacks(me) = subscribers["exact"]
  BY <1>2 DEF Callbacks
<1>4. ASSUME NEW d \in me.due
      PROVE  Ahead(me, d)
  <2>1. /\ d[1] \in Key
        /\ \E k \in 1 .. Len(subscribers[d[1]]) : subscribers[d[1]][k] = d[2]
    BY <1>2, <1>4 DEF Subscribed, Contains
  <2>2. PICK k \in 1 .. Len(subscribers[d[1]]) : subscribers[d[1]][k] = d[2]
    BY <2>1
  <2>3. k \in DOMAIN subscribers[d[1]] /\ k > 0
    <3>1. subscribers[d[1]] \in Seq(Callback)
      BY <2>1 DEF BusTypeOK
    <3> QED
      BY <3>1, <2>2, LenProperties
  <2>4. CASE d[1] = "exact"
    BY <2>2, <2>3, <2>4, <1>2, <1>3 DEF Ahead
  <2>5. CASE d[1] = "wildcard"
    BY <2>2, <2>3, <2>5, <1>2 DEF Ahead
  <2> QED
    BY <2>1, <2>4, <2>5 DEF Key
<1> QED
  BY <1>2, <1>4 DEF me

LEMMA RetriesStay ==
    ASSUME BusTypeOK, BatchInv, RetryInv, Seen' \in Nat, Seen <= Seen', \A l \in Loop : Goes(l),
           \A l \in Loop : loop'[l].batch # <<>> =>
               (loop'[l].step = "burying" <=> loop[l].step = "burying"),
           retryCounts' = retryCounts \/ retryCounts' = [m \in Message |-> 0],
           dlq' \subseteq dlq
    PROVE  RetryInv'
<1>1. \A m \in Message : retryCounts'[m] = retryCounts[m] \/ retryCounts'[m] = 0
  OBVIOUS
<1>2. \A m \in Message : m > Seen' => m > Seen
  BY NumbersAreTyped DEF Message
<1>3. \A m \in Message : retryCounts'[m] <= 1 /\ (m > Seen' => retryCounts'[m] = 0)
  BY <1>1, <1>2 DEF RetryInv
<1>4. ASSUME NEW l \in Loop, NEW i \in DOMAIN loop'[l].batch,
             i # 1 \/ loop'[l].step # "burying"
      PROVE  retryCounts'[loop'[l].batch[i]] = 0
  <2>1. loop'[l].batch = loop[l].batch /\ loop[l].batch # <<>>
    BY <1>4 DEF Goes
  <2>2. loop[l].batch[i] \in Message
    BY <2>1, LoopFacts
  <2> QED
    BY <1>1, <1>4, <2>1, <2>2 DEF RetryInv
<1>5. ASSUME NEW l \in Loop, loop'[l].step = "burying" PROVE MaxRetries = 0
  <2>1. loop[l].step = "burying"
    BY <1>5 DEF Goes, InHand, BatchInv
  <2> QED
    BY <2>1 DEF RetryInv
<1> QED
  BY <1>3, <1>4, <1>5 DEF RetryInv

(* A loop leaves the first of its messages behind. *)
LEMMA RetriesMoveOn ==
    ASSUME BusTypeOK, BatchInv, ApartInv, RetryInv, NEW l \in Loop, NEW new \in LoopType,
           loop' = [loop EXCEPT ![l] = new], new.batch = <<>> \/ new.batch = Rest(l),
           new.step # "burying", UNCHANGED Seen,
           \/ UNCHANGED retryCounts /\ loop[l].step # "burying"
           \/ \E v \in {0, 1} : /\ loop[l].step \in InHand
                                /\ retryCounts' = [retryCounts EXCEPT ![Head(loop[l].batch)] = v],
           dlq' = dlq \/ MaxRetries = 0
    PROVE  RetryInv'
<1> DEFINE m == Head(loop[l].batch)
<1>1. /\ loop'[l] = new /\ \A k \in Loop \ {l} : loop'[k] = loop[k]
      /\ retryCounts \in [Message -> 0 .. MaxRetries + 1]
  BY DEF BusTypeOK
<1>2. loop[l].step \in InHand =>
          m \in Message /\ m <= Seen /\ 1 \in DOMAIN loop[l].batch /\ m = loop[l].batch[1]
  BY RestFacts, LoopFacts DEF BatchInv
<1>3. \A n \in Message :
          \/ retryCounts'[n] = retryCounts[n]
          \/ loop[l].step \in InHand /\ n = m /\ retryCounts'[n] \in {0, 1}
  <2>1. CASE UNCHANGED retryCounts
    BY <2>1
  <2>2. ASSUME NEW v \in {0, 1}, loop[l].step \in InHand,
               retryCounts' = [retryCounts EXCEPT ![m] = v]
        PROVE  \A n \in Message : retryCounts'[n] = retryCounts[n] \/ (n = m /\ retryCounts'[n] = v)
    <3> HIDE DEF m
    <3> QED  BY <1>1, <2>2
  <2> QED
    BY <2>1, <2>2
<1>4. \A n \in Message : retryCounts'[n] <= 1 /\ (n > Seen' => retryCounts'[n] = 0)
  BY <1>2, <1>3, NumbersAreTyped DEF RetryInv, Message
<1>5. ASSUME NEW i \in DOMAIN new.batch PROVE retryCounts'[new.batch[i]] = 0
  <2>1. new.batch = Rest(l)
    BY <1>5
  <2>2. PICK j \in DOMAIN loop[l].batch :
            /\ Rest(l)[i] = loop[l].batch[j]
            /\ loop[l].step \in InHand => j # 1
    BY <1>5, <2>1, RestFacts
  <2>3. loop[l].batch[j] \in Message /\ (loop[l].step \in InHand => loop[l].batch[j] # m)
    <3>1. CASE loop[l].step \in InHand
      <4>1. 1 < j /\ 1 \in DOMAIN loop[l].batch /\ m = loop[l].batch[1]
        BY <3>1, <1>2, <2>2, LoopFacts
      <4>2. loop[l].batch[1] < loop[l].batch[j]
        BY <4>1 DEF BatchInv
      <4> QED
        BY <4>1, <4>2, LoopFacts DEF Message
    <3>2. CASE loop[l].step \notin InHand
      BY <3>2, LoopFacts
    <3> QED
      BY <3>1, <3>2
  <2>4. retryCounts[loop[l].batch[j]] = 0
    BY <2>2 DEF RetryInv, InHand
  <2> QED
    BY <2>1, <2>2, <2>3, <2>4, <1>3
<1>6. ASSUME NEW k \in Loop \ {l}, NEW i \in DOMAIN loop[k].batch,
             i # 1 \/ loop[k].step # "burying"
      PROVE  retryCounts'[loop[k].batch[i]] = 0
  <2>1. loop[k].batch[i] \in Message
    BY LoopFacts
  <2>2. loop[l].step \in InHand => loop[k].batch[i] # m
    BY <1>2 DEF ApartInv
  <2>3. retryCounts[loop[k].batch[i]] = 0
    BY <1>6 DEF RetryInv
  <2> QED
    BY <1>3, <2>1, <2>2, <2>3
<1>7. \A k \in Loop : loop'[k].step = "burying" => MaxRetries = 0
  BY <1>1 DEF RetryInv
<1> QED
  BY <1>1, <1>4, <1>5, <1>6, <1>7 DEF RetryInv

----------------------------------------------------------------------------
(* The steps.                                                              *)

(* What a step that leaves the messages of the loops alone keeps.          *)
LoopsKept == /\ BatchInv /\ ApartInv /\ PastInv /\ DueInv /\ RetryInv
             /\ NeverRepeated /\ HandledInOrder

(* A loop that ends or reads again has nothing left. *)
LEMMA LoopsMayEnd ==
    ASSUME BusInv, Seen' \in Nat, Seen <= Seen',
           \A l \in Loop : loop'[l] = loop[l] \/ loop'[l] \in {Off, Reading},
           subscribers' = subscribers \/ \A l \in Loop : loop'[l] \in {Off, Reading},
           retryCounts' = retryCounts \/ retryCounts' = [m \in Message |-> 0],
           dlq' \subseteq dlq, UNCHANGED <<handled, given>>
    PROVE  LoopsKept'
<1>1. \A l \in Loop : /\ Goes(l)
                      /\ \/ loop'[l] = loop[l]
                         \/ loop'[l].batch = <<>> /\ loop'[l].step \in {"off", "reading"}
  BY OffIsTyped DEF Goes
<1>2. BatchInv' /\ ApartInv' /\ PastInv'
  BY <1>1, GoingKeepsBatches DEF BusInv
<1>3. DueInv'
  <2>1. \A l \in Loop : loop'[l].step \in {"calling", "acking"} => loop'[l] = loop[l]
    BY <1>1
  <2>2. ASSUME NEW l \in Loop, loop'[l].step = "calling"
        PROVE  /\ loop[l].step = "calling"
               /\ \A d \in loop'[l].due :
                      d \in loop[l].due /\ (Ahead(loop[l], d) => Ahead(loop[l], d)')
    BY <2>1, <2>2, OffIsTyped, AheadStays
  <2> QED
    BY <2>1, <2>2, DueStays DEF BusInv
<1>4. RetryInv'
  BY <1>1, RetriesStay DEF BusInv
<1>5. NeverRepeated' /\ HandledInOrder'
  BY DEF BusInv, NeverRepeated, HandledInOrder
<1> QED
  BY <1>2, <1>3, <1>4, <1>5 DEF LoopsKept

LEMMA ConnectIsSafe == BusInv /\ Connect => BusInv'
<1> SUFFICES ASSUME BusInv, Connect
             PROVE  BusInv'
  OBVIOUS
<1>1. Seen' = Seen /\ Seen \in Nat
  BY NumbersAreTyped DEF BusInv, Connect, server, Seen
<1>2. BusTypeOK' /\ ServerInv' /\ AckedAfterCallbacks'
  BY <1>1 DEF BusInv, Connect, server, history, BusTypeOK, ServerInv, AckedAfterCallbacks, Message
<1>3. LoopsKept'
  BY <1>1, LoopsMayEnd DEF Connect, server, history
<1> QED
  BY <1>2, <1>3 DEF BusInv, LoopsKept

LEMMA CreateGroupIsSafe == BusInv /\ CreateGroup => BusInv'
<1> SUFFICES ASSUME BusInv, CreateGroup
             PROVE  BusInv'
  OBVIOUS
<1>1. delivered' = delivered
  BY DEF CreateGroup, BusInv, ServerInv
<1>2. Seen' = Seen /\ Seen \in Nat
  BY <1>1, NumbersAreTyped DEF BusInv, CreateGroup, Seen
<1>3. BusTypeOK' /\ ServerInv' /\ AckedAfterCallbacks'
  BY <1>1, <1>2 DEF BusInv, CreateGroup, history, BusTypeOK, ServerInv, AckedAfterCallbacks, Message
<1>4. LoopsKept'
  BY <1>2, LoopsMayEnd DEF CreateGroup, history
<1> QED
  BY <1>3, <1>4 DEF BusInv, LoopsKept

LEMMA CallFailsIsSafe == BusInv /\ (\E c \in {"connect", "clear"} : CallFails(c)) => BusInv'
<1> SUFFICES ASSUME BusInv, NEW c \in {"connect", "clear"}, CallFails(c)
             PROVE  BusInv'
  OBVIOUS
<1>1. Seen' = Seen /\ Seen \in Nat
  BY NumbersAreTyped DEF BusInv, CallFails, Seen
<1>2. BusTypeOK'
  <2>1. /\ UNCHANGED <<published, deleted, group, delivered, pending, acked, client, subscribers,
                       tasks, retryCounts, loop, history>>
        /\ dlq' = dlq \/ dlq' = {}
        /\ faults' = faults + 1 /\ calls' = calls \ {c}
    BY DEF CallFails, Fault
  <2>2. /\ BusTypeOK /\ calls' \subseteq {"connect", "clear"}
        /\ faults' \in Nat /\ dlq' \subseteq Message
    BY <2>1 DEF BusInv, BusTypeOK
  <2> QED
    BY <2>1, <2>2 DEF BusTypeOK, history, Message
<1>4. ServerInv' /\ AckedAfterCallbacks'
  BY <1>1 DEF BusInv, CallFails, history, ServerInv, AckedAfterCallbacks
<1>3. LoopsKept'
  BY <1>1, LoopsMayEnd DEF CallFails, history
<1> QED
  BY <1>2, <1>3, <1>4 DEF BusInv, LoopsKept

LEMMA PublishIsSafe == BusInv /\ Publish => BusInv'
<1> SUFFICES ASSUME BusInv, Publish
             PROVE  BusInv'
  OBVIOUS
<1>1. Seen' = Seen /\ Seen \in Nat
  BY NumbersAreTyped DEF BusInv, Publish, Seen
<1>2. /\ published' \in 0 .. MaxMessages /\ deleted' \in 0 .. published'
      /\ delivered' \in 0 .. published'
  BY NumbersAreTyped DEF BusInv, Publish, BusTypeOK
<1>3. BusTypeOK' /\ ServerInv' /\ AckedAfterCallbacks'
  BY <1>1, <1>2 DEF BusInv, Publish, history, BusTypeOK, ServerInv, AckedAfterCallbacks, Message
<1>4. LoopsKept'
  BY <1>1, LoopsMayEnd DEF Publish, history
<1> QED
  BY <1>3, <1>4 DEF BusInv, LoopsKept

LEMMA ClearStreamIsSafe == BusInv /\ ClearStream => BusInv'
<1> SUFFICES ASSUME BusInv, ClearStream
             PROVE  BusInv'
  OBVIOUS
<1>1. Seen' \in Nat /\ Seen <= Seen' /\ Seen \in Nat
  BY NumbersAreTyped DEF BusInv, ClearStream, Seen
<1>2. /\ deleted' \in 0 .. published' /\ delivered' \in 0 .. published'
      /\ pending' \subseteq 1 .. delivered'
  BY NumbersAreTyped DEF BusInv, ClearStream
<1>3. BusTypeOK'
  BY <1>2 DEF BusInv, ClearStream, history, BusTypeOK, Message
<1>4. ServerInv' /\ AckedAfterCallbacks'
  <2>1. \A m \in acked : m \in Message /\ m <= Seen
    BY DEF BusInv, BusTypeOK, ServerInv
  <2> QED
    BY <1>1, <2>1 DEF ClearStream, history, ServerInv, AckedAfterCallbacks, Message, BusInv
<1>5. LoopsKept'
  BY <1>1, LoopsMayEnd DEF ClearStream, history
<1> QED
  BY <1>3, <1>4, <1>5 DEF BusInv, LoopsKept

LEMMA DisconnectIsSafe == BusInv /\ Disconnect => BusInv'
<1> SUFFICES ASSUME BusInv, Disconnect
             PROVE  BusInv'
  OBVIOUS
<1>1. Seen' = Seen /\ Seen \in Nat
  BY NumbersAreTyped DEF BusInv, Disconnect, server, Seen
<1>2. \A l \in Loop : loop'[l] = loop[l] \/ loop'[l] = Off
  BY DEF Disconnect
<1>3. loop' \in [Loop -> LoopType]
  <2>1. \A l \in Loop : loop'[l] \in LoopType
    BY <1>2, LoopFacts, OffIsTyped DEF BusInv
  <2> QED
    BY <2>1 DEF Disconnect
<1>4. BusTypeOK' /\ ServerInv' /\ AckedAfterCallbacks'
  BY <1>1, <1>3 DEF BusInv, Disconnect, server, history, BusTypeOK, LoopType, Steps, ServerInv,
                    AckedAfterCallbacks, Message
<1>5. LoopsKept'
  BY <1>1, <1>2, LoopsMayEnd DEF Disconnect, server, history
<1> QED
  BY <1>4, <1>5 DEF BusInv, LoopsKept

LEMMA StartConsumerIsSafe == BusInv /\ (\E l \in Loop, n \in Name : StartConsumer(l, n)) => BusInv'
<1> SUFFICES ASSUME BusInv, NEW l \in Loop, NEW n \in Name, StartConsumer(l, n)
             PROVE  BusInv'
  OBVIOUS
<1>1. Seen' = Seen /\ Seen \in Nat
  BY NumbersAreTyped DEF BusInv, StartConsumer, server, Seen
<1>2. loop' \in [Loop -> LoopType] /\ \A k \in Loop : loop'[k] = loop[k] \/ loop'[k] = Reading
  BY LoopIsTyped, OffIsTyped DEF BusInv, StartConsumer
<1>3. tasks' \in [Name -> Loop \union {None}]
  BY DEF BusInv, BusTypeOK, StartConsumer
<1>4. BusTypeOK' /\ ServerInv' /\ AckedAfterCallbacks'
  BY <1>1, <1>2, <1>3 DEF BusInv, StartConsumer, server, history, BusTypeOK, LoopType, Steps,
                          ServerInv, AckedAfterCallbacks, Message
<1>5. LoopsKept'
  BY <1>1, <1>2, LoopsMayEnd DEF StartConsumer, server, history
<1> QED
  BY <1>4, <1>5 DEF BusInv, LoopsKept

LEMMA ReadFailsIsSafe == BusInv /\ (\E l \in Loop : ReadFails(l)) => BusInv'
<1> SUFFICES ASSUME BusInv, NEW l \in Loop, ReadFails(l)
             PROVE  BusInv'
  OBVIOUS
<1>1. Seen' = Seen /\ Seen \in Nat
  BY NumbersAreTyped DEF BusInv, ReadFails, server, Seen
<1>2. loop' \in [Loop -> LoopType] /\ \A k \in Loop : loop'[k] = loop[k] \/ loop'[k] = Reading
  BY LoopIsTyped, OffIsTyped DEF BusInv, ReadFails
<1>3. BusTypeOK' /\ ServerInv' /\ AckedAfterCallbacks'
  <2>1. UNCHANGED <<server, history, client, subscribers, tasks, retryCounts, calls>>
        /\ faults' \in Nat
    BY DEF BusInv, BusTypeOK, ReadFails, Fault
  <2>2. BusTypeOK'
    BY <1>2, <2>1 DEF BusInv, BusTypeOK, server, history, LoopType, Steps, Message
  <2> QED
    BY <1>1, <2>1, <2>2 DEF BusInv, server, history, ServerInv, AckedAfterCallbacks, Message
<1>4. LoopsKept'
  BY <1>1, <1>2, LoopsMayEnd DEF ReadFails, server, history
<1> QED
  BY <1>3, <1>4 DEF BusInv, LoopsKept

LEMMA CrashIsSafe == BusInv /\ Crash => BusInv'
<1> SUFFICES ASSUME BusInv, Crash
             PROVE  BusInv'
  OBVIOUS
<1>1. Seen' = Seen /\ Seen \in Nat
  BY NumbersAreTyped DEF BusInv, Crash, server, Seen
<1>2. loop' \in [Loop -> LoopType] /\ \A k \in Loop : loop'[k] = Off
  BY OffIsTyped DEF Crash
<1>3. /\ retryCounts' \in [Message -> 0 .. MaxRetries + 1]
      /\ subscribers' \in [Key -> Seq(Callback)]
  BY EmptySeq, RedisStreamBusAssumption DEF RedisStreamBusAssumption, Crash
<1>4. BusTypeOK'
  <2>1. UNCHANGED <<server, history>> /\ client' = FALSE /\ calls' = {} /\ faults' \in Nat
        /\ tasks' \in [Name -> Loop \union {None}]
    BY DEF BusInv, BusTypeOK, Crash, Fault
  <2> QED
    BY <1>2, <1>3, <2>1 DEF BusInv, server, history, BusTypeOK, LoopType, Steps, Message
<1>6. ServerInv' /\ AckedAfterCallbacks'
  BY <1>1 DEF BusInv, Crash, server, history, ServerInv, AckedAfterCallbacks
<1>5. LoopsKept'
  BY <1>1, <1>2, LoopsMayEnd DEF Crash, server, history
<1> QED
  BY <1>4, <1>5, <1>6 DEF BusInv, LoopsKept

LEMMA SubscribeIsSafe == BusInv /\ (\E k \in Key, c \in Callback : Subscribe(k, c)) => BusInv'
<1> SUFFICES ASSUME BusInv, NEW k \in Key, NEW c \in Callback, Subscribe(k, c)
             PROVE  BusInv'
  OBVIOUS
<1>1. Seen' = Seen /\ Seen \in Nat
  BY NumbersAreTyped DEF BusInv, Subscribe, server, Seen
<1>2. /\ subscribers[k] \in Seq(Callback) /\ subscribers \in [Key -> Seq(Callback)]
      /\ subscribers' = [subscribers EXCEPT ![k] = Append(subscribers[k], c)]
  BY DEF Subscribe, BusInv, BusTypeOK
<1>3. /\ subscribers' \in [Key -> Seq(Callback)]
      /\ \A q \in Key : \A n \in DOMAIN subscribers[q] :
            n \in DOMAIN subscribers'[q] /\ subscribers'[q][n] = subscribers[q][n]
  <2> DEFINE new == Append(subscribers[k], c)
  <2>1. /\ new \in Seq(Callback) /\ Len(new) = Len(subscribers[k]) + 1
        /\ \A n \in 1 .. Len(subscribers[k]) : new[n] = subscribers[k][n]
    BY <1>2, AppendProperties
  <2>2. \A n \in DOMAIN subscribers[k] : n \in DOMAIN new /\ new[n] = subscribers[k][n]
    BY <1>2, <2>1, LenProperties
  <2> HIDE DEF new
  <2>3. \A q \in Key : subscribers'[q] = IF q = k THEN new ELSE subscribers[q]
    BY <1>2 DEF new
  <2> QED
    BY <1>2, <2>1, <2>2, <2>3
<1>4. BusTypeOK' /\ ServerInv' /\ AckedAfterCallbacks'
  BY <1>1, <1>3 DEF BusInv, Subscribe, server, history, BusTypeOK, ServerInv, AckedAfterCallbacks,
                    Message
<1>5. loop' = loop /\ \A l \in Loop : Goes(l)
  BY DEF Subscribe, Goes
<1>6. BatchInv' /\ ApartInv' /\ PastInv'
  BY <1>1, <1>5, GoingKeepsBatches DEF BusInv, Subscribe, history
<1>7. DueInv'
  <2>1. ASSUME NEW l \in Loop, NEW d, Ahead(loop[l], d)
        PROVE  Ahead(loop[l], d)'
    <3>1. \A n \in DOMAIN Callbacks(loop[l]) :
              /\ n \in DOMAIN Callbacks(loop[l])'
              /\ Callbacks(loop[l])'[n] = Callbacks(loop[l])[n]
      BY <1>3, <1>5, LoopFacts DEF BusInv, Callbacks
    <3>2. \A n \in DOMAIN subscribers["wildcard"] :
              /\ n \in DOMAIN subscribers'["wildcard"]
              /\ subscribers'["wildcard"][n] = subscribers["wildcard"][n]
      BY <1>3 DEF Key
    <3> QED
      BY <2>1, <3>1, <3>2, <1>5 DEF Ahead
  <2> QED
    BY <2>1, <1>5, DueStays DEF BusInv, Subscribe, history
<1>8. RetryInv'
  BY <1>1, <1>5, RetriesStay DEF BusInv, Subscribe, server
<1>9. NeverRepeated' /\ HandledInOrder'
  BY DEF BusInv, Subscribe, history, NeverRepeated, HandledInOrder
<1> QED
  BY <1>4, <1>6, <1>7, <1>8, <1>9 DEF BusInv

LEMMA UnsubscribeIsSafe == BusInv /\ (\E k \in Key, c \in Callback : Unsubscribe(k, c)) => BusInv'
<1> SUFFICES ASSUME BusInv, NEW k \in Key, NEW c \in Callback, Unsubscribe(k, c)
             PROVE  BusInv'
  OBVIOUS
<1>1. Seen' = Seen /\ Seen \in Nat
  BY NumbersAreTyped DEF BusInv, Unsubscribe, server, Seen
<1>2. /\ subscribers' \in [Key -> Seq(Callback)]
      /\ \A q \in Key \ {k} : subscribers'[q] = subscribers[q]
      /\ \A n \in DOMAIN subscribers[k] : subscribers[k][n] # c =>
            \E i \in DOMAIN subscribers'[k] : subscribers'[k][i] = subscribers[k][n]
  <2> DEFINE old == subscribers[k]
             new == RemoveFirst(old, c)
  <2>1. /\ subscribers \in [Key -> Seq(Callback)] /\ old \in Seq(Callback)
        /\ subscribers' = [subscribers EXCEPT ![k] = new]
        /\ \E i \in 1 .. Len(old) : old[i] = c
    BY LenProperties DEF BusInv, BusTypeOK, Unsubscribe, Contains
  <2>2. \A q \in Key : subscribers'[q] = IF q = k THEN new ELSE subscribers[q]
    BY <2>1
  <2> HIDE DEF old
  <2>0. \E p \in 1 .. Len(old) :
            /\ old[p] = c
            /\ RemoveFirst(old, c) \in Seq(Callback) /\ Len(RemoveFirst(old, c)) = Len(old) - 1
            /\ \A i \in 1 .. Len(old) - 1 :
                  RemoveFirst(old, c)[i] = IF i < p THEN old[i] ELSE old[i + 1]
    <3>1. old \in Seq(Callback) /\ \E i \in 1 .. Len(old) : old[i] = c
      BY <2>1
    <3> QED
      BY ONLY <3>1, RemoveFirstFacts
  <2>3. PICK p \in 1 .. Len(old) :
            /\ old[p] = c
            /\ new \in Seq(Callback) /\ Len(new) = Len(old) - 1
            /\ \A i \in 1 .. Len(old) - 1 : new[i] = IF i < p THEN old[i] ELSE old[i + 1]
    BY <2>0 DEF new
  <2> HIDE DEF new
  <2>4. /\ Len(old) \in Nat /\ DOMAIN old = 1 .. Len(old)
        /\ DOMAIN new = 1 .. Len(old) - 1
    BY <2>1, <2>3, LenProperties
  <2>5. ASSUME NEW n \in DOMAIN old, old[n] # c
        PROVE  \E i \in DOMAIN new : new[i] = old[n]
    <3>1. CASE n < p
      BY <3>1, <2>3, <2>4
    <3>2. CASE n > p
      <4>1. /\ n - 1 \in DOMAIN new /\ n - 1 \in 1 .. Len(old) - 1
            /\ ~(n - 1 < p) /\ (n - 1) + 1 = n
        BY <3>2, <2>3, <2>4
      <4> QED
        BY <4>1, <2>3
    <3> QED
      BY <3>1, <3>2, <2>3, <2>4, <2>5
  <2>6. subscribers' \in [Key -> Seq(Callback)]
    BY <2>1, <2>3
  <2> QED
    BY <2>2, <2>5, <2>6 DEF old
<1>3. \A l \in Loop : loop'[l] = [loop[l] EXCEPT !.due = loop[l].due \ Missed(loop[l], k, c)]
  BY DEF Unsubscribe
<1>4. ASSUME NEW l \in Loop
      PROVE  /\ loop'[l] \in LoopType
             /\ loop'[l].batch = loop[l].batch /\ loop'[l].step = loop[l].step
             /\ loop'[l].key = loop[l].key /\ loop'[l].next = loop[l].next
             /\ loop'[l].list = loop[l].list
             /\ loop'[l].due = loop[l].due \ Missed(loop[l], k, c)
  <2> DEFINE rest == loop[l].due \ Missed(loop[l], k, c)
  <2>1. rest \subseteq Key \X Callback
    BY LoopFacts DEF BusInv
  <2>2. loop[l] \in LoopType /\ loop'[l] = [loop[l] EXCEPT !.due = rest]
    BY <1>3, LoopFacts DEF BusInv
  <2> HIDE DEF rest
  <2>3. loop'[l] \in LoopType
    BY <2>1, <2>2 DEF LoopType
  <2> QED
    BY <2>2, <2>3 DEF LoopType, rest
<1>5. loop' \in [Loop -> LoopType]
  BY <1>4 DEF Unsubscribe
<1>6. BusTypeOK' /\ ServerInv' /\ AckedAfterCallbacks'
  BY <1>1, <1>2, <1>5 DEF BusInv, Unsubscribe, server, history, BusTypeOK, LoopType, Steps,
                          ServerInv, AckedAfterCallbacks, Message
<1>7. \A l \in Loop : Goes(l)
  BY <1>4 DEF Goes
<1>8. BatchInv' /\ ApartInv' /\ PastInv'
  BY <1>1, <1>7, GoingKeepsBatches DEF BusInv, Unsubscribe, history
<1>9. DueInv'
  <2>1. ASSUME NEW l \in Loop, NEW d \in loop'[l].due, Ahead(loop[l], d)
        PROVE  Ahead(loop[l], d)'
    <3>1. /\ loop'[l].key = loop[l].key /\ loop'[l].next = loop[l].next
          /\ loop'[l].list = loop[l].list /\ d \notin Missed(loop[l], k, c)
          /\ d \in Key \X Callback /\ d = <<d[1], d[2]>>
      BY <2>1, <1>4, LoopFacts DEF BusInv
    <3>2. CASE /\ d[1] = loop[l].key
               /\ \E n \in DOMAIN Callbacks(loop[l]) :
                     n > loop[l].next /\ Callbacks(loop[l])[n] = d[2]
      <4>1. loop[l].list # None \/ loop[l].key # k
        BY <3>1, <3>2 DEF Missed
      <4>2. Callbacks(loop[l])' = Callbacks(loop[l])
        BY <3>1, <4>1, <1>2, LoopFacts DEF BusInv, Callbacks
      <4> QED
        BY <3>1, <3>2, <4>2 DEF Ahead
    <3>3. CASE /\ loop[l].key = "exact" /\ d[1] = "wildcard" /\ loop[l].list = None
               /\ \E n \in DOMAIN subscribers["wildcard"] : subscribers["wildcard"][n] = d[2]
      <4>1. \E n \in DOMAIN subscribers'["wildcard"] : subscribers'["wildcard"][n] = d[2]
        <5>1. CASE k # "wildcard"
          BY <5>1, <3>3, <1>2 DEF Key
        <5>2. CASE k = "wildcard"
          <6>1. d # <<k, c>>
            BY <5>2, <3>1, <3>3 DEF Missed
          <6> QED
            BY <6>1, <5>2, <3>1, <3>3, <1>2
        <5> QED
          BY <5>1, <5>2
      <4> QED
        BY <3>1, <3>3, <4>1 DEF Ahead
    <3> QED
      BY <2>1, <3>2, <3>3 DEF Ahead
  <2> QED
    BY <2>1, <1>4, DueStays DEF BusInv, Unsubscribe, history
<1>10. RetryInv'
  BY <1>1, <1>4, <1>7, RetriesStay DEF BusInv, Unsubscribe, server
<1>11. NeverRepeated' /\ HandledInOrder'
  BY DEF BusInv, Unsubscribe, history, NeverRepeated, HandledInOrder
<1> QED
  BY <1>6, <1>8, <1>9, <1>10, <1>11 DEF BusInv

(* The loops keep the list they iterate over. *)
LEMMA ClearRestIsSafe == BusInv /\ ClearRest => BusInv'
<1> SUFFICES ASSUME BusInv, ClearRest
             PROVE  BusInv'
  OBVIOUS
<1>1. Seen' = Seen /\ Seen \in Nat
  BY NumbersAreTyped DEF BusInv, ClearRest, Seen
<1>2. /\ subscribers' \in [Key -> Seq(Callback)] /\ subscribers \in [Key -> Seq(Callback)]
      /\ None \notin Seq(Callback)
  BY EmptySeq, RedisStreamBusAssumption DEF RedisStreamBusAssumption, BusInv, BusTypeOK, ClearRest
<1>3. \A l \in Loop :
          loop'[l] = IF loop[l].step = "calling"
                     THEN [loop[l] EXCEPT !.list = Callbacks(loop[l]),
                                          !.due = {d \in loop[l].due : d[1] = loop[l].key}]
                     ELSE loop[l]
  BY DEF ClearRest
<1>4. ASSUME NEW l \in Loop
      PROVE  /\ loop'[l] \in LoopType
             /\ loop'[l].batch = loop[l].batch /\ loop'[l].step = loop[l].step
             /\ loop'[l].key = loop[l].key /\ loop'[l].next = loop[l].next
             /\ loop[l].step = "calling" =>
                    /\ loop'[l].due = {d \in loop[l].due : d[1] = loop[l].key}
                    /\ Callbacks(loop[l])' = Callbacks(loop[l])
  <2>1. CASE loop[l].step = "calling"
    <3> DEFINE list == Callbacks(loop[l])
               rest == {d \in loop[l].due : d[1] = loop[l].key}
    <3>1. list \in Seq(Callback) /\ rest \subseteq Key \X Callback /\ loop[l] \in LoopType
      BY <1>2, LoopFacts DEF BusInv, Callbacks
    <3>2. loop'[l] = [loop[l] EXCEPT !.list = list, !.due = rest]
      BY <2>1, <1>3
    <3> HIDE DEF list, rest
    <3>3. /\ loop'[l] \in LoopType
          /\ loop'[l].batch = loop[l].batch /\ loop'[l].step = loop[l].step
          /\ loop'[l].key = loop[l].key /\ loop'[l].next = loop[l].next
          /\ loop'[l].list = list /\ loop'[l].due = rest
      BY <3>1, <3>2 DEF LoopType
    <3>4. Callbacks(loop[l])' = list
      BY <3>1, <3>3, <1>2 DEF Callbacks
    <3> QED
      BY <3>3, <3>4 DEF list, rest
  <2>2. CASE loop[l].step # "calling"
    BY <2>2, <1>3, LoopFacts DEF BusInv
  <2> QED
    BY <2>1, <2>2
<1>5. loop' \in [Loop -> LoopType]
  BY <1>4 DEF ClearRest
<1>6. BusTypeOK' /\ ServerInv' /\ AckedAfterCallbacks'
  BY <1>1, <1>2, <1>5 DEF BusInv, ClearRest, history, BusTypeOK, LoopType, Steps, ServerInv,
                          AckedAfterCallbacks, Message
<1>7. (\A l \in Loop : Goes(l)) /\ UNCHANGED <<handled, given, retryCounts>> /\ dlq' = {}
  BY <1>4 DEF Goes, ClearRest, history
<1>8. BatchInv' /\ ApartInv' /\ PastInv'
  BY <1>1, <1>7, GoingKeepsBatches DEF BusInv
<1>9. DueInv'
  <2>1. ASSUME NEW l \in Loop, loop'[l].step = "calling", NEW d \in loop'[l].due,
               Ahead(loop[l], d)
        PROVE  Ahead(loop[l], d)'
    <3>1. d[1] = loop[l].key
      BY <2>1, <1>4
    <3>2. \E n \in DOMAIN Callbacks(loop[l]) :
              n > loop[l].next /\ Callbacks(loop[l])[n] = d[2]
      BY <2>1, <3>1 DEF Ahead
    <3> QED
      BY <2>1, <3>1, <3>2, <1>4 DEF Ahead
  <2> QED
    BY <2>1, <1>4, DueStays DEF BusInv, ClearRest, history
<1>10. RetryInv'
  BY <1>1, <1>4, <1>7, RetriesStay DEF BusInv
<1>11. NeverRepeated' /\ HandledInOrder'
  BY DEF BusInv, ClearRest, history, NeverRepeated, HandledInOrder
<1> QED
  BY <1>6, <1>8, <1>9, <1>10, <1>11 DEF BusInv

(* At the end of the last list no callback is due any more. *)
LEMMA ReturnIsSafe == BusInv /\ (\E l \in Loop : Return(l)) => BusInv'
<1> SUFFICES ASSUME BusInv, NEW l \in Loop, Return(l)
             PROVE  BusInv'
  OBVIOUS
<1> DEFINE me == loop[l]
           new == Advance(me)
<1>1. Seen' = Seen /\ Seen \in Nat
  BY NumbersAreTyped DEF BusInv, Return, server, Seen
<1>2. me.step = "calling" /\ me \in LoopType /\ me.batch \in Seq(Message)
  BY LoopFacts DEF BusInv, Return
<1>3. UNCHANGED <<server, client, subscribers, tasks, retryCounts, calls, handled, failed, faults>>
  BY DEF Return
<1>4. /\ loop' = [loop EXCEPT ![l] = new]
      /\ given' = IF new.step = "acking" /\ me.due = {} THEN given \union {Head(me.batch)}
                  ELSE given
  BY DEF Return, GivenAfter
<1>5. Head(me.batch) \in Message
  BY <1>2, RestFacts, LoopFacts DEF BusInv, InHand
<1>6. \A d \in me.due : Ahead(me, d)
  BY <1>2 DEF BusInv, DueInv
<1> HIDE DEF me
<1>7. /\ new \in LoopType /\ new.batch = me.batch /\ new.step \in {"calling", "acking"}
      /\ new.step = "calling" => \A d \in new.due : Ahead(new, d)
      /\ new.step = "acking" => me.due = {}
  BY <1>2, <1>6, AdvanceFacts DEF BusInv
<1> HIDE DEF new
<1>8. /\ loop'[l] = new /\ \A k \in Loop \ {l} : loop'[k] = loop[k]
      /\ loop' \in [Loop -> LoopType]
  BY <1>4, <1>7, LoopIsTyped DEF BusInv
<1>9. given' \subseteq Message /\ given \subseteq given'
  BY <1>4, <1>5 DEF BusInv, BusTypeOK
<1>10. BusTypeOK' /\ ServerInv' /\ AckedAfterCallbacks'
  BY <1>1, <1>3, <1>8, <1>9 DEF BusInv, server, BusTypeOK, LoopType, Steps, ServerInv,
                                AckedAfterCallbacks, Message
<1>11. \A k \in Loop : Goes(k)
  BY <1>2, <1>7, <1>8 DEF Goes, InHand, me
<1>12. BatchInv' /\ ApartInv' /\ PastInv'
  BY <1>1, <1>3, <1>11, GoingKeepsBatches DEF BusInv
<1>13. DueInv'
  BY <1>3, <1>4, <1>7, <1>8, <1>9, NextIsDue DEF BusInv
<1>14. RetryInv'
  <2>1. \A k \in Loop : loop'[k].step = "burying" <=> loop[k].step = "burying"
    BY <1>2, <1>7, <1>8 DEF me
  <2> QED
    BY <2>1, <1>1, <1>3, <1>11, RetriesStay DEF BusInv, server
<1>15. NeverRepeated' /\ HandledInOrder'
  BY <1>3 DEF BusInv, NeverRepeated, HandledInOrder
<1> QED
  BY <1>10, <1>12, <1>13, <1>14, <1>15 DEF BusInv

(* What is acknowledged was given to every callback before. *)
LEMMA AcknowledgeIsSafe == BusInv /\ (\E l \in Loop : Acknowledge(l)) => BusInv'
<1> SUFFICES ASSUME BusInv, NEW l \in Loop, Acknowledge(l)
             PROVE  BusInv'
  OBVIOUS
<1> DEFINE m == Head(loop[l].batch)
<1>1. Seen' = Seen /\ Seen \in Nat
  BY NumbersAreTyped DEF BusInv, Acknowledge, Seen
<1>2. m \in Message /\ m <= Seen /\ m \in given
  <2>1. loop[l].step \in InHand
    BY DEF Acknowledge, InHand
  <2>2. m = loop[l].batch[1] /\ 1 \in DOMAIN loop[l].batch
    BY <2>1, RestFacts DEF BusInv
  <2> QED
    BY <2>2, LoopFacts DEF BusInv, BatchInv, DueInv, Acknowledge
<1>3. /\ pending' = pending \ {m} /\ acked' = acked \union (pending \intersect {m})
      /\ loop' = [loop EXCEPT ![l].step = "acked"]
  BY DEF Acknowledge
<1> HIDE DEF m
<1>4. /\ loop'[l] \in LoopType
      /\ loop'[l].batch = loop[l].batch /\ loop'[l].step = "acked" /\ loop[l].step = "acking"
      /\ \A k \in Loop \ {l} : loop'[k] = loop[k]
  <2>1. loop[l] \in LoopType /\ loop \in [Loop -> LoopType]
    BY LoopIsTyped DEF BusInv
  <2>2. loop'[l] = [loop[l] EXCEPT !.step = "acked"] /\ \A k \in Loop \ {l} : loop'[k] = loop[k]
    BY <2>1, <1>3
  <2>3. /\ loop'[l] \in LoopType
        /\ loop'[l].batch = loop[l].batch /\ loop'[l].step = "acked"
    BY <2>1, <2>2 DEF LoopType, Steps
  <2> QED
    BY <2>2, <2>3 DEF Acknowledge
<1>5. loop' \in [Loop -> LoopType]
  BY <1>3, <1>4, LoopIsTyped DEF BusInv
<1>6. BusTypeOK' /\ ServerInv' /\ AckedAfterCallbacks'
  BY <1>1, <1>2, <1>3, <1>5 DEF BusInv, Acknowledge, history, BusTypeOK, LoopType, Steps, ServerInv,
                                AckedAfterCallbacks, Message
<1>7. \A k \in Loop : Goes(k)
  BY <1>4 DEF Goes, InHand
<1>8. BatchInv' /\ ApartInv' /\ PastInv'
  BY <1>1, <1>7, GoingKeepsBatches DEF BusInv, Acknowledge, history
<1>9. DueInv'
  <2>1. \A k \in Loop : loop'[k].step \in {"calling", "acking"} => loop'[k] = loop[k]
    BY <1>4
  <2>2. UNCHANGED subscribers
    BY DEF Acknowledge
  <2> QED
    BY <2>1, <2>2, AheadStays, DueStays DEF BusInv, Acknowledge, history
<1>10. RetryInv'
  <2>1. \A k \in Loop : loop'[k].step = "burying" <=> loop[k].step = "burying"
    BY <1>4
  <2> QED
    BY <2>1, <1>1, <1>7, RetriesStay DEF BusInv, Acknowledge
<1>11. NeverRepeated' /\ HandledInOrder'
  BY DEF BusInv, Acknowledge, history, NeverRepeated, HandledInOrder
<1> QED
  BY <1>6, <1>8, <1>9, <1>10, <1>11 DEF BusInv

LEMMA DeliverIsSafe == BusInv /\ (\E l \in Loop : Deliver(l)) => BusInv'
<1> SUFFICES ASSUME BusInv, NEW l \in Loop, Deliver(l)
             PROVE  BusInv'
  OBVIOUS
<1> DEFINE new == [loop[l] EXCEPT !.step = "read", !.batch = Batch]
<1>1. /\ Batch \in Seq(Message) /\ Batch # <<>>
      /\ Len(Batch) \in Nat \ {0} /\ DOMAIN Batch = 1 .. Len(Batch)
      /\ \A i \in DOMAIN Batch : Batch[i] = Seen + i
      /\ Last(Batch) = Seen + Len(Batch) /\ Last(Batch) <= published
      /\ ToSet(Batch) = Seen + 1 .. Last(Batch)
      /\ New # {}
  BY BatchFacts DEF BusInv, Deliver
<1>2. /\ published \in Nat /\ Seen \in Nat /\ deleted \in Nat /\ delivered \in Nat
      /\ deleted <= Seen /\ delivered <= Seen /\ published <= MaxMessages /\ MaxMessages \in Nat
  BY NumbersAreTyped DEF BusInv
<1>3. /\ loop' = [loop EXCEPT ![l] = new] /\ loop[l].step = "reading"
      /\ pending' = pending \union ToSet(Batch) /\ delivered' = Last(Batch)
      /\ UNCHANGED <<published, deleted, group, acked, dlq, client, subscribers, tasks,
                     retryCounts, calls, history, faults>>
      /\ group
  BY DEF Deliver
<1>4. new \in LoopType /\ new.step = "read" /\ new.batch = Batch
  BY <1>1, LoopFacts DEF BusInv, LoopType, Steps
<1> HIDE DEF new
<1>5. Seen' = Last(Batch) /\ Seen' \in Nat /\ Seen < Seen'
  BY <1>1, <1>2, <1>3 DEF Seen
<1>6. /\ loop'[l] = new /\ \A k \in Loop \ {l} : loop'[k] = loop[k]
      /\ loop' \in [Loop -> LoopType]
  BY <1>3, <1>4, LoopIsTyped DEF BusInv
<1>7. BusTypeOK'
  <2>1. delivered' \in 0 .. published'
    BY <1>1, <1>2, <1>3
  <2>2. pending' \subseteq 1 .. delivered'
    <3> SUFFICES ASSUME NEW m \in pending'
                 PROVE  m \in 1 .. delivered'
      OBVIOUS
    <3>1. CASE m \in pending
      <4>1. m \in 1 .. delivered
        BY <3>1 DEF BusInv, BusTypeOK
      <4> QED
        BY <4>1, <1>1, <1>2, <1>3
    <3>2. CASE m \in Seen + 1 .. Last(Batch)
      BY <3>2, <1>1, <1>2, <1>3
    <3> QED
      BY <3>1, <3>2, <1>1, <1>3
  <2>3. acked' \subseteq Message \ pending'
    <3>1. \A m \in acked : m \in Message /\ m <= Seen /\ m \notin pending
      BY DEF BusInv, BusTypeOK, ServerInv
    <3> QED
      BY <3>1, <1>1, <1>2, <1>3 DEF Message
  <2> QED
    BY <2>1, <2>2, <2>3, <1>3, <1>6 DEF BusInv, BusTypeOK, LoopType, Steps, history, Message
<1>8. ServerInv' /\ AckedAfterCallbacks'
  <2>1. \A m \in acked : m \in Message /\ m <= Seen
    BY DEF BusInv, BusTypeOK, ServerInv
  <2> QED
    BY <2>1, <1>2, <1>3, <1>5 DEF BusInv, ServerInv, AckedAfterCallbacks, history, Message
<1>9. BatchInv' /\ ApartInv' /\ PastInv'
  BY <1>1, <1>3, <1>4, <1>5, DeliveryKeepsBatches DEF BusInv, history
<1>10. DueInv'
  <2>1. \A k \in Loop : loop'[k].step \in {"calling", "acking"} => loop'[k] = loop[k]
    BY <1>4, <1>6
  <2> QED
    BY <2>1, <1>3, AheadStays, DueStays DEF BusInv, history
<1>11. RetryInv'
  <2>1. ASSUME NEW m \in Message
        PROVE  retryCounts'[m] <= 1 /\ (m > Seen' => retryCounts'[m] = 0)
    BY <1>2, <1>3, <1>5 DEF BusInv, RetryInv, Message
  <2>2. \A i \in DOMAIN Batch : retryCounts[Batch[i]] = 0
    <3> SUFFICES ASSUME NEW i \in DOMAIN Batch
                 PROVE  retryCounts[Batch[i]] = 0
      OBVIOUS
    <3>1. Batch[i] \in Message /\ Batch[i] > Seen
      BY <1>1, <1>2, ElementOfSeq
    <3> QED
      BY <3>1 DEF BusInv, RetryInv
  <2>3. \A k \in Loop : \A i \in DOMAIN loop'[k].batch :
           i # 1 \/ loop'[k].step # "burying" => retryCounts'[loop'[k].batch[i]] = 0
    BY <2>2, <1>3, <1>4, <1>6 DEF BusInv, RetryInv
  <2>4. \A k \in Loop : loop'[k].step = "burying" => MaxRetries = 0
    BY <1>4, <1>6 DEF BusInv, RetryInv
  <2> QED
    BY <2>1, <2>3, <2>4, <1>3 DEF BusInv, RetryInv
<1>12. NeverRepeated' /\ HandledInOrder'
  BY <1>3 DEF BusInv, history, NeverRepeated, HandledInOrder
<1> QED
  BY <1>7, <1>8, <1>9, <1>10, <1>11, <1>12 DEF BusInv

(* What a loop does that handles the next of its messages, or reads again. *)
LEMMA HandleFacts ==
    ASSUME BusTypeOK, NEW l \in Loop, NEW rest \in Seq(Message), Handle(l, rest)
    PROVE  \E new \in LoopType :
          /\ loop' = [loop EXCEPT ![l] = new]
          /\ new.step \in {"reading", "acking", "calling"} /\ new.batch = rest
          /\ rest = <<>> => UNCHANGED <<handled, given>> /\ new = Reading
          /\ rest # <<>> =>
                 /\ new.step \in {"acking", "calling"}
                 /\ handled' = Append(handled, [loop |-> l, id |-> Head(rest)])
                 /\ given' = given \/ given' = given \union {Head(rest)}
          /\ new.step = "acking" => Head(new.batch) \in given'
          /\ new.step = "calling" => \A d \in new.due : Ahead(new, d)
<1>1. CASE rest = <<>>
  <2>1. loop' = [loop EXCEPT ![l] = Reading] /\ UNCHANGED <<handled, given>>
    BY <1>1 DEF Handle
  <2> QED
    BY <1>1, <2>1, OffIsTyped
<1>2. CASE rest # <<>>
  <2> DEFINE me == Starting(rest)
             new == Advance(me)
  <2>1. /\ loop' = [loop EXCEPT ![l] = new]
        /\ handled' = Append(handled, [loop |-> l, id |-> Head(rest)])
        /\ given' = IF new.step = "acking" /\ me.due = {} THEN given \union {Head(me.batch)}
                    ELSE given
    BY <1>2 DEF Handle, GivenAfter
  <2>2. /\ me \in LoopType /\ me.step = "calling" /\ me.batch = rest
        /\ \A d \in me.due : Ahead(me, d)
    BY StartFacts
  <2> HIDE DEF me
  <2>3. /\ new \in LoopType /\ new.batch = me.batch /\ new.step \in {"calling", "acking"}
        /\ new.step = "calling" => \A d \in new.due : Ahead(new, d)
        /\ new.step = "acking" => me.due = {}
    BY <2>2, AdvanceFacts
  <2> HIDE DEF new
  <2> QED
    BY <1>2, <2>1, <2>2, <2>3
<1> QED
  BY <1>1, <1>2

(* A loop handles the next of its messages, or reads again. *)
LEMMA HandlingIsSafe ==
    ASSUME BusInv, NEW l \in Loop, Handle(l, Rest(l)),
           UNCHANGED <<published, deleted, group, delivered, pending, acked, client, subscribers,
                       tasks, calls>>,
           faults' \in Nat, failed' \subseteq Message,
           dlq' \subseteq Message, dlq' = dlq \/ MaxRetries = 0,
           retryCounts' \in [Message -> 0 .. MaxRetries + 1],
           \/ UNCHANGED retryCounts /\ loop[l].step # "burying"
           \/ \E v \in {0, 1} : /\ loop[l].step \in InHand
                                /\ retryCounts' = [retryCounts EXCEPT ![Head(loop[l].batch)] = v]
    PROVE  BusInv'
<1> DEFINE rest == Rest(l)
           m == Head(rest)
<1>1. Seen' = Seen /\ Seen \in Nat
  BY NumbersAreTyped DEF BusInv, Seen
<1>2. UNCHANGED <<pending, acked>>
  OBVIOUS
<1>3. /\ rest \in Seq(Message)
      /\ rest # <<>> => m \in Message
  <2>1. rest \in Seq(Message)
    BY RestFacts DEF BusInv
  <2> HIDE DEF rest
  <2> QED
    BY <2>1, HeadTailProperties
<1>5. PICK new \in LoopType :
          /\ loop' = [loop EXCEPT ![l] = new]
          /\ new.step \in {"reading", "acking", "calling"} /\ new.batch = rest
          /\ rest = <<>> => UNCHANGED <<handled, given>> /\ new = Reading
          /\ rest # <<>> =>
                 /\ new.step \in {"acking", "calling"}
                 /\ handled' = Append(handled, [loop |-> l, id |-> m])
                 /\ given' = given \/ given' = given \union {m}
          /\ new.step = "acking" => Head(new.batch) \in given'
          /\ new.step = "calling" => \A d \in new.due : Ahead(new, d)
  <2> HIDE DEF rest
  <2> QED
    BY <1>3, HandleFacts DEF BusInv, rest
<1>6. /\ loop'[l] = new /\ \A k \in Loop \ {l} : loop'[k] = loop[k]
      /\ loop' \in [Loop -> LoopType]
  BY <1>5, LoopIsTyped DEF BusInv
<1>7. /\ BatchInv' /\ ApartInv' /\ PastInv' /\ NeverRepeated' /\ HandledInOrder'
      /\ handled' \in Seq([loop : Loop, id : Message])
  <2>1. CASE rest = <<>>
    <3>1. \A k \in Loop : Goes(k)
      BY <2>1, <1>5, <1>6, OffIsTyped DEF Goes
    <3>2. UNCHANGED handled
      BY <2>1, <1>5
    <3>3. BatchInv' /\ ApartInv' /\ PastInv'
      BY <3>1, <3>2, <1>1, GoingKeepsBatches DEF BusInv
    <3> QED
      BY <3>2, <3>3, HandledFacts DEF BusInv, NeverRepeated, HandledInOrder
  <2>2. CASE rest # <<>>
    BY <2>2, <1>1, <1>5, BeginningKeepsBatches DEF BusInv
  <2> QED
    BY <2>1, <2>2
<1>8. given' \subseteq Message /\ given \subseteq given'
  <2> HIDE DEF m, rest
  <2> QED
    BY <1>3, <1>5 DEF BusInv, BusTypeOK
<1>9. BusTypeOK' /\ ServerInv' /\ AckedAfterCallbacks'
  BY <1>1, <1>2, <1>6, <1>7, <1>8 DEF BusInv, BusTypeOK, LoopType, Steps, ServerInv,
                                AckedAfterCallbacks, Message
<1>10. DueInv'
  BY <1>5, <1>6, <1>8, NextIsDue DEF BusInv
<1>11. RetryInv'
  <2>1. new.step # "burying" /\ new.batch = Rest(l)
    BY <1>5
  <2> QED
    BY <2>1, <1>1, <1>5, RetriesMoveOn DEF BusInv
<1> QED
  BY <1>7, <1>9, <1>10, <1>11 DEF BusInv

LEMMA ReceiveIsSafe == BusInv /\ (\E l \in Loop : Receive(l)) => BusInv'
<1> SUFFICES ASSUME BusInv, NEW l \in Loop, Receive(l)
             PROVE  BusInv'
  OBVIOUS
<1>1. Rest(l) = loop[l].batch /\ loop[l].step # "burying"
  BY DEF Receive, Rest
<1>2. Handle(l, Rest(l))
  BY <1>1 DEF Receive
<1>3. /\ UNCHANGED <<server, client, subscribers, tasks, retryCounts, calls, failed, faults>>
      /\ faults' \in Nat /\ dlq' \subseteq Message /\ failed' \subseteq Message
      /\ retryCounts' \in [Message -> 0 .. MaxRetries + 1]
  BY DEF Receive, server, BusInv, BusTypeOK
<1> QED
  BY <1>1, <1>2, <1>3, HandlingIsSafe DEF server

LEMMA AcknowledgedIsSafe == BusInv /\ (\E l \in Loop : Acknowledged(l)) => BusInv'
<1> SUFFICES ASSUME BusInv, NEW l \in Loop, Acknowledged(l)
             PROVE  BusInv'
  OBVIOUS
<1>1. Rest(l) = Tail(loop[l].batch) /\ loop[l].step \in InHand
  BY DEF Acknowledged, Rest, InHand
<1>2. Handle(l, Rest(l))
  BY <1>1 DEF Acknowledged
<1>3. retryCounts' = [retryCounts EXCEPT ![Head(loop[l].batch)] = 0]
  BY DEF Acknowledged
<1>4. /\ UNCHANGED <<server, client, subscribers, tasks, calls, failed, faults>>
      /\ faults' \in Nat /\ dlq' \subseteq Message /\ failed' \subseteq Message
      /\ retryCounts' \in [Message -> 0 .. MaxRetries + 1]
  BY <1>3, CountsAreTyped DEF Acknowledged, server, BusInv, BusTypeOK
<1> QED
  BY <1>1, <1>2, <1>3, <1>4, HandlingIsSafe DEF server

LEMMA BuryIsSafe == BusInv /\ (\E l \in Loop : Bury(l)) => BusInv'
<1> SUFFICES ASSUME BusInv, NEW l \in Loop, Bury(l)
             PROVE  BusInv'
  OBVIOUS
<1>1. Rest(l) = Tail(loop[l].batch) /\ loop[l].step \in InHand
  BY DEF Bury, Rest, InHand
<1>2. Handle(l, Rest(l))
  BY <1>1 DEF Bury
<1>3. retryCounts' = [retryCounts EXCEPT ![Head(loop[l].batch)] = 0]
  BY DEF Bury
<1>4. Head(loop[l].batch) \in Message
  BY <1>1, RestFacts, LoopFacts DEF BusInv
<1>5. /\ UNCHANGED <<published, deleted, group, delivered, pending, acked, client, subscribers,
                     tasks, calls>>
      /\ MaxRetries = 0
  BY DEF Bury, BusInv, RetryInv
<1>6. faults' \in Nat /\ dlq' \subseteq Message /\ failed' \subseteq Message
  BY <1>4 DEF Bury, Fault, BusInv, BusTypeOK
<1>7. retryCounts' \in [Message -> 0 .. MaxRetries + 1]
  BY <1>3, CountsAreTyped DEF BusInv
<1> QED
  BY <1>1, <1>2, <1>3, <1>5, <1>6, <1>7, HandlingIsSafe

(* The first failure of a message is its last one: either it is left        *)
(* behind, or no failure is allowed and it is moved away.                  *)
LEMMA AcknowledgeFailsIsSafe == BusInv /\ (\E l \in Loop : AcknowledgeFails(l)) => BusInv'
<1> SUFFICES ASSUME BusInv, NEW l \in Loop, AcknowledgeFails(l)
             PROVE  BusInv'
  OBVIOUS
<1> DEFINE m == Head(loop[l].batch)
<1>1. /\ Rest(l) = Tail(loop[l].batch) /\ loop[l].step \in InHand
      /\ loop[l].step \in {"acking", "acked"}
  BY DEF AcknowledgeFails, Rest, InHand
<1>2. /\ m \in Message /\ m <= Seen /\ m = loop[l].batch[1] /\ 1 \in DOMAIN loop[l].batch
  BY <1>1, RestFacts, LoopFacts DEF BusInv, BatchInv
<1>3. retryCounts[m] = 0
  BY <1>1, <1>2 DEF BusInv, RetryInv
<1>4. retryCounts' = [retryCounts EXCEPT ![m] = 1]
  BY <1>3 DEF AcknowledgeFails
<1>5. /\ UNCHANGED <<published, deleted, group, delivered, pending, acked, dlq, client, subscribers,
                     tasks, calls>>
      /\ faults' \in Nat /\ dlq' \subseteq Message /\ failed' \subseteq Message
  <2>1. /\ faults' = faults + 1 /\ failed' = failed \union {m}
        /\ UNCHANGED <<server, client, subscribers, tasks, calls>>
    BY DEF AcknowledgeFails, Fault
  <2>2. faults \in Nat /\ dlq \subseteq Message /\ failed \subseteq Message
    BY DEF BusInv, BusTypeOK
  <2> HIDE DEF m
  <2> QED
    BY <2>1, <2>2, <1>2 DEF server
<1>6. retryCounts' \in [Message -> 0 .. MaxRetries + 1]
  BY <1>4, CountsAreTyped DEF BusInv
<1>7. Seen' = Seen /\ Seen \in Nat
  BY <1>5, NumbersAreTyped DEF BusInv, Seen
<1>8. CASE 1 > MaxRetries
  <2>1. MaxRetries = 0
    BY <1>8, RedisStreamBusAssumption DEF RedisStreamBusAssumption
  <2>2. loop' = [loop EXCEPT ![l].step = "burying"] /\ UNCHANGED <<handled, given>>
    BY <1>3, <1>8 DEF AcknowledgeFails
  <2> HIDE DEF m
  <2>3. /\ loop'[l] \in LoopType
        /\ loop'[l].batch = loop[l].batch /\ loop'[l].step = "burying"
        /\ \A k \in Loop \ {l} : loop'[k] = loop[k]
    BY <2>2, LoopFacts, LoopIsTyped DEF BusInv, LoopType, Steps
  <2>4. loop' \in [Loop -> LoopType]
    BY <2>2, <2>3, LoopIsTyped DEF BusInv
  <2>5. BusTypeOK' /\ ServerInv' /\ AckedAfterCallbacks'
    BY <1>5, <1>6, <1>7, <2>2, <2>4 DEF BusInv, BusTypeOK, LoopType, Steps, ServerInv,
                                AckedAfterCallbacks, Message
  <2>6. \A k \in Loop : Goes(k)
    BY <1>1, <2>3 DEF Goes, InHand
  <2>7. BatchInv' /\ ApartInv' /\ PastInv'
    BY <1>7, <2>2, <2>6, GoingKeepsBatches DEF BusInv
  <2>8. DueInv'
    <3>1. \A k \in Loop : loop'[k].step \in {"calling", "acking"} => loop'[k] = loop[k]
      BY <2>3
    <3> QED
      BY <3>1, <1>5, <2>2, AheadStays, DueStays DEF BusInv
  <2>9. RetryInv'
    <3>1. retryCounts \in [Message -> 0 .. MaxRetries + 1]
      BY DEF BusInv, BusTypeOK
    <3>2. \A n \in Message : /\ n # m => retryCounts'[n] = retryCounts[n]
                             /\ n = m => retryCounts'[n] = 1
      BY <1>4, <3>1 DEF m
    <3>3. \A n \in Message : retryCounts'[n] <= 1 /\ (n > Seen' => retryCounts'[n] = 0)
      BY <1>2, <1>7, <3>2 DEF BusInv, RetryInv, Message
    <3>4. ASSUME NEW k \in Loop, NEW i \in DOMAIN loop'[k].batch,
                 i # 1 \/ loop'[k].step # "burying"
          PROVE  retryCounts'[loop'[k].batch[i]] = 0
      <4>1. /\ loop'[k].batch = loop[k].batch /\ i \in DOMAIN loop[k].batch
            /\ loop[k].batch[i] \in Message
        BY <2>3, LoopFacts DEF BusInv
      <4>2. loop[k].batch[i] # m /\ (i # 1 \/ loop[k].step # "burying")
        <5>1. CASE k = l
          <6>1. i # 1 /\ 1 < i
            BY <5>1, <3>4, <2>3, <4>1, LoopFacts DEF BusInv
          <6>2. loop[k].batch[1] < loop[k].batch[i]
            BY <5>1, <6>1, <4>1, <1>2 DEF BusInv, BatchInv
          <6> QED
            BY <5>1, <6>1, <6>2, <4>1, <1>2 DEF Message
        <5>2. CASE k # l
          BY <5>2, <3>4, <2>3, <4>1, <1>2 DEF BusInv, ApartInv
        <5> QED
          BY <5>1, <5>2
      <4>3. retryCounts[loop[k].batch[i]] = 0
        BY <4>1, <4>2 DEF BusInv, RetryInv
      <4> QED
        BY <3>2, <4>1, <4>2, <4>3
    <3> QED
      BY <3>3, <3>4, <2>1, <1>5 DEF RetryInv
  <2>10. NeverRepeated' /\ HandledInOrder'
    BY <2>2 DEF BusInv, NeverRepeated, HandledInOrder
  <2> QED
    BY <2>5, <2>7, <2>8, <2>9, <2>10 DEF BusInv
<1>9. CASE ~(1 > MaxRetries)
  <2>1. Handle(l, Rest(l))
    BY <1>1, <1>3, <1>9 DEF AcknowledgeFails
  <2> QED
    BY <2>1, <1>1, <1>4, <1>5, <1>6, HandlingIsSafe
<1> QED
  BY <1>8, <1>9, RedisStreamBusAssumption DEF RedisStreamBusAssumption

----------------------------------------------------------------------------
(* The invariant.                                                          *)

LEMMA Initially == BusInit => BusInv
<1> SUFFICES ASSUME BusInit
             PROVE  BusInv
  OBVIOUS
<1>1. /\ <<>> \in Seq(Callback) /\ <<>> \in Seq([loop : Loop, id : Message]) /\ DOMAIN <<>> = {}
      /\ MaxMessages \in Nat /\ MaxRetries \in Nat
  BY EmptySeq, RedisStreamBusAssumption DEF RedisStreamBusAssumption
<1>2. \A l \in Loop : loop[l] = Off
  BY DEF BusInit
<1>3. /\ loop \in [Loop -> LoopType]
      /\ \A l \in Loop : loop[l].batch = <<>> /\ loop[l].step = "off" /\ Rest(l) = <<>>
  BY <1>2, OffIsTyped DEF BusInit, Rest
<1>4. BusTypeOK
  <2>1. /\ tasks \in [Name -> Loop \union {None}]
        /\ retryCounts \in [Message -> 0 .. MaxRetries + 1]
    BY <1>1 DEF BusInit
  <2>2. /\ published = 0 /\ deleted = 0 /\ group = FALSE /\ delivered = 0
        /\ pending = {} /\ acked = {} /\ dlq = {} /\ client = FALSE
        /\ subscribers = [k \in Key |-> <<>>]
        /\ calls = {} /\ handled = <<>> /\ given = {} /\ failed = {} /\ faults = 0
    BY DEF BusInit
  <2>3. /\ published \in 0 .. MaxMessages /\ deleted \in 0 .. published
        /\ delivered \in 0 .. published
    BY <1>1, <2>2
  <2>4. /\ subscribers \in [Key -> Seq(Callback)] /\ handled \in Seq([loop : Loop, id : Message])
    BY <1>1, <2>2
  <2>5. loop \in [Loop -> [step : {"off", "reading", "read", "calling", "acking", "acked",
                                  "burying"},
                          batch : Seq(Message), key : Key, next : Nat,
                          list : {None} \union Seq(Callback), due : SUBSET (Key \X Callback)]]
    BY <1>3 DEF LoopType, Steps
  <2> QED
    BY <2>1, <2>2, <2>3, <2>4, <2>5 DEF BusTypeOK
<1>5. ServerInv /\ BatchInv /\ ApartInv
  BY <1>1, <1>3 DEF BusInit, ServerInv, BatchInv, ApartInv
<1>6. PastInv /\ DueInv /\ NeverRepeated /\ HandledInOrder
  BY <1>1, <1>3 DEF BusInit, PastInv, DueInv, NeverRepeated, HandledInOrder
<1>7. RetryInv /\ AckedAfterCallbacks
  BY <1>1, <1>3 DEF BusInit, RetryInv, AckedAfterCallbacks, Message
<1> QED
  BY <1>4, <1>5, <1>6, <1>7 DEF BusInv

LEMMA Stuttering == BusInv /\ UNCHANGED busVars => BusInv'
<1> SUFFICES ASSUME BusInv, UNCHANGED busVars
             PROVE  BusInv'
  OBVIOUS
<1>1. BusTypeOK' /\ ServerInv' /\ AckedAfterCallbacks'
  BY DEF BusInv, busVars, server, history, BusTypeOK, ServerInv, Seen, AckedAfterCallbacks, Message
<1>2. Seen' = Seen /\ Seen \in Nat
  BY NumbersAreTyped DEF BusInv, busVars, server, Seen
<1>3. LoopsKept'
  BY <1>2, LoopsMayEnd DEF busVars, server, history
<1> QED
  BY <1>1, <1>3 DEF BusInv, LoopsKept

LEMMA StepsAreSafe == BusInv /\ [BusNext]_busVars => BusInv'
<1> SUFFICES ASSUME BusInv, [BusNext]_busVars
             PROVE  BusInv'
  OBVIOUS
<1>1. CASE Connect \/ CreateGroup \/ Publish \/ ClearStream \/ ClearRest
  BY <1>1, ConnectIsSafe, CreateGroupIsSafe, PublishIsSafe, ClearStreamIsSafe, ClearRestIsSafe
<1>2. CASE \E c \in {"connect", "clear"} : CallFails(c)
  BY <1>2, CallFailsIsSafe
<1>3. CASE Disconnect \/ Crash \/ \E l \in Loop, n \in Name : StartConsumer(l, n)
  BY <1>3, DisconnectIsSafe, CrashIsSafe, StartConsumerIsSafe
<1>4. CASE \E k \in Key, c \in Callback : Subscribe(k, c) \/ Unsubscribe(k, c)
  BY <1>4, SubscribeIsSafe, UnsubscribeIsSafe
<1>5. CASE \E l \in Loop : Deliver(l) \/ ReadFails(l) \/ Receive(l) \/ Return(l)
  BY <1>5, DeliverIsSafe, ReadFailsIsSafe, ReceiveIsSafe, ReturnIsSafe
<1>6. CASE \E l \in Loop : Acknowledge(l) \/ Acknowledged(l) \/ AcknowledgeFails(l) \/ Bury(l)
  BY <1>6, AcknowledgeIsSafe, AcknowledgedIsSafe, AcknowledgeFailsIsSafe, BuryIsSafe
<1>7. CASE UNCHANGED busVars
  BY <1>7, Stuttering
<1> QED
  BY <1>1, <1>2, <1>3, <1>4, <1>5, <1>6, <1>7 DEF BusNext, LoopStep

LEMMA Invariant == BusSpec => []BusInv
BY Initially, StepsAreSafe, PTL DEF BusSpec

----------------------------------------------------------------------------
(* What becomes of the messages that a loop received.                      *)

Accounted == pending \union acked \union 1 .. deleted

(* A message in hand is still pending, unless it is acknowledged or deleted. *)
(* One that its loop is about to leave behind is settled.                  *)
SettledInv ==
    \A l \in Loop :
        /\ \A i \in DOMAIN loop[l].batch : loop[l].batch[i] \in Accounted
        /\ loop[l].step \in {"acked", "burying"} => Head(loop[l].batch) \in Settled

(* The step of the property: what becomes of one loop's messages.          *)
Leaves(l) ==
    \/ loop'[l].step = "off"
    \/ loop[l].step = "read" /\ loop'[l].step = "reading"
    \/ ToSet(loop[l].batch) \ ToSet(loop'[l].batch) \subseteq Settled'

(* The ways in which a loop goes on.                                       *)
Keeps(l) == /\ loop'[l].batch = loop[l].batch
            /\ \/ loop'[l].step = loop[l].step
               \/ loop'[l].step \notin {"acked", "burying"}
               \/ Head(loop[l].batch) \in Settled'
Ends(l) == \/ loop'[l] = Off
           \/ loop'[l] = Reading /\ loop[l].step \in {"off", "read"}
TakesNext(l) == /\ loop[l].step \in InHand
                /\ loop'[l].batch = Tail(loop[l].batch)
                /\ loop'[l].step \notin {"acked", "burying"}
                /\ Head(loop[l].batch) \in Settled'
Takes(l) == /\ loop[l].step = "reading" /\ loop'[l].step = "read"
            /\ ToSet(loop'[l].batch) \subseteq pending'

LEMMA MessagesAreSettled ==
    ASSUME BusInv, SettledInv, Accounted \subseteq Accounted', Settled \subseteq Settled',
           \A l \in Loop : Keeps(l) \/ Ends(l) \/ TakesNext(l) \/ Takes(l)
    PROVE  SettledInv' /\ \A l \in Loop : Leaves(l)
<1> SUFFICES ASSUME NEW l \in Loop
             PROVE  /\ \A i \in DOMAIN loop'[l].batch : loop'[l].batch[i] \in Accounted'
                    /\ loop'[l].step \in {"acked", "burying"} => Head(loop'[l].batch) \in Settled'
                    /\ Leaves(l)
  BY DEF SettledInv
<1> DEFINE old == loop[l]
           new == loop'[l]
<1>1. /\ \A i \in DOMAIN old.batch : old.batch[i] \in Accounted'
      /\ old.step \in {"acked", "burying"} => Head(old.batch) \in Settled'
  BY DEF SettledInv
<1>2. DOMAIN <<>> = {} /\ ToSet(<<>>) = {}
  BY DEF ToSet
<1>3. old.step \in {"off", "reading"} => old.batch = <<>>
  BY DEF BusInv, BatchInv
<1>4. CASE Keeps(l)
  <2> HIDE DEF old, new
  <2>1. ToSet(old.batch) \ ToSet(new.batch) = {}
    BY <1>4 DEF Keeps, old, new
  <2> QED
    BY <1>1, <1>4, <2>1 DEF Keeps, Leaves, old, new
<1>5. CASE Ends(l)
  <2>1. new.batch = <<>> /\ new.step \in {"off", "reading"}
    BY <1>5, OffIsTyped DEF Ends
  <2>2. Leaves(l)
    BY <1>2, <1>3, <1>5, OffIsTyped DEF Ends, Leaves
  <2> QED
    BY <1>2, <2>1, <2>2
<1>6. CASE TakesNext(l)
  <2>1. /\ old.batch \in Seq(Message) /\ old.batch # <<>>
        /\ Len(old.batch) \in Nat /\ DOMAIN old.batch = 1 .. Len(old.batch)
        /\ Head(old.batch) = old.batch[1]
    BY <1>6, LoopFacts, RestFacts DEF BusInv, TakesNext
  <2>2. new.batch = Tail(old.batch)
    BY <1>6 DEF TakesNext
  <2> HIDE DEF old, new
  <2>3. /\ DOMAIN new.batch = 1 .. Len(old.batch) - 1
        /\ \A i \in 1 .. Len(old.batch) - 1 : new.batch[i] = old.batch[i + 1]
    BY <2>1, <2>2, HeadTailProperties, LenProperties
  <2>4. \A i \in DOMAIN new.batch : i + 1 \in DOMAIN old.batch /\ new.batch[i] = old.batch[i + 1]
    BY <2>1, <2>3
  <2>5. \A i \in DOMAIN old.batch : i = 1 \/ (i - 1 \in DOMAIN new.batch /\ old.batch[i] = new.batch[i - 1])
    BY <2>1, <2>3
  <2>6. ToSet(old.batch) \ ToSet(new.batch) \subseteq {Head(old.batch)}
    BY <2>1, <2>5 DEF ToSet
  <2> QED
    BY <1>1, <1>6, <2>4, <2>6 DEF TakesNext, Leaves, old, new
<1>7. CASE Takes(l)
  <2>1. \A i \in DOMAIN new.batch : new.batch[i] \in pending'
    BY <1>7 DEF Takes, ToSet
  <2>2. ToSet(old.batch) = {}
    BY <1>2, <1>3, <1>7 DEF Takes
  <2> QED
    BY <1>7, <2>1, <2>2 DEF Takes, Leaves, Accounted
<1> QED
  BY <1>4, <1>5, <1>6, <1>7

(* A step of the process's own methods. *)
LEMMA MethodsSettle ==
    ASSUME BusInv, SettledInv,
           \/ Connect \/ CreateGroup \/ CallFails("connect") \/ CallFails("clear") \/ Disconnect
           \/ Publish \/ (\E k \in Key, c \in Callback : Subscribe(k, c) \/ Unsubscribe(k, c))
           \/ (\E l \in Loop, n \in Name : StartConsumer(l, n)) \/ ClearStream \/ ClearRest \/ Crash
           \/ (\E l \in Loop : ReadFails(l)) \/ UNCHANGED busVars
    PROVE  SettledInv' /\ \A l \in Loop : Leaves(l)
<1>1. /\ acked' = acked /\ failed' = failed
      /\ (pending' = pending /\ deleted' = deleted) \/ (ClearStream /\ deleted' = published)
  BY DEF Connect, CreateGroup, CallFails, Disconnect, Publish, Subscribe, Unsubscribe, StartConsumer,
         ClearStream, ClearRest, Crash, ReadFails, busVars, server, history
<1>2. pending \subseteq 1 .. published /\ deleted <= published /\ deleted \in Nat /\ published \in Nat
  BY NumbersAreTyped DEF BusInv, BusTypeOK
<1>3. Accounted \subseteq Accounted' /\ Settled \subseteq Settled'
  <2>1. CASE pending' = pending /\ deleted' = deleted
    BY <2>1, <1>1 DEF Accounted, Settled
  <2>2. CASE ClearStream /\ deleted' = published
    <3>1. 1 .. deleted \subseteq 1 .. published
      BY <1>2
    <3>2. Accounted \subseteq 1 .. published \union acked
      BY <3>1, <1>2 DEF Accounted
    <3>3. Settled \subseteq (1 .. published \union acked) \union failed
      BY <3>1 DEF Settled
    <3>4. 1 .. deleted' = 1 .. published
      BY <2>2
    <3> QED
      BY <1>1, <3>2, <3>3, <3>4 DEF Accounted, Settled
  <2> QED
    BY <1>1, <2>1, <2>2
<1>4. ASSUME NEW l \in Loop
      PROVE  Keeps(l) \/ Ends(l)
  <2>1. loop[l] \in LoopType /\ loop \in [Loop -> LoopType]
    BY LoopIsTyped DEF BusInv
  <2>2. CASE \/ Connect \/ CreateGroup \/ CallFails("connect") \/ CallFails("clear")
             \/ Publish \/ (\E k \in Key, c \in Callback : Subscribe(k, c))
             \/ ClearStream \/ UNCHANGED busVars
    BY <2>2 DEF Connect, CreateGroup, CallFails, Publish, Subscribe, ClearStream, busVars, Keeps
  <2>3. CASE Disconnect \/ Crash
    BY <2>3 DEF Disconnect, Crash, Keeps, Ends
  <2>4. ASSUME NEW k \in Key, NEW c \in Callback, Unsubscribe(k, c)
        PROVE  Keeps(l)
    <3> DEFINE rest == loop[l].due \ Missed(loop[l], k, c)
    <3>1. loop'[l] = [loop[l] EXCEPT !.due = rest]
      BY <2>4 DEF Unsubscribe
    <3> HIDE DEF rest
    <3> QED
      BY <2>1, <3>1 DEF LoopType, Keeps
  <2>5. ASSUME NEW k \in Loop, NEW n \in Name, StartConsumer(k, n)
        PROVE  Keeps(l) \/ Ends(l)
    BY <2>1, <2>5 DEF StartConsumer, Keeps, Ends
  <2>6. CASE ClearRest
    <3> DEFINE list == Callbacks(loop[l])
               rest == {d \in loop[l].due : d[1] = loop[l].key}
    <3>1. loop'[l] = [loop[l] EXCEPT !.list = list, !.due = rest] \/ loop'[l] = loop[l]
      BY <2>6 DEF ClearRest
    <3> HIDE DEF list, rest
    <3> QED
      BY <2>1, <3>1 DEF LoopType, Keeps
  <2>7. ASSUME NEW k \in Loop, ReadFails(k)
        PROVE  Keeps(l) \/ Ends(l)
    BY <2>1, <2>7 DEF ReadFails, Keeps, Ends
  <2> QED
    BY <2>2, <2>3, <2>4, <2>5, <2>6, <2>7
<1> QED
  BY <1>3, <1>4, MessagesAreSettled

(* A loop handles the next of its messages, the one before is settled.     *)
LEMMA HandlingSettles ==
    ASSUME BusInv, SettledInv, NEW l \in Loop, Handle(l, Rest(l)),
           UNCHANGED <<pending, acked, deleted>>, failed \subseteq failed',
           loop[l].step = "read" \/ (loop[l].step \in InHand /\ Head(loop[l].batch) \in Settled')
    PROVE  SettledInv' /\ \A k \in Loop : Leaves(k)
<1>1. Rest(l) \in Seq(Message)
  BY RestFacts DEF BusInv
<1>2. PICK new \in LoopType :
          /\ loop' = [loop EXCEPT ![l] = new]
          /\ new.step \in {"reading", "acking", "calling"} /\ new.batch = Rest(l)
  <2> DEFINE rest == Rest(l)
  <2> HIDE DEF rest
  <2>1. rest \in Seq(Message) /\ Handle(l, rest) /\ BusTypeOK
    BY <1>1 DEF rest, BusInv
  <2> QED
    BY <2>1, HandleFacts DEF rest
<1>3. loop'[l] = new /\ \A k \in Loop \ {l} : loop'[k] = loop[k]
  BY <1>2 DEF BusInv, BusTypeOK
<1>4. Accounted \subseteq Accounted' /\ Settled \subseteq Settled'
  BY DEF Accounted, Settled
<1>5. Keeps(l) \/ TakesNext(l)
  BY <1>2, <1>3 DEF Keeps, TakesNext, Rest, InHand
<1>6. \A k \in Loop \ {l} : Keeps(k)
  BY <1>3 DEF Keeps
<1> QED
  BY <1>4, <1>5, <1>6, MessagesAreSettled

LEMMA LoopStepsSettle ==
    ASSUME BusInv, SettledInv, NEW l \in Loop, LoopStep(l) \/ AcknowledgeFails(l)
    PROVE  SettledInv' /\ \A k \in Loop : Leaves(k)
<1>1. /\ loop[l] \in LoopType /\ loop \in [Loop -> LoopType]
      /\ loop[l].step \in {"acked", "burying"} => Head(loop[l].batch) \in Settled
  BY LoopIsTyped DEF BusInv, SettledInv
<1>2. loop[l].step \in InHand => Rest(l) = Tail(loop[l].batch) /\ 1 \in DOMAIN loop[l].batch
                                 /\ Head(loop[l].batch) = loop[l].batch[1]
  BY RestFacts DEF BusInv
<1>3. CASE Deliver(l)
  <2>1. /\ loop' = [loop EXCEPT ![l].step = "read", ![l].batch = Batch]
        /\ pending' = pending \union ToSet(Batch) /\ loop[l].step = "reading"
        /\ UNCHANGED <<acked, deleted, failed>>
    BY <1>3 DEF Deliver, history
  <2>2. /\ loop'[l].step = "read" /\ loop'[l].batch = Batch
        /\ \A k \in Loop \ {l} : loop'[k] = loop[k]
    BY <1>1, <2>1 DEF LoopType
  <2>3. Accounted \subseteq Accounted' /\ Settled \subseteq Settled'
    BY <2>1 DEF Accounted, Settled
  <2>4. Takes(l) /\ \A k \in Loop \ {l} : Keeps(k)
    BY <2>1, <2>2 DEF Takes, Keeps
  <2> QED
    BY <2>3, <2>4, MessagesAreSettled
<1>4. CASE Receive(l)
  <2>1. Rest(l) = loop[l].batch /\ loop[l].step = "read"
    BY <1>4 DEF Receive, Rest
  <2>2. Handle(l, Rest(l)) /\ UNCHANGED <<pending, acked, deleted, failed>>
    BY <1>4, <2>1 DEF Receive, server
  <2> QED
    BY <2>1, <2>2, HandlingSettles
<1>5. CASE Return(l)
  <2>1. /\ loop' = [loop EXCEPT ![l] = Advance(loop[l])] /\ loop[l].step = "calling"
        /\ UNCHANGED <<pending, acked, deleted, failed>>
    BY <1>5 DEF Return, server
  <2>2. Advance(loop[l]).batch = loop[l].batch /\ Advance(loop[l]).step \in {"calling", "acking"}
    BY <1>1, <2>1, AdvanceFacts DEF BusInv, DueInv
  <2>3. \A k \in Loop : Keeps(k)
    <3> DEFINE new == Advance(loop[l])
    <3> HIDE DEF new
    <3> QED
      BY <1>1, <2>1, <2>2 DEF Keeps, new
  <2>4. Accounted \subseteq Accounted' /\ Settled \subseteq Settled'
    BY <2>1 DEF Accounted, Settled
  <2> QED
    BY <2>3, <2>4, MessagesAreSettled
<1>6. CASE Acknowledge(l)
  <2> DEFINE m == Head(loop[l].batch)
  <2>1. /\ loop' = [loop EXCEPT ![l].step = "acked"] /\ loop[l].step = "acking"
        /\ pending' = pending \ {m} /\ acked' = acked \union (pending \intersect {m})
        /\ UNCHANGED <<deleted, failed>>
    BY <1>6 DEF Acknowledge, history
  <2>2. m \in Accounted
    BY <1>2, <2>1 DEF SettledInv, InHand
  <2> HIDE DEF m
  <2>3. /\ loop'[l].batch = loop[l].batch /\ loop'[l].step = "acked"
        /\ \A k \in Loop \ {l} : loop'[k] = loop[k]
    BY <1>1, <2>1 DEF LoopType
  <2>4. m \in Settled' /\ Accounted \subseteq Accounted' /\ Settled \subseteq Settled'
    BY <2>1, <2>2 DEF Accounted, Settled
  <2>5. \A k \in Loop : Keeps(k)
    BY <2>3, <2>4 DEF Keeps, m
  <2> QED
    BY <2>4, <2>5, MessagesAreSettled
<1>7. CASE Acknowledged(l)
  <2>1. loop[l].step = "acked" /\ loop[l].step \in InHand
    BY <1>7 DEF Acknowledged, InHand
  <2>2. Handle(l, Rest(l)) /\ UNCHANGED <<pending, acked, deleted, failed>>
    BY <1>2, <1>7, <2>1 DEF Acknowledged, server
  <2>3. Head(loop[l].batch) \in Settled'
    BY <1>1, <2>1, <2>2 DEF Settled
  <2> QED
    BY <2>1, <2>2, <2>3, HandlingSettles
<1>8. CASE Bury(l)
  <2>1. loop[l].step = "burying" /\ loop[l].step \in InHand
    BY <1>8 DEF Bury, InHand
  <2>2. Handle(l, Rest(l)) /\ UNCHANGED <<pending, acked, deleted, failed>>
    BY <1>2, <1>8, <2>1 DEF Bury
  <2>3. Head(loop[l].batch) \in Settled'
    BY <1>1, <2>1, <2>2 DEF Settled
  <2> QED
    BY <2>1, <2>2, <2>3, HandlingSettles
<1>9. CASE AcknowledgeFails(l)
  <2> DEFINE m == Head(loop[l].batch)
  <2>1. /\ loop[l].step \in {"acking", "acked"} /\ loop[l].step \in InHand
        /\ failed' = failed \union {m} /\ UNCHANGED <<pending, acked, deleted>>
        /\ \/ loop' = [loop EXCEPT ![l].step = "burying"]
           \/ Handle(l, Tail(loop[l].batch))
    BY <1>9 DEF AcknowledgeFails, InHand, server
  <2>2. m \in Settled' /\ failed \subseteq failed'
    BY <2>1 DEF Settled
  <2>3. CASE loop' = [loop EXCEPT ![l].step = "burying"]
    <3> HIDE DEF m
    <3>1. /\ loop'[l].batch = loop[l].batch /\ loop'[l].step = "burying"
          /\ \A k \in Loop \ {l} : loop'[k] = loop[k]
      BY <1>1, <2>3 DEF LoopType
    <3>2. Accounted \subseteq Accounted' /\ Settled \subseteq Settled'
      BY <2>1 DEF Accounted, Settled
    <3>3. \A k \in Loop : Keeps(k)
      BY <2>2, <3>1 DEF Keeps, m
    <3> QED
      BY <3>2, <3>3, MessagesAreSettled
  <2>4. CASE Handle(l, Tail(loop[l].batch))
    <3>1. Handle(l, Rest(l))
      BY <1>2, <2>1, <2>4
    <3> QED
      BY <2>1, <2>2, <3>1, HandlingSettles
  <2> QED
    BY <2>1, <2>3, <2>4
<1> QED
  BY <1>3, <1>4, <1>5, <1>6, <1>7, <1>8, <1>9 DEF LoopStep

LEMMA StepsSettle ==
    ASSUME BusInv, SettledInv, [BusNext]_busVars
    PROVE  SettledInv' /\ \A l \in Loop : Leaves(l)
<1>1. \/ Connect \/ CreateGroup \/ CallFails("connect") \/ CallFails("clear") \/ Disconnect
      \/ Publish \/ (\E k \in Key, c \in Callback : Subscribe(k, c) \/ Unsubscribe(k, c))
      \/ (\E l \in Loop, n \in Name : StartConsumer(l, n)) \/ ClearStream \/ ClearRest \/ Crash
      \/ (\E l \in Loop : ReadFails(l)) \/ UNCHANGED busVars
      \/ \E l \in Loop : LoopStep(l) \/ AcknowledgeFails(l)
  BY DEF BusNext
<1>2. CASE \E l \in Loop : LoopStep(l) \/ AcknowledgeFails(l)
  BY <1>2, LoopStepsSettle
<1>3. CASE ~ \E l \in Loop : LoopStep(l) \/ AcknowledgeFails(l)
  BY <1>1, <1>3, MethodsSettle
<1> QED
  BY <1>2, <1>3

----------------------------------------------------------------------------
(* The theorems.                                                           *)

(* Every variable keeps its type. *)
THEOREM BusTypes == BusSpec => []BusTypeOK
BY Invariant, PTL DEF BusInv

(* However many loops share the consumer group, and whatever crashes,      *)
(* reconnects and lost answers come between, no message is handled twice.  *)
(* That goes for a message whose handling failed as well: redis_stream.py  *)
(* never asks for it again, although max_retries speaks of retries.        *)
THEOREM MessagesAreNeverRepeated == BusSpec => []NeverRepeated
BY Invariant, PTL DEF BusInv

(* So a second handling without a failure is out of the question.          *)
THEOREM OnlyFailuresMayRepeat == BusSpec => []RepeatedOnlyAfterFailure
<1>1. NeverRepeated => RepeatedOnlyAfterFailure
  BY DEF NeverRepeated, RepeatedOnlyAfterFailure
<1> QED
  BY <1>1, MessagesAreNeverRepeated, PTL

(* What the server takes for processed was given to every callback that    *)
(* was due, in the exact and in the wildcard list.                         *)
THEOREM AcknowledgedMeansGiven == BusSpec => []AckedAfterCallbacks
BY Invariant, PTL DEF BusInv

(* Each loop handles messages in the order they were published in.         *)
THEOREM LoopsKeepTheOrder == BusSpec => []HandledInOrder
BY Invariant, PTL DEF BusInv

(* A message leaves the loop that received it only acknowledged, counted as *)
(* failed or deleted, also behind one that failed.                         *)
THEOREM ReceivedMessagesAreSettled == BusSpec => ReceivedAreSettled
<1>1. BusInit => SettledInv
  <2> SUFFICES ASSUME BusInit
               PROVE  SettledInv
    OBVIOUS
  <2>1. ASSUME NEW l \in Loop
        PROVE  loop[l].batch = <<>> /\ loop[l].step = "off"
    BY OffIsTyped DEF BusInit
  <2>2. DOMAIN (<<>>) = {}
    OBVIOUS
  <2> QED
    BY <2>1, <2>2 DEF SettledInv
<1>2. BusInv /\ SettledInv /\ [BusNext]_busVars =>
          SettledInv' /\ [\A l \in Loop : Leaves(l)]_busVars
  BY StepsSettle
<1>3. (\A l \in Loop : Leaves(l)) <=>
      \A l \in Loop :
          \/ loop'[l].step = "off"
          \/ loop[l].step = "read" /\ loop'[l].step = "reading"
          \/ ToSet(loop[l].batch) \ ToSet(loop'[l].batch) \subseteq Settled'
  BY DEF Leaves
<1> QED
  BY <1>1, <1>2, <1>3, Invariant, PTL DEF BusSpec, ReceivedAreSettled

(* The count of retries never gets past one, so that with a max_retries of  *)
(* one or more no message ever reaches the dead letter queue.              *)
THEOREM RetriesAreNeverUsedUp ==
    BusSpec => []((\A m \in Message : retryCounts[m] <= 1) /\ (MaxRetries > 0 => dlq = {}))
<1>1. BusInv => (\A m \in Message : retryCounts[m] <= 1) /\ (MaxRetries > 0 => dlq = {})
  BY RedisStreamBusAssumption DEF RedisStreamBusAssumption, BusInv, RetryInv
<1> QED
  BY <1>1, Invariant, PTL
============================================================================
