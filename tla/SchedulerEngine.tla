-------------------------- MODULE SchedulerEngine --------------------------
(***************************************************************************)
(* agentManager/engine/scheduler.py: the dependency-aware dispatch queue.  *)
(*                                                                         *)
(* One call of execute_scheduled_tasks is a pass over the queue under the  *)
(* scheduler's lock.  Every iteration of its loop is an action here (Skip, *)
(* Backoff, Start, FailPermanent, FailExhausted, Defer), between BeginPass *)
(* (the lock is taken) and EndPass (the deferred entries are pushed back   *)
(* and the lock is released), so the clock can move in the middle of a     *)
(* pass, as it can in the code.  All other operations wait for the lock.   *)
(*                                                                         *)
(* A time is abstracted to what the code asks of it: backingOff holds the  *)
(* tasks whose next_retry_at lies in the future.                           *)
(***************************************************************************)
EXTENDS Integers, FiniteSets

CONSTANTS
    Task,           \* task ids; their order is the order of the heap's ties
    Priority,       \* the priorities add_task is called with
    DependencySet,  \* the dependency lists add_task is called with
    MaxConcurrent,  \* max_concurrent_tasks
    MaxRetry        \* max_retry_attempts

ASSUME SchedulerAssumption ==
    /\ Task \subseteq Nat
    /\ Priority \subseteq Int
    /\ DependencySet \subseteq SUBSET Task
    /\ MaxConcurrent \in Nat
    /\ MaxRetry \in Nat

VARIABLES
    status,           \* tasks[t].status, "absent" when t is not in tasks
    dependencies,     \* tasks[t].dependencies
    priority,         \* tasks[t].priority
    retry_attempts,   \* tasks[t].retry_attempts
    backingOff,       \* the tasks with utc_now() < next_retry_at
    execution_queue,  \* ids of the heap's entries (add_task pushes an id once)
    deferred,         \* the entries a pass has put aside
    running_tasks,
    completed_tasks,
    passing           \* a pass holds the lock

taskVars  == <<status, dependencies, priority, retry_attempts, backingOff>>
queueVars == <<execution_queue, deferred>>
vars == <<status, dependencies, priority, retry_attempts, backingOff,
          execution_queue, deferred, running_tasks, completed_tasks, passing>>

Status == {"absent", "pending", "running", "completed", "failed"}

TypeOK ==
    /\ status \in [Task -> Status]
    /\ dependencies \in [Task -> SUBSET Task]
    /\ priority \in [Task -> Priority \union {0}]
    /\ retry_attempts \in [Task -> Nat]
    /\ backingOff \subseteq Task
    /\ execution_queue \subseteq Task
    /\ deferred \subseteq Task
    /\ running_tasks \subseteq Task
    /\ completed_tasks \subseteq Task
    /\ passing \in BOOLEAN

Init ==
    /\ status = [t \in Task |-> "absent"]
    /\ dependencies = [t \in Task |-> {}]
    /\ priority = [t \in Task |-> 0]
    /\ retry_attempts = [t \in Task |-> 0]
    /\ backingOff = {}
    /\ execution_queue = {}
    /\ deferred = {}
    /\ running_tasks = {}
    /\ completed_tasks = {}
    /\ passing = FALSE

----------------------------------------------------------------------------

(* The heap orders (-priority, task_id): urgent tasks first, then by id. *)
Precedes(t, u) == \/ priority[t] > priority[u]
                  \/ priority[t] = priority[u] /\ t < u

(* Mutant: the priority is pushed without its minus sign. *)
IsNext_leastUrgent(t) == /\ t \in execution_queue
                         /\ \A u \in execution_queue \ {t} : Precedes(u, t)

IsNext(t) == /\ t \in execution_queue
             /\ \A u \in execution_queue \ {t} : Precedes(t, u)

(* Mutant: a dependency that only runs is taken as met. *)
Conflicts_runningIsMet(t) == {d \in dependencies[t] : status[d] \notin {"completed", "running"}}

(* detect_conflicts: dependencies that are not completed (or not known). *)
Conflicts(t) == {d \in dependencies[t] : status[d] # "completed"}

(* detect_permanent_conflict: dependencies no retry can satisfy. *)
PermanentConflicts(t) == {d \in dependencies[t] : status[d] \in {"absent", "failed"}}

----------------------------------------------------------------------------

AddTask(t, p, deps) ==
    /\ ~passing
    /\ status[t] = "absent"
    /\ status' = [status EXCEPT ![t] = "pending"]
    /\ dependencies' = [dependencies EXCEPT ![t] = deps]
    /\ priority' = [priority EXCEPT ![t] = p]
    /\ retry_attempts' = [retry_attempts EXCEPT ![t] = 0]
    /\ execution_queue' = execution_queue \union {t}
    /\ UNCHANGED <<backingOff, deferred, running_tasks, completed_tasks, passing>>

BeginPass ==
    /\ ~passing
    /\ passing' = TRUE
    /\ deferred' = {}
    /\ UNCHANGED <<taskVars, execution_queue, running_tasks, completed_tasks>>

(* The loop's head: a slot is free and t is the entry that is popped. *)
Pop(t) ==
    /\ passing
    /\ Cardinality(running_tasks) < MaxConcurrent
    /\ IsNext(t)
    /\ execution_queue' = execution_queue \ {t}

(* The entry of a task that was finished meanwhile is dropped. *)
Skip(t) ==
    /\ Pop(t)
    /\ status[t] # "pending"
    /\ UNCHANGED <<taskVars, deferred, running_tasks, completed_tasks, passing>>

Backoff(t) ==
    /\ Pop(t)
    /\ status[t] = "pending"
    /\ t \in backingOff
    /\ deferred' = deferred \union {t}
    /\ UNCHANGED <<taskVars, running_tasks, completed_tasks, passing>>

Start(t) ==
    /\ Pop(t)
    /\ status[t] = "pending"
    /\ t \notin backingOff
    /\ Conflicts(t) = {}
    /\ status' = [status EXCEPT ![t] = "running"]
    /\ retry_attempts' = [retry_attempts EXCEPT ![t] = 0]
    /\ running_tasks' = running_tasks \union {t}
    /\ UNCHANGED <<dependencies, priority, backingOff, deferred, completed_tasks, passing>>

(* Mutant: the attempt is not counted. *)
Conflicted_uncounted(t) ==
    /\ Pop(t)
    /\ status[t] = "pending"
    /\ t \notin backingOff
    /\ Conflicts(t) # {}
    /\ UNCHANGED <<retry_attempts, dependencies, priority, running_tasks,
                   completed_tasks, passing>>

(* A popped task whose dependencies are not all completed; every such visit *)
(* counts as an attempt.                                                    *)
Conflicted(t) ==
    /\ Pop(t)
    /\ status[t] = "pending"
    /\ t \notin backingOff
    /\ Conflicts(t) # {}
    /\ retry_attempts' = [retry_attempts EXCEPT ![t] = @ + 1]
    /\ UNCHANGED <<dependencies, priority, running_tasks, completed_tasks, passing>>

FailPermanent(t) ==
    /\ Conflicted(t)
    /\ PermanentConflicts(t) # {}
    /\ status' = [status EXCEPT ![t] = "failed"]
    /\ UNCHANGED <<backingOff, deferred>>

FailExhausted(t) ==
    /\ Conflicted(t)
    /\ PermanentConflicts(t) = {}
    /\ retry_attempts[t] + 1 > MaxRetry
    /\ status' = [status EXCEPT ![t] = "failed"]
    /\ UNCHANGED <<backingOff, deferred>>

Defer(t) ==
    /\ Conflicted(t)
    /\ PermanentConflicts(t) = {}
    /\ retry_attempts[t] + 1 <= MaxRetry
    /\ backingOff' = backingOff \union {t}
    /\ deferred' = deferred \union {t}
    /\ UNCHANGED status

(* Mutant: the deferred entries are not pushed back. *)
EndPass_forgetsDeferred ==
    /\ passing
    /\ execution_queue = {} \/ Cardinality(running_tasks) >= MaxConcurrent
    /\ deferred' = {}
    /\ passing' = FALSE
    /\ UNCHANGED <<taskVars, execution_queue, running_tasks, completed_tasks>>

EndPass ==
    /\ passing
    /\ execution_queue = {} \/ Cardinality(running_tasks) >= MaxConcurrent
    /\ execution_queue' = execution_queue \union deferred
    /\ deferred' = {}
    /\ passing' = FALSE
    /\ UNCHANGED <<taskVars, running_tasks, completed_tasks>>

(* mark_completed and mark_failed ask only that the task is known: they    *)
(* neither look at its status nor remove its queue entry.                  *)
MarkCompleted(t) ==
    /\ ~passing
    /\ status[t] # "absent"
    /\ status' = [status EXCEPT ![t] = "completed"]
    /\ running_tasks' = running_tasks \ {t}
    /\ completed_tasks' = completed_tasks \union {t}
    /\ UNCHANGED <<dependencies, priority, retry_attempts, backingOff, queueVars, passing>>

(* Mutant: the task keeps its place among the running ones. *)
MarkFailed_keepsSlot(t) ==
    /\ ~passing
    /\ status[t] # "absent"
    /\ status' = [status EXCEPT ![t] = "failed"]
    /\ UNCHANGED <<dependencies, priority, retry_attempts, backingOff, queueVars,
                   running_tasks, completed_tasks, passing>>

MarkFailed(t) ==
    /\ ~passing
    /\ status[t] # "absent"
    /\ status' = [status EXCEPT ![t] = "failed"]
    /\ running_tasks' = running_tasks \ {t}
    /\ UNCHANGED <<dependencies, priority, retry_attempts, backingOff, queueVars,
                   completed_tasks, passing>>

(* The backoff of five seconds is over. *)
Elapse(t) ==
    /\ t \in backingOff
    /\ backingOff' = backingOff \ {t}
    /\ UNCHANGED <<status, dependencies, priority, retry_attempts, queueVars,
                   running_tasks, completed_tasks, passing>>

----------------------------------------------------------------------------

Visit(t) == \/ Skip(t) \/ Backoff(t) \/ Start(t)
            \/ FailPermanent(t) \/ FailExhausted(t) \/ Defer(t)

Pass == BeginPass \/ EndPass \/ \E t \in Task : Visit(t)

Register == \E t \in Task, p \in Priority, deps \in DependencySet : AddTask(t, p, deps)

(* Any caller: the HTTP API marks a task whatever its status. *)
Next == \/ Register
        \/ Pass
        \/ \E t \in Task : MarkCompleted(t) \/ MarkFailed(t) \/ Elapse(t)

Spec == Init /\ [][Next]_vars

(* The dispatch loop of the workflow coordinator: only a task the scheduler *)
(* has started is marked.                                                   *)
Finish(t) == t \in running_tasks /\ (MarkCompleted(t) \/ MarkFailed(t))

DispatchNext == \/ Register
                \/ Pass
                \/ \E t \in Task : Finish(t) \/ Elapse(t)

DispatchSpec == Init /\ [][DispatchNext]_vars

(* The caller keeps making passes, tasks that run end, and time goes on.   *)
(* The end of a task is reported between two passes (it waits for the      *)
(* lock), hence strong fairness: the coordinator reports the tasks of one  *)
(* pass before it makes the next one.  Other callers may mark tasks too.   *)
FairSpec ==
    /\ Spec
    /\ WF_vars(Pass)
    /\ \A t \in Task : SF_vars(Finish(t)) /\ WF_vars(Elapse(t))

----------------------------------------------------------------------------

(* running_tasks, the set the concurrency limit is counted on, is exactly  *)
(* the tasks whose status is "running", whatever order the calls come in.  *)
RunningSetExact == running_tasks = {t \in Task : status[t] = "running"}

(* Two passes and any marks between them never start more tasks than       *)
(* max_concurrent_tasks.                                                   *)
ConcurrencyBound == Cardinality(running_tasks) <= MaxConcurrent

(* A pending task is never lost: it has its entry in the queue, or among   *)
(* the entries the pass in progress will push back.                        *)
NoPendingTaskLost == \A t \in Task : status[t] = "pending" => t \in execution_queue \union deferred

(* A pending task has retries left; the one whose budget is used up has    *)
(* failed in the very pass that used it.                                   *)
RetryBudget == \A t \in Task : status[t] = "pending" => retry_attempts[t] <= MaxRetry

(* Under the dispatch loop the tasks that run or are completed are closed  *)
(* under dependencies: nothing ever runs ahead of what it needs, and no    *)
(* dependency is taken back later.                                         *)
DependencyClosed ==
    \A t \in Task : status[t] \in {"running", "completed"} =>
        \A d \in dependencies[t] : status[d] = "completed"

(* The head of the queue is not overtaken: when a pass starts a task, every *)
(* pending task ahead of it in heap order has been deferred before (its     *)
(* dependencies were not completed when the scheduler looked at it).        *)
NoOvertaking ==
    [][\A t, u \in Task :
          /\ status[t] = "pending" /\ status'[t] = "running"
          /\ status[u] = "pending" /\ Precedes(u, t)
          => retry_attempts[u] > 0]_vars

(* The retry limit is what keeps a pending task from being deferred        *)
(* forever, also when dependencies wait for each other or are never        *)
(* registered: every registered task eventually completes or fails.        *)
EventuallyEnds == \A t \in Task : status[t] # "absent" ~> status[t] \in {"completed", "failed"}
=============================================================================
