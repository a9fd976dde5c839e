---------------------------- MODULE TaskScheduler ----------------------------
(***************************************************************************)
(* agentManager/scheduler: TaskScheduler with its PriorityQueue and a      *)
(* ResourceAllocator it may share with others.                             *)
(*                                                                         *)
(* Nothing here is concurrent, but the executor is the caller's code: from *)
(* inside it tasks are scheduled, execute_scheduled is called again and    *)
(* resources are taken and given back.  frames is the stack of the calls   *)
(* of execute_scheduled; the caller has control when it is empty or the    *)
(* innermost call is in its executor.                                      *)
(*                                                                         *)
(* CPU, memory and GPU are compared one by one in the same way; one amount *)
(* stands for them.                                                        *)
(***************************************************************************)
EXTENDS Integers, SequencesExt

CONSTANTS
    None,
    Task,
    Priority,   \* the priorities tasks are scheduled with
    Amount,     \* the amounts tasks request
    Capacity,   \* what the allocator has
    Other,      \* who else allocates from it
    Limit,      \* the limits execute_scheduled is called with, None for none
    MaxDepth,   \* bound: nested calls of execute_scheduled
    MaxOthers   \* bound: allocations by others

ASSUME TaskSchedulerAssumption ==
    /\ None \notin Nat \union Task
    /\ Task \intersect Other = {}
    /\ Priority \subseteq Nat /\ Amount \subseteq Nat
    /\ {Capacity, MaxDepth, MaxOthers} \subseteq Nat
    /\ Limit \subseteq (Nat \ {0}) \union {None}

VARIABLES
    status,      \* of the tasks, "absent" before they are scheduled
    priority,
    resources,   \* what the tasks request
    arrival,     \* how many were scheduled before
    queue,       \* the entries of the heap in the order of their counters
    refused,     \* tasks that were pushed back for want of resources
    allocations, \* of the tasks and of others, None for none
    frames,      \* the calls of execute_scheduled: results still allowed, task in execution
    others       \* allocations others have made

taskVars == <<status, priority, resources, arrival>>
schedulingVars == <<taskVars, queue, refused, allocations, frames, others>>

SchedulingTypeOK ==
    /\ status \in [Task -> {"absent", "scheduled", "running", "completed", "failed"}]
    /\ priority \in [Task -> Nat]
    /\ resources \in [Task -> Nat]
    /\ arrival \in [Task -> Nat]
    /\ queue \in Seq(Task)
    /\ refused \subseteq Task
    /\ allocations \in [Task \union Other -> Nat \union {None}]
    /\ frames \in Seq([left : Nat \union {None}, task : Task \union {None}])
    /\ others \in Nat

SchedulingInit ==
    /\ status = [t \in Task |-> "absent"]
    /\ priority = [t \in Task |-> 0]
    /\ resources = [t \in Task |-> 0]
    /\ arrival = [t \in Task |-> 0]
    /\ queue = <<>> /\ refused = {}
    /\ allocations = [h \in Task \union Other |-> None]
    /\ frames = <<>> /\ others = 0

----------------------------------------------------------------------------
(* PriorityQueue and ResourceAllocator.                                    *)

Pushed(q, t) == Append(q, t)

(* What pop leaves: of the entries of a task the first one goes. *)
Popped(t) == RemoveFirst(queue, t)

(* The first of the most urgent entries. *)
IsTop(t) == \E i \in DOMAIN queue :
    /\ queue[i] = t
    /\ \A j \in DOMAIN queue : \/ priority[queue[j]] < priority[t]
                               \/ priority[queue[j]] = priority[t] /\ i <= j

Holders == {h \in Task \union Other : allocations[h] # None}

(* What is held, unit by unit, and how much it is. *)
Units == UNION {{h} \X (1 .. allocations[h]) : h \in Holders}

Allocated == Cardinality(Units)

(* allocate succeeds: what the holder has is not granted twice, and what    *)
(* is available is enough.                                                  *)
CanAllocate(h, amount) == allocations[h] = None /\ Capacity - Allocated >= amount

----------------------------------------------------------------------------

Inside == frames # <<>>
Frame == Last(frames)
InCaller == Inside => Frame.task # None

Schedule(t, p, amount) ==
    /\ InCaller
    /\ status[t] = "absent"
    /\ status' = [status EXCEPT ![t] = "scheduled"]
    /\ priority' = [priority EXCEPT ![t] = p]
    /\ resources' = [resources EXCEPT ![t] = amount]
    /\ arrival' = [arrival EXCEPT ![t] = Cardinality({u \in Task : status[u] # "absent"})]
    /\ queue' = Pushed(queue, t)
    /\ UNCHANGED <<refused, allocations, frames, others>>

ExecuteScheduled(limit) ==
    /\ InCaller /\ Len(frames) < MaxDepth
    /\ frames' = Append(frames, [left |-> limit, task |-> None])
    /\ UNCHANGED <<taskVars, queue, refused, allocations, others>>

(* The loop's condition, and the entry that is popped.  Its task is always  *)
(* still scheduled (BooksAgree), so that nothing is ever passed over.       *)
Pop(t) ==
    /\ Inside /\ Frame.task = None /\ Frame.left # 0
    /\ IsTop(t)
    /\ status[t] = "scheduled"

(* Mutant: the entry is left at its place instead of being pushed back. *)
Refuse_keepsPlace(t) ==
    /\ Pop(t)
    /\ ~CanAllocate(t, resources[t])
    /\ refused' = refused \union {t}
    /\ frames' = Front(frames)
    /\ UNCHANGED <<taskVars, queue, allocations, others>>

(* The resources are not there: the entry goes back, behind those of its    *)
(* priority, and the call returns.                                          *)
Refuse(t) ==
    /\ Pop(t)
    /\ ~CanAllocate(t, resources[t])
    /\ queue' = Pushed(Popped(t), t)
    /\ refused' = refused \union {t}
    /\ frames' = Front(frames)
    /\ UNCHANGED <<taskVars, allocations, others>>

(* Mutant: an entry that does not fit is passed over within the call. *)
Start_anyThatFits(t) ==
    /\ Inside /\ Frame.task = None /\ Frame.left # 0
    /\ status[t] = "scheduled"
    /\ CanAllocate(t, resources[t])
    /\ \A u \in Task : status[u] = "scheduled" /\ CanAllocate(u, resources[u]) =>
           priority[u] <= priority[t]
    /\ queue' = Popped(t)
    /\ allocations' = [allocations EXCEPT ![t] = resources[t]]
    /\ status' = [status EXCEPT ![t] = "running"]
    /\ frames' = [frames EXCEPT ![Len(frames)].task = t]
    /\ UNCHANGED <<priority, resources, arrival, refused, others>>

Start(t) ==
    /\ Pop(t)
    /\ CanAllocate(t, resources[t])
    /\ queue' = Popped(t)
    /\ allocations' = [allocations EXCEPT ![t] = resources[t]]
    /\ status' = [status EXCEPT ![t] = "running"]
    /\ frames' = [frames EXCEPT ![Len(frames)].task = t]
    /\ UNCHANGED <<priority, resources, arrival, refused, others>>

(* Mutant: only what was completed is released. *)
Finish_keepsFailed(t, result) ==
    /\ Inside /\ Frame.task = t
    /\ status' = [status EXCEPT ![t] = result]
    /\ allocations' = IF result = "completed" THEN [allocations EXCEPT ![t] = None] ELSE allocations
    /\ frames' = [frames EXCEPT ![Len(frames)] =
                      [left |-> IF @.left = None THEN None ELSE @.left - 1, task |-> None]]
    /\ UNCHANGED <<priority, resources, arrival, queue, refused, others>>

(* The executor returns or raises; either counts as a result. *)
Finish(t, result) ==
    /\ Inside /\ Frame.task = t
    /\ status' = [status EXCEPT ![t] = result]
    /\ allocations' = [allocations EXCEPT ![t] = None]
    /\ frames' = [frames EXCEPT ![Len(frames)] =
                      [left |-> IF @.left = None THEN None ELSE @.left - 1, task |-> None]]
    /\ UNCHANGED <<priority, resources, arrival, queue, refused, others>>

Return ==
    /\ Inside /\ Frame.task = None
    /\ queue = <<>> \/ Frame.left = 0
    /\ frames' = Front(frames)
    /\ UNCHANGED <<taskVars, queue, refused, allocations, others>>

Take(o, amount) ==
    /\ InCaller /\ others < MaxOthers
    /\ CanAllocate(o, amount)
    /\ others' = others + 1
    /\ allocations' = [allocations EXCEPT ![o] = amount]
    /\ UNCHANGED <<taskVars, queue, refused, frames>>

Release(o) ==
    /\ InCaller /\ allocations[o] # None
    /\ allocations' = [allocations EXCEPT ![o] = None]
    /\ UNCHANGED <<taskVars, queue, refused, frames, others>>

Executes == \E limit \in Limit : ExecuteScheduled(limit)
Loop == Return \/ \E t \in Task : Refuse(t) \/ Start(t)
Executor(t) == \E result \in {"completed", "failed"} : Finish(t, result)

SchedulingNext ==
    \/ Executes
    \/ Loop
    \/ \E t \in Task : Executor(t) \/ \E p \in Priority, amount \in Amount : Schedule(t, p, amount)
    \/ \E o \in Other : Release(o) \/ \E amount \in Amount : Take(o, amount)

SchedulingSpec == SchedulingInit /\ [][SchedulingNext]_schedulingVars

(* The caller goes on calling; a call goes on; an executor returns, however *)
(* often it calls back; others give back what they took.                    *)
SchedulingFairSpec ==
    /\ SchedulingSpec
    /\ WF_schedulingVars(Loop)
    /\ WF_schedulingVars(~Inside /\ Executes)
    /\ \A t \in Task : SF_schedulingVars(Executor(t))
    /\ \A o \in Other : SF_schedulingVars(Release(o))

----------------------------------------------------------------------------

(* Status, queue and allocations keep the same books through nested calls, *)
(* refusals and failing executors: the queue has one entry for each         *)
(* scheduled task and no other, so that the check for stale entries         *)
(* (task_scheduler.py:70) never applies; exactly the tasks in execution     *)
(* hold what they requested; and no more is held than there is.             *)
BooksAgree ==
    /\ ToSet(queue) = {t \in Task : status[t] = "scheduled"} /\ IsInjective(queue)
    /\ \A t \in Task : allocations[t] = IF status[t] = "running" THEN resources[t] ELSE None
    /\ Allocated <= Capacity

(* "Stable max-priority queue" (priority_queue.py:10): a task starts ahead  *)
(* of a scheduled one only if it is more urgent, or was scheduled earlier   *)
(* with the same priority, or the other one was once refused: then it lost  *)
(* its place.                                                               *)
StartsInOrder ==
    [][\A t, u \in Task :
          /\ t # u /\ status[t] = "scheduled" /\ status'[t] = "running" /\ status[u] = "scheduled"
          => \/ priority[u] < priority[t]
             \/ priority[u] = priority[t] /\ (arrival[t] < arrival[u] \/ u \in refused)]_schedulingVars

(* A scheduled task is executed in the end, unless it or a more urgent task *)
(* asks for more than there is; one of the same priority does not keep it   *)
(* waiting, because a refused entry goes behind it (task_scheduler.py:73).  *)
EventuallyExecuted ==
    \A t \in Task : status[t] = "scheduled" ~>
        \/ status[t] \in {"completed", "failed"}
        \/ \E u \in Task : /\ resources[u] > Capacity
                           /\ u = t \/ priority[u] > priority[t]
=============================================================================
