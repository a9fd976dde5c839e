# agentManager in TLA+

TLA+ modules for the core of agentManager: the dispatch queue, the task state
machine over its repository, the workflow coordinator with its executor, the
recovery engine and the defect repair pipeline, the HTTP endpoints for tasks and task
plans, the Redis event bus, the container sandbox, the memory system and the
resource-aware scheduler. TLC checks them on small instances; TLAPS proves the safety
properties of all of them for every value of the constants. Paths below are relative
to `src/agentManager/` unless they start with `docs/`, `tests/` or `scheduler/`
of the repository root; `PROJECT.json` maps every definition to its lines.

Run `tlc -config <run>.cfg <MC module>` for a run of the table in section 4, and
`tlapm <module>.tla` for the proofs of a module of section 5.

## 1. The system

A workflow is a set of tasks with dependencies. Two front doors share the same
engine classes but not the same instances:

* the **HTTP API** (`api.py`), whose handlers are plain functions and therefore
  run in the server's thread pool, on one set of engine objects per process;
* the **runtime** (`runtime/`), where one coroutine, the coordinator, runs a
  workflow to its end or resumes it after a crash.

| Component | State | Operations | Hard behaviour | What makes it correct |
|---|---|---|---|---|
| Scheduler engine (`engine/scheduler.py`) | task table, heap of ids, running and completed sets, retry counts, backoff times; one lock | `add_task`, `execute_scheduled_tasks` (a pass), `mark_completed`, `mark_failed` | marks and the clock between passes; deferral, backoff and retry limits | running set exact and bounded; no pending task lost; dependencies first; every task ends |
| State machine (`engine/state_manager.py`) and repository (`storage/postgres.py`) | dictionary of states, histories; two tables; one connection | `initialize`, `transition`, `get_state`, `get_history` | four writes per transition, no lock; failed writes; restarts; lazy loads | saved states follow the transition table; memory never ahead of the table; histories are possible pasts |
| DAG engine (`engine/dag.py`) | nodes with status and dependencies, graph of edges | `add_node`, `add_edge`, `update_node_status`, `get_ready_nodes` | unlocked, iterated over while it grows | acyclic, complete, work is always on offer |
| Workflow coordinator (`runtime/workflow_coordinator.py`) | the loop's locals; scheduler, DAG, state machine, checkpoints | `run_workflow`, `resume_workflow` | three views of each task; crash at any step; when to stop | views agree; dependencies first; no runnable task left; termination; nothing checkpointed runs again |
| Task executor (`runtime/task_executor.py`), checkpoints (`engine/checkpoint.py`) | attempt counter; saved contexts | `run_task` | failures at each step, also in the failure handler | as above |
| Recovery engine (`recovery/`) | execution contexts, history of recoveries; state machine, event log, checkpoints | `execute_recovery` with six strategies | calls the executor again, replays old events, publishes before it settles; every call may raise | the announced outcome is the answer; a failure reaches a human; terminal states stay |
| Defect repair (`defect_repair/`) | history, experiences | classify, repair by level, verify, store | verification rejects or raises; memory refuses | a success was verified on the code it returns |
| Task endpoints (`api.py`) | one DAG, state machine, scheduler, start times, event log | `POST /tasks`, `/complete`, `/fail`, queries | threads interleave at every access; no undo of half a request | views agree for undisturbed tasks; acyclic; registration in order |
| Task plan endpoints (`api.py`, `domain/task_plan.py`, `runtime/hooks.py`) | plans under a lock; event log | create, update, confirm | hooks and events outside the lock, for seconds | only accepted drafts are confirmed, once, and are frozen; events are true |
| Redis event bus (`engine/event_bus/redis_stream.py`) | callbacks, consumer tasks, retry counts; stream, group, pending list, dead letters on the server | `connect`, `publish`, `subscribe`, `start_consumer`, `clear`, `disconnect` | loops sharing a group; lost answers; callback lists that change under iteration | handled in order, a second time only after a failure, by everyone due before the acknowledgement; nothing received is dropped |
| In-memory event bus (`engine/event_bus/in_memory.py`) | callbacks, bounded log | `publish`, `subscribe`, `unsubscribe`, `clear` | callbacks that (un)subscribe; log at its limit | everyone subscribed gets every event, in order |
| Task scheduler (`scheduler/`) | heap, statuses, allocations | `schedule`, `execute_scheduled`; `allocate`, `release` | head of the queue that does not fit; executor that calls back | books agree; nothing over capacity; order; everything that fits is executed |
| Resource manager (`scheduler/resource_manager.py` of the repository root) | pool accounts, metrics | allocate, release | imported by its tests only | accounts agree |
| Worker sandbox (`sandbox/worker_sandbox.py`) | container; one pool thread per command | enter, execute with timeout, exit | timeout against a late answer; daemon errors half-way; one name per worker | answers are the command's own; clean-up reported as it went; no container left behind |
| Memory system (`memory/memory_system.py`), vector index (`memory/vector_backend.py`) | SQL table under a lock, index, futures | `store`, `astore`, `retrieve`, `search`, `asearch`, `cleanup_expired` | two stores that part; expiry between read and delete; fire-and-forget | only expired entries go; the index finds what the table has |
| Other memory stores (`memory/`) | one table each | store, query, delete | - | - |
| Scheduled tasks (`runtime/scheduled_tasks.py`) | schedules, one flag, one loop task | add, start, stop | slow callbacks delay the others | nothing in the repository starts it |
| Audit, logging, configuration, agents, domain records, scripts | none the rest reads back | - | - | - |

How they interact: the coordinator calls the scheduler synchronously for a pass,
then the executor task by task; the executor calls the state machine, the sandbox
and the checkpoint store; on an exception the coordinator calls the recovery
engine, which may call the executor again, or the repair pipeline, which runs code
through the executor and stores its experience in the memory system. The API handlers call DAG, state
machine, scheduler and event bus one after the other. Of what they share, only the
scheduler and the dictionary of plans have a lock.

`PROJECT.json` lists the hazards of this code, each at its line.

## 2. Modules

| Module | Models | Composition |
|---|---|---|
| `SchedulerEngine` | `engine/scheduler.py` | on its own, and instantiated by `WorkflowCoordinator` |
| `TaskStates` | states and transition table of `engine/state_manager.py` | used by all that follow |
| `TaskLifecycle` | abstract: what the state machine promises of a task | implemented by `StateMachine` |
| `StateMachine` | `engine/state_manager.py` over `storage/postgres.py` | |
| `WorkflowProgress` | abstract: what all the runs of a workflow promise together | implemented by `WorkflowCoordinator` |
| `WorkflowCoordinator` | coordinator, executor, recovery, checkpoints | `INSTANCE SchedulerEngine` for the scheduler |
| `TaskApi` | the task endpoints over DAG, state machine, scheduler | |
| `PlanReview` | abstract: what the plan endpoints promise | implemented by `TaskPlans` |
| `TaskPlans` | the plan endpoints, plan validation, hooks | |
| `RedisStreamBus` | the Redis event bus and the server as it is used | |
| `DefectRepair` | classifier, strategies and pipeline, `TaskExecutor.execute` | extended by `RecoveryEngine` |
| `RecoveryEngine` | `execute_recovery` over executor, state machine, log and checkpoints | with `DefectRepair` as the awaited pipeline |
| `WorkerSandbox` | the sandbox against the Docker daemon | |
| `MemorySystem` | table, vector index, expiry, shared by threads | |
| `TaskScheduler` | scheduler, priority queue and resource allocator | |
| `MC*` | constants for TLC | one per module |
| `*_proofs` | theorems | `StateMachine`, `WorkflowCoordinator`, `RecoveryEngine` (with `DefectRepair`), `TaskApi`, `TaskPlans`, `MemorySystem` |
| `Queues_proofs` | theorems | `SchedulerEngine` and `RedisStreamBus` |
| `Execution_proofs` | theorems | `WorkerSandbox` and `TaskScheduler` |

The last two modules extend two components each, which share no variable; so that their
names are apart, the Redis bus has `BusInit`, `BusSpec` and so on, the task scheduler
`SchedulingInit`, `SchedulingSpec` and so on.

### SchedulerEngine
One call of `execute_scheduled_tasks` is `BeginPass`, one action per iteration of
its loop (`Skip` a stale entry, `Backoff`, `Start`, `FailPermanent`,
`FailExhausted`, `Defer`) and `EndPass`, which pushes the deferred entries back.
`passing` is the lock: other operations wait, the clock (`Elapse`) does not. Of
the times only "still backing off" is kept. The heap is a set of ids with
`Precedes`, the heap's order by priority and then by id. `Next` lets
any caller mark any task; `DispatchNext` is the coordinator's discipline, in which
only running tasks are marked.

### StateMachine
A call of `transition` is `Check`, `Apply` (dictionaries), `SaveState` and
`SaveTransition` (one database transaction each). `GetState`, `GetHistory` and
`Initialize` load lazily. `ConnectionFails` and `SaveFails` leave the connection
unusable, since nothing rolls it back, until `Crash` starts a new process.
`load_transitions` orders rows by timestamp (`RowBelongsAt`). `RuntimeSpec` has the
coordinator as caller, which initializes unknown tasks only.

### WorkflowCoordinator
`pc` is the coroutine's next step. A step ends at an await, or where a crash would
leave something else behind, that is after each durable write. Three groups of
actions follow the three files: the loop (`RegisterMissingTasks`, `Restore`,
`PassOver`, `Iterate`, `Visit`, `EndPass`, `Collect`, `Idle`, `Execute`,
`EndIteration`, `Decide`), `run_task` (`Begin` to `Verify`, `Succeed`, and the
handler `Fail`, `SaveFailed`) and the recovery (`Retry`, `Repaired`, `HandOver`,
...). The hooks of a workflow are left out: one that raises is not caught and ends the run
with its exception, before the first pass or after the outcome was published. `Crash` forgets all but the checkpoints and, with `DurableStates`, the
states. An attempt succeeds or fails with any class of failure; what memory,
verifier and sandbox do is that choice. A checkpoint may fail to be saved or
loaded (`MaxFaults`). Whether there is a repository (`durable`) and the iteration
limit are chosen at the start of a behaviour.

### RecoveryEngine and DefectRepair
`Run` is the coordinator's call of `run_task`, `Retry` the recovery's. Both begin with
`StartRun` and go on with `LoadCheckpoint`, `BeginRun`, `Execution`, `Verification`,
`SaveCheckpoint` and `PublishRun`: a step ends at an await or after a durable write, so
that a crash finds in the repository whatever the code may leave there. `HandleError`
is the executor's handler, `LoadFails` and `SaveFails` the store's exceptions,
`RunReturns` tells coordinator and recovery apart. (`WorkflowCoordinator` looks at the
same function with single attempts and with the coordinator's other views of the task;
here the sandbox has the last word in one step.)
`ExecuteRecovery` takes any strategy, event and checkpoint, one action per strategy
follows (`Retry`, `EventReplay`, `SnapshotRestore`, `NothingToRepair` or
`CallPipeline`, `HandOver`; `Configured` says whether there is a pipeline),
then `Announce` and `Settle`, where a refused transition leads to `Raised`. An
`EventReplay` applies the task's events in the log one after the other
(`ApplyEvent`, `Replay`) without an await; a crash may cut it off after any of its
writes (`Written`). The pipeline is the coroutine the
recovery awaits: `BeginRepair` classifies, `RetryExecution`, `ApplyTemplate`,
`ReviewByAgents` or `EscalateRepair` is the strategy of its level, `VerifyRepair`
runs the result once more, `StoreExperience` keeps books. Program text is one of
three codes, an error is the patterns it matches and the type it names.

### WorkerSandbox
The caller, its command thread (`ExecRun`) and the daemon go on independently. A
timeout is possible from the moment of `Submit`; `Kill` and `ForceRemove` are its
clean-up, `Join` the exit of the pool's block, which waits for the thread.
`StopContainer`, `KillContainer`, `RemoveContainer` and `CleanupFails` are
`__exit__`. The daemon is external: states and names of containers, and a call fails
when it must or when the daemon has a fault (`MaxFaults`).

### MemorySystem
Every acquisition of the lock, every reading of the clock and every call of the
index is a step of its thread. In the thread of the event loop `store` leaves the
upsert to a future (`scheduled`), elsewhere it runs it at once (`Index`). `Judge`
is `is_expired`, `Delete` the second acquisition, by id. `Overdue` is what the
clean-up takes for expired, `Expired` what a reader does.

### TaskScheduler
`frames` is the stack of `execute_scheduled` calls, since the executor may call
again; `Refuse` and `Start` are the two ends of an iteration's first half, `Finish`
is the executor's return or exception. Others share the allocator (`Take`,
`Release`).

### TaskApi
One step per access to a shared object, for each thread: the creation is
`CheckNew`, `AddNode`, `AddEdge` (with the scan `ScanNodes` over the
dictionary of nodes, which raises when the dictionary grows: `AddEdgeRaises`),
`RecordStart`, `InitializeCheck`, `Initialize`, `AddTask`, `Created`; completion
and failure are `Finish`, `DropStartTime`, `UpdateNode`, `GetState`,
`CheckTransition`, `ApplyTransition`, `Mark`, `Ended`. The depth-first search for a
cycle is taken by its meaning (a set of nodes that wait for each other).
`disturbed` remembers the tasks whose requests overlapped or were answered with an
error.

### TaskPlans
A section under `_task_plans_lock` is one step. A confirmation is
`BeginConfirm`, the before hooks (`HooksPass`, `HooksFail`), `Confirm` or
`ConfirmRefused`, `Announce`, and the after hooks. An item is its id, its
dependencies and whether it has a verification.

### RedisStreamBus
The server is modelled as the code uses it: ids in order of arrival, one group with
the last id it delivered and the pending messages. A consumer loop goes
`Deliver`, `Receive`, `Return` (per callback), `Acknowledge` (the server has
the XACK), `Acknowledged` (the loop has the answer); `ReadFails`,
`AcknowledgeFails` and `CallFails` are requests that raise, served or not.
`Disconnect` cancels the loops in the dictionary of tasks; a loop whose name was
taken by a second `start_consumer` is not in it any more and goes on. A loop
iterates over the exact list, looks up the wildcard one when it is at its end, and
iterates over that (`Advance`). `ClearStream` and `ClearRest` are the two ends of
`clear`: a list that is iterated over then lives on in its loop (`list`), a wildcard
list that a loop has not looked up yet is gone. `due` is what was subscribed when the
message's turn came and has not been called, less what an unsubscription or a `clear`
took away; `given` has the messages whose `due` was empty at the end.

## 3. Properties

Every property has its comment in the module. The ones that took the most
strengthening, or that are the most open to argument:

* `NoPendingTaskLost`, `RunningSetExact`: entries stay in the heap when a task
  is marked from outside, so a popped id says nothing; both rest on what the queue
  and the retry counts have to do with each other (`QueueInv` of the proofs).
* `NoOvertaking`: a pass may start a task ahead of a more urgent one only if that
  one was deferred before.
* `ImplementsLifecycle`, `StateIsDurable`, `HistoryIsPossible` (and
  `HistoryIsDurable`, which is proved): for one caller. With two, both may pass the check before
  either writes, and a completed task can become failed; this is why the proofs
  assume `OneCaller` and the runs have one thread. The coordinator is one coroutine
  and does not share its tasks, so the assumption is its situation. The API's
  state machine has no repository by default; `TaskApi` looks at its threads.
* `ViewsAgree` (WorkflowCoordinator): while every checkpoint is saved. If the
  checkpoint of a completed task cannot be saved, the executor's handler cannot take
  the completion back, and the scheduler and the DAG end with failed.
* `ViewsAgree` (TaskApi): for tasks that no overlapping or failed request
  touched, and with "the state machine does not take a completion back" as the one
  allowed difference.
* `CheckpointedNotRerun`, `ImplementsProgress`: across runs and crashes;
  `ImplementsProgress` with a repository only, since without one a run after a crash
  starts from what the checkpoints say.
* `OutcomeIsAnnounced`: also when a success is taken back by an exception of the
  last step; not when an event could not be published.
* `FailureIsHandedOver`: names three kinds of tasks that are left to nobody: tasks the
  state machine has never seen, and, after a strategy that succeeded and a refused
  READY, tasks whose replayed events end in the middle of a run and tasks whose run was
  cut off by a crash (with a repository they are implementing or verifying).
* `ExecReturns`: leaves out a command that survived both calls of the clean-up, for
  which the caller does wait.
* `OnlyExpiredAreDeleted`: with the fresh entry under an id already condemned as its
  exception, which is lost.
* `IndexFollowsTable`: leaves out entries whose upserts failed, were lost or
  overlapped.
* `StartsInOrder`: a refused task has lost its place among those of its priority,
  although the queue calls itself stable.
* `AckedAfterCallbacks`: names two ways in which a callback misses a message that is
  acknowledged all the same: an `unsubscribe` took it out of the list or moved it up
  in the list that was iterated over, where the code does skip it, and a `clear` dropped
  the wildcard list while the exact callbacks were awaited.
* `RepeatedOnlyAfterFailure`: is silent on messages whose handling failed, which
  docstring and tests say are retried. They are not (section 6): the theorem
  `MessagesAreNeverRepeated` is the stronger fact, about what the code does.
* `ReceivedAreSettled`: is about messages in a loop's hands. Those of a lost answer, of
  a failed acknowledgement or of a loop that died stay pending and are never handled
  again, so there is no property that every message is handled.

## 4. Runs

| Run | Specification, bounds | Distinct states | Shows |
|---|---|---|---|
| `SchedulerEngine_any` | `FairSpec`; 2 tasks, 2 priorities, at most 1 dependency each, MaxConcurrent 1, MaxRetry 2 | 52 thousand | with any caller: running set exact, no pending task lost, no overtaking; every task ends, also with circular or missing dependencies |
| `StateMachine_runtime` | `RuntimeSpec`; 1 task, 1 thread, 5 transitions | 124 thousand | durability of states, possible histories, refinement of `TaskLifecycle` |
| `Workflow_run` | `FairSpec`; 5 shapes of 3 tasks, MaxConcurrent 2, MaxRetry 3, MaxIterations 1 or 10, MaxRetries 1, three recovery configurations, with and without repository, 1 crash, 1 fault | 1.37 million | agreement, order, no task left, nothing repeated, termination, refinement of `WorkflowProgress` across a crash |
| `Workflow_chain` | `Spec`; a chain of 5 tasks | violation | the last task is failed untried |
| `Workflow_interrupted` | `Spec`; pairs, repository, 1 crash | violation | an interrupted task is not executed again |
| `RecoveryEngine_any` | `Spec`; 2 tasks, 1 with code, 5 errors, 3 runs or recoveries, 1 failed request to bus or checkpoint store, 1 crash, with and without repository | 1.28 million | repairs verified and recorded, outcomes announced, failures handed over, terminal states final, every recovery returns |
| `TaskApi_threads` | `Spec`; 3 tasks, 2 threads, 5 requests, symmetry in tasks and threads | 526 thousand | acyclic, never stuck, views agree |
| `TaskPlans_review` | `FairSpec`; 1 plan, 3 threads, 5 requests, 6 lists of items | 74 thousand | refinement of `PlanReview`, true events, announced |
| `RedisStreamBus_group` | `BusSpec`; 2 loops of one name, 2 messages, batches of 2, 2 callbacks and 2 registrations in the two lists, max_retries 0, 1 fault, symmetry in loops and callbacks | 2.35 million | repeated only after a failure, in order, acknowledged after the callbacks, nothing received dropped |
| `WorkerSandbox_timeouts` | `Spec`; 2 sandboxes of 1 worker, 2 configurations, 3 containers, 2 commands each, 2 faults | 294 thousand | own answers, truthful clean-up, nothing left behind, calls return |
| `MemorySystem_shared` | `Spec`; 1 id, 2 layers, the event loop and 1 thread, 3 stores, clock to 2 | 3.03 million | only expired entries go, searches keep to their layer, the index follows, clean-up complete |
| `TaskScheduler_nested` | `SchedulingFairSpec`; 3 tasks, 2 priorities, amounts 1 and 3 of 2, 1 other holder, limits 1 and none, depth 2 | 205 thousand | books agree, order, everything that fits is executed |

**Why the bounds are enough.** In `SchedulerEngine_any` two tasks compete for one
slot, can wait for themselves, for each other or for a task that comes late, and
MaxRetry 2 lets a task be deferred, back off and come again before it is given up;
what is about more tasks is proved for any number (section 5). Three tasks in the
coordinator are the fewest with a chain, a fork and a join; MaxConcurrent is below
their number, so the limit bites. MaxRetry has the code's default 3, since with the
coordinator's immediate passes the count never outruns the tasks before.
MaxIterations 10 leaves room over the six iterations three tasks can need, so that
the loop's own stop is by its idle limit; with 1 the iteration limit stops it. Five
transitions of one task reach every state, and `implementing` a second time by way of
`failed` and `blocked_repair`, with restarts and lazy loads in between. Two threads in
`TaskApi` already interleave at every access; the third task is there for a
dependency of a dependency. Three threads in `TaskPlans` are two confirmations
that race and an edit between them; the lists are a good one, an ordered pair, a
circular pair, a duplicate, a missing dependency and a missing verification. With
max_retries 0 the first failed acknowledgement already goes to the dead letter
queue, which no larger value reaches (see section 6); two registrations,
of one callback or two, are an exact and a wildcard one, or two in a list, of which an
iteration can lose one. Three
calls in `RecoveryEngine_any` are a run (which a crash may cut off), a recovery and a second recovery that
replays or repairs what the first left; its errors take every way through the
pipeline. Two sandboxes and three containers let a container be left behind, block
the name and be followed by another; two faults make both calls of a clean-up fail.
One id is enough in `MemorySystem`, since no step of the code looks at two; three
stores replace an entry under a reader and under a future. Three tasks in
`TaskScheduler` are one in execution, one that does not fit and one behind it; an amount of
3 never fits, so it is refused in every call, while a task of 1 is refused in a nested
call only, when another holder and the outer call's task have the capacity.

**Deadlock** is checked but where a bound uses up what callers may do and the system
idles: `TaskApi_threads`, `TaskPlans_review` (requests), `RecoveryEngine_any`
(calls), `WorkerSandbox_timeouts` (containers and commands). The coordinator
stutters explicitly when it is done (`Done`).

**Fairness.** `SchedulerEngine` `FairSpec`: weak fairness of passes (the caller
keeps dispatching) and of the clock, strong fairness of the end of a running task,
which is enabled between passes only and which the coordinator reports before the
next pass; others may mark tasks but need not. `WorkflowCoordinator` `FairSpec`: weak
fairness of the coroutine as a whole, since every await has a timeout or returns; no
fairness of the clock, because the loop does not wait for it. `RecoveryEngine`
`Spec`: weak fairness of the recovery, which its caller awaits. `TaskPlans`
`FairSpec`: weak fairness of each thread that serves a request, hooks having
timeouts.
`WorkerSandbox` `Spec`: weak fairness of caller and command thread; none of the
command, which may never end. `TaskScheduler` `SchedulingFairSpec`: weak fairness of the loop
and of a caller that goes on calling, strong fairness of the executor's return and
of the release by others, which calls from inside the executor interrupt; `EventuallyExecuted` rests on the others
allocating finitely often (`MaxOthers`). Faults and
crashes are never fair.

**Mutants.** The operators named `X_something` are plausible slips in the code of
`X` (a guard dropped, an off-by-one, a swapped order). Every property of every
passing run is violated by the mutant `PROJECT.json` names for it.

## 5. Proofs

Assumptions: the named `ASSUME`s of the modules only (limits are naturals, tasks
are numbers where their order matters, `None` is no value); numbers of
tasks, threads, requests, items, containers and entries are arbitrary, and tasks may be infinitely
many: the running set is finite because it grows one task at a time.
Two hypotheses stand in theorems. `OneCaller` is that of the state machine's durability
(section 3). `NoRunnableTaskIsLeft` needs `MaxConcurrent # 0`: the code takes 0 (its
default is 10), and then no pass starts anything, the coordinator gives up after its
idle iterations and runnable tasks stay.

| Module | Theorem | Argument |
|---|---|---|
| `Queues_proofs`, dispatch queue | `SchedulerTypes` | typing, one step per action |
| | `RunningSetIsExact`, `PendingTasksAreQueued`, `RetriesAreBounded` | `IInv` = typing, the three properties and `QueueInv`. Alone they are not inductive: `QueueInv` (deferred entries exist during a pass only, apart from the queue, and an entry that backs off or is deferred has a retry count) excludes states in which `BeginPass` would lose an entry |
| | `HeadIsNotOvertaken` | action property from `IInv`: a started task is the head of the queue, so a pending task that precedes it has been put aside in this pass, and `QueueInv` gives it a retry count above zero |
| | `ConcurrencyIsBounded` | inductive with `IInv`: `Start` requires a free slot; finite sets |
| | `DependenciesComeFirst` | under `DispatchSpec`, with `IInv` for "only running tasks are marked" |
| `Queues_proofs`, event stream | `BusTypes`, `MessagesAreNeverRepeated`, `OnlyFailuresMayRepeat`, `AcknowledgedMeansGiven`, `LoopsKeepTheOrder` | `BusInv` adds: what the group has delivered (`ServerInv`), batches ascend (`BatchInv`) and are disjoint (`ApartInv`), what a loop still has nobody has handled and comes after what it has handled (`PastInv`), and each callback still due is ahead of the iteration, in its list or in the wildcard list it has yet to look up (`DueInv`) |
| | `ReceivedMessagesAreSettled` | `SettledInv`: a message in hand is pending, acknowledged or deleted, and the one a loop is about to leave is settled; then by cases of the steps |
| | `RetriesAreNeverUsedUp` | `RetryInv`: a message whose acknowledgement failed is in no loop's hands any more, so the count stops at one. With `max_retries` above zero the dead letter queue stays empty for good, whatever the number of loops, messages and faults |
| `StateMachine_proofs` | `TypeCorrect` | any number of threads |
| | `StatesAreDurable`, `SavedStatesAreALifecycle` | for `OneCaller`. `StateInv` adds `CallInv`: what the call in progress has put in the dictionary and what the table still has, step by step. The refinement maps `SaveInitial` and `SaveState` to `Create` and `Move`, everything else to a stutter |
| | `HistoriesAreDurable`, `HistoriesArePossible` | `HistoryInv` adds `PastInv` (the rows are legal, strictly ordered and older than the clock, and a terminal one agrees with the saved state) and `CallPast` (the transition of the call in progress is legal, younger than all rows, and the dictionary has the rows with or without it) |
| `WorkflowCoordinator_proofs` | `TypeCorrect`, `TasksRunAfterDependencies`, `ViewsAgreeBetweenTasks` | `IInv` says, for each step of the coroutine, what pass, running set and batch are (`ControlInv`), what the scheduler's records say of each other (`RecordInv`), how far the DAG may lag behind (`DagInv`) and what scheduler and state machine agree on whatever went wrong (`StateInv`) and while nothing did (`CleanInv`). `TaskSteps` reduces the steps of executor and recovery to three kinds: in the middle of a task, a good and a bad end |
| | `NoRunnableTaskIsLeft` | `PassInv`: a pass has every runnable task still in its queue and none backs off, so one that starts nothing has seen that none is runnable |
| | `CheckpointsPreventReruns`, `CompletionOnlyGrows` | `PersistInv`: what a completed checkpoint and a state saved as completed say of the other records, also after a crash. The refinement maps the completed tasks of a durable state machine to those of `WorkflowProgress`; one of them is added at most in a step, after all it needs |
| `RecoveryEngine_proofs` | `TypeCorrect`, `RepairsAreVerified`, `HistoriesAgree` | `RepairInv`: per task and phase of the pipeline, how often it has executed code, which code, and what came of it |
| | `AnswersAreAnnounced`, `FailuresAreHandedOver` | `RunInv`: the state a run of a task has reached; `CallInv` and `AnnounceInv`: what the call under way has published, last of all for its task; `SettleInv`: where a recovery that failed can have left the task |
| | `TerminalStatesAreFinal` | by cases of the strategies and of the steps of a run; `ReplayExists` and `ReplayIsReplayed` (and `WrittenFacts` for a replay that a crash cut off) say that the recursive function of a replay is defined and that no prefix of the events takes a task out of a terminal state |
| `TaskApi_proofs` | `TypeCorrect`, `EdgesNeverRefused`, `NeverCircular`, `AlwaysWork` | `OrderInv`: whatever a task needs, in its list, as an edge or in a creation that is under way, is a node, and every set of tasks has a member that needs none of the set. A second creation of an id keeps it, because it can only name what existed when it found the id free, and nothing that exists can need the id yet |
| | `RegistrationIsInOrder` | `RegisterInv`: per thread, what has been registered at each step of a creation |
| | `ViewsAgreeOnTheTask` | `ViewInv`: a task that is not disturbed is served by one thread at most, and that thread's step says how far its request has brought each of the three views (`Midway`); what another thread does is about another task (`ServedAlone`, `ViewKeeps`) |
| `TaskPlans_proofs` | `TypeCorrect`, `ReviewIsImplemented` | `Writes` and `ConfirmRefines` map the two sections to `Write` and `Freeze` of `PlanReview` |
| | `ConfirmationIsUnique`, `ConfirmationsAreTrue` | `AnnounceInv`: a thread about to announce is the only one for its plan, which is confirmed, not announced and as long as the event says; other publications are no confirmations |
| `Execution_proofs`, sandbox | `TypeCorrect`, `AnswersAreTheCommands`, `CleanupIsReported`, `NothingIsLeftBehind` | `IInv` adds `OwnerInv` (a sandbox refers to a container of its own, so that a call on one changes no other's), `HolderInv` (the holder has the last command's output or nothing) and `ContainerInv` (what each step of the caller has made of its container). `CallIsSafe` and `QuietIsSafe` are the two kinds of steps, with and without a call of the daemon |
| `Execution_proofs`, task scheduler | `SchedulingTypes`, `BooksAreKept` | `SchedulingInv`: of the nested calls only the innermost is between two tasks, and the others' tasks are running, each once (`FrameInv`); what is scheduled is in the queue once (`QueueInv`); a task holds what it asked for exactly while it is running, and all holders together have no more than the capacity (`AllocationInv`; the units held form a finite set, whose cardinality is what is allocated) |
| | `StartsAreInOrder` | action property with `OrderInv`: of two entries the one behind was scheduled later or has been refused |
| `MemorySystem_proofs` | `TypeCorrect`, `SearchesKeepToTheirLayer`, `CleanupsAreComplete`, `OnlyExpiredEntriesGo` | `CallInv`: the row a call has read is the one stored or an older one, what a clean-up condemned is overdue or was replaced. It survives the others' steps because the table changes by deletions and newer versions only (`TableMoves`, `CallsStayInformed`) |
| | `IndexIsCurrent` | `IndexInv`: the upserts under way for an id that is not doubtful all have what the table has (`Fits`), so that whichever comes last is the right one |

Theorems speak of more than the runs check: typing of these modules, `ConcurrencyBound`,
`RetryBudget`, `DependencyClosed`, `HistoryIsDurable`, `EdgesAreAccepted`,
`RegisteredInOrder`, `ConfirmedOnce` and, for the Redis bus, `NeverRepeated` and that no
retries are used up are proved and have no run.

**Induction over data.** The induction theorems of the library take an operator as
parameter, which the installed provers cannot instantiate. `InductionOverNat` gets round
this for sets of numbers: were a number missing from the set, adding one would map a
finite set one to one into a smaller one, against the pigeonhole theorem. The set
{n : the statement holds for n} then serves as the induction hypothesis. It carries
`ReplayExists`, `LeastNumber` and `RemoveFirstFacts`, which the queues rest on: that
`RemoveFirst` takes out one entry and leaves the order of the others alone.

**Only model-checked:** liveness (`EventuallyEnds`, `Termination`,
`ConfirmationIsAnnounced`, `RecoveriesEnd`, `ExecReturns`,
`EventuallyExecuted`) and everything about ENABLED, which the proof system cannot do;
what the depth-first search of the DAG computes, which the model takes by its meaning.
Every invariant and every action property of a passing run is the statement of a
theorem. The type invariants are proved and left out of the configurations.

## 6. Where the code and what is said of it differ

Shown by runs:

* `Workflow_chain`: waiting for a dependency that is still running counts as a
  retry (`engine/scheduler.py:240`), and a task deep in a chain of slow ones is
  failed without having been tried.
* `Workflow_interrupted`: `resume_workflow` makes an interrupted task pending for
  the scheduler, while a state machine with a repository still has it as
  implementing and refuses `run_task` (`runtime/task_executor.py:336`).

Seen while modelling, without a run of their own:

* `initialize` asks only the dictionary (`engine/state_manager.py:98`), so after a
  restart `POST /tasks` overwrites a saved completed state with pending.
  `tests/unit/test_state_manager.py:179` says that existing repository state is read
  first. In the model: `Initialize` without the guard of `InitializeUnknown`.
* RETRY calls `run_task` for a task that has just been left failed, and failed to
  implementing is no transition (`recovery/recovery_engine.py:240`): the sandbox is
  not reached. In the model: `BeginRun` with a refused transition, which is `HandleError`.
* Any recovery that succeeds publishes TASK_COMPLETED, also one that has only made
  the task ready or handed it to a human. A later EVENT_REPLAY takes the event for a
  completion and may complete a task that was never verified, while
  `docs/reports/PHASE3_TASK3.2_REPORT.md:132` says it stands for a completed task. In
  the model: `Announce`, then `ApplyEvent`.
* The recovery engine awaits the bus's `get_events`; the in-memory bus answers
  without a coroutine, so with it an event replay fails with a TypeError that is
  caught. The model has an asynchronous bus.
* `MemorySystem.search` without a layer asks the index for the namespace `all`, which
  nothing is stored under, while `memory/memory_system.py:319` says "If None, searches
  all layers". In the model: `VectorSearch` with no hits.
* An `astore` that follows a `store` in the event loop is indexed before the other's
  future, which then puts the older content back (`memory/memory_system.py:258`).
* `retrieve` and `cleanup_expired` delete by id what they found expired under an
  earlier acquisition of the lock: an entry stored meanwhile is lost. An entry with a
  TTL of zero is expired for readers and never cleaned up
  (`memory/memory_system.py:448`).
* The factory builds the Qdrant index without an embedder (`runtime/factory.py:147`),
  so every upsert raises, and `MemorySystem` swallows it.
* A refused task is pushed back with a new counter: it loses its place in the
  "Stable max-priority queue" (`scheduler/priority_queue.py:11`).
* A failing call that is no `APIError` ends `cleanup` of the sandbox before the
  container is removed (`sandbox/worker_sandbox.py:436`).
* `POST /tasks/{id}/fail` of a completed task leaves the state machine alone but
  sets the DAG and the scheduler to failed (`api.py:740`), while `docs/api.md:338`
  calls completed terminal for this endpoint. In the model: `UpdateNode` and `Mark`
  have no guard, `CheckTransition` has.
* A crash in the middle of `run_task` leaves a task of a repository in implementing or
  verifying (`runtime/task_executor.py:334`, `:216`). A recovery of it whose strategy
  succeeds is refused READY, answers False and leaves it where it is, with nobody. In
  the model: `Settle` with `SettledState` refused, the third kind of
  `FailureIsHandedOver`.
* The Redis consumer reads with `">"` only. A message whose acknowledgement failed,
  or whose loop died, stays pending and is never handled again; since its retry count
  cannot get past one, the dead letter queue is reached with `max_retries` 0 only.
  `engine/event_bus/redis_stream.py:56` speaks of "Maximum retries before moving to DLQ",
  and `tests/unit/test_redis_stream_event_bus.py:439` says "Failed consumer messages
  should retry before moving to the DLQ", which it shows by calling the handler three
  times itself. In the model: `Deliver` takes from `New`, never from `pending`;
  `MessagesAreNeverRepeated` and `RetriesAreNeverUsedUp` prove it.
* `clear` drops the dictionary of callbacks (`redis_stream.py:397`) while a loop may be
  awaiting an exact callback; the wildcard list, looked up only afterwards (`:189`), is
  empty then, and the message is acknowledged without its wildcard callbacks. In the
  model: `ClearRest`, then `Advance`.
* Errors of callbacks are caught one by one, so a message all of whose callbacks
  failed is acknowledged; `unsubscribe` during an iteration skips a callback; a second
  `start_consumer` of a name leaves a loop that `disconnect` does not cancel.
* With two callers of `transition` for one task the second write wins, whatever the
  first made of the task.
* A creation that ends with 400 or 500 leaves what it had registered; the id cannot
  be created again.
* A rejected update of a plan has already replaced its items (`api.py:943`). A plan
  whose items wait for each other is accepted (`domain/task_plan.py:96` looks for
  missing ids and duplicates only).
* `engine/checkpoint.py:78` gives an `ExecutionContext` to `json.dumps`, which refuses
  it.

## 7. Not modelled

Logging, tracing, metrics, configuration, prompts and roles, domain records'
parsing, the object store's client and the scripts keep no state that a protocol
of the program depends on. `engine/event_bus.py` is shadowed by the package of that
name. The queries of all modelled classes change nothing (lazy loads are modelled).
In modelled parts: message texts, payloads, timestamps beyond their order, metrics,
the contents of checkpoints beyond the status, and events of the coordinator (their
failures are caught and nothing of a run reads them).

Of the components: the in-memory bus has no subscriber in the repository (its log is
in `TaskApi` and `TaskPlans`, without the bound); the runner of scheduled tasks is
built by the factory and started by nobody; the resource manager of the repository
root is imported by its tests only; `defect_repair/repair_engine.py` publishes with
two arguments where a bus takes one event, and nothing but its tests calls it; the
worker guard is a check of strings; `topological_sort` has no caller; the profile,
project, engineering, history and session stores are one table each with one
statement per call; the audit sinks write one record per call and a failing sink is
logged.

## 8. Plan

Open as theorems: how the coordinator's scheduler refines `SchedulerEngine` with its
`DispatchSpec`, so that `DependencyClosed` and `ConcurrencyBound` need no proof of
their own there; that a workflow without cycles and faults completes all its tasks
whenever it ends (the part of `Termination` that is no liveness); the number of
executions a recovery can cause. Next modules, if they get callers: the in-memory bus
with callbacks that (un)subscribe, and the runner of scheduled tasks.
