------------------------ MODULE WorkflowCoordinator ------------------------
(***************************************************************************)
(* agentManager/runtime/workflow_coordinator.py with the components one    *)
(* run puts together: the DAG's readiness, SchedulerEngine (its actions    *)
(* are taken from that module), TaskExecutor, the checkpoints and          *)
(* RecoveryEngine.                                                         *)
(*                                                                         *)
(* The coordinator is one coroutine; pc is its next step.  A step ends     *)
(* where the coroutine awaits or where a crash leaves something different  *)
(* behind: after each durable write.  Crash forgets the scheduler, the DAG *)
(* statuses and, unless the state machine has a repository, the states;    *)
(* the checkpoints stay, and the workflow is resumed.                      *)
(*                                                                         *)
(* A call of StateMachine.transition is one step here (module StateMachine *)
(* looks inside it).  Events, memory write-back and spans are left out:    *)
(* their failures are caught and nothing of the run reads them.  So are    *)
(* hooks, which nothing reads either: the runs modelled are those whose    *)
(* hooks do not raise.  A hook without allow_failure that does ends the    *)
(* run with its exception, before its first pass (before_workflow_run) or  *)
(* after its outcome has been published (after_workflow_run).              *)
(***************************************************************************)
EXTENDS TaskStates, Integers, FiniteSets

CONSTANTS
    Task,
    Workflows,      \* the dependency graphs of the workflows that are run
    MaxConcurrent, MaxRetry,   \* of the scheduler
    MaxIterations,  \* the values of max_iterations the workflow is run with
    MaxRetries,     \* max_retries of the executor
    Recoveries,     \* the recovery configurations that are run, of RecoveryConfig
    DurableStates,  \* whether the state machine has a repository: FALSE, TRUE or both are run
    MaxCrashes,     \* bound: crashes in a behaviour
    MaxFaults       \* bound: checkpoints that cannot be saved

(* No recovery engine, one without or with a defect repair pipeline (whose *)
(* use is allowed).                                                        *)
RecoveryConfig == {"none", "engine", "repair"}

Priority == {0}
DependencySet == UNION {{w[t] : t \in Task} : w \in Workflows}

ASSUME CoordinatorAssumption ==
    /\ Task \subseteq Nat
    /\ Workflows \subseteq [Task -> SUBSET Task]
    /\ {MaxConcurrent, MaxRetry, MaxRetries, MaxCrashes, MaxFaults} \union MaxIterations \subseteq Nat
    /\ Recoveries \subseteq RecoveryConfig
    /\ DurableStates \subseteq BOOLEAN

VARIABLES
    \* SchedulerEngine
    status, dependencies, priority, retry_attempts, backingOff,
    execution_queue, deferred, running_tasks, completed_tasks, passing,
    \* DAGEngine, StateMachine, checkpoint store
    needs,       \* node.dependencies
    recovery,    \* the recovery configuration
    durable,     \* the state machine has a repository
    max_iterations,
    dag,         \* node.status
    states,
    checkpoint,  \* status of the saved context, None when there is none
    \* the coroutine
    pc,
    resuming,    \* resume_workflow was called, not run_workflow
    toRestore,   \* tasks whose checkpoint is still to be looked at
    iteration, idle,
    batch,       \* the running tasks of this iteration that are still to be executed
    current,     \* the task in execution
    caller,      \* who called run_task: the coordinator or a RETRY recovery
    attempt,
    failure,     \* what the error at hand is classified as
    recovered,   \* result of execute_recovery
    \* bookkeeping of the environment
    attempted,   \* tasks handed to the sandbox since the last (re)start
    crashes, faults

schedVars == <<status, dependencies, priority, retry_attempts, backingOff,
               execution_queue, deferred, running_tasks, completed_tasks, passing>>
config    == <<needs, recovery, durable, max_iterations>>
loopVars  == <<resuming, toRestore, iteration, idle, batch>>
runVars   == <<current, caller, attempt, failure, recovered>>
envVars   == <<attempted, crashes, faults>>
vars == <<schedVars, config, dag, states, checkpoint, pc, loopVars, runVars, envVars>>

Sched == INSTANCE SchedulerEngine

Failure == {"timeout", "network", "syntax", "runtime", "unknown"}

Step == {"start", "restore", "iterate", "pass", "collect", "batch", "begin", "attempt",
         "verifying", "completed", "failing", "failed", "recover", "unrecovered",
         "decide", "done"}

TypeOK ==
    /\ Sched!TypeOK
    /\ needs \in Workflows
    /\ recovery \in Recoveries
    /\ durable \in DurableStates
    /\ max_iterations \in MaxIterations
    /\ dag \in [Task -> {"pending", "running", "completed", "failed"}]
    /\ states \in [Task -> TaskState \union {None}]
    /\ checkpoint \in [Task -> {"completed", "failed", None}]
    /\ pc \in Step
    /\ resuming \in BOOLEAN /\ recovered \in BOOLEAN
    /\ toRestore \subseteq Task /\ batch \subseteq Task /\ attempted \subseteq Task
    /\ iteration \in Nat /\ idle \in Nat /\ attempt \in Nat
    /\ crashes \in Nat /\ faults \in Nat
    /\ current \in Task \union {None}
    /\ caller \in {"coordinator", "recovery"}
    /\ failure \in Failure

Init ==
    /\ status = [t \in Task |-> "absent"]
    /\ dependencies = [t \in Task |-> {}]
    /\ priority = [t \in Task |-> 0]
    /\ retry_attempts = [t \in Task |-> 0]
    /\ backingOff = {} /\ execution_queue = {} /\ deferred = {}
    /\ running_tasks = {} /\ completed_tasks = {} /\ passing = FALSE
    /\ dag = [t \in Task |-> "pending"]
    /\ pc = "start"
    /\ toRestore = {} /\ batch = {} /\ attempted = {}
    /\ iteration = 0 /\ idle = 0 /\ attempt = 0
    /\ current = None /\ caller = "coordinator"
    /\ failure = "unknown" /\ recovered = FALSE
    /\ needs \in Workflows
    /\ recovery \in Recoveries
    /\ durable \in DurableStates
    /\ max_iterations \in MaxIterations
    /\ states = [t \in Task |-> None]
    /\ checkpoint = [t \in Task |-> None]
    /\ resuming = FALSE
    /\ crashes = 0 /\ faults = 0

Goto(step) == pc' = step

SetState(t, new) == states' = [states EXCEPT ![t] = new]

(* _safe_transition: a transition whose refusal is swallowed. *)
TrySetState(t, new) == IF CanTransition(states[t], new) THEN SetState(t, new) ELSE UNCHANGED states

Fault == faults < MaxFaults /\ faults' = faults + 1

----------------------------------------------------------------------------
(* Registering, resuming and the loop.                                     *)

RegisterMissingTasks ==
    /\ pc = "start"
    /\ status' = [t \in Task |-> "pending"]
    /\ dependencies' = needs
    /\ execution_queue' = Task
    /\ states' = [t \in Task |-> IF states[t] = None THEN "pending" ELSE states[t]]
    /\ IF resuming THEN toRestore' = Task /\ Goto("restore")
                   ELSE UNCHANGED toRestore /\ Goto("iterate")
    /\ UNCHANGED <<priority, retry_attempts, backingOff, deferred, running_tasks,
                   completed_tasks, passing, config, dag, checkpoint, resuming, iteration,
                   idle, batch, runVars, envVars>>

(* The transition would raise for a task handed over to a human; no such    *)
(* task has a completed checkpoint (TLC would report the deadlock).         *)
Restore(t) ==
    /\ pc = "restore" /\ t \in toRestore
    /\ checkpoint[t] = "completed"
    /\ states[t] = "completed" \/ CanTransition(states[t], "completed")
    /\ toRestore' = toRestore \ {t}
    /\ Sched!MarkCompleted(t)
    /\ dag' = [dag EXCEPT ![t] = "completed"]
    /\ SetState(t, "completed")
    /\ UNCHANGED <<config, checkpoint, pc, resuming, iteration, idle, batch, runVars, envVars>>

(* Mutant: the status read back never equals COMPLETED. *)
PassOver_neverMatches(t) ==
    /\ pc = "restore" /\ t \in toRestore
    /\ toRestore' = toRestore \ {t}
    /\ UNCHANGED <<schedVars, config, dag, states, checkpoint, pc, resuming, iteration, idle,
                   batch, runVars, envVars>>

(* No completed checkpoint, or one that cannot be loaded. *)
PassOver(t) ==
    /\ pc = "restore" /\ t \in toRestore
    /\ \/ checkpoint[t] # "completed" /\ UNCHANGED faults
       \/ checkpoint[t] = "completed" /\ Fault
    /\ toRestore' = toRestore \ {t}
    /\ UNCHANGED <<schedVars, config, dag, states, checkpoint, pc, resuming, iteration, idle,
                   batch, runVars, attempted, crashes>>

EndRestore ==
    /\ pc = "restore" /\ toRestore = {}
    /\ Goto("iterate")
    /\ UNCHANGED <<schedVars, config, dag, states, checkpoint, loopVars, runVars, envVars>>

(* get_ready_nodes *)
Ready == {t \in Task : dag[t] = "pending" /\ \A d \in needs[t] : dag[d] = "completed"}

(* Mutant: the backoff of a task that became ready is left to run out. *)
Iterate_keepsBackoff ==
    /\ pc = "iterate" /\ iteration < max_iterations
    /\ states' = [t \in Task |-> IF t \in Ready /\ states[t] = "pending" THEN "ready"
                                                                      ELSE states[t]]
    /\ passing' = TRUE /\ deferred' = {}
    /\ iteration' = iteration + 1
    /\ Goto("pass")
    /\ UNCHANGED <<status, dependencies, priority, retry_attempts, backingOff, execution_queue,
                   running_tasks, completed_tasks, config, dag, checkpoint, resuming, toRestore,
                   idle, batch, runVars, envVars>>

(* The top of the loop: mark the ready tasks, clear their backoff and begin *)
(* a pass of the scheduler.                                                 *)
Iterate ==
    /\ pc = "iterate" /\ iteration < max_iterations
    /\ LET cleared == {t \in Ready : status[t] = "pending"}
       IN  /\ backingOff' = backingOff \ cleared
           /\ retry_attempts' = [t \in Task |-> IF t \in cleared THEN 0 ELSE retry_attempts[t]]
    /\ states' = [t \in Task |-> IF t \in Ready /\ states[t] = "pending" THEN "ready"
                                                                      ELSE states[t]]
    /\ passing' = TRUE /\ deferred' = {}
    /\ iteration' = iteration + 1
    /\ Goto("pass")
    /\ UNCHANGED <<status, dependencies, priority, execution_queue, running_tasks,
                   completed_tasks, config, dag, checkpoint, resuming, toRestore, idle, batch,
                   runVars, envVars>>

StopAtMaxIterations ==
    /\ pc = "iterate" /\ iteration = max_iterations
    /\ Goto("done")
    /\ UNCHANGED <<schedVars, config, dag, states, checkpoint, loopVars, runVars, envVars>>

Visit(t) ==
    /\ pc = "pass"
    /\ Sched!Visit(t)
    /\ UNCHANGED <<config, dag, states, checkpoint, pc, loopVars, runVars, envVars>>

Elapse(t) ==
    /\ Sched!Elapse(t)
    /\ UNCHANGED <<config, dag, states, checkpoint, pc, loopVars, runVars, envVars>>

(* Mutant: the scheduler's failures are not carried over to the DAG. *)
EndPass_noSync ==
    /\ pc = "pass"
    /\ Sched!EndPass
    /\ states' = [t \in Task |-> IF status[t] = "failed" /\ states[t] \notin Terminal
                                  THEN "failed" ELSE states[t]]
    /\ Goto("collect")
    /\ UNCHANGED <<config, dag, checkpoint, loopVars, runVars, envVars>>

(* The end of the pass, with _sync_scheduler_failures. *)
EndPass ==
    /\ pc = "pass"
    /\ Sched!EndPass
    /\ dag' = [t \in Task |-> IF status[t] = "failed" /\ dag[t] # "completed"
                               THEN "failed" ELSE dag[t]]
    /\ states' = [t \in Task |-> IF status[t] = "failed" /\ states[t] \notin Terminal
                                  THEN "failed" ELSE states[t]]
    /\ Goto("collect")
    /\ UNCHANGED <<config, checkpoint, loopVars, runVars, envVars>>

AllTerminal == \A t \in Task : status[t] \in {"completed", "failed"}

Collect ==
    /\ pc = "collect" /\ running_tasks # {}
    /\ batch' = running_tasks
    /\ idle' = 0
    /\ Goto("batch")
    /\ UNCHANGED <<schedVars, config, dag, states, checkpoint, resuming, toRestore, iteration,
                   runVars, envVars>>

Idle ==
    /\ pc = "collect" /\ running_tasks = {}
    /\ ~AllTerminal
    /\ idle' = idle + 1
    /\ Goto(IF idle + 1 > 2 THEN "done" ELSE "iterate")
    /\ UNCHANGED <<schedVars, config, dag, states, checkpoint, resuming, toRestore, iteration,
                   batch, runVars, envVars>>

(* Nothing runs and nothing is left, or the batch has been worked off. *)
EndIteration ==
    /\ \/ pc = "collect" /\ running_tasks = {} /\ AllTerminal
       \/ pc = "batch" /\ batch = {}
    /\ Goto(IF AllTerminal THEN "done" ELSE "iterate")
    /\ UNCHANGED <<schedVars, config, dag, states, checkpoint, loopVars, runVars, envVars>>

Execute(t) ==
    /\ pc = "batch" /\ t \in batch
    /\ batch' = batch \ {t}
    /\ dag' = [dag EXCEPT ![t] = "running"]
    /\ current' = t /\ caller' = "coordinator"
    /\ Goto("begin")
    /\ UNCHANGED <<schedVars, config, states, checkpoint, resuming, toRestore, iteration, idle,
                   attempt, failure, recovered, envVars>>

----------------------------------------------------------------------------
(* TaskExecutor.run_task(current).                                         *)

execVars == <<config, loopVars, crashes>>

Begin ==
    /\ pc = "begin"
    /\ CanTransition(states[current], "implementing")
    /\ SetState(current, "implementing")
    /\ attempt' = 0
    /\ Goto("attempt")
    /\ UNCHANGED <<schedVars, dag, checkpoint, execVars, current, caller, failure, recovered,
                   attempted, faults>>

(* The state machine refuses: a ValueError, classified as runtime. *)
BeginRefused ==
    /\ pc = "begin"
    /\ ~CanTransition(states[current], "implementing")
    /\ failure' = "runtime"
    /\ Goto("failing")
    /\ UNCHANGED <<schedVars, dag, states, checkpoint, execVars, current, caller, attempt,
                   recovered, attempted, faults>>

(* The checkpoint cannot be loaded. *)
LoadFails ==
    /\ pc = "begin"
    /\ Fault
    /\ failure' \in Failure
    /\ Goto("failing")
    /\ UNCHANGED <<schedVars, dag, states, checkpoint, execVars, current, caller, attempt,
                   recovered, attempted>>

(* The sandbox has run and verified the task. *)
AttemptSucceeds ==
    /\ pc = "attempt"
    /\ attempted' = attempted \union {current}
    /\ SetState(current, "verifying")
    /\ Goto("verifying")
    /\ UNCHANGED <<schedVars, dag, checkpoint, execVars, runVars, faults>>

(* Mutant: an executor that has used up its attempts may start over. *)
AttemptFails_startsOver ==
    /\ pc = "attempt"
    /\ attempt' = IF attempt < MaxRetries THEN attempt + 1 ELSE 0
    /\ attempted' = attempted \union {current}
    /\ UNCHANGED <<schedVars, dag, states, checkpoint, pc, execVars, current, caller, failure,
                   recovered, faults>>

AttemptFails ==
    /\ pc = "attempt" /\ attempt < MaxRetries
    /\ attempt' = attempt + 1
    /\ attempted' = attempted \union {current}
    /\ UNCHANGED <<schedVars, dag, states, checkpoint, pc, execVars, current, caller, failure,
                   recovered, faults>>

(* "Task ... failed after ... attempts: <the last error>" is classified by *)
(* the error's wording, and as runtime when that says nothing.             *)
AttemptsExhausted ==
    /\ pc = "attempt" /\ attempt = MaxRetries
    /\ attempted' = attempted \union {current}
    /\ failure' \in Failure \ {"unknown"}
    /\ SetState(current, "verifying")
    /\ Goto("failing")
    /\ UNCHANGED <<schedVars, dag, checkpoint, execVars, current, caller, attempt, recovered,
                   faults>>

Verify ==
    /\ pc = "verifying"
    /\ SetState(current, "completed")
    /\ Goto("completed")
    /\ UNCHANGED <<schedVars, dag, checkpoint, execVars, runVars, attempted, faults>>

(* The checkpoint is saved and run_task returns; back in the coordinator,  *)
(* the scheduler and the DAG learn that the task is completed.             *)
Succeed ==
    /\ pc = "completed"
    /\ checkpoint' = [checkpoint EXCEPT ![current] = "completed"]
    /\ IF caller = "coordinator"
       THEN /\ Sched!MarkCompleted(current)
            /\ dag' = [dag EXCEPT ![current] = "completed"]
            /\ UNCHANGED recovered
            /\ Goto("batch")
       ELSE /\ recovered' = TRUE
            /\ Goto("decide")
            /\ UNCHANGED <<schedVars, dag>>
    /\ UNCHANGED <<states, execVars, current, caller, attempt, failure, attempted, faults>>

SaveFails ==
    /\ pc = "completed"
    /\ Fault
    /\ Goto("failing")
    /\ UNCHANGED <<schedVars, dag, states, checkpoint, execVars, runVars, attempted>>

(* run_task raises: to the coordinator, or to a RETRY recovery. *)
Raise == Goto(IF caller = "coordinator" THEN "recover" ELSE "unrecovered")

(* The handler of run_task: where the state machine refuses "failed", its  *)
(* own error (runtime) replaces the one at hand.                           *)
Fail ==
    /\ pc = "failing"
    /\ CanTransition(states[current], "failed")
    /\ SetState(current, "failed")
    /\ Goto("failed")
    /\ UNCHANGED <<schedVars, dag, checkpoint, execVars, runVars, attempted, faults>>

FailRefused ==
    /\ pc = "failing"
    /\ ~CanTransition(states[current], "failed")
    /\ failure' = "runtime"
    /\ Raise
    /\ UNCHANGED <<schedVars, dag, states, checkpoint, execVars, current, caller, attempt,
                   recovered, attempted, faults>>

SaveFailed ==
    /\ pc = "failed"
    /\ \/ /\ checkpoint' = [checkpoint EXCEPT ![current] = "failed"]
          /\ UNCHANGED <<failure, faults>>
       \/ /\ Fault
          /\ failure' \in Failure
          /\ UNCHANGED checkpoint
    /\ Raise
    /\ UNCHANGED <<schedVars, dag, states, execVars, current, caller, attempt, recovered,
                   attempted>>

----------------------------------------------------------------------------
(* RecoveryEngine.execute_recovery, with the strategy the coordinator      *)
(* chooses for the failure.                                                *)

recoveryVars == <<schedVars, dag, checkpoint, execVars, current, attempt, failure, attempted, faults>>

Recover(success) == recovered' = success /\ Goto("decide")

NoRecovery ==
    /\ pc = "recover" /\ recovery = "none"
    /\ Recover(FALSE)
    /\ UNCHANGED <<recoveryVars, states, caller>>

(* RETRY: the executor runs the task once more. *)
Retry ==
    /\ pc = "recover" /\ recovery # "none"
    /\ failure = "timeout"
    /\ caller' = "recovery"
    /\ Goto("begin")
    /\ UNCHANGED <<recoveryVars, states, recovered>>

(* EVENT_REPLAY and SNAPSHOT_RESTORE: the coordinator's recovery context   *)
(* names neither an event nor a checkpoint, and the strategies give up.    *)
NothingToRestore ==
    /\ pc = "recover" /\ recovery # "none"
    /\ failure = "network" \/ (failure = "runtime" /\ recovery = "engine")
    /\ Goto("unrecovered")
    /\ UNCHANGED <<recoveryVars, states, caller, recovered>>

(* DEFECT_REPAIR succeeds.  The task is completed; where it cannot be, it   *)
(* cannot be made ready either, and the recovery fails after all.           *)
Repaired ==
    /\ pc = "recover" /\ recovery = "repair"
    /\ failure = "runtime"
    /\ TrySetState(current, "completed")
    /\ Recover(states'[current] = "completed")
    /\ UNCHANGED <<recoveryVars, caller>>

(* DEFECT_REPAIR fails, or is escalated to a human. *)
RepairFails ==
    /\ pc = "recover" /\ recovery = "repair"
    /\ failure = "runtime"
    /\ UNCHANGED states \/ TrySetState(current, "blocked_hitl")
    /\ Goto("unrecovered")
    /\ UNCHANGED <<recoveryVars, caller, recovered>>

(* HITL and ESCALATE: succeed once the task is handed over to a human. *)
HandOver ==
    /\ pc = "recover" /\ recovery # "none"
    /\ failure \in {"syntax", "unknown"}
    /\ TrySetState(current, "blocked_hitl")
    /\ Recover(CanTransition(states[current], "blocked_hitl"))
    /\ UNCHANGED <<recoveryVars, caller>>

(* Any strategy that failed leaves the task with a human, if it still can. *)
Block ==
    /\ pc = "unrecovered"
    /\ TrySetState(current, "blocked_hitl")
    /\ Recover(FALSE)
    /\ UNCHANGED <<recoveryVars, caller>>

(* Mutant: a recovered task is marked completed without a look at its state. *)
Decide_trustsRecovery ==
    /\ pc = "decide"
    /\ Goto("batch")
    /\ IF recovered
       THEN /\ Sched!MarkCompleted(current)
            /\ dag' = [dag EXCEPT ![current] = "completed"]
            /\ UNCHANGED states
       ELSE /\ Sched!MarkFailed(current)
            /\ dag' = [dag EXCEPT ![current] = "failed"]
            /\ IF states[current] \in Terminal THEN UNCHANGED states ELSE SetState(current, "failed")
    /\ UNCHANGED <<checkpoint, execVars, runVars, attempted, faults>>

(* What the coordinator makes of a recovery: completed, back to the queue  *)
(* or failed.                                                              *)
Decide ==
    /\ pc = "decide"
    /\ Goto("batch")
    /\ IF recovered /\ states[current] = "completed"
       THEN /\ Sched!MarkCompleted(current)
            /\ dag' = [dag EXCEPT ![current] = "completed"]
            /\ UNCHANGED states
       ELSE IF recovered /\ states[current] = "ready"
       THEN /\ status' = [status EXCEPT ![current] = "pending"]
            /\ backingOff' = backingOff \ {current}
            /\ retry_attempts' = [retry_attempts EXCEPT ![current] = 0]
            /\ running_tasks' = running_tasks \ {current}
            /\ execution_queue' = execution_queue \union {current}
            /\ dag' = [dag EXCEPT ![current] = "pending"]
            /\ UNCHANGED <<dependencies, priority, deferred, completed_tasks, passing, states>>
       ELSE /\ Sched!MarkFailed(current)
            /\ dag' = [dag EXCEPT ![current] = "failed"]
            /\ IF states[current] \in Terminal THEN UNCHANGED states ELSE SetState(current, "failed")
    /\ UNCHANGED <<checkpoint, execVars, runVars, attempted, faults>>

----------------------------------------------------------------------------

(* The process dies; a new one is given the same workflow to resume. *)
Crash ==
    /\ crashes < MaxCrashes
    /\ crashes' = crashes + 1
    /\ status' = [t \in Task |-> "absent"]
    /\ dependencies' = [t \in Task |-> {}]
    /\ retry_attempts' = [t \in Task |-> 0]
    /\ backingOff' = {} /\ execution_queue' = {} /\ deferred' = {}
    /\ running_tasks' = {} /\ completed_tasks' = {} /\ passing' = FALSE
    /\ dag' = [t \in Task |-> "pending"]
    /\ pc' = "start"
    /\ toRestore' = {} /\ batch' = {} /\ attempted' = {}
    /\ iteration' = 0 /\ idle' = 0 /\ attempt' = 0
    /\ current' = None /\ caller' = "coordinator"
    /\ failure' = "unknown" /\ recovered' = FALSE
    /\ resuming' = TRUE
    /\ states' = IF durable THEN states ELSE [t \in Task |-> None]
    /\ UNCHANGED <<priority, config, checkpoint, faults>>

Loop == \/ RegisterMissingTasks \/ EndRestore \/ Iterate \/ StopAtMaxIterations
        \/ EndPass \/ Collect \/ Idle \/ EndIteration
        \/ \E t \in Task : Restore(t) \/ PassOver(t) \/ Visit(t) \/ Execute(t)

RunTask == \/ Begin \/ BeginRefused \/ LoadFails
           \/ AttemptSucceeds \/ AttemptFails \/ AttemptsExhausted
           \/ Verify \/ Succeed \/ SaveFails \/ Fail \/ FailRefused \/ SaveFailed

Recovery == \/ NoRecovery \/ Retry \/ NothingToRestore \/ Repaired \/ RepairFails
            \/ HandOver \/ Block \/ Decide

Coordinate == Loop \/ RunTask \/ Recovery

Done == pc = "done" /\ UNCHANGED vars

Next == Coordinate \/ Crash \/ Done \/ \E t \in Task : Elapse(t)

Spec == Init /\ [][Next]_vars

(* The coroutine is never left waiting: the sandbox has its timeouts and   *)
(* every await of the coordinator returns or raises.  The clock need not   *)
(* be fair: the coordinator does not wait for backoffs.                    *)
FairSpec == Spec /\ WF_vars(Coordinate)

----------------------------------------------------------------------------

(* While every checkpoint is saved, the three views of a task agree         *)
(* whenever the coordinator is between two tasks: the scheduler, the DAG    *)
(* and the state machine say the same of what is completed and of what is   *)
(* failed, also in a resumed run whose state machine starts empty (one that *)
(* remembers the interrupted run disagrees, see InterruptedReexecutes).     *)
ViewsAgree ==
    pc \in {"iterate", "collect", "batch", "done"} /\ faults = 0 /\ ~(durable /\ resuming) =>
        \A t \in Task :
            /\ (status[t] = "completed") <=> (dag[t] = "completed")
            /\ (status[t] = "completed") <=> (states[t] = "completed")
            /\ (status[t] = "failed") <=> (dag[t] = "failed")
            /\ (status[t] = "failed") <=> (states[t] \in {"failed", "blocked_hitl"})

(* The sandbox gets a task only when everything the task needs is          *)
(* completed in the state machine, also after a crash and a resume.        *)
RunsAfterDependencies ==
    pc = "attempt" => \A d \in needs[current] : states[d] = "completed"

(* A workflow that ends by itself, not at max_iterations, leaves a task     *)
(* pending only where the task needs something that is not completed: no    *)
(* runnable task is left behind, in spite of backoffs, the concurrency      *)
(* limit and the idle limit.                                                *)
NoRunnableTaskLeft ==
    pc = "done" /\ iteration < max_iterations => \A t \in Task : status[t] = "pending" =>
                       \E d \in needs[t] : status[d] # "completed"

(* A task whose checkpoint says completed is not handed to the sandbox     *)
(* again, whatever crashes, as long as the checkpoint can be loaded.       *)
CheckpointedNotRerun ==
    [][\A t \in Task : checkpoint[t] = "completed" /\ faults = 0 /\ t \in attempted'
                           => t \in attempted]_vars

(* A run comes to its end. *)
Termination == <>(pc = "done")

(* With a repository behind the state machine, all the runs of a workflow  *)
(* together complete every task once, after everything the task needs, and *)
(* no crash takes a completed task back.                                   *)
Progress == INSTANCE WorkflowProgress
                WITH completed <- {t \in Task : durable /\ states[t] = "completed"}
ImplementsProgress == Progress!Spec

(* "... retry limits so pending tasks cannot be deferred forever when       *)
(* dependencies are unsatisfiable" (engine/scheduler.py): at the end of a   *)
(* run, a failed task was tried, or something it needs did not complete.    *)
FailsOnlyWhenTried ==
    pc = "done" => \A t \in Task : status[t] = "failed" =>
                       t \in attempted \/ \E d \in needs[t] : status[d] # "completed"

(* tests/e2e/test_workflow_resume_and_memory.py: "A task that was running  *)
(* when crash occurred should re-execute."  Here: when a resumed workflow  *)
(* ends, an uncompleted task whose needs are completed has been run.       *)
InterruptedReexecutes ==
    pc = "done" /\ resuming => \A t \in Task :
        /\ states[t] # "completed"
        /\ \A d \in needs[t] : status[d] = "completed"
        => t \in attempted
=============================================================================
