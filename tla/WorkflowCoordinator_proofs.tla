---------------------- MODULE WorkflowCoordinator_proofs ----------------------
(***************************************************************************)
(* Theorems about WorkflowCoordinator, for any tasks and workflows, cyclic *)
(* ones included, any limits, any number of crashes and any checkpoints    *)
(* that cannot be saved or loaded.                                         *)
(*                                                                         *)
(* The inductive invariant IInv says, for each step pc of the coroutine,   *)
(* what the scheduler, the DAG, the state machine and the checkpoints have *)
(* to do with each other.  TaskSteps then reduces everything that happens  *)
(* while the coordinator is with a task to three kinds of steps, and each  *)
(* part of IInv is shown to be preserved by these and by the steps of the  *)
(* loop.  The theorems are at the end; the last one is the refinement of   *)
(* WorkflowProgress.                                                       *)
(***************************************************************************)
EXTENDS WorkflowCoordinator, FiniteSetTheorems, TLAPS

(* The steps in which the coordinator is with a task. *)
InTask == {"begin", "attempt", "verifying", "completed", "failing", "failed", "recover",
           "unrecovered", "decide"}

(* The type invariant is inductive together with this. *)
Typed == TypeOK /\ (pc \in InTask => current \in Task)

(* What pc says of the pass, the running tasks and the batch. *)
ControlInv ==
    /\ passing = (pc = "pass")
    /\ ~passing => deferred = {}
    /\ toRestore # {} => pc = "restore"
    /\ pc \in InTask => current \in running_tasks
    /\ pc \in {"start", "restore", "iterate", "done"} => running_tasks = {}
    /\ batch = IF pc \in InTask THEN running_tasks \ {current}
               ELSE IF pc = "batch" THEN running_tasks ELSE {}

(* What the scheduler's own records say of each other. *)
RecordInv ==
    /\ running_tasks = {t \in Task : status[t] = "running"}
    /\ \A t \in Task : status[t] = "pending" => t \in execution_queue \union deferred
    /\ \A t \in Task : status[t] = "running" => \A d \in needs[t] : status[d] = "completed"
    /\ pc = "start" => \A t \in Task : status[t] = "absent"
    /\ pc # "start" => /\ dependencies = needs
                       /\ \A t \in Task : status[t] # "absent" /\ states[t] # None

(* The scheduler and the DAG; only a pass lets the DAG lag behind. *)
DagInv == \A t \in Task :
    /\ status[t] = "completed" <=> dag[t] = "completed"
    /\ status[t] \in {"absent", "pending"} => dag[t] = "pending"
    /\ dag[t] = "failed" => status[t] = "failed"
    /\ status[t] = "failed" /\ pc # "pass" => dag[t] = "failed"

(* The scheduler and the state machine, whatever went wrong. *)
StateInv ==
    /\ \A t \in Task : status[t] = "completed" => states[t] = "completed"
    /\ \A t \in Task : states[t] # "blocked_repair"
    /\ pc = "attempt" => states[current] = "implementing"
    /\ pc = "verifying" => states[current] = "verifying"
    /\ pc = "completed" => states[current] = "completed"
    /\ pc = "decide" /\ recovered => states[current] \in {"completed", "blocked_hitl"}

(* What a completed checkpoint says of the other records. *)
PersistInv ==
    /\ \A t \in Task : durable /\ checkpoint[t] = "completed" => states[t] = "completed"
    /\ faults = 0 => \A t \in Task : checkpoint[t] = "completed" =>
         \/ pc = "start" /\ resuming
         \/ pc = "restore" /\ t \in toRestore
         \/ status[t] = "completed"
         \/ pc = "decide" /\ t = current /\ recovered /\ states[t] = "completed"

(* The runs ViewsAgree is about. *)
Clean == faults = 0 /\ ~(durable /\ resuming)

Waiting == {"pending", "ready"}
Over == {"failed", "blocked_hitl"}

(* In them the scheduler and the state machine agree also on the tasks that *)
(* are not completed, and the state of the task at hand is known.          *)
CleanInv == Clean =>
    /\ pc = "start" => \A t \in Task : states[t] = None
    /\ \A t \in Task : ~(pc \in InTask /\ t = current) =>
         /\ status[t] = "pending" => states[t] \in Waiting
         /\ status[t] = "running" => states[t] = "ready"
         /\ status[t] = "failed" => states[t] \in Over \/ (pc = "pass" /\ states[t] \in Waiting)
    /\ pc = "begin" => states[current] = IF caller = "coordinator" THEN "ready" ELSE "failed"
    /\ pc = "failing" => states[current] \in {"verifying", "failed"}
    /\ pc \in {"failed", "recover"} => states[current] = "failed"
    /\ pc = "unrecovered" => states[current] \in Over
    /\ pc = "decide" /\ ~recovered => states[current] \in Over

Runnable(t) == status[t] = "pending" /\ \A d \in needs[t] : status[d] = "completed"

(* A pass still has every runnable task in its queue, without a backoff;   *)
(* one that starts nothing leaves none.                                    *)
PassInv ==
    /\ pc = "pass" => \A t \in Task : Runnable(t) =>
          /\ t \in execution_queue \ backingOff
          /\ Clean => states[t] = "ready"
    /\ \/ pc = "collect" /\ running_tasks = {}
       \/ pc = "done" /\ iteration < max_iterations
       => MaxConcurrent = 0 \/ \A t \in Task : ~Runnable(t)

IInv == Typed /\ ControlInv /\ RecordInv /\ DagInv /\ StateInv /\ PersistInv /\ CleanInv /\ PassInv

----------------------------------------------------------------------------

(* The types hold before anything is registered. *)
LEMMA TypeInit == Init => Typed
<1> SUFFICES ASSUME Init PROVE Typed
  OBVIOUS
<1>1. Sched!TypeOK
  BY DEF Init, Sched!TypeOK, Sched!Status
<1>2. states \in [Task -> TaskState \union {None}]
  BY DEF Init
<1>3. checkpoint \in [Task -> {"completed", "failed", None}]
  BY DEF Init
<1>4. dag \in [Task -> {"pending", "running", "completed", "failed"}]
  BY DEF Init
<1>5. needs \in Workflows /\ recovery \in Recoveries /\ durable \in DurableStates
      /\ max_iterations \in MaxIterations
  BY DEF Init
<1>6. resuming \in BOOLEAN /\ recovered \in BOOLEAN
  BY DEF Init
<1>8. toRestore \subseteq Task /\ batch \subseteq Task /\ attempted \subseteq Task
      /\ iteration \in Nat /\ idle \in Nat /\ attempt \in Nat /\ crashes \in Nat /\ faults \in Nat
  BY DEF Init
<1>7. pc \in Step /\ failure \in Failure /\ current \in Task \union {None}
      /\ caller \in {"coordinator", "recovery"}
  BY DEF Init, Step, Failure
<1> QED
  BY <1>1, <1>2, <1>3, <1>4, <1>5, <1>6, <1>7, <1>8 DEF TypeOK, Typed, InTask, Init

(* The steps of the loop leave the variables in their types. *)
LEMMA TypeLoop == Typed /\ Loop => Typed'
<1> SUFFICES ASSUME Typed, Loop PROVE Typed'
  OBVIOUS
<1> USE CoordinatorAssumption DEF CoordinatorAssumption, Typed, InTask, TypeOK, Sched!TypeOK,
        Sched!Status, TaskState, Step, Goto
<1>1. CASE RegisterMissingTasks
  BY <1>1 DEF RegisterMissingTasks, config, runVars, envVars
<1>2. CASE EndRestore
  BY <1>2 DEF EndRestore, schedVars, config, loopVars, runVars, envVars
<1>3. CASE Iterate
  <2>1. retry_attempts' \in [Task -> Nat] /\ backingOff' \subseteq Task
    BY <1>3 DEF Iterate
  <2>2. states' \in [Task -> TaskState \union {None}]
    BY <1>3 DEF Iterate
  <2> QED
    BY <1>3, <2>1, <2>2 DEF Iterate, config, runVars, envVars
<1>4. CASE StopAtMaxIterations
  BY <1>4 DEF StopAtMaxIterations, schedVars, config, loopVars, runVars, envVars
<1>5. CASE EndPass
  BY <1>5 DEF EndPass, Sched!EndPass, Sched!taskVars, config, loopVars, runVars, envVars
<1>6. CASE Collect
  BY <1>6 DEF Collect, schedVars, config, runVars, envVars
<1>7. CASE Idle
  BY <1>7 DEF Idle, schedVars, config, runVars, envVars
<1>8. CASE EndIteration
  BY <1>8 DEF EndIteration, schedVars, config, loopVars, runVars, envVars
<1>9. ASSUME NEW t \in Task, Restore(t) PROVE Typed'
  BY <1>9 DEF Restore, Sched!MarkCompleted, Sched!queueVars, SetState, config, runVars, envVars
<1>10. ASSUME NEW t \in Task, PassOver(t) PROVE Typed'
  BY <1>10 DEF PassOver, Fault, schedVars, config, runVars
<1>11. ASSUME NEW t \in Task, Visit(t) PROVE Typed'
  <2>1. Sched!TypeOK'
    <3>1. CASE Sched!Skip(t)
      BY <3>1 DEF Sched!Skip, Sched!Pop, Sched!taskVars
    <3>2. CASE Sched!Backoff(t)
      BY <3>2 DEF Sched!Backoff, Sched!Pop, Sched!taskVars
    <3>3. CASE Sched!Start(t)
      BY <3>3 DEF Sched!Start, Sched!Pop
    <3>4. CASE Sched!FailPermanent(t)
      BY <3>4 DEF Sched!FailPermanent, Sched!Conflicted, Sched!Pop
    <3>5. CASE Sched!FailExhausted(t)
      BY <3>5 DEF Sched!FailExhausted, Sched!Conflicted, Sched!Pop
    <3>6. CASE Sched!Defer(t)
      BY <3>6 DEF Sched!Defer, Sched!Conflicted, Sched!Pop
    <3> QED
      BY <1>11, <3>1, <3>2, <3>3, <3>4, <3>5, <3>6 DEF Visit, Sched!Visit
  <2> QED
    BY <1>11, <2>1 DEF Visit, config, loopVars, runVars, envVars
<1>12. ASSUME NEW t \in Task, Execute(t) PROVE Typed'
  BY <1>12 DEF Execute, schedVars, config, envVars
<1> QED
  BY <1>1, <1>2, <1>3, <1>4, <1>5, <1>6, <1>7, <1>8, <1>9, <1>10, <1>11, <1>12 DEF Loop

(* So do the steps of run_task. *)
LEMMA TypeRunTask == Typed /\ RunTask => Typed'
<1> SUFFICES ASSUME Typed, RunTask PROVE Typed'
  OBVIOUS
<1> USE CoordinatorAssumption DEF CoordinatorAssumption, Typed, InTask, TypeOK, TaskState,
        Step, Goto, SetState, Failure, execVars, config, loopVars
<1>1. Sched!TypeOK'
  <2>1. CASE UNCHANGED schedVars
    BY <2>1 DEF schedVars, Sched!TypeOK
  <2>2. CASE Succeed
    <3>1. current \in Task
      BY <2>2 DEF Succeed
    <3>2. CASE Sched!MarkCompleted(current)
      BY <3>1, <3>2 DEF Sched!TypeOK, Sched!Status, Sched!MarkCompleted, Sched!queueVars
    <3> QED
      BY <2>1, <2>2, <3>2 DEF Succeed
  <2> QED
    BY <2>1, <2>2 DEF RunTask, Begin, BeginRefused, LoadFails, AttemptSucceeds, AttemptFails,
       AttemptsExhausted, Verify, SaveFails, Fail, FailRefused, SaveFailed
<1>2. CASE Begin
  BY <1>1, <1>2 DEF Begin
<1>3. CASE BeginRefused
  BY <1>1, <1>3 DEF BeginRefused
<1>4. CASE LoadFails
  BY <1>1, <1>4 DEF LoadFails, Fault
<1>5. CASE AttemptSucceeds
  BY <1>1, <1>5 DEF AttemptSucceeds, runVars
<1>6. CASE AttemptFails
  BY <1>1, <1>6 DEF AttemptFails
<1>7. CASE AttemptsExhausted
  BY <1>1, <1>7 DEF AttemptsExhausted
<1>8. CASE Verify
  BY <1>1, <1>8 DEF Verify, runVars
<1>9. CASE Succeed
  BY <1>1, <1>9 DEF Succeed, Sched!MarkCompleted
<1>10. CASE SaveFails
  BY <1>1, <1>10 DEF SaveFails, Fault, runVars
<1>11. CASE Fail
  BY <1>1, <1>11 DEF Fail, runVars
<1>12. CASE FailRefused
  BY <1>1, <1>12 DEF FailRefused, Raise
<1>13. CASE SaveFailed
  BY <1>1, <1>13 DEF SaveFailed, Fault, Raise
<1> QED
  BY <1>2, <1>3, <1>4, <1>5, <1>6, <1>7, <1>8, <1>9, <1>10, <1>11, <1>12, <1>13 DEF RunTask

(* And those of a recovery. *)
LEMMA TypeRecovery == Typed /\ Recovery => Typed'
<1> SUFFICES ASSUME Typed, Recovery PROVE Typed'
  OBVIOUS
<1> USE CoordinatorAssumption DEF CoordinatorAssumption, Typed, InTask, TypeOK, TaskState,
        Step, Goto, SetState, TrySetState, Failure, recoveryVars, execVars, config, loopVars,
        Recover
<1>1. CASE NoRecovery
  BY <1>1 DEF NoRecovery, schedVars, Sched!TypeOK
<1>2. CASE Retry
  BY <1>2 DEF Retry, schedVars, Sched!TypeOK
<1>3. CASE NothingToRestore
  BY <1>3 DEF NothingToRestore, schedVars, Sched!TypeOK
<1>4. CASE Repaired
  BY <1>4 DEF Repaired, schedVars, Sched!TypeOK
<1>5. CASE RepairFails
  BY <1>5 DEF RepairFails, schedVars, Sched!TypeOK
<1>6. CASE HandOver
  BY <1>6 DEF HandOver, CanTransition, EmergencyTransition, VALID_TRANSITIONS, schedVars,
     Sched!TypeOK
<1>7. CASE Block
  BY <1>7 DEF Block, schedVars, Sched!TypeOK
<1>8. CASE Decide
  <2>1. Sched!TypeOK'
    <3>1. current \in Task
      BY <1>8 DEF Decide
    <3>2. CASE Sched!MarkCompleted(current)
      BY <3>1, <3>2 DEF Sched!TypeOK, Sched!Status, Sched!MarkCompleted, Sched!queueVars
    <3>3. CASE Sched!MarkFailed(current)
      BY <3>1, <3>3 DEF Sched!TypeOK, Sched!Status, Sched!MarkFailed, Sched!queueVars
    <3>4. CASE recovered /\ states[current] = "ready"
      <4>1. /\ status' = [status EXCEPT ![current] = "pending"]
            /\ backingOff' = backingOff \ {current}
            /\ retry_attempts' = [retry_attempts EXCEPT ![current] = 0]
            /\ running_tasks' = running_tasks \ {current}
            /\ execution_queue' = execution_queue \union {current}
            /\ UNCHANGED <<dependencies, priority, deferred, completed_tasks, passing>>
        BY <1>8, <3>4 DEF Decide
      <4> QED
        BY <3>1, <4>1 DEF Sched!TypeOK, Sched!Status
    <3> QED
      BY <1>8, <3>2, <3>3, <3>4 DEF Decide
  <2>2. /\ dag' \in [Task -> {"pending", "running", "completed", "failed"}]
        /\ states' \in [Task -> TaskState \union {None}]
    BY <1>8 DEF Decide
  <2> QED
    BY <1>8, <2>1, <2>2 DEF Decide, runVars
<1> QED
  BY <1>1, <1>2, <1>3, <1>4, <1>5, <1>6, <1>7, <1>8 DEF Recovery

(* A crash forgets nothing but values of the same types. *)
LEMMA TypeEnvironment ==
    Typed /\ (Crash \/ Done \/ (\E t \in Task : Elapse(t)) \/ UNCHANGED vars) => Typed'
<1> USE CoordinatorAssumption DEF CoordinatorAssumption
<1>1. ASSUME Typed, Crash PROVE Typed'
  <2> USE DEF Typed, InTask, TypeOK, Step, Failure, config
  <2>1. Sched!TypeOK'
    BY <1>1 DEF Crash, Sched!TypeOK, Sched!Status
  <2>2. states' \in [Task -> TaskState \union {None}]
    BY <1>1 DEF Crash
  <2>3. dag' \in [Task -> {"pending", "running", "completed", "failed"}]
    BY <1>1 DEF Crash
  <2>4. resuming' \in BOOLEAN /\ recovered' \in BOOLEAN
    BY <1>1 DEF Crash
  <2> QED
    BY <1>1, <2>1, <2>2, <2>3, <2>4 DEF Crash
<1>2. ASSUME Typed, NEW t \in Task, Elapse(t) PROVE Typed'
  BY <1>2 DEF Elapse, Sched!Elapse, Sched!queueVars, Typed, InTask, TypeOK, Sched!TypeOK,
     config, loopVars, runVars, envVars
<1>3. ASSUME Typed, UNCHANGED vars PROVE Typed'
  BY <1>3 DEF vars, Typed, InTask, TypeOK, Sched!TypeOK, schedVars, config, loopVars, runVars,
     envVars
<1> QED
  BY <1>1, <1>2, <1>3 DEF Done

(* Every step leaves the variables in their types. *)
LEMMA TypeStep == Typed /\ [Next]_vars => Typed'
<1> QED
  BY TypeLoop, TypeRunTask, TypeRecovery, TypeEnvironment DEF Next, Coordinate

----------------------------------------------------------------------------

(* What the life cycle allows of the states a task passes through here. *)
LEMMA StateFacts ==
    ASSUME NEW s \in TaskState, s # "blocked_repair"
    PROVE  /\ CanTransition(s, "implementing") <=> s \in Waiting
           /\ \A new \in {"failed", "completed", "blocked_hitl"} :
                 CanTransition(s, new) <=> s \notin {"completed", "blocked_hitl"}
<1> QED
  BY DEF CanTransition, EmergencyTransition, VALID_TRANSITIONS, TaskState, Terminal, Waiting

(* A step in the middle of a task: run_task before its end, or a recovery  *)
(* before the coordinator's decision.  Only the state of the task changes, *)
(* and never from completed.                                               *)
Midway ==
    /\ pc \in InTask \ {"decide"} /\ pc' \in InTask
    /\ UNCHANGED <<schedVars, dag, config, loopVars, current>>
    /\ states' = [states EXCEPT ![current] = states'[current]]
    /\ states'[current] \in TaskState \ {"blocked_repair"}
    /\ states[current] = "completed" => states'[current] = "completed"

(* The two ways in which the coordinator leaves a task. *)
EndsWell ==
    /\ pc \in {"completed", "decide"} /\ pc' = "batch"
    /\ states[current] = "completed"
    /\ Sched!MarkCompleted(current)
    /\ dag' = [dag EXCEPT ![current] = "completed"]
    /\ UNCHANGED <<states, config, loopVars>>

EndsBadly ==
    /\ pc = "decide" /\ pc' = "batch"
    /\ ~(recovered /\ states[current] = "completed")
    /\ Sched!MarkFailed(current)
    /\ dag' = [dag EXCEPT ![current] = "failed"]
    /\ states' = IF states[current] \in Terminal THEN states
                 ELSE [states EXCEPT ![current] = "failed"]
    /\ UNCHANGED <<config, loopVars, checkpoint, faults>>

(* Nothing else happens while the coordinator is with a task; in particular *)
(* a recovery never makes it ready again.                                  *)
LEMMA TaskSteps == IInv /\ (RunTask \/ Recovery) => Midway \/ EndsWell \/ EndsBadly
<1> SUFFICES ASSUME IInv, RunTask \/ Recovery PROVE Midway \/ EndsWell \/ EndsBadly
  OBVIOUS
<1>0. /\ pc \in InTask => /\ current \in Task
                          /\ states[current] \in TaskState \ {"blocked_repair"}
      /\ states \in [Task -> TaskState \union {None}]
  BY DEF IInv, Typed, TypeOK, RecordInv, StateInv, InTask
<1> USE DEF Goto, SetState, TrySetState, InTask, execVars, runVars
<1>1. CASE Begin
  BY <1>0, <1>1, StateFacts DEF Begin, Midway, Waiting, TaskState
<1>2. CASE BeginRefused \/ LoadFails \/ AttemptFails \/ SaveFails
  BY <1>0, <1>2 DEF BeginRefused, LoadFails, AttemptFails, SaveFails, Midway
<1>3. CASE AttemptSucceeds \/ AttemptsExhausted \/ Verify
  BY <1>0, <1>3 DEF AttemptSucceeds, AttemptsExhausted, Verify, Midway, IInv, StateInv, TaskState
<1>4. CASE Succeed
  <2>1. CASE caller = "coordinator"
    BY <1>4, <2>1 DEF Succeed, EndsWell, IInv, StateInv
  <2>2. CASE caller # "coordinator"
    BY <1>0, <1>4, <2>2 DEF Succeed, Midway
  <2> QED
    BY <2>1, <2>2
<1>5. CASE Fail
  BY <1>0, <1>5, StateFacts DEF Fail, Midway, TaskState
<1>6. CASE FailRefused \/ SaveFailed
  BY <1>0, <1>6 DEF FailRefused, SaveFailed, Raise, Midway
<1> USE DEF recoveryVars, Recover
<1>7. CASE NoRecovery \/ Retry \/ NothingToRestore
  BY <1>0, <1>7 DEF NoRecovery, Retry, NothingToRestore, Midway
<1>8. CASE Repaired \/ RepairFails \/ HandOver \/ Block
  BY <1>0, <1>8, StateFacts DEF Repaired, RepairFails, HandOver, Block, Midway, TaskState
<1>9. CASE Decide
  <2>1. CASE recovered /\ states[current] = "completed"
    BY <1>9, <2>1 DEF Decide, EndsWell
  <2>2. ~(recovered /\ states[current] = "ready")
    BY <1>9 DEF Decide, IInv, StateInv
  <2>3. CASE ~(recovered /\ states[current] = "completed")
    BY <1>9, <2>2, <2>3 DEF Decide, EndsBadly
  <2> QED
    BY <2>1, <2>3
<1> QED
  BY <1>1, <1>2, <1>3, <1>4, <1>5, <1>6, <1>7, <1>8, <1>9 DEF RunTask, Recovery

----------------------------------------------------------------------------

(* pc and the scheduler's pass stay in step; the batch is what still runs. *)
LEMMA ControlStep == IInv /\ [Next]_vars => ControlInv'
<1> SUFFICES ASSUME IInv, [Next]_vars PROVE ControlInv'
  OBVIOUS
<1> USE DEF IInv, ControlInv, InTask, Goto, schedVars, loopVars, runVars, config
<1>1. CASE RegisterMissingTasks
  BY <1>1 DEF RegisterMissingTasks
<1>2. CASE EndRestore
  BY <1>2 DEF EndRestore
<1>3. CASE Iterate \/ StopAtMaxIterations
  BY <1>3 DEF Iterate, StopAtMaxIterations
<1>4. CASE EndPass
  BY <1>4 DEF EndPass, Sched!EndPass, Sched!taskVars
<1>5. CASE Collect \/ Idle
  BY <1>5 DEF Collect, Idle
<1>6. CASE EndIteration
  BY <1>6 DEF EndIteration
<1>7. ASSUME NEW t \in Task, Restore(t) PROVE ControlInv'
  BY <1>7 DEF Restore, Sched!MarkCompleted, Sched!queueVars
<1>8. ASSUME NEW t \in Task, PassOver(t) PROVE ControlInv'
  BY <1>8 DEF PassOver
<1>9. ASSUME NEW t \in Task, Visit(t) PROVE ControlInv'
  BY <1>9 DEF Visit, Sched!Visit, Sched!Skip, Sched!Backoff, Sched!Start, Sched!FailPermanent,
     Sched!FailExhausted, Sched!Defer, Sched!Conflicted, Sched!Pop, Sched!taskVars
<1>10. ASSUME NEW t \in Task, Execute(t) PROVE ControlInv'
  BY <1>10 DEF Execute
<1>11. CASE RunTask \/ Recovery
  <2>1. CASE Midway
    BY <2>1 DEF Midway
  <2>2. CASE EndsWell
    BY <2>2 DEF EndsWell, Sched!MarkCompleted, Sched!queueVars
  <2>3. CASE EndsBadly
    BY <2>3 DEF EndsBadly, Sched!MarkFailed, Sched!queueVars
  <2> QED
    BY <1>11, <2>1, <2>2, <2>3, TaskSteps
<1>12. CASE Crash
  BY <1>12 DEF Crash
<1>13. ASSUME NEW t \in Task, Elapse(t) PROVE ControlInv'
  BY <1>13 DEF Elapse, Sched!Elapse, Sched!queueVars
<1>14. CASE UNCHANGED vars
  BY <1>14 DEF vars
<1> QED
  BY <1>1, <1>2, <1>3, <1>4, <1>5, <1>6, <1>7, <1>8, <1>9, <1>10, <1>11, <1>12, <1>13, <1>14
     DEF Next, Coordinate, Loop, Done

(* The scheduler's records stay consistent also where the coordinator       *)
(* writes to them: when it registers, restores, completes and fails tasks.  *)
LEMMA RecordStep == IInv /\ [Next]_vars => RecordInv'
<1> SUFFICES ASSUME IInv, [Next]_vars PROVE RecordInv'
  OBVIOUS
<1> USE CoordinatorAssumption DEF CoordinatorAssumption, IInv, Typed, TypeOK, Sched!TypeOK,
        ControlInv, RecordInv, InTask, Goto, schedVars, loopVars, runVars, config
<1>1. CASE RegisterMissingTasks
  BY <1>1, NoneAssumption DEF RegisterMissingTasks, TaskState
<1>2. CASE EndRestore \/ StopAtMaxIterations \/ Collect \/ Idle \/ EndIteration
  <2>1. pc # "start" /\ pc' # "start" /\ UNCHANGED <<schedVars, config, states>>
    BY <1>2 DEF EndRestore, StopAtMaxIterations, Collect, Idle, EndIteration
  <2> QED
    BY <2>1
<1>3. CASE Iterate
  <2>1. \A t \in Task : states'[t] = states[t] \/ states'[t] = "ready"
    BY <1>3 DEF Iterate
  <2> QED
    BY <1>3, <2>1, NoneAssumption DEF Iterate, TaskState
<1>4. CASE EndPass
  <2>1. \A t \in Task : states'[t] = states[t] \/ states'[t] = "failed"
    BY <1>4 DEF EndPass
  <2> QED
    BY <1>4, <2>1, NoneAssumption DEF EndPass, Sched!EndPass, Sched!taskVars, TaskState
<1>7. ASSUME NEW t \in Task, Restore(t) PROVE RecordInv'
  BY <1>7, NoneAssumption DEF Restore, Sched!MarkCompleted, Sched!queueVars, SetState, TaskState
<1>8. ASSUME NEW t \in Task, PassOver(t) PROVE RecordInv'
  BY <1>8 DEF PassOver
<1>9. ASSUME NEW t \in Task, Visit(t) PROVE RecordInv'
  <2> USE <1>9 DEF Visit, Sched!Pop, Sched!IsNext
  <2>1. CASE Sched!Skip(t) \/ Sched!Backoff(t)
    BY <2>1 DEF Sched!Skip, Sched!Backoff, Sched!taskVars
  <2>2. CASE Sched!Start(t)
    BY <2>2 DEF Sched!Start, Sched!Conflicts
  <2>3. CASE Sched!FailPermanent(t)
    BY <2>3 DEF Sched!FailPermanent, Sched!Conflicted
  <2>4. CASE Sched!FailExhausted(t)
    BY <2>4 DEF Sched!FailExhausted, Sched!Conflicted
  <2>5. CASE Sched!Defer(t)
    BY <2>5 DEF Sched!Defer, Sched!Conflicted
  <2> QED
    BY <2>1, <2>2, <2>3, <2>4, <2>5 DEF Sched!Visit
<1>10. ASSUME NEW t \in Task, Execute(t) PROVE RecordInv'
  BY <1>10 DEF Execute
<1>11. CASE RunTask \/ Recovery
  <2>1. CASE Midway
    <3>1. /\ UNCHANGED <<running_tasks, status, execution_queue, deferred, dependencies, needs>>
          /\ pc # "start" /\ pc' # "start" /\ current \in Task
      BY <2>1 DEF Midway
    <3>2. states' = [states EXCEPT ![current] = states'[current]] /\ states'[current] # None
      BY <2>1, NoneAssumption DEF Midway
    <3>3. \A t \in Task : states'[t] # None
      BY <3>1, <3>2
    <3> QED
      BY <3>1, <3>3
  <2>2. CASE EndsWell
    BY <2>2 DEF EndsWell, Sched!MarkCompleted, Sched!queueVars
  <2>3. CASE EndsBadly
    <3>1. \A t \in Task : states'[t] = states[t] \/ states'[t] = "failed"
      BY <2>3 DEF EndsBadly
    <3>2. /\ status' = [status EXCEPT ![current] = "failed"]
          /\ running_tasks' = running_tasks \ {current}
          /\ UNCHANGED <<dependencies, execution_queue, deferred, needs>>
          /\ pc = "decide" /\ pc' = "batch" /\ current \in Task
      BY <2>3 DEF EndsBadly, Sched!MarkFailed, Sched!queueVars
    <3>3. \A t \in Task : states'[t] # None
      BY <3>1, <3>2, NoneAssumption DEF TaskState
    <3> QED
      BY <3>2, <3>3
  <2> QED
    BY <1>11, <2>1, <2>2, <2>3, TaskSteps
<1>12. CASE Crash
  BY <1>12 DEF Crash
<1>13. ASSUME NEW t \in Task, Elapse(t) PROVE RecordInv'
  BY <1>13 DEF Elapse, Sched!Elapse, Sched!queueVars
<1>14. CASE UNCHANGED vars
  BY <1>14 DEF vars
<1> QED
  BY <1>1, <1>2, <1>3, <1>4, <1>7, <1>8, <1>9, <1>10, <1>11, <1>12, <1>13, <1>14
     DEF Next, Coordinate, Loop, Done

(* The DAG learns of what completes at once, of failures at the pass's end. *)
LEMMA DagStep == IInv /\ [Next]_vars => DagInv'
<1> SUFFICES ASSUME IInv, [Next]_vars PROVE DagInv'
  OBVIOUS
<1> USE DEF IInv, Typed, TypeOK, Sched!TypeOK,
        ControlInv, RecordInv, DagInv, InTask, Goto, schedVars, loopVars, runVars, config
<1>1. CASE RegisterMissingTasks
  BY <1>1 DEF RegisterMissingTasks
<1>2. CASE EndRestore \/ StopAtMaxIterations \/ Collect \/ Idle \/ EndIteration
  BY <1>2 DEF EndRestore, StopAtMaxIterations, Collect, Idle, EndIteration
<1>3. CASE Iterate
  BY <1>3 DEF Iterate
<1>4. CASE EndPass
  BY <1>4 DEF EndPass, Sched!EndPass, Sched!taskVars
<1>7. ASSUME NEW t \in Task, Restore(t) PROVE DagInv'
  BY <1>7 DEF Restore, Sched!MarkCompleted
<1>8. ASSUME NEW t \in Task, PassOver(t) PROVE DagInv'
  BY <1>8 DEF PassOver
<1>9. ASSUME NEW t \in Task, Visit(t) PROVE DagInv'
  BY <1>9 DEF Visit, Sched!Visit, Sched!Skip, Sched!Backoff, Sched!Start, Sched!FailPermanent,
     Sched!FailExhausted, Sched!Defer, Sched!Conflicted, Sched!taskVars
<1>10. ASSUME NEW t \in Task, Execute(t) PROVE DagInv'
  BY <1>10 DEF Execute
<1>11. CASE RunTask \/ Recovery
  <2>1. CASE Midway
    BY <2>1 DEF Midway
  <2>2. CASE EndsWell
    BY <2>2 DEF EndsWell, Sched!MarkCompleted
  <2>3. CASE EndsBadly
    BY <2>3 DEF EndsBadly, Sched!MarkFailed
  <2> QED
    BY <1>11, <2>1, <2>2, <2>3, TaskSteps
<1>12. CASE Crash
  BY <1>12 DEF Crash
<1>13. ASSUME NEW t \in Task, Elapse(t) PROVE DagInv'
  BY <1>13 DEF Elapse, Sched!Elapse
<1>14. CASE UNCHANGED vars
  BY <1>14 DEF vars
<1> QED
  BY <1>1, <1>2, <1>3, <1>4, <1>7, <1>8, <1>9, <1>10, <1>11, <1>12, <1>13, <1>14
     DEF Next, Coordinate, Loop, Done

(* A completed task stays completed; each step of run_task finds the state  *)
(* the one before has set.                                                 *)
LEMMA StateStep == IInv /\ [Next]_vars => StateInv'
<1> SUFFICES ASSUME IInv, [Next]_vars PROVE StateInv'
  OBVIOUS
<1> USE DEF IInv, Typed, TypeOK, Sched!TypeOK, ControlInv, RecordInv, StateInv, InTask, Goto,
        schedVars, loopVars, runVars, config
<1>1. CASE RegisterMissingTasks
  BY <1>1 DEF RegisterMissingTasks
<1>2. CASE EndRestore \/ StopAtMaxIterations \/ Collect \/ Idle \/ EndIteration
  <2>1. UNCHANGED <<status, states>> /\ pc' \in {"iterate", "done", "batch"}
    BY <1>2 DEF EndRestore, StopAtMaxIterations, Collect, Idle, EndIteration
  <2> QED
    BY <2>1
<1>3. CASE Iterate
  BY <1>3 DEF Iterate
<1>4. CASE EndPass
  BY <1>4 DEF EndPass, Sched!EndPass, Sched!taskVars, Terminal
<1>5. ASSUME NEW t \in Task, Restore(t) PROVE StateInv'
  BY <1>5 DEF Restore, Sched!MarkCompleted, SetState
<1>6. ASSUME NEW t \in Task, PassOver(t) PROVE StateInv'
  BY <1>6 DEF PassOver
<1>7. ASSUME NEW t \in Task, Visit(t) PROVE StateInv'
  BY <1>7 DEF Visit, Sched!Visit, Sched!Skip, Sched!Backoff, Sched!Start, Sched!FailPermanent,
     Sched!FailExhausted, Sched!Defer, Sched!Conflicted, Sched!taskVars
<1>8. ASSUME NEW t \in Task, Execute(t) PROVE StateInv'
  BY <1>8 DEF Execute
<1>9. CASE RunTask \/ Recovery
  <2>1. \A t \in Task : /\ status'[t] = "completed" => states'[t] = "completed"
                        /\ states'[t] # "blocked_repair"
    <3>1. CASE Midway
      BY <3>1 DEF Midway
    <3>2. CASE EndsWell
      BY <3>2 DEF EndsWell, Sched!MarkCompleted
    <3>3. CASE EndsBadly
      BY <3>3 DEF EndsBadly, Sched!MarkFailed
    <3> QED
      BY <1>9, <3>1, <3>2, <3>3, TaskSteps
  <2> DEFINE AtTask == /\ pc' = "attempt" => states'[current'] = "implementing"
                       /\ pc' = "verifying" => states'[current'] = "verifying"
                       /\ pc' = "completed" => states'[current'] = "completed"
                       /\ pc' = "decide" /\ recovered' =>
                             states'[current'] \in {"completed", "blocked_hitl"}
  <2>2. CASE RunTask
    <3>1. Begin \/ AttemptSucceeds \/ Verify => AtTask
      BY DEF Begin, AttemptSucceeds, Verify, SetState
    <3>2. AttemptFails => AtTask
      BY DEF AttemptFails
    <3>3. Succeed => AtTask
      BY DEF Succeed
    <3>4. BeginRefused \/ LoadFails \/ AttemptsExhausted \/ SaveFails \/ Fail \/ FailRefused
             \/ SaveFailed => AtTask
      BY DEF BeginRefused, LoadFails, AttemptsExhausted, SaveFails, Fail, FailRefused,
         SaveFailed, Raise
    <3>5. AtTask
      BY <2>2, <3>1, <3>2, <3>3, <3>4 DEF RunTask
    <3> QED
      BY <2>1, <3>5
  <2>3. CASE Recovery
    <3> USE DEF recoveryVars, Recover, TrySetState, SetState
    <3>1. NoRecovery \/ Retry \/ NothingToRestore \/ RepairFails \/ Block => AtTask
      BY DEF NoRecovery, Retry, NothingToRestore, RepairFails, Block
    <3>2. Repaired => AtTask
      BY DEF Repaired
    <3>3. HandOver => AtTask
      BY DEF HandOver
    <3>4. Decide => AtTask
      BY DEF Decide
    <3>5. AtTask
      BY <2>3, <3>1, <3>2, <3>3, <3>4 DEF Recovery
    <3> QED
      BY <2>1, <3>5
  <2> QED
    BY <1>9, <2>2, <2>3
<1>10. CASE Crash
  BY <1>10, NoneAssumption DEF Crash, TaskState
<1>11. ASSUME NEW t \in Task, Elapse(t) PROVE StateInv'
  BY <1>11 DEF Elapse, Sched!Elapse
<1>12. CASE UNCHANGED vars
  BY <1>12 DEF vars
<1> QED
  BY <1>1, <1>2, <1>3, <1>4, <1>5, <1>6, <1>7, <1>8, <1>9, <1>10, <1>11, <1>12
     DEF Next, Coordinate, Loop, Done

(* Iterate has cleared the backoff of every runnable task, and a visit      *)
(* takes a runnable task from the queue only to start it.                  *)
LEMMA PassStep == IInv /\ [Next]_vars => PassInv'
<1> SUFFICES ASSUME IInv, [Next]_vars PROVE PassInv'
  OBVIOUS
<1> USE CoordinatorAssumption DEF CoordinatorAssumption, IInv, Typed, TypeOK, Sched!TypeOK,
        ControlInv, RecordInv, PassInv, Runnable, Clean, InTask, Goto, schedVars, loopVars,
        runVars, config
<1>1. CASE pc' \notin {"pass", "collect", "done"}
  BY <1>1
<1>2. CASE Iterate
  <2>1. ASSUME NEW t \in Task, Runnable(t)'
        PROVE  t \in execution_queue' \ backingOff' /\ (Clean' => states'[t] = "ready")
    <3>1. /\ pc = "iterate"
          /\ UNCHANGED <<status, needs, dag, execution_queue, faults, durable, resuming>>
          /\ status[t] = "pending" /\ \A d \in needs[t] : status[d] = "completed"
      BY <1>2, <2>1 DEF Iterate, envVars
    <3>2. t \in Ready
      BY <3>1 DEF Ready, DagInv
    <3>3. t \notin backingOff'
      BY <1>2, <3>1, <3>2 DEF Iterate
    <3>4. t \in execution_queue
      BY <3>1
    <3>5. Clean => states[t] \in Waiting
      BY <3>1 DEF CleanInv
    <3>6. Clean' => states'[t] = "ready"
      BY <1>2, <3>1, <3>2, <3>5 DEF Iterate, Waiting
    <3> QED
      BY <3>1, <3>3, <3>4, <3>6
  <2> QED
    BY <1>2, <2>1 DEF Iterate
<1>3. ASSUME NEW t \in Task, Visit(t) PROVE PassInv'
  <2>1. /\ pc = "pass" /\ pc' = "pass"
        /\ UNCHANGED <<needs, dependencies, states, faults, durable, resuming>>
    BY <1>3 DEF Visit, envVars, Sched!Visit, Sched!Skip, Sched!Backoff, Sched!Start,
       Sched!FailPermanent, Sched!FailExhausted, Sched!Defer, Sched!Conflicted, Sched!taskVars
  <2>2. ASSUME NEW u \in Task, Runnable(u)'
        PROVE  u \in execution_queue' \ backingOff'
    <3>1. \A d \in Task : status'[d] = "completed" => status[d] = "completed"
      BY <1>3 DEF Visit, Sched!Visit, Sched!Skip, Sched!Backoff, Sched!Start,
       Sched!FailPermanent, Sched!FailExhausted, Sched!Defer, Sched!Conflicted, Sched!taskVars
    <3>2. status'[u] = "pending" => status[u] = "pending"
      BY <1>3 DEF Visit, Sched!Visit, Sched!Skip, Sched!Backoff, Sched!Start,
       Sched!FailPermanent, Sched!FailExhausted, Sched!Defer, Sched!Conflicted, Sched!taskVars
    <3>3. Runnable(u) /\ needs[u] \subseteq Task
      BY <2>1, <2>2, <3>1, <3>2
    <3>4. u \in execution_queue \ backingOff
      BY <2>1, <3>3
    <3>5. CASE u # t
      BY <1>3, <3>4, <3>5 DEF Visit, Sched!Visit, Sched!Skip, Sched!Backoff, Sched!Start,
         Sched!FailPermanent, Sched!FailExhausted, Sched!Defer, Sched!Conflicted, Sched!Pop,
         Sched!taskVars
    <3>6. CASE u = t
      <4>1. status[t] = "pending" /\ t \notin backingOff
            /\ \A d \in dependencies[t] : status[d] = "completed"
        BY <2>1, <3>3, <3>4, <3>6
      <4>2. Sched!Start(t)
        <5>1. Sched!Conflicts(t) = {}
          BY <4>1 DEF Sched!Conflicts
        <5>2. ~Sched!Skip(t) /\ ~Sched!Backoff(t) /\ ~Sched!Conflicted(t)
          BY <4>1, <5>1 DEF Sched!Skip, Sched!Backoff, Sched!Conflicted
        <5> QED
          BY <1>3, <5>2, Zenon DEF Visit, Sched!Visit, Sched!FailPermanent, Sched!FailExhausted,
             Sched!Defer
      <4> QED
        BY <2>2, <3>6, <4>2 DEF Sched!Start
    <3> QED
      BY <3>5, <3>6
  <2>3. ASSUME NEW u \in Task, Runnable(u)' PROVE Runnable(u)
    BY <1>3, <2>1, <2>3 DEF Visit, Sched!Visit, Sched!Skip, Sched!Backoff, Sched!Start,
       Sched!FailPermanent, Sched!FailExhausted, Sched!Defer, Sched!Conflicted, Sched!taskVars
  <2> QED
    BY <2>1, <2>2, <2>3
<1>4. CASE EndPass
  <2>1. ASSUME running_tasks = {}, MaxConcurrent # 0 PROVE execution_queue = {}
    <3>1. Cardinality(running_tasks) = 0 /\ MaxConcurrent \in Nat
      BY <2>1, FS_EmptySet
    <3>2. execution_queue = {} \/ Cardinality(running_tasks) >= MaxConcurrent
      <4>1. Sched!Cardinality(running_tasks) = Cardinality(running_tasks)
        BY Zenon DEF Sched!Cardinality, Cardinality
      <4> QED
        BY <1>4, <4>1, Zenon DEF EndPass, Sched!EndPass
    <3> QED
      BY <2>1, <3>1, <3>2
  <2> QED
    BY <1>4, <2>1 DEF EndPass, Sched!EndPass, Sched!taskVars
<1>5. CASE StopAtMaxIterations \/ Idle \/ EndIteration
  <2>1. /\ pc' \in {"iterate", "done"}
        /\ UNCHANGED <<status, needs, iteration, max_iterations>>
    BY <1>5 DEF StopAtMaxIterations, Idle, EndIteration
  <2>2. pc' = "done" => \/ iteration = max_iterations \/ AllTerminal
                        \/ pc = "collect" /\ running_tasks = {}
    BY <1>5 DEF StopAtMaxIterations, Idle, EndIteration
  <2> QED
    BY <2>1, <2>2 DEF AllTerminal
<1>6. ASSUME NEW t \in Task, Elapse(t) PROVE PassInv'
  <2>1. /\ UNCHANGED <<status, needs, execution_queue, states, faults, durable, resuming, pc,
                      running_tasks, iteration, max_iterations>>
        /\ backingOff' \subseteq backingOff
    BY <1>6 DEF Elapse, Sched!Elapse, envVars, Sched!queueVars
  <2> QED
    BY <2>1
<1>7. CASE UNCHANGED vars
  BY <1>7 DEF vars, envVars
<1>8. CASE \/ RegisterMissingTasks \/ EndRestore \/ Collect \/ RunTask \/ Recovery \/ Crash
           \/ \E t \in Task : Restore(t) \/ PassOver(t) \/ Execute(t)
  <2>1. pc' \notin {"pass", "collect", "done"}
    BY <1>8, TaskSteps DEF RegisterMissingTasks, EndRestore, Collect, Crash, Restore, PassOver,
       Execute, Midway, EndsWell, EndsBadly
  <2> QED
    BY <1>1, <2>1
<1> QED
  BY <1>2, <1>3, <1>4, <1>5, <1>6, <1>7, <1>8 DEF Next, Coordinate, Loop, Done

(* A completed checkpoint is saved only for a task that is completed, and   *)
(* a restart does not leave the restoring before it has honoured it.       *)
LEMMA PersistStep == IInv /\ [Next]_vars => PersistInv'
<1> SUFFICES ASSUME IInv, [Next]_vars PROVE PersistInv'
  OBVIOUS
<1> USE CoordinatorAssumption DEF CoordinatorAssumption, IInv, Typed, TypeOK, Sched!TypeOK,
        ControlInv, RecordInv, StateInv, PersistInv, InTask, Goto, Fault,
        schedVars, loopVars, runVars, config, envVars
<1>1. CASE RegisterMissingTasks
  BY <1>1, NoneAssumption DEF RegisterMissingTasks, TaskState
<1>2. CASE EndRestore \/ StopAtMaxIterations \/ Collect \/ Idle \/ EndIteration
  <2>1. /\ UNCHANGED <<status, states, checkpoint, durable, faults>>
        /\ pc \notin {"start", "decide"} /\ (pc = "restore" => toRestore = {})
    BY <1>2 DEF EndRestore, StopAtMaxIterations, Collect, Idle, EndIteration
  <2> QED
    BY <2>1
<1>3. CASE Iterate
  BY <1>3 DEF Iterate
<1>4. CASE EndPass
  BY <1>4 DEF EndPass, Sched!EndPass, Sched!taskVars, Terminal
<1>5. ASSUME NEW t \in Task, Restore(t) PROVE PersistInv'
  BY <1>5 DEF Restore, Sched!MarkCompleted, SetState
<1>6. ASSUME NEW t \in Task, PassOver(t) PROVE PersistInv'
  <2>1. /\ pc = "restore" /\ pc' = "restore" /\ toRestore' = toRestore \ {t}
        /\ UNCHANGED <<status, states, checkpoint, durable>>
    BY <1>6 DEF PassOver
  <2>2. faults' = 0 => faults = 0 /\ checkpoint[t] # "completed"
    BY <1>6 DEF PassOver
  <2> QED
    BY <2>1, <2>2
<1>7. ASSUME NEW t \in Task, Visit(t) PROVE PersistInv'
  BY <1>7 DEF Visit, Sched!Visit, Sched!Skip, Sched!Backoff, Sched!Start, Sched!FailPermanent,
     Sched!FailExhausted, Sched!Defer, Sched!Conflicted, Sched!taskVars
<1>8. ASSUME NEW t \in Task, Execute(t) PROVE PersistInv'
  BY <1>8 DEF Execute
<1>9. CASE RunTask \/ Recovery
  <2>1. CASE Succeed
    <3>1. /\ pc = "completed" /\ current \in Task /\ states[current] = "completed"
          /\ checkpoint' = [checkpoint EXCEPT ![current] = "completed"]
          /\ UNCHANGED <<states, durable, faults, current>>
      BY <2>1 DEF Succeed, execVars
    <3>2. \/ status' = [status EXCEPT ![current] = "completed"]
          \/ pc' = "decide" /\ recovered' /\ UNCHANGED status
      BY <2>1 DEF Succeed, Sched!MarkCompleted
    <3>3. \A t \in Task : durable /\ checkpoint'[t] = "completed" => states'[t] = "completed"
      BY <3>1
    <3>4. ASSUME faults = 0, NEW t \in Task, checkpoint'[t] = "completed"
          PROVE  \/ status'[t] = "completed"
                 \/ pc' = "decide" /\ t = current /\ recovered' /\ states[t] = "completed"
      BY <3>1, <3>2, <3>4
    <3> QED
      BY <3>1, <3>3, <3>4
  <2>2. CASE Decide
    <3>1. UNCHANGED <<checkpoint, durable, faults>> /\ pc = "decide" /\ pc' = "batch"
      BY <2>2 DEF Decide, execVars
    <3>2. CASE EndsWell
      BY <3>1, <3>2 DEF EndsWell, Sched!MarkCompleted
    <3>3. CASE EndsBadly
      BY <3>1, <3>3 DEF EndsBadly, Sched!MarkFailed, Terminal
    <3> QED
      BY <1>9, <3>1, <3>2, <3>3, TaskSteps DEF Midway
  <2>3. CASE ~Succeed /\ ~Decide
    <3> USE <1>9, <2>3 DEF RunTask, Recovery, Begin, BeginRefused, LoadFails, AttemptSucceeds,
            AttemptFails, AttemptsExhausted, Verify, SaveFails, Fail, FailRefused, SaveFailed,
            NoRecovery, Retry, NothingToRestore, Repaired, RepairFails, HandOver, Block, Raise,
            Recover, recoveryVars
    <3>1. pc' # "batch"
      OBVIOUS
    <3>2. \A t \in Task : checkpoint'[t] = "completed" => checkpoint[t] = "completed"
      OBVIOUS
    <3>3. faults' = 0 => faults = 0
      OBVIOUS
    <3>4. Midway
      BY ONLY <1>9, <3>1, TaskSteps, IInv DEF EndsWell, EndsBadly
    <3> QED
      BY ONLY <3>2, <3>3, <3>4, IInv DEF Midway, IInv, PersistInv, Typed, TypeOK, InTask,
         config, loopVars, schedVars
  <2> QED
    BY <2>1, <2>2, <2>3
<1>10. CASE Crash
  BY <1>10 DEF Crash
<1>11. ASSUME NEW t \in Task, Elapse(t) PROVE PersistInv'
  BY <1>11 DEF Elapse, Sched!Elapse
<1>12. CASE UNCHANGED vars
  BY <1>12 DEF vars
<1> QED
  BY <1>1, <1>2, <1>3, <1>4, <1>5, <1>6, <1>7, <1>8, <1>9, <1>10, <1>11, <1>12
     DEF Next, Coordinate, Loop, Done

(* Without faults, and without states that outlived a crash, no transition  *)
(* of run_task or of a recovery is refused that would part the views.      *)
LEMMA CleanStep == IInv /\ [Next]_vars => CleanInv'
<1> SUFFICES ASSUME IInv, [Next]_vars, Clean' PROVE CleanInv'
  BY DEF CleanInv
<1> USE DEF IInv, Typed, TypeOK, Sched!TypeOK, ControlInv, RecordInv, StateInv, CleanInv, Clean,
        InTask, Waiting, Over, Goto, Fault, schedVars, loopVars, runVars, config, envVars
<1>0. faults = 0 /\ (Crash \/ Clean)
  <2>1. faults \in Nat /\ (faults' = faults \/ faults' = faults + 1)
    <3>1. CASE \E t \in Task : Elapse(t)
      BY <3>1 DEF Elapse
    <3>2. CASE Loop
      BY <3>2 DEF Loop, RegisterMissingTasks, EndRestore, Iterate, StopAtMaxIterations, EndPass,
         Collect, Idle, EndIteration, Restore, PassOver, Visit, Execute
    <3>3. CASE RunTask
      BY <3>3 DEF RunTask, Begin, BeginRefused, LoadFails, AttemptSucceeds, AttemptFails,
         AttemptsExhausted, Verify, Succeed, SaveFails, Fail, FailRefused, SaveFailed
    <3>4. CASE Recovery
      BY <3>4 DEF Recovery, NoRecovery, Retry, NothingToRestore, Repaired, RepairFails, HandOver,
         Block, Decide, recoveryVars
    <3>5. CASE Crash \/ Done \/ UNCHANGED vars
      BY <3>5 DEF Crash, Done, vars
    <3> QED
      BY <3>1, <3>2, <3>3, <3>4, <3>5 DEF Next, Coordinate
  <2>2. Crash \/ UNCHANGED <<durable, resuming>>
    <3>1. CASE \E t \in Task : Elapse(t)
      BY <3>1 DEF Elapse
    <3>2. CASE Loop
      BY <3>2 DEF Loop, RegisterMissingTasks, EndRestore, Iterate, StopAtMaxIterations, EndPass,
         Collect, Idle, EndIteration, Restore, PassOver, Visit, Execute
    <3>3. CASE RunTask \/ Recovery
      BY <3>3, TaskSteps DEF Midway, EndsWell, EndsBadly
    <3>4. CASE Done \/ UNCHANGED vars
      BY <3>4 DEF Done, vars
    <3> QED
      BY <3>1, <3>2, <3>3, <3>4 DEF Next, Coordinate
  <2> QED
    BY <2>1, <2>2
<1>1. CASE RegisterMissingTasks
  BY <1>0, <1>1, NoneAssumption DEF RegisterMissingTasks, TaskState
<1>2. CASE EndRestore \/ StopAtMaxIterations \/ Collect \/ Idle \/ EndIteration
  <2>1. /\ UNCHANGED <<status, states>>
        /\ pc \notin InTask \union {"pass", "start"} /\ pc' \notin InTask \union {"pass", "start"}
    BY <1>2 DEF EndRestore, StopAtMaxIterations, Collect, Idle, EndIteration
  <2>2. Clean
    BY ONLY <1>0, <2>1 DEF Crash
  <2> QED
    BY ONLY <2>1, <2>2, IInv DEF IInv, CleanInv, InTask
<1>3. CASE Iterate
  BY <1>0, <1>3 DEF Iterate
<1>4. CASE EndPass
  BY <1>0, <1>4 DEF EndPass, Sched!EndPass, Sched!taskVars, Terminal
<1>5. ASSUME NEW t \in Task, Restore(t) PROVE CleanInv'
  BY <1>0, <1>5 DEF Restore, Sched!MarkCompleted, SetState
<1>6. ASSUME NEW t \in Task, PassOver(t) PROVE CleanInv'
  BY <1>0, <1>6 DEF PassOver
<1>7. ASSUME NEW t \in Task, Visit(t) PROVE CleanInv'
  <2>1. CASE Sched!Start(t)
    <3>1. Runnable(t)
      BY <1>7, <2>1 DEF Visit, Sched!Start, Sched!Conflicts, Runnable
    <3>2. states[t] = "ready"
      BY <1>0, <1>7, <3>1 DEF Visit, PassInv
    <3> QED
      BY <1>0, <1>7, <2>1, <3>2 DEF Visit, Sched!Start
  <2>2. CASE Sched!FailPermanent(t) \/ Sched!FailExhausted(t)
    BY <1>0, <1>7, <2>2 DEF Visit, Sched!FailPermanent, Sched!FailExhausted, Sched!Conflicted
  <2>3. CASE Sched!Skip(t) \/ Sched!Backoff(t) \/ Sched!Defer(t)
    BY <1>0, <1>7, <2>3 DEF Visit, Sched!Skip, Sched!Backoff, Sched!Defer, Sched!taskVars
  <2> QED
    BY <1>7, <2>1, <2>2, <2>3 DEF Visit, Sched!Visit
<1>8. ASSUME NEW t \in Task, Execute(t) PROVE CleanInv'
  BY <1>0, <1>8 DEF Execute
<1>9. CASE RunTask \/ Recovery
  <2> DEFINE Settled(t) ==
               /\ status'[t] = "pending" => states'[t] \in Waiting
               /\ status'[t] = "running" => states'[t] = "ready"
               /\ status'[t] = "failed" => states'[t] \in Over
             AtTask ==
               /\ pc' = "begin" => states'[current'] = IF caller' = "coordinator" THEN "ready"
                                                                                ELSE "failed"
               /\ pc' = "failing" => states'[current'] \in {"verifying", "failed"}
               /\ pc' \in {"failed", "recover"} => states'[current'] = "failed"
               /\ pc' = "unrecovered" => states'[current'] \in Over
               /\ pc' = "decide" /\ ~recovered' => states'[current'] \in Over
  <2>0. pc \in InTask /\ pc' # "start" /\ Clean /\ faults = 0
    BY <1>0, <1>9, TaskSteps DEF Midway, EndsWell, EndsBadly, Crash
  <2>1. \A t \in Task : ~(pc' \in InTask /\ t = current') => Settled(t)
    <3>1. CASE Midway
      BY <2>0, <3>1 DEF Midway
    <3>2. CASE EndsWell
      BY <2>0, <3>2 DEF EndsWell, Sched!MarkCompleted
    <3>3. CASE EndsBadly
      <4>1. states[current] \in Over /\ current \in Task
        BY <2>0, <3>3 DEF EndsBadly
      <4>2. states'[current] \in Over /\ \A t \in Task \ {current} : states'[t] = states[t]
        BY <3>3, <4>1 DEF EndsBadly
      <4> QED
        BY <2>0, <3>3, <4>1, <4>2 DEF EndsBadly, Sched!MarkFailed
    <3> QED
      BY <1>9, <3>1, <3>2, <3>3, TaskSteps
  <2>2. current \in Task /\ states[current] \in TaskState \ {"blocked_repair"}
    BY <2>0
  <2>3. AtTask
    <3> USE <2>0, <2>2, StateFacts DEF SetState, TrySetState, execVars
    <3>1. Begin \/ AttemptSucceeds \/ AttemptFails \/ AttemptsExhausted \/ Verify => AtTask
      BY DEF Begin, AttemptSucceeds, AttemptFails, AttemptsExhausted, Verify
    <3>2. BeginRefused => AtTask
      BY DEF BeginRefused
    <3>3. ~LoadFails /\ ~SaveFails
      BY DEF LoadFails, SaveFails
    <3>4. Succeed => AtTask
      BY DEF Succeed
    <3>5. Fail \/ FailRefused \/ SaveFailed => AtTask
      BY DEF Fail, FailRefused, SaveFailed, Raise
    <3> USE DEF recoveryVars, Recover
    <3>6. NoRecovery \/ Retry \/ NothingToRestore => AtTask
      BY DEF NoRecovery, Retry, NothingToRestore
    <3>7. Repaired \/ RepairFails => AtTask
      <4>1. ASSUME Repaired \/ RepairFails PROVE states[current] = "failed"
        BY <4>1 DEF Repaired, RepairFails
      <4>2. CanTransition("failed", "completed")
        BY DEF CanTransition, EmergencyTransition, Terminal
      <4>3. ASSUME Repaired
            PROVE  pc' = "decide" /\ states'[current] = "completed" /\ recovered'
        <5>1. states' = [states EXCEPT ![current] = "completed"]
          BY <4>1, <4>2, <4>3 DEF Repaired
        <5>2. states'[current] = "completed"
          BY <5>1
        <5>3. pc' = "decide" /\ recovered' = (states'[current] = "completed")
          BY <4>3 DEF Repaired
        <5> QED
          BY <5>2, <5>3
      <4>4. RepairFails => pc' = "unrecovered" /\ states'[current] \in Over /\ UNCHANGED current
        BY <4>1 DEF RepairFails
      <4> QED
        BY <4>3, <4>4
    <3>8. HandOver \/ Block => AtTask
      BY DEF HandOver, Block
    <3>9. Decide => AtTask
      BY DEF Decide
    <3> QED
      BY <1>9, <3>1, <3>2, <3>3, <3>4, <3>5, <3>6, <3>7, <3>8, <3>9 DEF RunTask, Recovery
  <2> QED
    BY ONLY <2>0, <2>1, <2>3 DEF CleanInv, InTask
<1>10. CASE Crash
  BY <1>0, <1>10 DEF Crash
<1>11. ASSUME NEW t \in Task, Elapse(t) PROVE CleanInv'
  BY <1>0, <1>11 DEF Elapse, Sched!Elapse
<1>12. CASE UNCHANGED vars
  BY <1>0, <1>12 DEF vars
<1> QED
  BY <1>1, <1>2, <1>3, <1>4, <1>5, <1>6, <1>7, <1>8, <1>9, <1>10, <1>11, <1>12
     DEF Next, Coordinate, Loop, Done

----------------------------------------------------------------------------

(* IInv holds initially. *)
LEMMA IInvInit == Init => IInv
<1> SUFFICES ASSUME Init PROVE IInv
  OBVIOUS
<1>1. Typed
  BY TypeInit
<1>2. ControlInv /\ RecordInv /\ PassInv
  BY DEF Init, ControlInv, RecordInv, PassInv, InTask
<1>3. DagInv /\ PersistInv
  BY NoneAssumption DEF Init, DagInv, PersistInv, TaskState
<1>4. StateInv /\ CleanInv
  BY NoneAssumption DEF Init, StateInv, CleanInv, InTask, TaskState
<1> QED
  BY <1>1, <1>2, <1>3, <1>4 DEF IInv

(* IInv is inductive. *)
LEMMA IInvHolds == Spec => []IInv
<1>1. IInv /\ [Next]_vars => IInv'
  BY TypeStep, ControlStep, RecordStep, DagStep, StateStep, PersistStep, CleanStep, PassStep
     DEF IInv
<1> QED
  BY IInvInit, <1>1, PTL DEF Spec

(* Type correctness of every behaviour. *)
THEOREM TypeCorrect == Spec => []TypeOK
<1>1. IInv => TypeOK
  BY DEF IInv, Typed
<1> QED
  BY <1>1, IInvHolds, PTL

(* The scheduler, the DAG and the state machine agree between two tasks. *)
THEOREM ViewsAgreeBetweenTasks == Spec => []ViewsAgree
<1>1. IInv => ViewsAgree
  <2> SUFFICES ASSUME IInv, pc \in {"iterate", "collect", "batch", "done"}, Clean, NEW t \in Task
               PROVE  /\ (status[t] = "completed") <=> (dag[t] = "completed")
                      /\ (status[t] = "completed") <=> (states[t] = "completed")
                      /\ (status[t] = "failed") <=> (dag[t] = "failed")
                      /\ (status[t] = "failed") <=> (states[t] \in {"failed", "blocked_hitl"})
    BY DEF ViewsAgree, Clean
  <2>1. /\ status[t] \in {"pending", "running", "completed", "failed"}
    BY DEF IInv, Typed, TypeOK, Sched!TypeOK, Sched!Status, RecordInv
  <2>2. /\ (status[t] = "completed") <=> (dag[t] = "completed")
        /\ (status[t] = "failed") <=> (dag[t] = "failed")
    BY DEF IInv, DagInv
  <2>3. /\ status[t] = "pending" => states[t] \in Waiting
        /\ status[t] = "running" => states[t] = "ready"
        /\ status[t] = "failed" => states[t] \in Over
        /\ status[t] = "completed" => states[t] = "completed"
    BY DEF IInv, CleanInv, StateInv, InTask
  <2> QED
    BY <2>1, <2>2, <2>3 DEF Waiting, Over
<1> QED
  BY <1>1, IInvHolds, PTL

(* No task is run before everything it needs is completed. *)
THEOREM TasksRunAfterDependencies == Spec => []RunsAfterDependencies
<1>1. IInv => RunsAfterDependencies
  BY CoordinatorAssumption DEF CoordinatorAssumption, IInv, Typed, TypeOK, ControlInv, RecordInv,
     StateInv, InTask, RunsAfterDependencies
<1> QED
  BY <1>1, IInvHolds, PTL

(* With room for one task at least, no runnable task is left behind. *)
THEOREM NoRunnableTaskIsLeft == MaxConcurrent # 0 => (Spec => []NoRunnableTaskLeft)
<1> SUFFICES ASSUME MaxConcurrent # 0 PROVE Spec => []NoRunnableTaskLeft
  OBVIOUS
<1>1. IInv => NoRunnableTaskLeft
  BY DEF IInv, PassInv, Runnable, NoRunnableTaskLeft
<1> QED
  BY <1>1, IInvHolds, PTL

(* A task with a completed checkpoint is not run again. *)
THEOREM CheckpointsPreventReruns == Spec => CheckpointedNotRerun
<1> DEFINE NotRerun == \A t \in Task : checkpoint[t] = "completed" /\ faults = 0 /\ t \in attempted'
                           => t \in attempted
<1>1. IInv /\ [Next]_vars => [NotRerun]_vars
  <2> SUFFICES ASSUME IInv, [Next]_vars PROVE NotRerun
    OBVIOUS
  <2>1. CASE attempted' \subseteq attempted
    BY <2>1
  <2>2. CASE pc = "attempt" /\ attempted' = attempted \union {current}
    BY <2>2 DEF IInv, Typed, TypeOK, ControlInv, RecordInv, PersistInv, InTask
  <2>3. CASE Loop
    BY <2>1, <2>3 DEF Loop, RegisterMissingTasks, EndRestore, Iterate, StopAtMaxIterations, EndPass,
       Collect, Idle, EndIteration, Restore, PassOver, Visit, Execute, envVars
  <2>4. CASE RunTask
    BY <2>1, <2>2, <2>4 DEF RunTask, Begin, BeginRefused, LoadFails, AttemptSucceeds, AttemptFails,
       AttemptsExhausted, Verify, Succeed, SaveFails, Fail, FailRefused, SaveFailed
  <2>5. CASE Recovery
    BY <2>1, <2>5 DEF Recovery, NoRecovery, Retry, NothingToRestore, Repaired, RepairFails,
       HandOver, Block, Decide, recoveryVars
  <2>6. CASE Crash \/ (\E t \in Task : Elapse(t)) \/ UNCHANGED vars
    BY <2>1, <2>6 DEF Crash, Elapse, vars, envVars
  <2> QED
    BY <2>3, <2>4, <2>5, <2>6 DEF Next, Coordinate, Done
<1> QED
  BY <1>1, IInvHolds, PTL DEF Spec, CheckpointedNotRerun

----------------------------------------------------------------------------

(* The tasks a durable state machine says are completed. *)
Completed == {t \in Task : durable /\ states[t] = "completed"}

(* A step completes no task, or one whose needs are completed. *)
LEMMA ProgressStep ==
    ASSUME IInv, [Next]_vars
    PROVE  /\ UNCHANGED needs
           /\ \/ UNCHANGED Completed
              \/ \E t \in Task : /\ t \notin Completed /\ needs[t] \subseteq Completed
                                /\ Completed' = Completed \union {t}
<1> USE DEF IInv, Typed, TypeOK
<1> DEFINE Stutter == UNCHANGED needs /\ UNCHANGED Completed
<1>0. ASSUME UNCHANGED <<needs, durable, states>> PROVE Stutter
  BY <1>0 DEF Completed
<1>1. CASE RegisterMissingTasks
  BY <1>1, NoneAssumption DEF RegisterMissingTasks, config, Completed, TaskState
<1>2. CASE EndRestore \/ StopAtMaxIterations \/ Collect \/ Idle \/ EndIteration
  BY <1>0, <1>2 DEF EndRestore, StopAtMaxIterations, Collect, Idle, EndIteration, config
<1>3. CASE Iterate
  BY <1>3 DEF Iterate, config, Completed
<1>4. CASE EndPass
  BY <1>4 DEF EndPass, Sched!EndPass, Sched!taskVars, config, Completed, Terminal
<1>5. ASSUME NEW t \in Task, Restore(t) PROVE Stutter
  BY <1>5 DEF Restore, SetState, config, Completed, PersistInv
<1>6. ASSUME NEW t \in Task, PassOver(t) \/ Visit(t) \/ Execute(t) \/ Elapse(t) PROVE Stutter
  BY <1>0, <1>6 DEF PassOver, Visit, Execute, Elapse, config
<1>7. CASE RunTask \/ Recovery
  <2>1. CASE Midway
    <3>1. current \in Task /\ UNCHANGED <<needs, durable>>
      BY <2>1 DEF Midway, config
    <3>2. CASE states'[current] # "completed" \/ states[current] = "completed" \/ ~durable
      BY <2>1, <3>1, <3>2 DEF Midway, Completed
    <3>3. CASE states'[current] = "completed" /\ states[current] # "completed" /\ durable
      <4>1. needs[current] \subseteq Task
        BY <3>1, CoordinatorAssumption DEF CoordinatorAssumption
      <4>2. \A d \in needs[current] : states[d] = "completed"
        BY <2>1, <3>1, <4>1 DEF Midway, ControlInv, RecordInv, StateInv, InTask
      <4>3. current \notin Completed /\ needs[current] \subseteq Completed
        BY <3>3, <4>1, <4>2 DEF Completed
      <4>4. Completed' = Completed \union {current}
        BY <2>1, <3>1, <3>3 DEF Midway, Completed
      <4> QED
        BY <3>1, <4>3, <4>4
    <3> QED
      BY <3>2, <3>3
  <2>2. CASE EndsWell
    BY <1>0, <2>2 DEF EndsWell, config
  <2>3. CASE EndsBadly
    BY <2>3 DEF EndsBadly, config, Completed, Terminal
  <2> QED
    BY <1>7, <2>1, <2>2, <2>3, TaskSteps
<1>8. CASE Crash
  BY <1>8 DEF Crash, config, Completed
<1>9. CASE UNCHANGED vars
  BY <1>0, <1>9 DEF vars, config
<1> QED
  BY <1>1, <1>2, <1>3, <1>4, <1>5, <1>6, <1>7, <1>8, <1>9 DEF Next, Coordinate, Loop, Done

(* The workflow implements WorkflowProgress. *)
THEOREM CompletionOnlyGrows == Spec => ImplementsProgress
<1>1. Init => Progress!Init
  BY NoneAssumption DEF Init, Progress!Init, TaskState
<1>2. IInv /\ [Next]_vars =>
         [Progress!Next]_<<needs, {t \in Task : durable /\ states[t] = "completed"}>>
  BY ProgressStep DEF Progress!Next, Progress!Complete, Completed
<1> QED
  BY <1>1, <1>2, IInvHolds, PTL DEF Spec, ImplementsProgress, Progress!Spec
=============================================================================
