--------------------------- MODULE RecoveryEngine ---------------------------
(***************************************************************************)
(* agentManager/recovery/recovery_engine.py with all six strategies, on    *)
(* top of the defect repair pipeline (module DefectRepair).                *)
(*                                                                         *)
(* Tasks are run by TaskExecutor.run_task, for the coordinator or for a    *)
(* RETRY; recoveries are asked for by any caller, with any event and       *)
(* checkpoint.  One run or recovery is under way at a time.  Steps end     *)
(* where the code awaits the executor, the bus, the checkpoint store or    *)
(* the pipeline, and where it has written a state.  A crash may come       *)
(* between any two of them: it forgets contexts, registry and pipeline,    *)
(* and the states unless they have a repository; the log of events and the *)
(* checkpoints stay.                                                       *)
(*                                                                         *)
(* The log is the workflow's, as get_events returns it; the event bus is   *)
(* an asynchronous one (the engine awaits it).  Publishing may fail, and   *)
(* so may the checkpoint store while a task is run.                        *)
(***************************************************************************)
EXTENDS DefectRepair

CONSTANTS
    Configured, \* whether there is a defect repair pipeline
    Coded,     \* the tasks whose metadata holds their code
    MaxCalls,  \* bound: runs and recoveries in a behaviour
    MaxFaults, \* bound: calls of the bus and the store that fail
    MaxCrashes \* bound: crashes

ASSUME RecoveryAssumption ==
    /\ Configured \in BOOLEAN
    /\ Coded \subseteq Task
    /\ {MaxCalls, MaxFaults, MaxCrashes} \subseteq Nat

MAX_RETRY_ATTEMPTS == 3

Strategy == {"retry", "event_replay", "snapshot_restore", "defect_repair", "hitl", "escalate"}

(* select_recovery_strategy *)
Recommended == [timeout |-> "retry", network |-> "event_replay", syntax |-> "hitl",
                runtime |-> "snapshot_restore", unknown |-> "escalate"]

VARIABLES
    states,
    context,     \* execution_contexts: None or a status and whether a human was asked for
    registry,    \* _task_registry of the executor
    checkpoint,  \* the saved context
    log,         \* the events of the workflow
    recovery_history,  \* how many recoveries of a task were tracked
    \* the run or recovery under way
    pc, ctx, success, result,
    \* environment
    durable,     \* the state machine has a repository
    calls, faults, crashes

taskVars == <<states, context, registry, checkpoint, log>>
callVars == <<recovery_history, pc, ctx, success, result>>
envVars  == <<durable, calls, faults, crashes>>
vars == <<taskVars, callVars, envVars, repairVars>>

ContextStatus == {"pending", "implementing", "completed", "failed"}
Context == [status : ContextStatus, manual : BOOLEAN]

EventType == {"task_started", "task_completed", "task_failed", "task_blocked", "workflow_started"}
Event == [type : EventType, task : Task \union {None}]

(* RecoveryContext, with the position of its event in the log (0: none, or *)
(* unknown to the bus); without a strategy the coordinator's call of        *)
(* run_task.                                                                *)
Call == [task : Task, strategy : Strategy \union {None}, retry_count : {0, MAX_RETRY_ATTEMPTS},
         event : Nat, checkpoint_id : {None, "right", "wrong"}]

RunPhase == {"load", "begin", "execute", "verify", "save", "publish"}

TypeOK ==
    /\ RepairTypeOK
    /\ states \in [Task -> TaskState \union {None}]
    /\ context \in [Task -> Context \union {None}]
    /\ registry \subseteq Task
    /\ checkpoint \in [Task -> Context \union {None}]
    /\ log \in Seq(Event)
    /\ recovery_history \in [Task -> Nat]
    /\ pc \in {"idle", "act", "repair", "announce", "settle", "raised"} \union RunPhase
    /\ ctx \in Call \union {None}
    /\ success \in BOOLEAN /\ result \in BOOLEAN
    /\ durable \in BOOLEAN
    /\ calls \in Nat /\ faults \in Nat /\ crashes \in Nat

Init ==
    /\ RepairInit
    /\ states = [t \in Task |-> None]
    /\ context = [t \in Task |-> None]
    /\ registry = {}
    /\ checkpoint = [t \in Task |-> None]
    /\ log = <<[type |-> "workflow_started", task |-> None]>>
    /\ recovery_history = [t \in Task |-> 0]
    /\ pc = "idle" /\ ctx = None
    /\ success = FALSE /\ result = FALSE
    /\ durable \in BOOLEAN
    /\ calls = 0 /\ faults = 0 /\ crashes = 0

Fault == faults < MaxFaults /\ faults' = faults + 1

(* A bus that refuses an event is only logged. *)
Publish(type) ==
    \/ log' = Append(log, [type |-> type, task |-> ctx.task]) /\ UNCHANGED faults
    \/ Fault /\ UNCHANGED log

(* StateMachine.transition as a function of the state: None if it raises. *)
Transition(s, new) == IF s # None /\ CanTransition(s, new) THEN new ELSE None

(* Mutant: the replayed state is written without asking the table. *)
SafeTransition_unchecked(s, new) == new

(* _safe_transition: the task is initialized if need be, a refusal is      *)
(* swallowed.                                                              *)
SafeTransition(s, new) ==
    LET from == IF s = None THEN "pending" ELSE s
    IN  IF CanTransition(from, new) THEN new ELSE from

(* _get_or_create_execution_context *)
OwnContext(t) == IF context[t] = None THEN [status |-> "pending", manual |-> FALSE] ELSE context[t]

----------------------------------------------------------------------------
(* TaskExecutor.run_task for the task in hand.                             *)

Acted(ok) == success' = ok /\ pc' = "announce" /\ UNCHANGED <<recovery_history, ctx, result>>

(* run_task returns or raises: to the coordinator, or to the RETRY, for    *)
(* which that decides its answer.                                          *)
RunReturns(ok) ==
    IF ctx.strategy = None
    THEN pc' = "idle" /\ ctx' = None /\ success' = FALSE /\ UNCHANGED <<recovery_history, result>>
    ELSE Acted(ok)

MoveTo(state) == states' = [states EXCEPT ![ctx.task] = state]
Mark(status) == context' = [context EXCEPT ![ctx.task].status = status]

(* The task is registered and gets a new context and, if need be, a state. *)
StartRun(t) ==
    /\ registry' = registry \union {t}
    /\ context' = [context EXCEPT ![t] = [status |-> "implementing", manual |-> FALSE]]
    /\ states' = [states EXCEPT ![t] = IF @ = None THEN "pending" ELSE @]
    /\ pc' = "load"
    /\ UNCHANGED <<checkpoint, log, recovery_history, success, result>>

(* The error handler up to its next request.  From a terminal state the    *)
(* task cannot be marked failed: the handler raises before it saves or     *)
(* publishes.                                                              *)
HandleError ==
    /\ Mark("failed")
    /\ IF Transition(states[ctx.task], "failed") = None
       THEN RunReturns(FALSE) /\ UNCHANGED states
       ELSE /\ MoveTo("failed")
            /\ success' = FALSE
            /\ pc' = "save"
            /\ UNCHANGED <<recovery_history, ctx, result>>

(* The coordinator runs a task, in whatever state it is. *)
Run(t) ==
    /\ pc = "idle" /\ calls < MaxCalls
    /\ calls' = calls + 1
    /\ StartRun(t)
    /\ ctx' = [task |-> t, strategy |-> None, retry_count |-> 0, event |-> 0,
               checkpoint_id |-> None]
    /\ UNCHANGED <<durable, faults, crashes, repairVars>>

(* A checkpoint takes the place of the new context; the start is published. *)
LoadCheckpoint ==
    /\ pc = "load"
    /\ LET saved == checkpoint[ctx.task]
       IN  context' = [context EXCEPT ![ctx.task] = IF saved = None THEN @ ELSE saved]
    /\ Publish("task_started")
    /\ pc' = "begin"
    /\ UNCHANGED <<states, registry, checkpoint, recovery_history, ctx, success, result, durable,
                   calls, crashes, repairVars>>

LoadFails ==
    /\ pc = "load"
    /\ Fault
    /\ HandleError
    /\ UNCHANGED <<registry, checkpoint, log, durable, calls, crashes, repairVars>>

BeginRun ==
    /\ pc = "begin"
    /\ IF Transition(states[ctx.task], "implementing") = None
       THEN HandleError
       ELSE /\ MoveTo("implementing")
            /\ pc' = "execute"
            /\ UNCHANGED <<context, recovery_history, ctx, success, result>>
    /\ UNCHANGED <<registry, checkpoint, log, envVars, repairVars>>

(* The sandbox's last word, of one attempt or several. *)
Execution ==
    /\ pc = "execute"
    /\ MoveTo("verifying")
    /\ success' \in BOOLEAN
    /\ pc' = "verify"
    /\ UNCHANGED <<context, registry, checkpoint, log, recovery_history, ctx, result, envVars,
                   repairVars>>

Verification ==
    /\ pc = "verify"
    /\ LET end == IF success THEN "completed" ELSE "failed"
       IN  MoveTo(end) /\ Mark(end)
    /\ pc' = "save"
    /\ UNCHANGED <<registry, checkpoint, log, recovery_history, ctx, success, result, envVars,
                   repairVars>>

SaveCheckpoint ==
    /\ pc = "save"
    /\ checkpoint' = [checkpoint EXCEPT ![ctx.task] = context[ctx.task]]
    /\ pc' = "publish"
    /\ UNCHANGED <<states, context, registry, log, recovery_history, ctx, success, result, envVars,
                   repairVars>>

(* The completed task cannot be marked failed, and of one that has failed   *)
(* the handler saves only once: run_task raises.                           *)
SaveFails ==
    /\ pc = "save"
    /\ Fault
    /\ Mark("failed")
    /\ RunReturns(FALSE)
    /\ UNCHANGED <<states, registry, checkpoint, log, durable, calls, crashes, repairVars>>

PublishRun ==
    /\ pc = "publish"
    /\ Publish(IF success THEN "task_completed" ELSE "task_failed")
    /\ RunReturns(success)
    /\ UNCHANGED <<states, context, registry, checkpoint, durable, calls, crashes,
                   repairVars>>

RunStep ==
    \/ LoadCheckpoint \/ LoadFails \/ BeginRun \/ Execution \/ Verification
    \/ SaveCheckpoint \/ SaveFails \/ PublishRun

----------------------------------------------------------------------------
(* execute_recovery.                                                       *)

(* A recovery is asked for; without a strategy it takes the one that is    *)
(* recommended for the failure.                                            *)
ExecuteRecovery(t, strategy, n, i, id) ==
    /\ pc = "idle" /\ calls < MaxCalls
    /\ calls' = calls + 1
    /\ pc' = "act"
    /\ ctx' = [task |-> t, strategy |-> strategy, retry_count |-> n, event |-> i,
               checkpoint_id |-> id]
    /\ recovery_history' = [recovery_history EXCEPT ![t] = @ + 1]
    /\ success' = FALSE /\ result' = FALSE
    /\ UNCHANGED <<taskVars, durable, faults, crashes, repairVars>>

Ask(t) ==
    \/ \E f \in DOMAIN Recommended : ExecuteRecovery(t, Recommended[f], 0, 0, None)
    \/ \E n \in {0, MAX_RETRY_ATTEMPTS} : ExecuteRecovery(t, "retry", n, 0, None)
    \/ \E i \in 1 .. Len(log) : ExecuteRecovery(t, "event_replay", 0, i, None)
    \/ \E id \in {"right", "wrong"} : ExecuteRecovery(t, "snapshot_restore", 0, 0, id)
    \/ ExecuteRecovery(t, "defect_repair", 0, 0, None)

Acting(strategy) == pc = "act" /\ ctx.strategy = strategy

(* RETRY: not beyond the limit; a task the executor does not know is only   *)
(* marked as ready for a retry, any other is run at once.                   *)
Retry ==
    /\ Acting("retry")
    /\ LET t == ctx.task
       IN  \/ /\ ctx.retry_count >= MAX_RETRY_ATTEMPTS
              /\ Acted(FALSE)
              /\ UNCHANGED taskVars
           \/ /\ ctx.retry_count < MAX_RETRY_ATTEMPTS /\ t \notin registry
              /\ context' = [context EXCEPT ![t] = OwnContext(t)]
              /\ Acted(TRUE)
              /\ UNCHANGED <<states, registry, checkpoint, log>>
           \/ /\ ctx.retry_count < MAX_RETRY_ATTEMPTS /\ t \in registry
              /\ StartRun(t) /\ UNCHANGED ctx
    /\ UNCHANGED <<envVars, repairVars>>

(* _apply_event_to_execution_context: context and state are moved by the    *)
(* event, the context whether or not the state can follow; that a task was *)
(* blocked moves only the state.  Events of another task are skipped, and  *)
(* those of other types change nothing.                                    *)
ReplayedAs == [task_started |-> "implementing", task_completed |-> "completed",
               task_failed |-> "failed", task_blocked |-> "blocked_hitl"]

ApplyEvent(t, before, e) ==
    IF e.task # t \/ e.type \notin DOMAIN ReplayedAs
    THEN before
    ELSE [state  |-> SafeTransition(before.state, ReplayedAs[e.type]),
          status |-> IF e.type = "task_blocked" THEN before.status ELSE ReplayedAs[e.type]]

(* The events an EVENT_REPLAY takes: from its event on, those of the task   *)
(* and those of no task.                                                    *)
ReplayEvents(t, i) ==
    IF i = 0 THEN <<>> ELSE SelectSeq(SubSeq(log, i, Len(log)), LAMBDA e : e.task \in {t, None})

(* The loop over the events from position i to n. *)
Replay(t, i, n) ==
    LET replayed[j \in (i - 1) .. n] ==
            IF j = i - 1 THEN [state |-> states[t], status |-> OwnContext(t).status]
                         ELSE ApplyEvent(t, replayed[j - 1], log[j])
    IN  replayed[n]

EventReplay ==
    /\ Acting("event_replay")
    /\ LET t == ctx.task
           i == ctx.event
       IN  IF i = 0
           THEN Acted(FALSE) /\ UNCHANGED <<states, context>>
           ELSE LET after == Replay(t, i, Len(log))
                IN  /\ states' = [states EXCEPT ![t] = after.state]
                    /\ context' = [context EXCEPT
                                     ![t] = [OwnContext(t) EXCEPT !.status = after.status]]
                    /\ Acted(ReplayEvents(t, i) # <<>>)
    /\ UNCHANGED <<registry, checkpoint, log, envVars, repairVars>>

(* SNAPSHOT_RESTORE: the saved context takes the place of the present one. *)
SnapshotRestore ==
    /\ Acting("snapshot_restore")
    /\ LET t == ctx.task
       IN  IF checkpoint[t] # None /\ ctx.checkpoint_id = "right"
           THEN context' = [context EXCEPT ![t] = checkpoint[t]] /\ Acted(TRUE)
           ELSE Acted(FALSE) /\ UNCHANGED context
    /\ UNCHANGED <<states, registry, checkpoint, log, envVars, repairVars>>

(* DEFECT_REPAIR without a pipeline, or for a task without known code. *)
NothingToRepair ==
    /\ Acting("defect_repair")
    /\ ~Configured \/ ctx.task \notin registry \intersect Coded
    /\ context' = [context EXCEPT ![ctx.task] = OwnContext(ctx.task)]
    /\ Acted(FALSE)
    /\ UNCHANGED <<states, registry, checkpoint, log, envVars, repairVars>>

CallPipeline ==
    /\ Acting("defect_repair")
    /\ Configured /\ ctx.task \in registry \intersect Coded
    /\ context' = [context EXCEPT ![ctx.task] = OwnContext(ctx.task)]
    /\ \E e \in Error : BeginRepair(ctx.task, e)
    /\ pc' = "repair"
    /\ UNCHANGED <<states, registry, checkpoint, log, recovery_history, ctx, success,
                   result, envVars>>

(* The pipeline at work. *)
PipelineStep ==
    /\ pc = "repair"
    /\ RepairStep(ctx.task)
    /\ UNCHANGED <<taskVars, callVars, envVars>>

(* What is made of the pipeline's answer: a verified repair completes the   *)
(* task, an escalated one hands it to a human.                              *)
RepairReturns ==
    /\ pc = "repair"
    /\ LET t == ctx.task
           r == repair[t]
       IN  /\ EndRepair(t)
           /\ CASE r.status = "success" ->
                     /\ states' = [states EXCEPT ![t] = SafeTransition(@, "completed")]
                     /\ context' = [context EXCEPT ![t].status = "completed"]
                [] r.status = "escalated" ->
                     /\ states' = [states EXCEPT ![t] = SafeTransition(@, "blocked_hitl")]
                     /\ context' = [context EXCEPT ![t].manual = TRUE]
                [] OTHER -> UNCHANGED <<states, context>>
           /\ Acted(r.status = "success")
    /\ UNCHANGED <<registry, checkpoint, log, envVars>>

(* HITL and ESCALATE: the request for a human is recorded first; the task   *)
(* can be handed over unless it is finished.                                *)
HandOver ==
    /\ pc = "act" /\ ctx.strategy \in {"hitl", "escalate"}
    /\ LET t == ctx.task
       IN  /\ context' = [context EXCEPT ![t] = [OwnContext(t) EXCEPT !.manual = TRUE]]
           /\ IF Transition(states[t], "blocked_hitl") # None
              THEN states' = [states EXCEPT ![t] = "blocked_hitl"] /\ Acted(TRUE)
              ELSE UNCHANGED states /\ Acted(FALSE)
    /\ UNCHANGED <<registry, checkpoint, log, envVars, repairVars>>

(* Mutant: a recovery announces itself before it knows how it went. *)
Announce_optimist ==
    /\ pc = "announce"
    /\ Publish("task_completed")
    /\ pc' = "settle"
    /\ UNCHANGED <<states, context, registry, checkpoint, recovery_history, ctx,
                   success, result, durable, calls, crashes, repairVars>>

(* _publish_recovery_event, before the state is settled. *)
Announce ==
    /\ pc = "announce"
    /\ Publish(IF success THEN "task_completed" ELSE "task_failed")
    /\ pc' = "settle"
    /\ UNCHANGED <<states, context, registry, checkpoint, recovery_history, ctx,
                   success, result, durable, calls, crashes, repairVars>>

(* Mutant: a recovery that failed leaves the task where it is. *)
SettledState_leavesFailed(s) ==
    IF success
    THEN CASE ctx.strategy \in {"hitl", "escalate"} -> s
           [] ctx.strategy \notin {"hitl", "escalate"}
              /\ s \in {"completed", "ready", "blocked_repair"} -> s
           [] ctx.strategy \notin {"hitl", "escalate"} /\ s = "failed" -> "blocked_repair"
           [] OTHER -> Transition(s, "ready")
    ELSE s

(* Where the task of a recovery goes: _mark_recovery_ready after a success  *)
(* that did not hand it over, to a human after a failure.  None: a refused  *)
(* transition raises.                                                       *)
SettledState(s) ==
    IF success
    THEN CASE ctx.strategy \in {"hitl", "escalate"} -> s
           [] ctx.strategy \notin {"hitl", "escalate"}
              /\ s \in {"completed", "ready", "blocked_repair"} -> s
           [] ctx.strategy \notin {"hitl", "escalate"} /\ s = "failed" -> "blocked_repair"
           [] OTHER -> Transition(s, "ready")
    ELSE IF s = "blocked_hitl" THEN s ELSE Transition(s, "blocked_hitl")

(* Mutant: a refused transition is asked for until it is accepted. *)
Settle_untilAccepted ==
    /\ pc = "settle"
    /\ LET new == SettledState(states[ctx.task])
       IN  /\ new # None
           /\ states' = [states EXCEPT ![ctx.task] = new]
    /\ result' = success
    /\ pc' = "idle"
    /\ UNCHANGED <<context, registry, checkpoint, log, recovery_history, ctx, success,
                   envVars, repairVars>>

Settle ==
    /\ pc = "settle"
    /\ LET new == SettledState(states[ctx.task])
       IN  IF new # None
           THEN /\ states' = [states EXCEPT ![ctx.task] = new]
                /\ result' = success
                /\ pc' = "idle"
           ELSE pc' = "raised" /\ UNCHANGED <<states, result>>
    /\ UNCHANGED <<context, registry, checkpoint, log, recovery_history, ctx, success,
                   envVars, repairVars>>

(* The exception is reported as a failure of the recovery. *)
Raised ==
    /\ pc = "raised"
    /\ Publish("task_failed")
    /\ result' = FALSE
    /\ pc' = "idle"
    /\ UNCHANGED <<states, context, registry, checkpoint, recovery_history, ctx,
                   success, durable, calls, crashes, repairVars>>

(* What the repository may hold when the process ends: a replay writes the  *)
(* initial state and then event by event.                                  *)
Written ==
    LET t == ctx.task
    IN  IF Acting("event_replay") /\ ctx.event # 0
        THEN {[states EXCEPT ![t] = IF @ = None THEN "pending" ELSE @]}
             \union {[states EXCEPT ![t] = Replay(t, ctx.event, n).state] :
                         n \in ctx.event - 1 .. Len(log)}
        ELSE {states}

Crash ==
    /\ crashes < MaxCrashes
    /\ crashes' = crashes + 1
    /\ IF durable THEN states' \in Written ELSE states' = [t \in Task |-> None]
    /\ context' = [t \in Task |-> None]
    /\ registry' = {}
    /\ recovery_history' = [t \in Task |-> 0]
    /\ pc' = "idle" /\ ctx' = None /\ success' = FALSE /\ result' = FALSE
    /\ repair' = [t \in Task |-> Idle]
    /\ repair_history' = [t \in Task |-> <<>>]
    /\ experiences' = <<>>
    /\ memory' = [t \in Task |-> 0]
    /\ last_repaired_code' = [t \in Task |-> None]
    /\ executed' = [t \in Task |-> None]
    /\ executions' = [t \in Task |-> 0]
    /\ UNCHANGED <<checkpoint, log, durable, calls, faults>>

Recovery ==
    \/ RunStep \/ Retry \/ EventReplay \/ SnapshotRestore \/ NothingToRepair \/ CallPipeline
    \/ PipelineStep \/ RepairReturns \/ HandOver \/ Announce \/ Settle \/ Raised

Next == (\E t \in Task : Run(t) \/ Ask(t)) \/ Recovery \/ Crash

(* The coordinator awaits the run or recovery: its steps are taken. *)
Spec == Init /\ [][Next]_vars /\ WF_vars(Recovery)

----------------------------------------------------------------------------
Returned == pc = "idle" /\ ctx # None

(* The last event of a task whose recovery returned says what the recovery  *)
(* answered, also when its success was taken back by an exception, as long  *)
(* as no event was lost (recovery_engine.py:130, 172).                      *)
OutcomeIsAnnounced ==
    Returned /\ faults = 0 =>
        \E i \in DOMAIN log :
            /\ log[i] = [type |-> IF result THEN "task_completed" ELSE "task_failed",
                         task |-> ctx.task]
            /\ \A j \in DOMAIN log : log[j].task = ctx.task => j <= i

(* A recovery that answers FALSE leaves the task finished or with a human.  *)
(* Three kinds of tasks it leaves to nobody: those the state machine has   *)
(* never seen; and, where the strategy had succeeded and READY was refused, *)
(* those whose replayed events ended in the middle of a run and those whose *)
(* run a crash had cut off: the repository still has them implementing or   *)
(* verifying (recovery_engine.py:155-168, 737; task_executor.py:334-373).   *)
FailureIsHandedOver ==
    Returned /\ ~result =>
        \/ states[ctx.task] \in Terminal \union {None}
        \/ success /\ states[ctx.task] \in {"implementing", "verifying"}

(* Neither a replay of old events nor a rerun nor a late repair takes a     *)
(* task back from the human it was handed to, or undoes its completion; only *)
(* a crash forgets either (recovery_engine.py:688-716, 739-754).            *)
TerminalIsFinal ==
    [][\A t \in Task : states[t] \in Terminal =>
           states'[t] = states[t] \/ (crashes' # crashes /\ ~durable)]_vars

(* Every recovery comes to its end: the retries of a repair are bounded and *)
(* an exception is reported once (recovery_engine.py:99-181).               *)
RecoveriesEnd == (pc # "idle") ~> (pc = "idle")
=============================================================================
