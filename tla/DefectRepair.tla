---------------------------- MODULE DefectRepair ----------------------------
(***************************************************************************)
(* agentManager/defect_repair/repair_pipeline.py with its classifier and   *)
(* strategies, and TaskExecutor.execute, through which it runs repaired    *)
(* code.                                                                   *)
(*                                                                         *)
(* A repair is a coroutine that suspends at every execution in the sandbox *)
(* and between L1's attempts, so repairs of different tasks interleave;    *)
(* the pipeline's history, its experiences and the executor's contexts are *)
(* shared.  Program text is one of three codes: the task's own, what a     *)
(* template makes of it and what the reviewing agents make of it.          *)
(***************************************************************************)
EXTENDS TaskStates, Sequences, FiniteSets, Integers

CONSTANTS
    Task,
    Error      \* the error messages that are met: what they match and what they name

Code == {"original", "templated", "wrapped"}

RepairLevel == {"L1", "L2", "L3", "L4"}

(* DefectClassifier's built-in patterns, in the order they are registered. *)
Patterns == <<[name |-> "SyntaxError", level |-> "L1"], [name |-> "TypeError", level |-> "L1"],
              [name |-> "AttributeError", level |-> "L1"], [name |-> "AssertionError", level |-> "L2"],
              [name |-> "ValueError", level |-> "L2"], [name |-> "KeyError", level |-> "L2"],
              [name |-> "MemoryError", level |-> "L3"], [name |-> "TimeoutError", level |-> "L3"],
              [name |-> "ImportError", level |-> "L4"], [name |-> "CircularDependency", level |-> "L4"]>>

Templates == {"KeyError", "ValueError", "AttributeError", "IndexError", "TypeError",
              "AssertionError"}

(* An error message matches some patterns and may name its type with a      *)
(* colon after it, which is what L2 looks for.                              *)
ASSUME RepairAssumption ==
    /\ None \notin RepairLevel
    /\ \A e \in Error : /\ e.matches \subseteq {Patterns[i].name : i \in DOMAIN Patterns}
                        /\ e.named \in Templates \union {None, "SyntaxError", "MemoryError"}

MAX_RETRIES == 3  \* of L1

Status == {"success", "failed", "escalated"}

VARIABLES
    repair,          \* the repair of each task that is under way
    repair_history,  \* _repair_history
    experiences,     \* _experiences, as the tasks and statuses they are about
    memory,          \* how many experiences of a task reached the memory system
    last_repaired_code,  \* executor: metadata of the task's context
    \* bookkeeping
    executed,        \* the last execution of repaired code of each task
    executions       \* how many there were in this repair

repairVars == <<repair, repair_history, experiences, memory, last_repaired_code, executed,
                executions>>

Idle == [phase |-> "idle", error |-> None, level |-> None, attempts |-> 0,
         status |-> "failed", code |-> None]

Result == [status : Status, code : Code \union {None}, attempts : 0 .. MAX_RETRIES]

RepairTypeOK ==
    /\ repair \in [Task -> [phase : {"idle", "strategy", "verify", "store", "done"},
                            error : Error \union {None}, level : RepairLevel \union {None},
                            attempts : 0 .. MAX_RETRIES, status : Status,
                            code : Code \union {None}]]
    /\ repair_history \in [Task -> Seq(Result)]
    /\ experiences \in Seq([task : Task, status : Status])
    /\ memory \in [Task -> Nat]
    /\ last_repaired_code \in [Task -> Code \union {None}]
    /\ executed \in [Task -> [code : Code, passed : BOOLEAN] \union {None}]
    /\ executions \in [Task -> Nat]

RepairInit ==
    /\ repair = [t \in Task |-> Idle]
    /\ repair_history = [t \in Task |-> <<>>]
    /\ experiences = <<>>
    /\ memory = [t \in Task |-> 0]
    /\ last_repaired_code = [t \in Task |-> None]
    /\ executed = [t \in Task |-> None]
    /\ executions = [t \in Task |-> 0]

(* classify_error: the first registered pattern that matches decides; what  *)
(* matches none is a logic error.                                           *)
ClassifyError(e) ==
    LET matching == {i \in DOMAIN Patterns : Patterns[i].name \in e.matches}
    IN  IF matching = {} THEN "L2"
        ELSE Patterns[CHOOSE i \in matching : \A j \in matching : i <= j].level

Step(t, phase, status, code, attempts) ==
    repair' = [repair EXCEPT ![t].phase = phase, ![t].status = status, ![t].code = code,
                             ![t].attempts = attempts]

(* TaskExecutor.execute: the sandbox may raise, or run the code to a result *)
(* that is verified or not.  A rejected result leaves the code that was     *)
(* last accepted in the context.                                            *)
Execute(t, code, outcome) ==
    /\ executions' = [executions EXCEPT ![t] = @ + 1]
    /\ executed' = [executed EXCEPT ![t] = [code |-> code, passed |-> outcome = "accepted"]]
    /\ last_repaired_code' =
          IF outcome = "accepted" THEN [last_repaired_code EXCEPT ![t] = code]
                                  ELSE last_repaired_code

Outcome == {"accepted", "rejected", "raised"}

(* The pipeline is given a failed task: classification and choice of the    *)
(* strategy.                                                                *)
BeginRepair(t, e) ==
    /\ repair[t].phase = "idle"
    /\ repair' = [repair EXCEPT ![t] = [Idle EXCEPT !.phase = "strategy", !.error = e,
                                                    !.level = ClassifyError(e)]]
    /\ UNCHANGED <<repair_history, experiences, memory, last_repaired_code, executed, executions>>

(* L1: the task's own code is run again, MAX_RETRIES times at most. *)
RetryExecution(t, outcome) ==
    /\ repair[t].phase = "strategy" /\ repair[t].level = "L1"
    /\ Execute(t, "original", outcome)
    /\ LET n == repair[t].attempts + 1
       IN  CASE outcome = "accepted" -> Step(t, "verify", "success", "original", n)
             [] outcome # "accepted" /\ n = MAX_RETRIES -> Step(t, "store", "failed", None, n)
             [] OTHER -> Step(t, "strategy", "failed", None, n)
    /\ UNCHANGED <<repair_history, experiences, memory>>

(* L2: a template rewrites the code, or leaves it as it is when it already  *)
(* has the form the template would give it.  Without a template for the     *)
(* type that is named the strategy fails.                                   *)
ApplyTemplate(t) ==
    /\ repair[t].phase = "strategy" /\ repair[t].level = "L2"
    /\ IF repair[t].error.named \in Templates
       THEN \E code \in {"original", "templated"} : Step(t, "verify", "success", code, 1)
       ELSE Step(t, "store", "failed", None, 1)
    /\ UNCHANGED <<repair_history, experiences, memory, last_repaired_code, executed, executions>>

(* L3: the agents' proposals all differ, so the most common is the first. *)
ReviewByAgents(t) ==
    /\ repair[t].phase = "strategy" /\ repair[t].level = "L3"
    /\ Step(t, "verify", "success", "wrapped", 1)
    /\ UNCHANGED <<repair_history, experiences, memory, last_repaired_code, executed, executions>>

(* L4: a human has to look at it. *)
EscalateRepair(t) ==
    /\ repair[t].phase = "strategy" /\ repair[t].level = "L4"
    /\ Step(t, "store", "escalated", None, 1)
    /\ UNCHANGED <<repair_history, experiences, memory, last_repaired_code, executed, executions>>

(* Mutant: an execution that raises is not told from one that passes. *)
VerifyRepair_raisedPasses(t, outcome) ==
    /\ repair[t].phase = "verify"
    /\ Execute(t, repair[t].code, outcome)
    /\ Step(t, "store", IF outcome # "rejected" THEN "success" ELSE "failed", repair[t].code,
            repair[t].attempts)
    /\ UNCHANGED <<repair_history, experiences, memory>>

(* A successful strategy's code is run once more; the status is corrected,  *)
(* the code stays in the result.                                            *)
VerifyRepair(t, outcome) ==
    /\ repair[t].phase = "verify"
    /\ Execute(t, repair[t].code, outcome)
    /\ Step(t, "store", IF outcome = "accepted" THEN "success" ELSE "failed", repair[t].code,
            repair[t].attempts)
    /\ UNCHANGED <<repair_history, experiences, memory>>

(* Mutant: an experience that memory refuses ends the repair before the     *)
(* history is written.                                                      *)
StoreExperience_notCaught(t, saved) ==
    /\ repair[t].phase = "store"
    /\ LET r == repair[t]
       IN  /\ experiences' = Append(experiences, [task |-> t, status |-> r.status])
           /\ repair_history' =
                 IF saved
                 THEN [repair_history EXCEPT ![t] = Append(@, [status |-> r.status, code |-> r.code,
                                                               attempts |-> r.attempts])]
                 ELSE repair_history
    /\ memory' = IF saved THEN [memory EXCEPT ![t] = @ + 1] ELSE memory
    /\ repair' = [repair EXCEPT ![t].phase = "done"]
    /\ UNCHANGED <<last_repaired_code, executed, executions>>

(* The experience, its copy in memory (whose failure is swallowed) and the  *)
(* history; the pipeline returns.                                           *)
StoreExperience(t, saved) ==
    /\ repair[t].phase = "store"
    /\ LET r == repair[t]
       IN  /\ experiences' = Append(experiences, [task |-> t, status |-> r.status])
           /\ repair_history' = [repair_history EXCEPT
                                   ![t] = Append(@, [status |-> r.status, code |-> r.code,
                                                     attempts |-> r.attempts])]
    /\ memory' = IF saved THEN [memory EXCEPT ![t] = @ + 1] ELSE memory
    /\ repair' = [repair EXCEPT ![t].phase = "done"]
    /\ UNCHANGED <<last_repaired_code, executed, executions>>

(* The caller has taken the result. *)
EndRepair(t) ==
    /\ repair[t].phase = "done"
    /\ repair' = [repair EXCEPT ![t] = Idle]
    /\ executed' = [executed EXCEPT ![t] = None]
    /\ executions' = [executions EXCEPT ![t] = 0]
    /\ UNCHANGED <<repair_history, experiences, memory, last_repaired_code>>

(* Every step of a repair between its call and its return. *)
RepairStep(t) ==
    \/ \E o \in Outcome : RetryExecution(t, o) \/ VerifyRepair(t, o)
    \/ ApplyTemplate(t)
    \/ ReviewByAgents(t)
    \/ EscalateRepair(t)
    \/ \E saved \in BOOLEAN : StoreExperience(t, saved)

----------------------------------------------------------------------------
(* A repair that is reported as a success was verified on the code it       *)
(* returns: that code is the last one the sandbox ran for the task and it   *)
(* passed, whatever the strategy did before (repair_pipeline.py:152-162),   *)
(* within four executions.                                                  *)
SuccessWasVerified ==
    \A t \in Task :
        /\ executions[t] <= MAX_RETRIES + 1
        /\ repair[t].phase \in {"store", "done"} /\ repair[t].status = "success" =>
              /\ executed[t] = [code |-> repair[t].code, passed |-> TRUE]
              /\ last_repaired_code[t] = repair[t].code

(* The positions of a task's experiences, and how many of them come up to i. *)
Mine(t) == {i \in DOMAIN experiences : experiences[i].task = t}
Rank(t, i) == Cardinality({j \in Mine(t) : j <= i})

(* History and experiences tell the same story of a task, in the same       *)
(* order, whatever happens to their copies in memory: the n-th experience   *)
(* of a task has the status of its n-th repair                              *)
(* (repair_pipeline.py:164-174, 304-308).                                   *)
ExperiencesMatchHistory ==
    \A t \in Task :
        /\ Cardinality(Mine(t)) = Len(repair_history[t])
        /\ \A i \in Mine(t) : experiences[i].status = repair_history[t][Rank(t, i)].status
        /\ memory[t] <= Len(repair_history[t])
=============================================================================
