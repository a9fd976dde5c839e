----------------------------- MODULE TaskStates -----------------------------
(***************************************************************************)
(* The life cycle of a task, the table StateMachine.VALID_TRANSITIONS of   *)
(* agentManager/engine/state_manager.py and the emergency rule beside it.  *)
(***************************************************************************)
CONSTANT None  \* no state: the task is not initialized

TaskState == {"pending", "ready", "implementing", "verifying",
              "completed", "failed", "blocked_repair", "blocked_hitl"}

ASSUME NoneAssumption == None \notin TaskState

Terminal == {"completed", "blocked_hitl"}

VALID_TRANSITIONS ==
    [s \in TaskState |->
        CASE s = "pending"        -> {"ready", "implementing", "blocked_repair", "failed"}
          [] s = "ready"          -> {"implementing", "blocked_repair", "failed"}
          [] s = "implementing"   -> {"verifying", "failed", "blocked_repair"}
          [] s = "verifying"      -> {"completed", "failed", "blocked_repair"}
          [] s = "failed"         -> {"blocked_repair", "blocked_hitl"}
          [] s = "blocked_repair" -> {"implementing", "blocked_hitl", "failed"}
          [] OTHER                -> {}]

(* Mutant: a human may be called in for a task that is completed. *)
EmergencyTransition_fromCompleted(current, new) ==
    /\ new \in {"blocked_hitl", "completed", "failed"}
    /\ current # "blocked_hitl"

(* Completing, failing and handing over to a human is allowed from every    *)
(* state that is not terminal, whatever the table says.                     *)
EmergencyTransition(current, new) ==
    /\ new \in {"blocked_hitl", "completed", "failed"}
    /\ current \notin Terminal

CanTransition(current, new) ==
    EmergencyTransition(current, new) \/ new \in VALID_TRANSITIONS[current]
=============================================================================
