--------------------------- MODULE TaskLifecycle ---------------------------
(***************************************************************************)
(* What the state machine promises of each task: it is created pending,    *)
(* every change of its state is a legal transition, and so a completed or  *)
(* handed-over task stays what it is.                                      *)
(***************************************************************************)
EXTENDS TaskStates

CONSTANT Task

VARIABLE state  \* state[t], None before the task is created

Init == state = [t \in Task |-> None]

Create(t) == /\ state[t] = None
             /\ state' = [state EXCEPT ![t] = "pending"]

Move(t, new) == /\ state[t] # None
                /\ CanTransition(state[t], new)
                /\ state' = [state EXCEPT ![t] = new]

Next == \E t \in Task : Create(t) \/ \E new \in TaskState : Move(t, new)

Spec == Init /\ [][Next]_state
=============================================================================
