-------------------------- MODULE WorkflowProgress --------------------------
(***************************************************************************)
(* What a workflow run promises of its tasks, across restarts: a task is   *)
(* completed after everything it depends on, and what is completed stays.  *)
(***************************************************************************)
CONSTANTS Task, Workflows

VARIABLES needs, completed

Init == needs \in Workflows /\ completed = {}

Complete(t) ==
    /\ t \notin completed
    /\ needs[t] \subseteq completed
    /\ completed' = completed \union {t}
    /\ UNCHANGED needs

Next == \E t \in Task : Complete(t)

Spec == Init /\ [][Next]_<<needs, completed>>
=============================================================================
