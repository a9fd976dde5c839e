------------------------- MODULE MCSchedulerEngine -------------------------
(* A small instance of SchedulerEngine for TLC. *)
EXTENDS SchedulerEngine

TwoTasks == 1 .. 2

(* A task that waits for itself or for the other one, two that wait for    *)
(* each other, and dependencies that are registered late or never.         *)
NoneOrOne == {{}, {1}, {2}}
=============================================================================
