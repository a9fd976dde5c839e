--------------------------- MODULE MCTaskScheduler ---------------------------
(* A small instance of TaskScheduler for TLC. *)
EXTENDS TaskScheduler

CONSTANTS t1, t2, t3, o1

ThreeTasks == {t1, t2, t3}
OneOther == {o1}
=============================================================================
