--------------------------- MODULE MCStateMachine ---------------------------
(* Small instances of StateMachine for TLC. *)
EXTENDS StateMachine

CONSTANTS t1, w1

OneTask == {t1}
OneThread == {w1}
=============================================================================
