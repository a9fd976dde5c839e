--------------------------- MODULE MCMemorySystem ---------------------------
(* A small instance of MemorySystem for TLC.  The ids do not meet: one is   *)
(* stored and deleted again and again.                                      *)
EXTENDS MemorySystem

CONSTANTS m1, worker

OneId == {m1}
Layers == {"SHORT_TERM", "LONG_TERM"}
OneThread == {worker}
=============================================================================
