-------------------------- MODULE MCRecoveryEngine --------------------------
(* Small instances of RecoveryEngine for TLC. *)
EXTENDS RecoveryEngine

CONSTANTS t1, t2

(* One error for every way through the pipeline: L1, a template, none for   *)
(* the named type, none named, two patterns of which the first decides, L3  *)
(* and L4.                                                                  *)
Errors == {[matches |-> {"TypeError"}, named |-> "TypeError"],
           [matches |-> {}, named |-> "IndexError"],
           [matches |-> {"ValueError", "TimeoutError"}, named |-> None],
           [matches |-> {"MemoryError"}, named |-> "MemoryError"],
           [matches |-> {"ImportError", "CircularDependency"}, named |-> None]}

(* TLC's symmetry is not used: only one of the tasks has code. *)
=============================================================================
