----------------------- MODULE MCWorkflowCoordinator -----------------------
(* Small instances of WorkflowCoordinator for TLC. *)
EXTENDS WorkflowCoordinator

TwoTasks   == 1 .. 2
ThreeTasks == 1 .. 3
FiveTasks  == 1 .. 5

(* Every acyclic workflow whose tasks are numbered in any order: edges from *)
(* lower to higher numbers, and their mirror images, where the heap pops a  *)
(* task before what it needs.                                               *)
Ascending(T)  == {w \in [T -> SUBSET T] : \A t \in T : \A d \in w[t] : d < t}
Descending(T) == {w \in [T -> SUBSET T] : \A t \in T : \A d \in w[t] : d > t}
Pairs   == Ascending(TwoTasks) \union Descending(TwoTasks)
Triples == Ascending(ThreeTasks) \union Descending(ThreeTasks)

(* Three tasks one after the other, two before one and one before two, with *)
(* the heap's order and against it.                                        *)
Workflow3(a, b, c) == [t \in ThreeTasks |-> CASE t = 1 -> a [] t = 2 -> b [] t = 3 -> c]
Shapes == {Workflow3({}, {1}, {2}), Workflow3({2}, {3}, {}),
           Workflow3({}, {}, {1, 2}), Workflow3({2, 3}, {}, {}), Workflow3({}, {1}, {1})}

(* Five tasks, each needing the one before it. *)
Chain == {[t \in FiveTasks |-> IF t = 1 THEN {} ELSE {t - 1}]}
=============================================================================
