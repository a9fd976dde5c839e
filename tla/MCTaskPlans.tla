---------------------------- MODULE MCTaskPlans ----------------------------
(* Small instances of TaskPlans for TLC. *)
EXTENDS TaskPlans

CONSTANTS a, b

Ids == {a, b}

AnItem(id, dependencies, verification) ==
    [id |-> id, dependencies |-> dependencies, verification |-> verification]

(* One item, two in order, two that depend on each other; an id twice, a   *)
(* dependency that is missing, and a verification that is.                 *)
Lists == {<<AnItem(a, {}, TRUE)>>,
          <<AnItem(b, {a}, TRUE), AnItem(a, {}, TRUE)>>,
          <<AnItem(a, {b}, TRUE), AnItem(b, {a}, TRUE)>>,
          <<AnItem(a, {}, TRUE), AnItem(a, {}, TRUE)>>,
          <<AnItem(a, {b}, TRUE)>>,
          <<AnItem(a, {}, FALSE)>>}
=============================================================================
