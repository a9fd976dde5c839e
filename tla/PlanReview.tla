----------------------------- MODULE PlanReview -----------------------------
(***************************************************************************)
(* What the task plan endpoints promise of each plan: a draft is written   *)
(* and rewritten until it is frozen, and it is frozen as it stands only if *)
(* its content is acceptable.                                              *)
(***************************************************************************)
CONSTANTS
    Plan,
    None,          \* no content
    Acceptable(_)  \* the contents that may be frozen

VARIABLES content, frozen

Init == content = [p \in Plan |-> None] /\ frozen = {}

Write(p) == /\ p \notin frozen
            /\ content'[p] # None
            /\ content' = [content EXCEPT ![p] = content'[p]]
            /\ UNCHANGED frozen

Freeze(p) == /\ p \notin frozen
             /\ content[p] # None
             /\ Acceptable(content[p])
             /\ frozen' = frozen \union {p}
             /\ UNCHANGED content

Next == \E p \in Plan : Write(p) \/ Freeze(p)

Spec == Init /\ [][Next]_<<content, frozen>>
=============================================================================
