-------------------------- MODULE TaskPlans_proofs --------------------------
(***************************************************************************)
(* Theorems about TaskPlans, for any number of threads, plans, requests    *)
(* and item lists of any length.                                           *)
(***************************************************************************)
EXTENDS TaskPlans, SequenceTheorems, TLAPS

----------------------------------------------------------------------------
(* Lists of items.                                                         *)

(* A function on 1 .. n is a sequence of length n. *)
LEMMA FunctionIsSeq ==
    ASSUME NEW S, NEW n \in Nat, NEW f \in [1 .. n -> S]
    PROVE  f \in Seq(S) /\ Len(f) = n
<1>1. f \in Seq(S)
  BY SeqDef
<1> QED
  BY <1>1, LenProperties

LEMMA PlainIsTyped ==
    ASSUME NEW items \in Seq(PlanItem)
    PROVE  Plain(items) \in Seq(Item) /\ Len(Plain(items)) = Len(items)
<1>1. Len(items) \in Nat /\ items \in [1 .. Len(items) -> PlanItem]
  BY LenProperties
<1>2. Plain(items) \in [1 .. Len(items) -> Item]
  BY <1>1 DEF Plain, PlanItem
<1> QED
  BY <1>1, <1>2, FunctionIsSeq

(* What a client's list becomes when it is stored: a new plan's items, or   *)
(* items with the statuses the plan's had.                                 *)
LEMMA NewIsTyped ==
    ASSUME NEW items \in ItemList
    PROVE  LET stored == [i \in 1 .. Len(items) |-> [item |-> items[i], status |-> "pending_review"]]
           IN  stored \in Seq(PlanItem) /\ Len(stored) = Len(items) /\ Len(items) \in Nat
<1>1. Len(items) \in Nat /\ items \in [1 .. Len(items) -> Item]
  BY TaskPlansAssumption, LenProperties DEF TaskPlansAssumption
<1>2. [i \in 1 .. Len(items) |-> [item |-> items[i], status |-> "pending_review"]]
        \in [1 .. Len(items) -> PlanItem]
  BY <1>1 DEF PlanItem
<1> QED
  BY <1>1, <1>2, FunctionIsSeq

LEMMA PreservedIsTyped ==
    ASSUME NEW old, NEW items \in ItemList
    PROVE  Preserved(old, items) \in Seq(PlanItem)
<1>1. Len(items) \in Nat /\ items \in [1 .. Len(items) -> Item]
  BY TaskPlansAssumption, LenProperties DEF TaskPlansAssumption
<1> DEFINE keeps(i) == \E j \in 1 .. Len(old) :
                          /\ old[j].item.id = items[i].id
                          /\ old[j].status = "confirmed"
                          /\ \A k \in j + 1 .. Len(old) : old[k].item.id # items[i].id
<1>2. Preserved(old, items) = [i \in 1 .. Len(items) |->
          [item |-> items[i], status |-> IF keeps(i) THEN "confirmed" ELSE "pending_review"]]
  BY DEF Preserved
<1> HIDE DEF keeps
<1>3. Preserved(old, items) \in [1 .. Len(items) -> PlanItem]
  BY <1>1, <1>2 DEF PlanItem
<1> QED
  BY <1>1, <1>3, FunctionIsSeq

(* Freezing a list confirms its items and leaves what they ask for alone.  *)
LEMMA FrozenIsSame ==
    ASSUME NEW items \in Seq(PlanItem)
    PROVE  LET frozen == [i \in DOMAIN items |-> [items[i] EXCEPT !.status = "confirmed"]]
           IN  /\ frozen \in Seq(PlanItem)
               /\ Len(frozen) = Len(items)
               /\ Plain(frozen) = Plain(items)
<1> DEFINE frozen == [i \in DOMAIN items |-> [items[i] EXCEPT !.status = "confirmed"]]
<1>1. /\ Len(items) \in Nat /\ items \in [1 .. Len(items) -> PlanItem]
      /\ DOMAIN items = 1 .. Len(items)
  BY LenProperties
<1>2. frozen \in [1 .. Len(items) -> PlanItem]
  BY <1>1 DEF PlanItem
<1>3. frozen \in Seq(PlanItem) /\ Len(frozen) = Len(items)
  BY <1>1, <1>2, FunctionIsSeq
<1>4. \A i \in 1 .. Len(items) : frozen[i].item = items[i].item
  BY <1>1 DEF PlanItem
<1> HIDE DEF frozen
<1>5. Plain(frozen) = Plain(items)
  BY <1>3, <1>4 DEF Plain
<1> QED
  BY <1>3, <1>5 DEF frozen

----------------------------------------------------------------------------
(* Typing.                                                                 *)

Confirmation == [step : {"beforeHooks", "confirm", "announce", "afterHooks"}, plan : Plan,
                 items_count : Nat, event_count : Nat]

(* What a thread's call looks like at each of its steps. *)
LEMMA CallShape ==
    ASSUME TypeOK, NEW c \in Thread
    PROVE  /\ call[c].step = "publish" => call[c].event \in Event
           /\ call[c].step \in {"beforeHooks", "confirm", "announce", "afterHooks"} =>
                  call[c] \in Confirmation
<1>1. call[c] \in Call
  BY DEF TypeOK
<1> QED
  BY <1>1 DEF Call, Confirmation, Idle

LEMMA Moved ==
    ASSUME TypeOK, NEW c \in Thread, NEW new \in Call, call' = [call EXCEPT ![c] = new]
    PROVE  call' \in [Thread -> Call] /\ call'[c] = new
BY DEF TypeOK

LEMMA EventTyped ==
    ASSUME NEW p \in Plan, NEW n \in Nat,
           NEW type \in {"created", "updated", "confirmed", "confirm_failed"}
    PROVE  EventOf(type, p, n) \in Event
BY DEF EventOf, Event

LEMMA IdleIsCall == Idle \in Call
BY DEF Call

(* The draft a confirmation looks at. *)
LEMMA DraftShape ==
    ASSUME TypeOK, NEW p \in Plan, task_plans[p] # None
    PROVE  /\ task_plans[p] \in TaskPlan
           /\ task_plans[p].items \in Seq(PlanItem)
           /\ Len(task_plans[p].items) \in Nat
<1>1. task_plans[p] \in TaskPlan
  BY DEF TypeOK
<1>2. task_plans[p].items \in Seq(PlanItem)
  BY <1>1 DEF TaskPlan
<1> QED
  BY <1>1, <1>2, LenProperties

(* Freezing a plan leaves the items' contents and their number alone.      *)
LEMMA FreezeFacts ==
    ASSUME TypeOK, NEW p \in Plan, task_plans[p] # None, Freeze(p)
    PROVE  /\ task_plans' \in [Plan -> TaskPlan \union {None}]
           /\ task_plans'[p] # None
           /\ task_plans'[p].status = "confirmed"
           /\ Len(task_plans'[p].items) = Len(task_plans[p].items)
           /\ Plain(task_plans'[p].items) = Plain(task_plans[p].items)
           /\ \A q \in Plan \ {p} : task_plans'[q] = task_plans[q]
<1> DEFINE items == task_plans[p].items
           frozen == [i \in DOMAIN items |-> [items[i] EXCEPT !.status = "confirmed"]]
           plan == [task_plans[p] EXCEPT !.status = "confirmed", !.items = frozen]
<1>1. task_plans[p] \in TaskPlan /\ items \in Seq(PlanItem)
  BY DraftShape
<1>2. frozen \in Seq(PlanItem) /\ Len(frozen) = Len(items) /\ Plain(frozen) = Plain(items)
  BY <1>1, FrozenIsSame
<1>3. task_plans' = [task_plans EXCEPT ![p] = plan]
  BY <1>1 DEF Freeze, TypeOK, TaskPlan
<1> HIDE DEF frozen
<1>4. plan \in TaskPlan /\ plan.status = "confirmed" /\ plan.items = frozen
  BY <1>1, <1>2 DEF TaskPlan
<1> HIDE DEF plan
<1>5. task_plans'[p] = plan /\ \A q \in Plan \ {p} : task_plans'[q] = task_plans[q]
  BY <1>3 DEF TypeOK
<1>6. task_plans' \in [Plan -> TaskPlan \union {None}]
  BY <1>3, <1>4 DEF TypeOK
<1> QED
  BY <1>2, <1>4, <1>5, <1>6, NoneAssumption DEF NoneAssumption

(* A call of the confirmation goes on. *)
LEMMA Continues ==
    ASSUME TypeOK, NEW c \in Thread,
           call[c].step \in {"beforeHooks", "confirm", "announce", "afterHooks"},
           NEW s \in {"beforeHooks", "confirm", "announce", "afterHooks"},
           call' = [call EXCEPT ![c].step = s]
    PROVE  /\ call' \in [Thread -> Call]
           /\ call'[c].step = s
           /\ call'[c].plan = call[c].plan
           /\ call'[c].event_count = call[c].event_count
           /\ \A d \in Thread \ {c} : call'[d] = call[d]
<1>1. call[c] \in Confirmation
  BY CallShape
<1> DEFINE new == [call[c] EXCEPT !.step = s]
<1>2. /\ new \in Confirmation /\ new.step = s /\ new.plan = call[c].plan
      /\ new.event_count = call[c].event_count
  BY <1>1 DEF Confirmation
<1>3. call' = [call EXCEPT ![c] = new]
  BY <1>1 DEF TypeOK
<1> HIDE DEF new
<1>4. new \in Call
  BY <1>2 DEF Confirmation, Call
<1> QED
  BY <1>2, <1>3, <1>4 DEF TypeOK

LEMMA Announces ==
    ASSUME TypeOK, NEW c \in Thread, call[c].step = "confirm", NEW n \in Nat, Announcing(c, n)
    PROVE  /\ call' \in [Thread -> Call]
           /\ call'[c].step = "announce"
           /\ call'[c].plan = call[c].plan
           /\ call'[c].event_count = n
           /\ \A d \in Thread \ {c} : call'[d] = call[d]
<1>1. call[c] \in Confirmation
  BY CallShape
<1> DEFINE new == [call[c] EXCEPT !.step = "announce", !.event_count = n]
<1>2. /\ new \in Confirmation /\ new.step = "announce" /\ new.plan = call[c].plan
      /\ new.event_count = n
  BY <1>1 DEF Confirmation
<1>3. call' = [call EXCEPT ![c] = new]
  BY <1>1 DEF TypeOK, Announcing
<1> HIDE DEF new
<1>4. new \in Call
  BY <1>2 DEF Confirmation, Call
<1> QED
  BY <1>2, <1>3, <1>4 DEF TypeOK

LEMMA TypeInit == Init => TypeOK
<1> SUFFICES ASSUME Init PROVE TypeOK
  OBVIOUS
<1>1. call \in [Thread -> Call]
  BY IdleIsCall DEF Init
<1>2. events \in Seq(Event)
  BY EmptySeq DEF Init
<1> QED
  BY <1>1, <1>2 DEF Init, TypeOK

LEMMA ServeTyped ==
    ASSUME TypeOK, NEW c \in Thread, Serve(c)
    PROVE  TypeOK'
<1>1. ASSUME NEW p \in Plan, NEW items \in ItemList, CreateTaskPlan(c, p, items) PROVE TypeOK'
  <2> DEFINE stored == [i \in 1 .. Len(items) |-> [item |-> items[i], status |-> "pending_review"]]
             new == [step |-> "publish", event |-> EventOf("created", p, Len(items))]
  <2>1. stored \in Seq(PlanItem) /\ Len(items) \in Nat
    BY NewIsTyped
  <2>2. task_plans' = [task_plans EXCEPT ![p] = [status |-> "draft", items |-> stored]]
    BY <1>1 DEF CreateTaskPlan
  <2> HIDE DEF stored
  <2>3. task_plans' \in [Plan -> TaskPlan \union {None}]
    BY <2>1, <2>2 DEF TypeOK, TaskPlan
  <2>4. EventOf("created", p, Len(items)) \in Event
    BY <2>1, EventTyped
  <2>5. new \in Call
    BY <2>4 DEF Call
  <2>6. call' \in [Thread -> Call]
    BY <1>1, <2>5, Moved DEF CreateTaskPlan
  <2> QED
    BY <1>1, <2>3, <2>6 DEF CreateTaskPlan, Request, TypeOK
<1>2. ASSUME NEW p \in Plan, NEW items \in ItemList, UpdateItems(c, p, items) PROVE TypeOK'
  <2> DEFINE stored == Preserved(task_plans[p].items, items)
             new == [step |-> "publish", event |-> EventOf("updated", p, 0)]
  <2>1. stored \in Seq(PlanItem)
    BY PreservedIsTyped
  <2>2. task_plans[p] \in TaskPlan
    BY <1>2, DraftShape DEF UpdateItems, IsDraft
  <2>3. task_plans' = [task_plans EXCEPT ![p] = [task_plans[p] EXCEPT !.items = stored]]
    BY <1>2, <2>2 DEF UpdateItems, TypeOK, TaskPlan
  <2> HIDE DEF stored
  <2>4. task_plans' \in [Plan -> TaskPlan \union {None}]
    BY <2>1, <2>2, <2>3 DEF TypeOK, TaskPlan
  <2>5. new \in Call /\ Idle \in Call
    BY EventTyped, IdleIsCall DEF Call
  <2>6. call' \in [Thread -> Call]
    BY <1>2, <2>5, Moved DEF UpdateItems
  <2> QED
    BY <1>2, <2>4, <2>6 DEF UpdateItems, Request, TypeOK
<1>3. ASSUME NEW p \in Plan, UpdateMetadata(c, p) PROVE TypeOK'
  <2>1. [step |-> "publish", event |-> EventOf("updated", p, 0)] \in Call
    BY EventTyped DEF Call
  <2>2. call' \in [Thread -> Call]
    BY <1>3, <2>1, Moved DEF UpdateMetadata
  <2> QED
    BY <1>3, <2>2 DEF UpdateMetadata, Request, TypeOK
<1>4. ASSUME NEW p \in Plan, BeginConfirm(c, p) PROVE TypeOK'
  <2>1. Len(task_plans[p].items) \in Nat
    BY <1>4, DraftShape DEF BeginConfirm, IsDraft
  <2>2. [step |-> "beforeHooks", plan |-> p,
         items_count |-> Len(task_plans[p].items), event_count |-> 0] \in Call
    BY <2>1 DEF Call
  <2>3. call' \in [Thread -> Call]
    BY <1>4, <2>2, Moved DEF BeginConfirm
  <2> QED
    BY <1>4, <2>3 DEF BeginConfirm, Request, TypeOK
<1> QED
  BY <1>1, <1>2, <1>3, <1>4 DEF Serve

LEMMA ContinueTyped ==
    ASSUME TypeOK, NEW c \in Thread, Continue(c)
    PROVE  TypeOK'
<1> DEFINE p == call[c].plan
<1>0. call[c].step \in {"beforeHooks", "confirm", "announce", "afterHooks"} =>
          p \in Plan /\ call[c].event_count \in Nat
  BY CallShape DEF Confirmation
<1>1. ASSUME HooksPass(c) PROVE TypeOK'
  <2>1. call' \in [Thread -> Call]
    BY <1>1, Continues, Moved, IdleIsCall DEF HooksPass
  <2> QED
    BY <1>1, <2>1 DEF HooksPass, TypeOK
<1>2. ASSUME HooksFail(c) PROVE TypeOK'
  <2>1. call' \in [Thread -> Call]
    BY <1>2, Moved, IdleIsCall DEF HooksFail
  <2>2. EventOf("confirm_failed", p, 0) \in Event
    BY <1>0, <1>2, EventTyped DEF HooksFail
  <2>3. events' \in Seq(Event)
    BY <1>2, <2>2 DEF HooksFail, TypeOK
  <2> QED
    BY <1>2, <2>1, <2>3 DEF HooksFail, TypeOK
<1>3. ASSUME Confirm(c) PROVE TypeOK'
  <2>1. p \in Plan /\ task_plans[p] # None /\ Freeze(p)
    BY <1>0, <1>3 DEF Confirm, IsDraft
  <2>2. task_plans' \in [Plan -> TaskPlan \union {None}]
    BY <2>1, FreezeFacts
  <2>3. Len(task_plans[p].items) \in Nat
    BY <2>1, DraftShape
  <2>4. call' \in [Thread -> Call]
    BY <1>3, <2>3, Announces DEF Confirm
  <2> QED
    BY <1>3, <2>2, <2>4 DEF Confirm, TypeOK
<1>4. ASSUME ConfirmRefused(c) PROVE TypeOK'
  <2>1. call' \in [Thread -> Call]
    BY <1>4, Moved, IdleIsCall DEF ConfirmRefused
  <2> QED
    BY <1>4, <2>1 DEF ConfirmRefused, TypeOK
<1>5. ASSUME Announce(c) PROVE TypeOK'
  <2>1. call' \in [Thread -> Call]
    BY <1>5, Continues DEF Announce
  <2>2. EventOf("confirmed", p, call[c].event_count) \in Event
    BY <1>0, <1>5, EventTyped DEF Announce
  <2>3. events' \in Seq(Event)
    BY <1>5, <2>2 DEF Announce, TypeOK
  <2> QED
    BY <1>5, <2>1, <2>3 DEF Announce, TypeOK
<1>6. ASSUME Publish(c) PROVE TypeOK'
  <2>1. call' \in [Thread -> Call]
    BY <1>6, Moved, IdleIsCall DEF Publish
  <2>2. call[c].event \in Event
    BY <1>6, CallShape DEF Publish
  <2>3. events' \in Seq(Event)
    BY <1>6, <2>2 DEF Publish, TypeOK
  <2> QED
    BY <1>6, <2>1, <2>3 DEF Publish, TypeOK
<1> QED
  BY <1>1, <1>2, <1>3, <1>4, <1>5, <1>6 DEF Continue

LEMMA TypeNext == TypeOK /\ [Next]_vars => TypeOK'
<1> SUFFICES ASSUME TypeOK, [Next]_vars PROVE TypeOK'
  OBVIOUS
<1>1. CASE Next
  BY <1>1, ServeTyped, ContinueTyped DEF Next
<1>2. CASE UNCHANGED vars
  BY <1>2 DEF vars, TypeOK
<1> QED
  BY <1>1, <1>2

(* Every variable of the plan endpoints keeps its type: a stored list is   *)
(* a list of items with one of two statuses, whatever requests overlap.    *)
THEOREM TypeCorrect == Spec => []TypeOK
<1> QED
  BY TypeInit, TypeNext, PTL DEF Spec

----------------------------------------------------------------------------
(* The refinement: a request writes or freezes one plan, or neither.       *)

Content == [p \in Plan |-> IF task_plans[p] = None THEN None ELSE Plain(task_plans[p].items)]
Frozen == {p \in Plan : Confirmed(p)}

LEMMA ContentOf ==
    ASSUME TypeOK, NEW p \in Plan
    PROVE  Content[p] # None <=> task_plans[p] # None
<1>1. task_plans[p] # None => Plain(task_plans[p].items) \in Seq(Item)
  BY DraftShape, PlainIsTyped
<1> QED
  BY <1>1, NoneAssumption DEF Content, NoneAssumption

(* A step that gives a plan that is not confirmed another draft. *)
LEMMA Writes ==
    ASSUME TypeOK, TypeOK', NEW p \in Plan, ~Confirmed(p),
           NEW plan, plan.status = "draft", plan # None, task_plans' = [task_plans EXCEPT ![p] = plan]
    PROVE  Review!Next
<1>1. task_plans'[p] = plan /\ \A q \in Plan \ {p} : task_plans'[q] = task_plans[q]
  BY DEF TypeOK
<1>2. Content'[p] # None
  <2>1. Plain(task_plans'[p].items) \in Seq(Item)
    <3>1. task_plans'[p] \in TaskPlan
      BY <1>1 DEF TypeOK
    <3> QED
      BY <3>1, PlainIsTyped DEF TaskPlan
  <2> QED
    BY <1>1, <2>1, NoneAssumption DEF Content, NoneAssumption
<1>3. Content' = [Content EXCEPT ![p] = Content'[p]]
  <2>1. DOMAIN Content = Plan /\ DOMAIN Content' = Plan
    BY DEF Content
  <2>2. \A q \in Plan \ {p} : Content'[q] = Content[q]
    BY <1>1 DEF Content
  <2>3. Content = [q \in Plan |-> Content[q]] /\ Content' = [q \in Plan |-> Content'[q]]
    BY DEF Content
  <2> QED
    BY <2>1, <2>2, <2>3
<1>4. p \notin Frozen /\ Frozen' = Frozen
  BY <1>1 DEF Frozen, Confirmed
<1>5. Review!Write(p)
  BY <1>2, <1>3, <1>4 DEF Review!Write, Content, Frozen
<1> QED
  BY <1>5 DEF Review!Next

LEMMA Stutters ==
    ASSUME UNCHANGED task_plans
    PROVE  UNCHANGED <<Content, Frozen>>
BY DEF Content, Frozen, Confirmed

LEMMA ServeRefines ==
    ASSUME TypeOK, TypeOK', NEW c \in Thread, Serve(c)
    PROVE  Review!Next \/ UNCHANGED <<Content, Frozen>>
<1>1. ASSUME NEW p \in Plan, NEW items \in ItemList, CreateTaskPlan(c, p, items) PROVE Review!Next
  <2> DEFINE stored == [i \in 1 .. Len(items) |-> [item |-> items[i], status |-> "pending_review"]]
             plan == [status |-> "draft", items |-> stored]
  <2>1. stored \in Seq(PlanItem)
    BY NewIsTyped
  <2>2. task_plans' = [task_plans EXCEPT ![p] = plan] /\ ~Confirmed(p)
    BY <1>1 DEF CreateTaskPlan, Confirmed
  <2> HIDE DEF stored
  <2>3. plan \in TaskPlan /\ plan.status = "draft"
    BY <2>1 DEF TaskPlan
  <2> HIDE DEF plan
  <2> QED
    BY <2>2, <2>3, Writes, NoneAssumption DEF NoneAssumption
<1>2. ASSUME NEW p \in Plan, NEW items \in ItemList, UpdateItems(c, p, items) PROVE Review!Next
  <2> DEFINE stored == Preserved(task_plans[p].items, items)
             plan == [task_plans[p] EXCEPT !.items = stored]
  <2>1. task_plans[p] \in TaskPlan /\ task_plans[p].status = "draft" /\ ~Confirmed(p)
    BY <1>2, DraftShape DEF UpdateItems, IsDraft, Confirmed
  <2>2. stored \in Seq(PlanItem)
    BY PreservedIsTyped
  <2>3. task_plans' = [task_plans EXCEPT ![p] = plan]
    BY <1>2, <2>1 DEF UpdateItems, TypeOK, TaskPlan
  <2> HIDE DEF stored
  <2>4. plan \in TaskPlan /\ plan.status = "draft"
    BY <2>1, <2>2 DEF TaskPlan
  <2> HIDE DEF plan
  <2> QED
    BY <2>1, <2>3, <2>4, Writes, NoneAssumption DEF NoneAssumption
<1>3. ASSUME NEW p \in Plan, UpdateMetadata(c, p) \/ BeginConfirm(c, p)
      PROVE  UNCHANGED <<Content, Frozen>>
  BY <1>3, Stutters DEF UpdateMetadata, BeginConfirm
<1> QED
  BY <1>1, <1>2, <1>3 DEF Serve

LEMMA ConfirmRefines ==
    ASSUME TypeOK, NEW c \in Thread, Confirm(c)
    PROVE  Review!Next
<1> DEFINE p == call[c].plan
<1>1. p \in Plan
  BY CallShape DEF Confirm, Confirmation
<1>2. IsDraft(p) /\ Accepted(Plain(task_plans[p].items)) /\ Freeze(p)
  BY DEF Confirm
<1>3. /\ task_plans'[p] # None
      /\ task_plans'[p].status = "confirmed"
      /\ Plain(task_plans'[p].items) = Plain(task_plans[p].items)
      /\ \A q \in Plan \ {p} : task_plans'[q] = task_plans[q]
  BY <1>1, <1>2, FreezeFacts DEF IsDraft
<1>4. Content[p] = Plain(task_plans[p].items) /\ Content[p] # None
  BY <1>1, <1>2, ContentOf DEF Content, IsDraft
<1> HIDE DEF p
<1>5. Content' = Content
  BY <1>2, <1>3 DEF Content, IsDraft
<1>6. p \notin Frozen /\ Frozen' = Frozen \union {p}
  BY <1>1, <1>2, <1>3 DEF Frozen, Confirmed, IsDraft
<1>7. Review!Freeze(p)
  BY <1>2, <1>4, <1>5, <1>6 DEF Review!Freeze, Content, Frozen
<1> QED
  BY <1>1, <1>7 DEF Review!Next

LEMMA StepRefines ==
    ASSUME TypeOK, TypeOK', [Next]_vars
    PROVE  [Review!Next]_<<Content, Frozen>>
<1>1. ASSUME NEW c \in Thread, Continue(c) PROVE Review!Next \/ UNCHANGED <<Content, Frozen>>
  <2>1. CASE Confirm(c)
    BY <2>1, ConfirmRefines
  <2>2. CASE HooksPass(c) \/ HooksFail(c) \/ ConfirmRefused(c) \/ Announce(c) \/ Publish(c)
    BY <2>2, Stutters DEF HooksPass, HooksFail, ConfirmRefused, Announce, Publish
  <2> QED
    BY <1>1, <2>1, <2>2 DEF Continue
<1>2. CASE Next
  BY <1>1, <1>2, ServeRefines DEF Next
<1>3. CASE UNCHANGED vars
  BY <1>3, Stutters DEF vars
<1> QED
  BY <1>2, <1>3

(* The plan endpoints implement PlanReview: a confirmed plan is never      *)
(* edited or confirmed again, and it was acceptable when it was frozen,    *)
(* whatever requests come between the two sections of a confirmation.      *)
THEOREM ReviewIsImplemented == Spec => ImplementsReview
<1>1. Init => Review!Init
  BY DEF Init, Review!Init, Confirmed
<1>2. TypeOK /\ TypeOK' /\ [Next]_vars => [Review!Next]_<<Content, Frozen>>
  BY StepRefines
<1> QED
  BY <1>1, <1>2, TypeCorrect, PTL DEF Spec, ImplementsReview, Review!Spec, Content, Frozen

----------------------------------------------------------------------------
(* Announcements.                                                          *)

IsAnnounced(p) == \E i \in 1 .. Len(events) : events[i].type = "confirmed" /\ events[i].plan = p

IsAnnouncing(c) == call[c].step = "announce"

(* The publications of creations and updates are no confirmations. *)
PublicationsAreOther ==
    \A c \in Thread : call[c].step = "publish" => call[c].event.type # "confirmed"

(* A thread that is about to announce a confirmation has confirmed the     *)
(* plan, nobody has announced it yet, and nobody else is about to.         *)
AnnouncementsAreDue ==
    /\ \A c \in Thread : IsAnnouncing(c) =>
          /\ Confirmed(call[c].plan)
          /\ call[c].event_count = Len(task_plans[call[c].plan].items)
          /\ ~IsAnnounced(call[c].plan)
    /\ \A c, d \in Thread :
          IsAnnouncing(c) /\ IsAnnouncing(d) /\ call[c].plan = call[d].plan => c = d

AnnounceInv ==
    /\ PublicationsAreOther
    /\ AnnouncementsAreDue
    /\ ConfirmedOnce
    /\ ConfirmedEventIsTrue

(* What the steps other than Confirm and Announce have in common: they     *)
(* leave confirmed plans alone, log at most an event that is not a         *)
(* confirmation, and no thread comes to announce.                          *)
Quiet ==
    /\ \A p \in Plan : Confirmed(p) => task_plans'[p] = task_plans[p]
    /\ \/ UNCHANGED events
       \/ \E e \in Event : e.type # "confirmed" /\ events' = Append(events, e)
    /\ \A c \in Thread : call'[c].step = "announce" => call'[c] = call[c]
    /\ \A c \in Thread : call'[c].step = "publish" =>
          call'[c] = call[c] \/ call'[c].event.type # "confirmed"

LEMMA AppendFacts ==
    ASSUME TypeOK, NEW e \in Event, events' = Append(events, e)
    PROVE  /\ Len(events) \in Nat
           /\ Len(events') = Len(events) + 1
           /\ \A i \in 1 .. Len(events) : events'[i] = events[i]
           /\ events'[Len(events) + 1] = e
BY DEF TypeOK

(* The confirmed events after a quiet step are those before it. *)
LEMMA QuietEvents ==
    ASSUME TypeOK, Quiet
    PROVE  \A i \in 1 .. Len(events') : events'[i].type = "confirmed" =>
               i \in 1 .. Len(events) /\ events'[i] = events[i]
<1>1. CASE UNCHANGED events
  BY <1>1
<1>2. ASSUME NEW e \in Event, e.type # "confirmed", events' = Append(events, e)
      PROVE  \A i \in 1 .. Len(events') : events'[i].type = "confirmed" =>
                 i \in 1 .. Len(events) /\ events'[i] = events[i]
  BY <1>2, AppendFacts
<1> QED
  BY <1>1, <1>2 DEF Quiet

LEMMA AnnouncerOf ==
    ASSUME TypeOK, NEW c \in Thread, IsAnnouncing(c)
    PROVE  call[c].plan \in Plan
BY CallShape DEF IsAnnouncing, Confirmation

LEMMA EventPlan ==
    ASSUME TypeOK, NEW i \in 1 .. Len(events)
    PROVE  events[i].plan \in Plan
<1>1. events[i] \in Event
  BY ElementOfSeq DEF TypeOK
<1> QED
  BY <1>1 DEF Event

LEMMA QuietKeeps ==
    ASSUME TypeOK, AnnounceInv, Quiet
    PROVE  AnnounceInv'
<1>1. PublicationsAreOther'
  BY DEF Quiet, AnnounceInv, PublicationsAreOther
<1>2. ASSUME NEW p \in Plan, ~IsAnnounced(p) PROVE ~IsAnnounced(p)'
  BY <1>2, QuietEvents DEF IsAnnounced
<1>3. ASSUME NEW p \in Plan, Confirmed(p) PROVE Confirmed(p)' /\ task_plans'[p] = task_plans[p]
  BY <1>3 DEF Quiet, Confirmed
<1>4. ASSUME NEW c \in Thread, IsAnnouncing(c)'
      PROVE  call'[c] = call[c] /\ IsAnnouncing(c) /\ call[c].plan \in Plan
  <2>1. call'[c] = call[c]
    BY <1>4 DEF Quiet, IsAnnouncing
  <2>2. IsAnnouncing(c)
    BY <1>4, <2>1 DEF IsAnnouncing
  <2> QED
    BY <2>1, <2>2, AnnouncerOf
<1>5. AnnouncementsAreDue'
  <2>1. ASSUME NEW c \in Thread, IsAnnouncing(c)'
        PROVE  /\ Confirmed(call[c].plan)'
               /\ call'[c].event_count = Len(task_plans'[call'[c].plan].items)
               /\ ~IsAnnounced(call[c].plan)'
    <3> DEFINE p == call[c].plan
    <3>1. call'[c] = call[c] /\ IsAnnouncing(c) /\ p \in Plan
      BY <1>4, <2>1
    <3>2. Confirmed(p) /\ call[c].event_count = Len(task_plans[p].items) /\ ~IsAnnounced(p)
      BY <3>1 DEF AnnounceInv, AnnouncementsAreDue
    <3> QED
      BY <1>2, <1>3, <3>1, <3>2 DEF Confirmed, IsAnnounced
  <2>2. ASSUME NEW c \in Thread, NEW d \in Thread, IsAnnouncing(c)', IsAnnouncing(d)',
               call'[c].plan = call'[d].plan
        PROVE  c = d
    BY <1>4, <2>2 DEF AnnounceInv, AnnouncementsAreDue
  <2> QED
    BY <2>1, <2>2 DEF AnnouncementsAreDue
<1>6. ConfirmedOnce'
  BY QuietEvents DEF AnnounceInv, ConfirmedOnce
<1>7. ConfirmedEventIsTrue'
  <2> SUFFICES ASSUME NEW i \in 1 .. Len(events'), events'[i].type = "confirmed"
               PROVE  /\ Confirmed(events[i].plan)'
                      /\ events'[i].count = Len(task_plans'[events'[i].plan].items)
    BY DEF ConfirmedEventIsTrue
  <2>1. i \in 1 .. Len(events) /\ events'[i] = events[i]
    BY QuietEvents
  <2>2. events[i].plan \in Plan
    BY <2>1, EventPlan
  <2>3. Confirmed(events[i].plan) /\ events[i].count = Len(task_plans[events[i].plan].items)
    BY <2>1 DEF AnnounceInv, ConfirmedEventIsTrue
  <2> QED
    BY <1>3, <2>1, <2>2, <2>3 DEF Confirmed
<1> QED
  BY <1>1, <1>5, <1>6, <1>7 DEF AnnounceInv

LEMMA ServeIsQuiet ==
    ASSUME TypeOK, NEW c \in Thread, Serve(c)
    PROVE  Quiet
<1>1. ASSUME NEW p \in Plan, NEW plan, NEW new,
             ~Confirmed(p), task_plans' = [task_plans EXCEPT ![p] = plan],
             call' = [call EXCEPT ![c] = new], UNCHANGED events,
             new.step # "announce",
             new.step = "publish" => new.event.type # "confirmed"
      PROVE  Quiet
  <2>1. \A q \in Plan : Confirmed(q) => task_plans'[q] = task_plans[q]
    BY <1>1 DEF TypeOK
  <2>2. \A d \in Thread : call'[d] = call[d] \/ call'[d] = new
    BY <1>1 DEF TypeOK
  <2> QED
    BY <1>1, <2>1, <2>2 DEF Quiet
<1>2. ASSUME NEW p \in Plan, NEW items \in ItemList, CreateTaskPlan(c, p, items) PROVE Quiet
  <2> DEFINE new == [step |-> "publish", event |-> EventOf("created", p, Len(items))]
  <2>1. new.step = "publish" /\ new.event.type = "created"
    BY DEF EventOf
  <2>2. ~Confirmed(p) /\ UNCHANGED events /\ call' = [call EXCEPT ![c] = new]
    BY <1>2 DEF CreateTaskPlan, Confirmed
  <2>3. \E plan : task_plans' = [task_plans EXCEPT ![p] = plan]
    BY <1>2 DEF CreateTaskPlan
  <2> HIDE DEF new
  <2> QED
    BY <1>1, <2>1, <2>2, <2>3
<1>3. ASSUME NEW p \in Plan, NEW items \in ItemList, UpdateItems(c, p, items) PROVE Quiet
  <2> DEFINE new == IF DependenciesValid(items)
                    THEN [step |-> "publish", event |-> EventOf("updated", p, 0)] ELSE Idle
  <2>1. new.step # "announce" /\ (new.step = "publish" => new.event.type = "updated")
    BY DEF EventOf, Idle
  <2>2. ~Confirmed(p) /\ UNCHANGED events /\ call' = [call EXCEPT ![c] = new]
    BY <1>3 DEF UpdateItems, Confirmed, IsDraft
  <2>3. task_plans' = [task_plans EXCEPT
            ![p] = [task_plans[p] EXCEPT !.items = Preserved(task_plans[p].items, items)]]
    BY <1>3, DraftShape DEF UpdateItems, IsDraft, TypeOK, TaskPlan
  <2> HIDE DEF new
  <2> QED
    BY <1>1, <2>1, <2>2, <2>3
<1>4. ASSUME NEW p \in Plan, UpdateMetadata(c, p) \/ BeginConfirm(c, p) PROVE Quiet
  <2>1. UNCHANGED <<task_plans, events>>
    BY <1>4 DEF UpdateMetadata, BeginConfirm
  <2>2. /\ call'[c].step # "announce"
        /\ call'[c].step = "publish" => call'[c].event.type # "confirmed"
    <3>1. CASE UpdateMetadata(c, p)
      BY <3>1 DEF UpdateMetadata, EventOf, TypeOK
    <3>2. CASE BeginConfirm(c, p)
      BY <3>2 DEF BeginConfirm, TypeOK
    <3> QED
      BY <1>4, <3>1, <3>2
  <2>3. \A d \in Thread \ {c} : call'[d] = call[d]
    BY <1>4 DEF UpdateMetadata, BeginConfirm, TypeOK
  <2> QED
    BY <2>1, <2>2, <2>3 DEF Quiet
<1> QED
  BY <1>2, <1>3, <1>4 DEF Serve

LEMMA ContinueIsQuiet ==
    ASSUME TypeOK, PublicationsAreOther, NEW c \in Thread,
           HooksPass(c) \/ HooksFail(c) \/ ConfirmRefused(c) \/ Publish(c)
    PROVE  Quiet
<1>1. UNCHANGED task_plans
  BY DEF HooksPass, HooksFail, ConfirmRefused, Publish
<1>2. UNCHANGED events \/ \E e \in Event : e.type # "confirmed" /\ events' = Append(events, e)
  <2>1. CASE HooksPass(c) \/ ConfirmRefused(c)
    BY <2>1 DEF HooksPass, ConfirmRefused
  <2>2. CASE HooksFail(c)
    <3>1. call[c].plan \in Plan
      BY <2>2, CallShape DEF HooksFail, Confirmation
    <3>2. /\ EventOf("confirm_failed", call[c].plan, 0) \in Event
          /\ EventOf("confirm_failed", call[c].plan, 0).type # "confirmed"
      BY <3>1 DEF EventOf, Event
    <3> QED
      BY <2>2, <3>2 DEF HooksFail
  <2>3. CASE Publish(c)
    BY <2>3, CallShape DEF Publish, PublicationsAreOther
  <2> QED
    BY <2>1, <2>2, <2>3
<1>3. \A d \in Thread \ {c} : call'[d] = call[d]
  BY DEF HooksPass, HooksFail, ConfirmRefused, Publish, TypeOK
<1>4. call'[c].step \in {"confirm", "idle"}
  <2>1. CASE call[c].step = "beforeHooks" /\ call' = [call EXCEPT ![c].step = "confirm"]
    BY <2>1, Continues
  <2>2. CASE call' = [call EXCEPT ![c] = Idle]
    BY <2>2 DEF TypeOK, Idle
  <2> QED
    BY <2>1, <2>2 DEF HooksPass, HooksFail, ConfirmRefused, Publish
<1> QED
  BY <1>1, <1>2, <1>3, <1>4 DEF Quiet

LEMMA ConfirmKeeps ==
    ASSUME TypeOK, AnnounceInv, NEW c \in Thread, Confirm(c)
    PROVE  AnnounceInv'
<1>0. PICK p \in Plan : p = call[c].plan
  BY CallShape DEF Confirm, Confirmation
<1>1. call[c].step = "confirm"
  BY DEF Confirm
<1>2. IsDraft(p) /\ Freeze(p) /\ Announcing(c, Len(task_plans[p].items)) /\ UNCHANGED events
  BY <1>0 DEF Confirm
<1>3. /\ ~Confirmed(p) /\ Confirmed(p)'
      /\ Len(task_plans'[p].items) = Len(task_plans[p].items)
      /\ Len(task_plans[p].items) \in Nat
      /\ \A q \in Plan \ {p} : task_plans'[q] = task_plans[q]
  BY <1>1, <1>2, FreezeFacts, DraftShape DEF IsDraft, Confirmed
<1>4. /\ call'[c].step = "announce"
      /\ call'[c].plan = p
      /\ call'[c].event_count = Len(task_plans[p].items)
      /\ \A d \in Thread \ {c} : call'[d] = call[d]
  BY <1>0, <1>1, <1>2, <1>3, Announces
<1>5. ~IsAnnounced(p)
  BY <1>3 DEF IsAnnounced, AnnounceInv, ConfirmedEventIsTrue
<1>6. ASSUME NEW d \in Thread \ {c}, IsAnnouncing(d)'
      PROVE  /\ IsAnnouncing(d) /\ call'[d] = call[d]
             /\ call[d].plan \in Plan \ {p}
             /\ Confirmed(call[d].plan)
             /\ call[d].event_count = Len(task_plans[call[d].plan].items)
             /\ ~IsAnnounced(call[d].plan)
  <2>1. IsAnnouncing(d) /\ call'[d] = call[d]
    BY <1>4, <1>6 DEF IsAnnouncing
  <2> QED
    BY <1>3, <2>1, AnnouncerOf DEF AnnounceInv, AnnouncementsAreDue
<1>7. PublicationsAreOther'
  BY <1>4 DEF AnnounceInv, PublicationsAreOther
<1>8. AnnouncementsAreDue'
  <2>1. ASSUME NEW d \in Thread, IsAnnouncing(d)'
        PROVE  /\ Confirmed(call[d].plan)'
               /\ call'[d].event_count = Len(task_plans'[call'[d].plan].items)
               /\ ~IsAnnounced(call[d].plan)'
    <3>1. CASE d = c
      BY <1>2, <1>3, <1>4, <1>5, <3>1 DEF IsAnnounced, Confirmed
    <3>2. CASE d # c
      BY <1>2, <1>3, <1>6, <2>1, <3>2 DEF IsAnnounced, Confirmed
    <3> QED
      BY <3>1, <3>2
  <2>2. ASSUME NEW d \in Thread, NEW e \in Thread, IsAnnouncing(d)', IsAnnouncing(e)',
               call'[d].plan = call'[e].plan
        PROVE  d = e
    BY <1>4, <1>6, <2>2 DEF AnnounceInv, AnnouncementsAreDue
  <2> QED
    BY <2>1, <2>2 DEF AnnouncementsAreDue
<1>9. ConfirmedOnce' /\ ConfirmedEventIsTrue'
  <2>1. ConfirmedOnce'
    BY <1>2 DEF AnnounceInv, ConfirmedOnce
  <2>2. ASSUME NEW i \in 1 .. Len(events), events[i].type = "confirmed"
        PROVE  /\ Confirmed(events[i].plan)'
               /\ events[i].count = Len(task_plans'[events[i].plan].items)
    <3>1. events[i].plan \in Plan \ {p}
      BY <1>5, <2>2, EventPlan DEF IsAnnounced
    <3>2. Confirmed(events[i].plan) /\ events[i].count = Len(task_plans[events[i].plan].items)
      BY <2>2 DEF AnnounceInv, ConfirmedEventIsTrue
    <3> QED
      BY <1>2, <1>3, <3>1, <3>2 DEF Confirmed
  <2> QED
    BY <1>2, <2>1, <2>2 DEF ConfirmedEventIsTrue, Confirmed
<1> QED
  BY <1>7, <1>8, <1>9 DEF AnnounceInv

LEMMA AnnounceKeeps ==
    ASSUME TypeOK, AnnounceInv, NEW c \in Thread, Announce(c)
    PROVE  AnnounceInv'
<1> DEFINE p == call[c].plan
           e == EventOf("confirmed", p, call[c].event_count)
<1>1. p \in Plan /\ IsAnnouncing(c) /\ e \in Event
  BY CallShape, EventTyped DEF Announce, Confirmation, IsAnnouncing
<1>2. e.type = "confirmed" /\ e.plan = p /\ e.count = call[c].event_count
  BY DEF EventOf
<1>3. events' = Append(events, e) /\ UNCHANGED task_plans
  BY DEF Announce
<1>4. call'[c].step = "afterHooks" /\ \A d \in Thread \ {c} : call'[d] = call[d]
  BY <1>1, Continues DEF Announce, IsAnnouncing
<1>5. /\ Confirmed(p)
      /\ call[c].event_count = Len(task_plans[p].items)
      /\ ~IsAnnounced(p)
  BY <1>1 DEF AnnounceInv, AnnouncementsAreDue
<1> HIDE DEF p, e
<1>6. /\ Len(events) \in Nat
      /\ Len(events') = Len(events) + 1
      /\ \A i \in 1 .. Len(events) : events'[i] = events[i]
      /\ events'[Len(events) + 1] = e
  BY <1>1, <1>3, AppendFacts
<1>7. \A i \in 1 .. Len(events') : i \in 1 .. Len(events) \/ i = Len(events) + 1
  BY <1>6
<1>8. PublicationsAreOther'
  BY <1>4 DEF AnnounceInv, PublicationsAreOther
<1>9. ASSUME NEW d \in Thread, IsAnnouncing(d)'
      PROVE  IsAnnouncing(d) /\ d # c /\ call'[d] = call[d] /\ call[d].plan # p
  BY <1>1, <1>4, <1>9 DEF IsAnnouncing, AnnounceInv, AnnouncementsAreDue, p
<1>10. AnnouncementsAreDue'
  <2>1. ASSUME NEW d \in Thread, IsAnnouncing(d)'
        PROVE  /\ Confirmed(call[d].plan)'
               /\ call'[d].event_count = Len(task_plans'[call'[d].plan].items)
               /\ ~IsAnnounced(call[d].plan)'
    <3>1. IsAnnouncing(d) /\ d # c /\ call'[d] = call[d] /\ call[d].plan # p
      BY <1>9, <2>1
    <3>2. /\ Confirmed(call[d].plan)
          /\ call[d].event_count = Len(task_plans[call[d].plan].items)
          /\ ~IsAnnounced(call[d].plan)
      BY <3>1 DEF AnnounceInv, AnnouncementsAreDue
    <3>3. ~IsAnnounced(call[d].plan)'
      BY <1>2, <1>6, <1>7, <3>1, <3>2 DEF IsAnnounced
    <3> QED
      BY <1>3, <3>1, <3>2, <3>3 DEF Confirmed
  <2>2. ASSUME NEW d \in Thread, NEW f \in Thread, IsAnnouncing(d)', IsAnnouncing(f)',
               call'[d].plan = call'[f].plan
        PROVE  d = f
    BY <1>9, <2>2 DEF AnnounceInv, AnnouncementsAreDue
  <2> QED
    BY <2>1, <2>2 DEF AnnouncementsAreDue
<1>11. ConfirmedOnce'
  <2> SUFFICES ASSUME NEW i \in 1 .. Len(events'), NEW j \in 1 .. Len(events'),
                      events'[i].type = "confirmed", events'[j].type = "confirmed",
                      events'[i].plan = events'[j].plan
               PROVE  i = j
    BY DEF ConfirmedOnce
  <2>1. CASE i \in 1 .. Len(events) /\ j \in 1 .. Len(events)
    BY <1>6, <2>1 DEF AnnounceInv, ConfirmedOnce
  <2>2. CASE i \in 1 .. Len(events) /\ j = Len(events) + 1
    BY <1>2, <1>5, <1>6, <2>2 DEF IsAnnounced
  <2>3. CASE j \in 1 .. Len(events) /\ i = Len(events) + 1
    BY <1>2, <1>5, <1>6, <2>3 DEF IsAnnounced
  <2> QED
    BY <1>7, <2>1, <2>2, <2>3
<1>12. ConfirmedEventIsTrue'
  <2> SUFFICES ASSUME NEW i \in 1 .. Len(events'), events'[i].type = "confirmed"
               PROVE  /\ Confirmed(events[i].plan)'
                      /\ events'[i].count = Len(task_plans'[events'[i].plan].items)
    BY DEF ConfirmedEventIsTrue
  <2>1. CASE i = Len(events) + 1
    BY <1>2, <1>3, <1>5, <1>6, <2>1 DEF Confirmed
  <2>2. CASE i \in 1 .. Len(events)
    BY <1>3, <1>6, <2>2 DEF AnnounceInv, ConfirmedEventIsTrue, Confirmed
  <2> QED
    BY <1>7, <2>1, <2>2
<1> QED
  BY <1>8, <1>10, <1>11, <1>12 DEF AnnounceInv

LEMMA AnnounceInit == Init => AnnounceInv
BY DEF Init, Idle, AnnounceInv, PublicationsAreOther, AnnouncementsAreDue, IsAnnouncing,
       ConfirmedOnce, ConfirmedEventIsTrue

LEMMA AnnounceNext == TypeOK /\ AnnounceInv /\ [Next]_vars => AnnounceInv'
<1> SUFFICES ASSUME TypeOK, AnnounceInv, [Next]_vars PROVE AnnounceInv'
  OBVIOUS
<1>1. ASSUME NEW c \in Thread, Serve(c) PROVE AnnounceInv'
  BY <1>1, ServeIsQuiet, QuietKeeps
<1>2. ASSUME NEW c \in Thread, Continue(c) PROVE AnnounceInv'
  BY <1>2, ContinueIsQuiet, QuietKeeps, ConfirmKeeps, AnnounceKeeps DEF Continue, AnnounceInv
<1>3. CASE UNCHANGED vars
  <2>1. Quiet
    BY <1>3 DEF vars, Quiet
  <2> QED
    BY <2>1, QuietKeeps
<1> QED
  BY <1>1, <1>2, <1>3 DEF Next

LEMMA AnnounceInvariant == Spec => []AnnounceInv
<1> QED
  BY TypeCorrect, AnnounceInit, AnnounceNext, PTL DEF Spec

(* However many threads confirm a plan, at most one confirmed event of it  *)
(* is ever in the log.                                                     *)
THEOREM ConfirmationIsUnique == Spec => []ConfirmedOnce
<1>1. AnnounceInv => ConfirmedOnce
  BY DEF AnnounceInv
<1> QED
  BY <1>1, AnnounceInvariant, PTL

(* A confirmed event in the log is true of its plan from then on: the plan *)
(* is confirmed and has the announced number of items.                     *)
THEOREM ConfirmationsAreTrue == Spec => []ConfirmedEventIsTrue
<1>1. AnnounceInv => ConfirmedEventIsTrue
  BY DEF AnnounceInv
<1> QED
  BY <1>1, AnnounceInvariant, PTL
=============================================================================
