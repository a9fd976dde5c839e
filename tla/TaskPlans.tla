----------------------------- MODULE TaskPlans -----------------------------
(***************************************************************************)
(* The task plan endpoints of agentManager/api.py, the validation of       *)
(* agentManager/domain/task_plan.py and the hooks of runtime/hooks.py.     *)
(*                                                                         *)
(* The handlers run in a thread pool.  What a handler does under           *)
(* _task_plans_lock is one step.  The events are published, and the hooks  *)
(* run, outside the lock: a confirmation is a first look at the plan, the  *)
(* before hooks, a second section that confirms, the event, and the after  *)
(* hooks, with the requests of other threads in between.                   *)
(*                                                                         *)
(* Requests that answer 400, 404 or 409 and change nothing are left out,   *)
(* as are a plan's fields no condition looks at.                           *)
(***************************************************************************)
EXTENDS Naturals, Sequences

CONSTANTS
    Plan,        \* plan ids
    ItemId,      \* ids of items
    ItemList,    \* the lists of items clients send
    Thread,      \* the threads of the server's pool
    MaxRequests, \* bound: requests served in a behaviour
    None         \* no plan

(* What the conditions look at of an item a client sends. *)
Item == [id : ItemId, dependencies : SUBSET ItemId, verification : BOOLEAN]

ASSUME TaskPlansAssumption ==
    /\ ItemList \subseteq Seq(Item)
    /\ MaxRequests \in Nat

VARIABLES
    task_plans,  \* _task_plans, None when the id is not a key
    events,      \* the event bus's log
    call,        \* call[c]: what thread c is doing
    requests     \* how many requests have begun

vars == <<task_plans, events, call, requests>>

PlanItem == [item : Item, status : {"pending_review", "confirmed"}]
TaskPlan == [status : {"draft", "confirmed"}, items : Seq(PlanItem)]

ASSUME NoneAssumption == None \notin TaskPlan /\ None \notin Seq(Item)

Event == [type : {"created", "updated", "confirmed", "confirm_failed"}, plan : Plan, count : Nat]

Idle == [step |-> "idle"]

Call == [step : {"publish"}, event : Event]
        \union [step : {"beforeHooks", "confirm", "announce", "afterHooks"}, plan : Plan,
                items_count : Nat,  \* of hook_context, what the hooks are told
                event_count : Nat]  \* of the confirmed event
        \union {Idle}

TypeOK ==
    /\ task_plans \in [Plan -> TaskPlan \union {None}]
    /\ events \in Seq(Event)
    /\ call \in [Thread -> Call]
    /\ requests \in Nat

Init ==
    /\ task_plans = [p \in Plan |-> None]
    /\ events = <<>>
    /\ call = [c \in Thread |-> Idle]
    /\ requests = 0

----------------------------------------------------------------------------

(* validate_dependencies: no id twice, and no dependency on an id that is  *)
(* not in the plan.  (Items may well depend on each other in a circle.)    *)
DependenciesValid(items) ==
    /\ \A i, j \in 1 .. Len(items) : items[i].id = items[j].id => i = j
    /\ \A i \in 1 .. Len(items) : items[i].dependencies \subseteq {items[j].id : j \in 1 .. Len(items)}

(* validate_verification *)
VerificationValid(items) == \A i \in 1 .. Len(items) : items[i].verification

Accepted(items) == DependenciesValid(items) /\ VerificationValid(items)

(* A stored list without the statuses of its items. *)
Plain(items) == [i \in 1 .. Len(items) |-> items[i].item]

EventOf(type, p, n) == [type |-> type, plan |-> p, count |-> n]

Request(c) == /\ call[c] = Idle
              /\ requests < MaxRequests
              /\ requests' = requests + 1

IsDraft(p) == task_plans[p] # None /\ task_plans[p].status = "draft"

----------------------------------------------------------------------------

(* POST /task-plans *)
CreateTaskPlan(c, p, items) ==
    /\ Request(c)
    /\ task_plans[p] = None
    /\ DependenciesValid(items)
    /\ task_plans' = [task_plans EXCEPT ![p] =
           [status |-> "draft",
            items |-> [i \in 1 .. Len(items) |-> [item |-> items[i], status |-> "pending_review"]]]]
    /\ call' = [call EXCEPT ![c] =
           [step |-> "publish", event |-> EventOf("created", p, Len(items))]]
    /\ UNCHANGED events

(* An item the plan has already keeps its status (the last one of its id   *)
(* decides), a new one is to be reviewed.                                  *)
Preserved(old, items) ==
    [i \in 1 .. Len(items) |->
        [item |-> items[i],
         status |-> IF \E j \in 1 .. Len(old) :
                          /\ old[j].item.id = items[i].id
                          /\ old[j].status = "confirmed"
                          /\ \A k \in j + 1 .. Len(old) : old[k].item.id # items[i].id
                    THEN "confirmed" ELSE "pending_review"]]

(* PUT /task-plans/{id} with items: they are stored, and then validated. A *)
(* list that is not valid is answered with 400, and stays.                 *)
UpdateItems(c, p, items) ==
    /\ Request(c)
    /\ IsDraft(p)
    /\ task_plans' = [task_plans EXCEPT ![p].items = Preserved(@, items)]
    /\ call' = [call EXCEPT ![c] =
           IF DependenciesValid(items)
           THEN [step |-> "publish", event |-> EventOf("updated", p, 0)] ELSE Idle]
    /\ UNCHANGED events

(* PUT /task-plans/{id} with metadata only. *)
UpdateMetadata(c, p) ==
    /\ Request(c)
    /\ IsDraft(p)
    /\ call' = [call EXCEPT ![c] = [step |-> "publish", event |-> EventOf("updated", p, 0)]]
    /\ UNCHANGED <<task_plans, events>>

(* POST /task-plans/{id}/confirm: the first look. *)
BeginConfirm(c, p) ==
    /\ Request(c)
    /\ IsDraft(p)
    /\ Accepted(Plain(task_plans[p].items))
    /\ call' = [call EXCEPT ![c] = 
           [step |-> "beforeHooks", plan |-> p,
            items_count |-> Len(task_plans[p].items), event_count |-> 0]]
    /\ UNCHANGED <<task_plans, events>>

(* run_hooks returns: no hook is configured, or every one that must not    *)
(* fail has succeeded.                                                     *)
HooksPass(c) ==
    /\ \/ /\ call[c].step = "beforeHooks"
          /\ call' = [call EXCEPT ![c].step = "confirm"]
       \/ /\ call[c].step = "afterHooks"
          /\ call' = [call EXCEPT ![c] = Idle]
    /\ UNCHANGED <<task_plans, events, requests>>

(* A hook that must not fail fails or times out: the confirmation ends     *)
(* here, before or after the plan is confirmed.                            *)
HooksFail(c) ==
    /\ call[c].step \in {"beforeHooks", "afterHooks"}
    /\ events' = Append(events, EventOf("confirm_failed", call[c].plan, 0))
    /\ call' = [call EXCEPT ![c] = Idle]
    /\ UNCHANGED <<task_plans, requests>>

(* The plan and its items are confirmed. *)
Freeze(p) ==
    task_plans' = [task_plans EXCEPT
        ![p].status = "confirmed",
        ![p].items = [i \in DOMAIN @ |-> [@[i] EXCEPT !.status = "confirmed"]]]

Announcing(c, n) == call' = [call EXCEPT ![c].step = "announce", ![c].event_count = n]

(* Mutant: the plan is validated the first time only. *)
Confirm_validatesOnce(c) ==
    /\ call[c].step = "confirm"
    /\ LET p == call[c].plan IN
          /\ IsDraft(p)
          /\ Freeze(p)
          /\ Announcing(c, Len(task_plans[p].items))
    /\ UNCHANGED <<events, requests>>

(* Mutant: the event is given the number of items the hooks were given. *)
Confirm_staleCount(c) ==
    /\ call[c].step = "confirm"
    /\ LET p == call[c].plan IN
          /\ IsDraft(p)
          /\ Accepted(Plain(task_plans[p].items))
          /\ Freeze(p)
          /\ Announcing(c, call[c].items_count)
    /\ UNCHANGED <<events, requests>>

(* The second section: everything is looked at again. *)
Confirm(c) ==
    /\ call[c].step = "confirm"
    /\ LET p == call[c].plan IN
          /\ IsDraft(p)
          /\ Accepted(Plain(task_plans[p].items))
          /\ Freeze(p)
          /\ Announcing(c, Len(task_plans[p].items))
    /\ UNCHANGED <<events, requests>>

(* Somebody else has confirmed or spoiled the plan meanwhile: 409 or 400.  *)
ConfirmRefused(c) ==
    /\ call[c].step = "confirm"
    /\ LET p == call[c].plan IN ~(IsDraft(p) /\ Accepted(Plain(task_plans[p].items)))
    /\ call' = [call EXCEPT ![c] = Idle]
    /\ UNCHANGED <<task_plans, events, requests>>

(* Mutant: the after hooks run before the event is published. *)
Announce_hooksFirst(c) ==
    /\ call[c].step = "announce"
    /\ \E type \in {"confirmed", "confirm_failed"} :
          events' = Append(events, EventOf(type, call[c].plan, call[c].event_count))
    /\ call' = [call EXCEPT ![c] = Idle]
    /\ UNCHANGED <<task_plans, requests>>

Announce(c) ==
    /\ call[c].step = "announce"
    /\ events' = Append(events, EventOf("confirmed", call[c].plan, call[c].event_count))
    /\ call' = [call EXCEPT ![c].step = "afterHooks"]
    /\ UNCHANGED <<task_plans, requests>>

(* The event of a creation or an update. *)
Publish(c) ==
    /\ call[c].step = "publish"
    /\ events' = Append(events, call[c].event)
    /\ call' = [call EXCEPT ![c] = Idle]
    /\ UNCHANGED <<task_plans, requests>>

----------------------------------------------------------------------------

Serve(c) == \/ \E p \in Plan, items \in ItemList :
                  CreateTaskPlan(c, p, items) \/ UpdateItems(c, p, items)
            \/ \E p \in Plan : UpdateMetadata(c, p) \/ BeginConfirm(c, p)

Continue(c) == HooksPass(c) \/ HooksFail(c) \/ Confirm(c) \/ ConfirmRefused(c)
               \/ Announce(c) \/ Publish(c)

Next == \E c \in Thread : Serve(c) \/ Continue(c)

Spec == Init /\ [][Next]_vars

(* A request that is being served goes on: threads are scheduled, and a    *)
(* hook has at most timeout_seconds.                                       *)
FairSpec == Spec /\ \A c \in Thread : WF_vars(Continue(c))

----------------------------------------------------------------------------

Confirmed(p) == task_plans[p] # None /\ task_plans[p].status = "confirmed"

Review == INSTANCE PlanReview WITH
    Acceptable <- Accepted,
    content <- [p \in Plan |-> IF task_plans[p] = None THEN None ELSE Plain(task_plans[p].items)],
    frozen <- {p \in Plan : Confirmed(p)}

(* "Cannot update a confirmed task plan" (api.py:912), and what is         *)
(* confirmed has passed both validations as it stands then, whatever edits *)
(* and confirmations of other threads come between the first look, the     *)
(* hooks and the second section.                                           *)
ImplementsReview == Review!Spec

(* However many clients confirm a plan at the same time, it is announced   *)
(* as confirmed once: one of them gets 200, the others 409.                *)
ConfirmedOnce ==
    \A i, j \in 1 .. Len(events) :
        /\ events[i].type = "confirmed"
        /\ events[j].type = "confirmed"
        /\ events[i].plan = events[j].plan
        => i = j

(* What the confirmed event says is true when it is published and stays    *)
(* so: the plan is confirmed, and has as many items as announced.          *)
ConfirmedEventIsTrue ==
    \A i \in 1 .. Len(events) : events[i].type = "confirmed" =>
        /\ Confirmed(events[i].plan)
        /\ events[i].count = Len(task_plans[events[i].plan].items)

(* A confirmation is not kept secret: the event follows, also when the     *)
(* after hooks fail.                                                       *)
ConfirmationIsAnnounced ==
    \A p \in Plan : Confirmed(p) ~>
        \E i \in 1 .. Len(events) : events[i].type = "confirmed" /\ events[i].plan = p
=============================================================================
