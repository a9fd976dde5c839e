------------------------------ MODULE TaskApi ------------------------------
(***************************************************************************)
(* The task endpoints of agentManager/api.py: POST /tasks, and POST        *)
(* /tasks/{id}/complete and /fail.                                         *)
(*                                                                         *)
(* The handlers are plain functions, so the server runs them in a thread   *)
(* pool; they share one DAG engine, one state machine (here without a      *)
(* repository: StateMachine has that part), one scheduler and the table of *)
(* start times.  Only the scheduler takes a lock.  A handler is therefore  *)
(* one step per access to what is shared; call[c] is the request thread c  *)
(* serves and the step it is at.                                           *)
(*                                                                         *)
(* A request that answers 400 or 404 before it has changed anything is     *)
(* left out, and so are the metrics and the state machine's history.       *)
(***************************************************************************)
EXTENDS TaskStates, Naturals

CONSTANTS
    Task,        \* the ids clients use
    Thread,      \* the threads of the server's pool
    MaxRequests  \* bound: requests served in a behaviour

ASSUME TaskApiAssumption == MaxRequests \in Nat

VARIABLES
    node,         \* dag_engine.nodes[t].status, "absent" when t is not a key
    dependencies, \* dag_engine.nodes[t].dependencies, as a set
    graph,        \* the edges <<dependency, task>> of dag_engine.graph
    startTimes,   \* the keys of _task_start_times
    state,        \* state_machine.states
    scheduled,    \* scheduler.tasks[t].status, "absent" when t is not a key
    events,       \* the events published, as <<type, task>>
    call,         \* call[c]: what thread c is doing
    requests,     \* how many requests have begun
    disturbed     \* history: tasks with an error answer or overlapping requests

vars == <<node, dependencies, graph, startTimes, state, scheduled, events, call,
          requests, disturbed>>

Status == {"absent", "pending", "completed", "failed"}
Outcome == {"completed", "failed"}

Idle == [step |-> "idle"]

CreateStep == {"node", "edges", "scan", "init", "initialize", "schedule", "created"}
EndStep == {"startTime", "dag", "getState", "check", "apply", "mark", "ended"}

Creation == [step : CreateStep, task : Task, todo : SUBSET Task, seen : SUBSET Task]
Ending == [step : EndStep, task : Task, to : Outcome]
Call == Creation \union Ending \union {Idle}

TypeOK ==
    /\ node \in [Task -> Status]
    /\ dependencies \in [Task -> SUBSET Task]
    /\ graph \subseteq Task \X Task
    /\ startTimes \subseteq Task
    /\ state \in [Task -> TaskState \union {None}]
    /\ scheduled \in [Task -> Status]
    /\ events \subseteq (Outcome \union {"created"}) \X Task
    /\ call \in [Thread -> Call]
    /\ requests \in Nat
    /\ disturbed \subseteq Task

Init ==
    /\ node = [t \in Task |-> "absent"]
    /\ dependencies = [t \in Task |-> {}]
    /\ graph = {}
    /\ startTimes = {}
    /\ state = [t \in Task |-> None]
    /\ scheduled = [t \in Task |-> "absent"]
    /\ events = {}
    /\ call = [c \in Thread |-> Idle]
    /\ requests = 0
    /\ disturbed = {}

----------------------------------------------------------------------------

Nodes == {t \in Task : node[t] # "absent"}

(* A set of tasks each of which has to wait for another one of the set.    *)
(* The depth-first search of _detect_cycle_path finds one if there is one. *)
Cyclic(edges) ==
    \E S \in SUBSET Task : /\ S # {}
                           /\ \A t \in S : \E d \in S : <<d, t>> \in edges

At(c, step) == call[c].step = step

Goto(c, step) == call' = [call EXCEPT ![c].step = step]

(* A request for t begins while another one for t is being served. *)
Begin(c, t, request) ==
    /\ At(c, "idle")
    /\ requests < MaxRequests
    /\ requests' = requests + 1
    /\ call' = [call EXCEPT ![c] = request]
    /\ disturbed' = IF \E o \in Thread : call[o] # Idle /\ call[o].task = t
                    THEN disturbed \union {t} ELSE disturbed

(* The handler answers with an error; what it has done so far stays.       *)
Error(c) ==
    /\ call' = [call EXCEPT ![c] = Idle]
    /\ disturbed' = disturbed \union {call[c].task}

----------------------------------------------------------------------------
(* POST /tasks                                                             *)

(* Mutant: the dependencies are not looked up. *)
CheckNew_anyDependency(c, t, deps) ==
    /\ t \notin Nodes
    /\ Begin(c, t, [step |-> "node", task |-> t, todo |-> deps, seen |-> {}])
    /\ UNCHANGED <<node, dependencies, graph, startTimes, state, scheduled, events>>

(* The id is new (as add_node finds it again) and the dependencies are     *)
(* nodes.  Nodes are never removed, so all of this holds at the last of    *)
(* the looks, which is the step modelled.                                  *)
CheckNew(c, t, deps) ==
    /\ t \notin Nodes
    /\ deps \subseteq Nodes
    /\ Begin(c, t, [step |-> "node", task |-> t, todo |-> deps, seen |-> {}])
    /\ UNCHANGED <<node, dependencies, graph, startTimes, state, scheduled, events>>

(* add_node's assignment; it replaces a node that was added meanwhile.     *)
AddNode(c) ==
    /\ At(c, "node")
    /\ node' = [node EXCEPT ![call[c].task] = "pending"]
    /\ dependencies' = [dependencies EXCEPT ![call[c].task] = call[c].todo]
    /\ Goto(c, "edges")
    /\ UNCHANGED <<graph, startTimes, state, scheduled, events, disturbed, requests>>

(* add_edge walks over dag_engine.nodes in search of a cycle. *)
ScanNodes(c) ==
    /\ At(c, "edges")
    /\ call[c].todo # {}
    /\ call' = [call EXCEPT ![c].step = "scan", ![c].seen = Nodes]
    /\ UNCHANGED <<node, dependencies, graph, startTimes, state, scheduled, events,
                   disturbed, requests>>

Refused(d, t) == {d, t} \ Nodes # {} \/ Cyclic(graph \union {<<d, t>>})

AddEdge(c) ==
    /\ At(c, "scan")
    /\ LET t == call[c].task IN
       \E d \in call[c].todo :
          /\ ~Refused(d, t)
          /\ graph' = graph \union {<<d, t>>}
          /\ dependencies' = [dependencies EXCEPT ![t] = @ \union {d}]
          /\ call' = [call EXCEPT ![c].step = "edges", ![c].todo = @ \ {d}]
    /\ UNCHANGED <<node, startTimes, state, scheduled, events, disturbed, requests>>

(* The edge is refused, or a node was added while the walk was under way   *)
(* ("dictionary changed size during iteration").                           *)
AddEdgeRaises(c) ==
    /\ At(c, "scan")
    /\ \/ call[c].seen # Nodes
       \/ \E d \in call[c].todo : Refused(d, call[c].task)
    /\ Error(c)
    /\ UNCHANGED <<node, dependencies, graph, startTimes, state, scheduled, events,
                   requests>>

RecordStart(c) ==
    /\ At(c, "edges")
    /\ call[c].todo = {}
    /\ startTimes' = startTimes \union {call[c].task}
    /\ Goto(c, "init")
    /\ UNCHANGED <<node, dependencies, graph, state, scheduled, events, disturbed,
                   requests>>

InitializeCheck(c) ==
    /\ At(c, "init")
    /\ \/ state[call[c].task] = None /\ Goto(c, "initialize") /\ UNCHANGED disturbed
       \/ state[call[c].task] # None /\ Error(c)
    /\ UNCHANGED <<node, dependencies, graph, startTimes, state, scheduled, events,
                   requests>>

Initialize(c) ==
    /\ At(c, "initialize")
    /\ state' = [state EXCEPT ![call[c].task] = "pending"]
    /\ Goto(c, "schedule")
    /\ UNCHANGED <<node, dependencies, graph, startTimes, scheduled, events,
                   disturbed, requests>>

AddTask(c) ==
    /\ At(c, "schedule")
    /\ \/ /\ scheduled[call[c].task] = "absent"
          /\ scheduled' = [scheduled EXCEPT ![call[c].task] = "pending"]
          /\ Goto(c, "created")
          /\ UNCHANGED disturbed
       \/ /\ scheduled[call[c].task] # "absent"
          /\ Error(c)
          /\ UNCHANGED scheduled
    /\ UNCHANGED <<node, dependencies, graph, startTimes, state, events, requests>>

(* The event is published and the answer is 201. *)
Created(c) ==
    /\ At(c, "created")
    /\ events' = events \union {<<"created", call[c].task>>}
    /\ call' = [call EXCEPT ![c] = Idle]
    /\ UNCHANGED <<node, dependencies, graph, startTimes, state, scheduled,
                   disturbed, requests>>

Create(c) == \/ \E t \in Task, deps \in SUBSET Task : CheckNew(c, t, deps)
             \/ AddNode(c) \/ ScanNodes(c) \/ AddEdge(c) \/ AddEdgeRaises(c)
             \/ RecordStart(c) \/ InitializeCheck(c) \/ Initialize(c)
             \/ AddTask(c) \/ Created(c)

----------------------------------------------------------------------------
(* POST /tasks/{id}/complete and /fail: the same steps with another        *)
(* outcome.                                                                *)

(* The task is a node; whether it has a start time decides the next step.  *)
Finish(c, t, to) ==
    /\ t \in Nodes
    /\ Begin(c, t, [step |-> IF t \in startTimes THEN "startTime" ELSE "dag",
                    task |-> t, to |-> to])
    /\ UNCHANGED <<node, dependencies, graph, startTimes, state, scheduled, events>>

(* The start time is deleted; it is gone already if another request was    *)
(* faster (KeyError).                                                      *)
DropStartTime(c) ==
    /\ At(c, "startTime")
    /\ \/ /\ call[c].task \in startTimes
          /\ startTimes' = startTimes \ {call[c].task}
          /\ Goto(c, "dag")
          /\ UNCHANGED disturbed
       \/ call[c].task \notin startTimes /\ Error(c) /\ UNCHANGED startTimes
    /\ UNCHANGED <<node, dependencies, graph, state, scheduled, events, requests>>

UpdateNode(c) ==
    /\ At(c, "dag")
    /\ node' = [node EXCEPT ![call[c].task] = call[c].to]
    /\ Goto(c, "getState")
    /\ UNCHANGED <<dependencies, graph, startTimes, state, scheduled, events,
                   disturbed, requests>>

(* get_state: a task in a terminal state is not transitioned.              *)
GetState(c) ==
    /\ At(c, "getState")
    /\ Goto(c, IF state[call[c].task] \in Terminal THEN "mark" ELSE "check")
    /\ UNCHANGED <<node, dependencies, graph, startTimes, state, scheduled, events,
                   disturbed, requests>>

(* transition looks at the state again. *)
CheckTransition(c) ==
    /\ At(c, "check")
    /\ LET current == state[call[c].task] IN
       \/ /\ current # None /\ CanTransition(current, call[c].to)
          /\ Goto(c, "apply")
          /\ UNCHANGED disturbed
       \/ /\ current = None \/ ~CanTransition(current, call[c].to)
          /\ Error(c)
    /\ UNCHANGED <<node, dependencies, graph, startTimes, state, scheduled, events,
                   requests>>

ApplyTransition(c) ==
    /\ At(c, "apply")
    /\ state' = [state EXCEPT ![call[c].task] = call[c].to]
    /\ Goto(c, "mark")
    /\ UNCHANGED <<node, dependencies, graph, startTimes, scheduled, events,
                   disturbed, requests>>

(* Mutant: fail_task was copied from complete_task and marks as it does. *)
Mark_copied(c) ==
    /\ At(c, "mark")
    /\ scheduled[call[c].task] # "absent"
    /\ scheduled' = [scheduled EXCEPT ![call[c].task] = "completed"]
    /\ Goto(c, "ended")
    /\ UNCHANGED <<node, dependencies, graph, startTimes, state, events, disturbed,
                   requests>>

(* mark_completed or mark_failed. *)
Mark(c) ==
    /\ At(c, "mark")
    /\ \/ /\ scheduled[call[c].task] # "absent"
          /\ scheduled' = [scheduled EXCEPT ![call[c].task] = call[c].to]
          /\ Goto(c, "ended")
          /\ UNCHANGED disturbed
       \/ scheduled[call[c].task] = "absent" /\ Error(c) /\ UNCHANGED scheduled
    /\ UNCHANGED <<node, dependencies, graph, startTimes, state, events, requests>>

Ended(c) ==
    /\ At(c, "ended")
    /\ events' = events \union {<<call[c].to, call[c].task>>}
    /\ call' = [call EXCEPT ![c] = Idle]
    /\ UNCHANGED <<node, dependencies, graph, startTimes, state, scheduled,
                   disturbed, requests>>

End(c) == \/ \E t \in Task, to \in Outcome : Finish(c, t, to)
          \/ DropStartTime(c) \/ UpdateNode(c) \/ GetState(c)
          \/ CheckTransition(c) \/ ApplyTransition(c) \/ Mark(c) \/ Ended(c)

----------------------------------------------------------------------------

Next == \E c \in Thread : Create(c) \/ End(c)

Spec == Init /\ [][Next]_vars

----------------------------------------------------------------------------

(* Mutant: a task without dependencies is overlooked. *)
Ready_someDependency(t) ==
    /\ node[t] = "pending"
    /\ dependencies[t] # {}
    /\ \A d \in dependencies[t] : node[d] = "completed"

(* get_ready_nodes, the answer of GET /tasks/ready. *)
Ready(t) == /\ node[t] = "pending"
            /\ \A d \in dependencies[t] : node[d] = "completed"

(* However the creations interleave (two requests may create one id at the *)
(* same time, and one replaces the other's node), the dependency lists of  *)
(* the DAG are never circular.                                             *)
NoCircularWait ==
    \A S \in SUBSET Nodes : S # {} => \E t \in S : dependencies[t] \intersect S = {}

(* No dependency list names a task that is not a node, so the list of      *)
(* ready tasks can always be computed, and add_edge's own refusal of a     *)
(* missing node or of a cycle is never met by a client.                    *)
EdgesAreAccepted ==
    /\ \A t \in Nodes : dependencies[t] \subseteq Nodes
    /\ \A c \in Thread : At(c, "scan") => \A d \in call[c].todo : ~Refused(d, call[c].task)

(* GET /tasks/ready does not leave the clients without work: as long as    *)
(* tasks are pending and none has failed, one of them is ready.            *)
NeverStuck ==
    (\E t \in Nodes : node[t] = "pending") =>
        \E t \in Nodes : Ready(t) \/ node[t] = "failed"

(* The scheduler knows no task that the state machine does not know, and   *)
(* the event log announces none that the scheduler does not know, also     *)
(* when a creation stops half-way.                                         *)
RegisteredInOrder ==
    /\ \A t \in Task : scheduled[t] # "absent" => state[t] # None
    /\ \A e \in events : scheduled[e[2]] # "absent"

(* Requests for other tasks do no harm: a task none of whose requests      *)
(* overlapped or was answered with an error has one status everywhere,     *)
(* save that the state machine does not take a completion back.            *)
ViewsAgree ==
    \A t \in Nodes \ disturbed :
        (\A c \in Thread : call[c] = Idle \/ call[c].task # t)
        => /\ scheduled[t] = node[t]
           /\ state[t] \in {node[t], "completed"}
=============================================================================
