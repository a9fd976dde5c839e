--------------------------- MODULE TaskApi_proofs ---------------------------
(***************************************************************************)
(* Theorems about TaskApi, for any number of threads, tasks and requests.  *)
(***************************************************************************)
EXTENDS TaskApi, TLAPS

----------------------------------------------------------------------------
(* Typing.                                                                 *)

LEMMA TypeInit == Init => TypeOK
<1> SUFFICES ASSUME Init PROVE TypeOK
  OBVIOUS
<1>1. call \in [Thread -> Call]
  BY DEF Init, Call
<1> QED
  BY <1>1 DEF Init, TypeOK, Status

(* What a thread's call looks like at each of its steps. *)
LEMMA CallShape ==
    ASSUME TypeOK, NEW c \in Thread
    PROVE  /\ call[c].step \in CreateStep => call[c] \in Creation
           /\ call[c].step \in EndStep => call[c] \in Ending
           /\ call[c].step = "idle" => call[c] = Idle
<1>1. call[c] \in Call
  BY DEF TypeOK
<1> QED
  BY <1>1 DEF Call, Creation, Ending, Idle, CreateStep, EndStep

(* A step of a call leads to a call again. *)
LEMMA CreationMoves ==
    ASSUME TypeOK, NEW c \in Thread, call[c].step \in CreateStep, NEW s \in CreateStep, Goto(c, s)
    PROVE  call' \in [Thread -> Call]
<1>1. call[c] \in Creation
  BY CallShape
<1>2. [call[c] EXCEPT !.step = s] \in Creation
  BY <1>1 DEF Creation
<1> QED
  BY <1>2 DEF TypeOK, Goto, Call

LEMMA EndingMoves ==
    ASSUME TypeOK, NEW c \in Thread, call[c].step \in EndStep, NEW s \in EndStep, Goto(c, s)
    PROVE  call' \in [Thread -> Call]
<1>1. call[c] \in Ending
  BY CallShape
<1>2. [call[c] EXCEPT !.step = s] \in Ending
  BY <1>1 DEF Ending
<1> QED
  BY <1>2 DEF TypeOK, Goto, Call

LEMMA ErrorIsTyped ==
    ASSUME TypeOK, NEW c \in Thread, call[c].task \in Task, Error(c)
    PROVE  call' \in [Thread -> Call] /\ disturbed' \subseteq Task
BY DEF TypeOK, Error, Call

LEMMA BeginIsTyped ==
    ASSUME TypeOK, NEW c \in Thread, NEW t \in Task, NEW request \in Call, Begin(c, t, request)
    PROVE  /\ call' \in [Thread -> Call]
           /\ disturbed' \subseteq Task
           /\ requests' \in Nat
BY DEF TypeOK, Begin

LEMMA CreateTyped ==
    ASSUME TypeOK, NEW c \in Thread, Create(c)
    PROVE  TypeOK'
<1> DEFINE S == call[c].task
<1>0. call[c].step \in CreateStep => /\ call[c] \in Creation
                                     /\ S \in Task
                                     /\ call[c].todo \subseteq Task
  BY CallShape DEF Creation
<1>1. ASSUME NEW t \in Task, NEW deps \in SUBSET Task, CheckNew(c, t, deps) PROVE TypeOK'
  <2>1. [step |-> "node", task |-> t, todo |-> deps, seen |-> {}] \in Call
    BY DEF Call, Creation, CreateStep
  <2>2. call' \in [Thread -> Call] /\ disturbed' \subseteq Task /\ requests' \in Nat
    BY <1>1, <2>1, BeginIsTyped DEF CheckNew
  <2> QED
    BY <1>1, <2>2 DEF CheckNew, TypeOK
<1>2. ASSUME AddNode(c) PROVE TypeOK'
  <2>1. call[c].step \in CreateStep /\ "edges" \in CreateStep
    BY <1>2 DEF AddNode, At, CreateStep
  <2>2. call' \in [Thread -> Call]
    BY <1>2, <2>1, CreationMoves DEF AddNode
  <2> QED
    BY <1>0, <1>2, <2>1, <2>2 DEF AddNode, TypeOK, Status
<1>3. ASSUME ScanNodes(c) PROVE TypeOK'
  <2>1. call[c] \in Creation
    BY <1>0, <1>3 DEF ScanNodes, At, CreateStep
  <2>2. [call[c] EXCEPT !.step = "scan", !.seen = Nodes] \in Creation
    BY <2>1 DEF Creation, CreateStep, Nodes
  <2>3. call' = [call EXCEPT ![c] = [call[c] EXCEPT !.step = "scan", !.seen = Nodes]]
    BY <1>3, <2>1 DEF ScanNodes, TypeOK
  <2>4. call' \in [Thread -> Call]
    BY <2>2, <2>3 DEF TypeOK, Call
  <2> QED
    BY <1>3, <2>4 DEF ScanNodes, TypeOK
<1>4. ASSUME AddEdge(c) PROVE TypeOK'
  <2>1. call[c] \in Creation /\ S \in Task /\ call[c].todo \subseteq Task
    BY <1>0, <1>4 DEF AddEdge, At, CreateStep
  <2>2. PICK d \in call[c].todo :
           /\ graph' = graph \union {<<d, S>>}
           /\ dependencies' = [dependencies EXCEPT ![S] = @ \union {d}]
           /\ call' = [call EXCEPT ![c].step = "edges", ![c].todo = @ \ {d}]
    BY <1>4 DEF AddEdge
  <2>3. [call[c] EXCEPT !.step = "edges", !.todo = @ \ {d}] \in Creation
    BY <2>1 DEF Creation, CreateStep
  <2>4. call' = [call EXCEPT ![c] = [call[c] EXCEPT !.step = "edges", !.todo = @ \ {d}]]
    BY <2>1, <2>2 DEF TypeOK
  <2>5. call' \in [Thread -> Call]
    BY <2>3, <2>4 DEF TypeOK, Call
  <2>6. d \in Task /\ <<d, S>> \in Task \X Task
    BY <2>1
  <2>7. dependencies' \in [Task -> SUBSET Task]
    BY <2>1, <2>2, <2>6 DEF TypeOK
  <2>8. graph' \subseteq Task \X Task
    BY <2>2, <2>6 DEF TypeOK
  <2> QED
    BY <1>4, <2>5, <2>7, <2>8 DEF AddEdge, TypeOK
<1>5. ASSUME AddEdgeRaises(c) PROVE TypeOK'
  <2>1. call' \in [Thread -> Call] /\ disturbed' \subseteq Task
    BY <1>0, <1>5, ErrorIsTyped DEF AddEdgeRaises, At, CreateStep
  <2> QED
    BY <1>5, <2>1 DEF AddEdgeRaises, TypeOK
<1>6. ASSUME RecordStart(c) PROVE TypeOK'
  <2>1. call[c].step \in CreateStep /\ "init" \in CreateStep
    BY <1>6 DEF RecordStart, At, CreateStep
  <2>2. call' \in [Thread -> Call]
    BY <1>6, <2>1, CreationMoves DEF RecordStart
  <2> QED
    BY <1>0, <1>6, <2>1, <2>2 DEF RecordStart, TypeOK
<1>7. ASSUME InitializeCheck(c) PROVE TypeOK'
  <2>1. call[c].step \in CreateStep /\ "initialize" \in CreateStep
    BY <1>7 DEF InitializeCheck, At, CreateStep
  <2>2. call' \in [Thread -> Call] /\ disturbed' \subseteq Task
    BY <1>0, <1>7, <2>1, CreationMoves, ErrorIsTyped DEF InitializeCheck, TypeOK
  <2> QED
    BY <1>7, <2>2 DEF InitializeCheck, TypeOK
<1>8. ASSUME Initialize(c) PROVE TypeOK'
  <2>1. call[c].step \in CreateStep /\ "schedule" \in CreateStep
    BY <1>8 DEF Initialize, At, CreateStep
  <2>2. call' \in [Thread -> Call]
    BY <1>8, <2>1, CreationMoves DEF Initialize
  <2> QED
    BY <1>0, <1>8, <2>1, <2>2 DEF Initialize, TypeOK, TaskState
<1>9. ASSUME AddTask(c) PROVE TypeOK'
  <2>1. call[c].step \in CreateStep /\ "created" \in CreateStep
    BY <1>9 DEF AddTask, At, CreateStep
  <2>2. call' \in [Thread -> Call] /\ disturbed' \subseteq Task
    BY <1>0, <1>9, <2>1, CreationMoves, ErrorIsTyped DEF AddTask, TypeOK
  <2>3. scheduled' \in [Task -> Status]
    BY <1>0, <1>9, <2>1 DEF AddTask, TypeOK, Status
  <2> QED
    BY <1>9, <2>2, <2>3 DEF AddTask, TypeOK
<1>10. ASSUME Created(c) PROVE TypeOK'
  <2>1. call[c].step \in CreateStep
    BY <1>10 DEF Created, At, CreateStep
  <2>2. call' \in [Thread -> Call]
    BY <1>10 DEF Created, TypeOK, Call
  <2> QED
    BY <1>0, <1>10, <2>1, <2>2 DEF Created, TypeOK
<1> QED
  BY <1>1, <1>2, <1>3, <1>4, <1>5, <1>6, <1>7, <1>8, <1>9, <1>10 DEF Create

LEMMA EndTyped ==
    ASSUME TypeOK, NEW c \in Thread, End(c)
    PROVE  TypeOK'
<1> DEFINE S == call[c].task
<1>0. call[c].step \in EndStep => /\ call[c] \in Ending
                                  /\ S \in Task
                                  /\ call[c].to \in Outcome
  BY CallShape DEF Ending
<1>1. ASSUME NEW t \in Task, NEW to \in Outcome, Finish(c, t, to) PROVE TypeOK'
  <2>1. [step |-> IF t \in startTimes THEN "startTime" ELSE "dag", task |-> t, to |-> to] \in Call
    BY DEF Call, Ending, EndStep
  <2>2. call' \in [Thread -> Call] /\ disturbed' \subseteq Task /\ requests' \in Nat
    BY <1>1, <2>1, BeginIsTyped DEF Finish
  <2> QED
    BY <1>1, <2>2 DEF Finish, TypeOK
<1>2. ASSUME DropStartTime(c) PROVE TypeOK'
  <2>1. call[c].step \in EndStep /\ "dag" \in EndStep
    BY <1>2 DEF DropStartTime, At, EndStep
  <2>2. call' \in [Thread -> Call] /\ disturbed' \subseteq Task
    BY <1>0, <1>2, <2>1, EndingMoves, ErrorIsTyped DEF DropStartTime, TypeOK
  <2> QED
    BY <1>2, <2>2 DEF DropStartTime, TypeOK
<1>3. ASSUME UpdateNode(c) PROVE TypeOK'
  <2>1. call[c].step \in EndStep /\ "getState" \in EndStep
    BY <1>3 DEF UpdateNode, At, EndStep
  <2>2. call' \in [Thread -> Call]
    BY <1>3, <2>1, EndingMoves DEF UpdateNode
  <2>3. node' \in [Task -> Status]
    BY <1>0, <1>3, <2>1 DEF UpdateNode, TypeOK, Status, Outcome
  <2> QED
    BY <1>3, <2>2, <2>3 DEF UpdateNode, TypeOK
<1>4. ASSUME GetState(c) PROVE TypeOK'
  <2>1. call[c].step \in EndStep
    BY <1>4 DEF GetState, At, EndStep
  <2>2. (IF state[S] \in Terminal THEN "mark" ELSE "check") \in EndStep
    BY DEF EndStep
  <2>3. call' \in [Thread -> Call]
    BY <1>4, <2>1, <2>2, EndingMoves DEF GetState
  <2> QED
    BY <1>4, <2>3 DEF GetState, TypeOK
<1>5. ASSUME CheckTransition(c) PROVE TypeOK'
  <2>1. call[c].step \in EndStep /\ "apply" \in EndStep
    BY <1>5 DEF CheckTransition, At, EndStep
  <2>2. call' \in [Thread -> Call] /\ disturbed' \subseteq Task
    BY <1>0, <1>5, <2>1, EndingMoves, ErrorIsTyped DEF CheckTransition, TypeOK
  <2> QED
    BY <1>5, <2>2 DEF CheckTransition, TypeOK
<1>6. ASSUME ApplyTransition(c) PROVE TypeOK'
  <2>1. call[c].step \in EndStep /\ "mark" \in EndStep
    BY <1>6 DEF ApplyTransition, At, EndStep
  <2>2. call' \in [Thread -> Call]
    BY <1>6, <2>1, EndingMoves DEF ApplyTransition
  <2>3. state' \in [Task -> TaskState \union {None}]
    BY <1>0, <1>6, <2>1 DEF ApplyTransition, TypeOK, TaskState, Outcome
  <2> QED
    BY <1>6, <2>2, <2>3 DEF ApplyTransition, TypeOK
<1>7. ASSUME Mark(c) PROVE TypeOK'
  <2>1. call[c].step \in EndStep /\ "ended" \in EndStep
    BY <1>7 DEF Mark, At, EndStep
  <2>2. call' \in [Thread -> Call] /\ disturbed' \subseteq Task
    BY <1>0, <1>7, <2>1, EndingMoves, ErrorIsTyped DEF Mark, TypeOK
  <2>3. scheduled' \in [Task -> Status]
    BY <1>0, <1>7, <2>1 DEF Mark, TypeOK, Status, Outcome
  <2> QED
    BY <1>7, <2>2, <2>3 DEF Mark, TypeOK
<1>8. ASSUME Ended(c) PROVE TypeOK'
  <2>1. call[c].step \in EndStep
    BY <1>8 DEF Ended, At, EndStep
  <2>2. call' \in [Thread -> Call]
    BY <1>8 DEF Ended, TypeOK, Call
  <2>3. <<call[c].to, S>> \in (Outcome \union {"created"}) \X Task
    BY <1>0, <2>1
  <2> QED
    BY <1>8, <2>2, <2>3 DEF Ended, TypeOK
<1> QED
  BY <1>1, <1>2, <1>3, <1>4, <1>5, <1>6, <1>7, <1>8 DEF End

(* Every variable keeps its type. *)
THEOREM TypeCorrect == Spec => []TypeOK
<1>1. TypeOK /\ UNCHANGED vars => TypeOK'
  BY DEF TypeOK, vars
<1>2. TypeOK /\ [Next]_vars => TypeOK'
  BY <1>1, CreateTyped, EndTyped DEF Next
<1> QED
  BY TypeInit, <1>2, PTL DEF Spec

----------------------------------------------------------------------------
(* The order of the tasks.                                                 *)

(* Thread c is about to make task t depend on d. *)
Adds(c, d, t) == /\ call[c].step \in {"node", "edges", "scan"}
                 /\ call[c].task = t
                 /\ d \in call[c].todo

(* The dependencies t has, or that a creation in progress is going to give *)
(* it: a node that is replaced leaves its edges behind, and a creation     *)
(* whose node was replaced adds its edges to the new one.                  *)
Needs(d, t) == \/ d \in dependencies[t]
               \/ <<d, t>> \in graph
               \/ \E c \in Thread : Adds(c, d, t)

NeedsAreNodes == /\ \A d, t \in Task : Needs(d, t) => d \in Nodes
                 /\ \A c \in Thread : call[c].step \in {"edges", "scan"} => call[c].task \in Nodes

NeedsAreOrdered == \A S \in SUBSET Task : S # {} => \E t \in S : \A d \in S : ~Needs(d, t)

OrderInv == TypeOK /\ NeedsAreNodes /\ NeedsAreOrdered

(* A step that takes no new dependency on leaves the order intact. *)
LEMMA FewerNeeds ==
    ASSUME OrderInv, TypeOK',
           \A d, t \in Task : Needs(d, t)' => Needs(d, t),
           Nodes \subseteq Nodes',
           \A c \in Thread : call'[c].step \in {"edges", "scan"} => call'[c].task \in Nodes'
    PROVE  OrderInv'
<1>1. NeedsAreNodes'
  BY DEF OrderInv, NeedsAreNodes
<1>2. NeedsAreOrdered'
  BY DEF OrderInv, NeedsAreOrdered
<1> QED
  BY <1>1, <1>2 DEF OrderInv

(* A step that leaves dependencies, edges and nodes alone, and moves one    *)
(* call out of the steps that add dependencies, or within later ones.      *)
LEMMA SameNeeds ==
    ASSUME OrderInv, TypeOK', NEW c \in Thread,
           UNCHANGED <<dependencies, graph>>,
           Nodes \subseteq Nodes',
           \A o \in Thread \ {c} : call'[o] = call[o],
           call'[c].step \notin {"node", "edges", "scan"}
    PROVE  OrderInv'
<1>1. \A d, t \in Task : Needs(d, t)' => Needs(d, t)
  BY DEF Needs, Adds
<1>2. \A o \in Thread : call'[o].step \in {"edges", "scan"} => call'[o].task \in Nodes'
  BY DEF OrderInv, NeedsAreNodes
<1> QED
  BY <1>1, <1>2, FewerNeeds

LEMMA OrderInit == Init => OrderInv
<1> SUFFICES ASSUME Init PROVE OrderInv
  OBVIOUS
<1>1. \A c \in Thread : call[c].step = "idle"
  BY DEF Init, Idle
<1>2. \A d, t \in Task : ~Needs(d, t)
  BY <1>1 DEF Init, Needs, Adds
<1> QED
  BY <1>1, <1>2, TypeInit DEF OrderInv, NeedsAreNodes, NeedsAreOrdered

(* The one step that takes dependencies on: the new task is no node, so no *)
(* other one needs it, and it can come last.                               *)
LEMMA CheckNewOrders ==
    ASSUME OrderInv, TypeOK', NEW c \in Thread, NEW t \in Task, NEW deps \in SUBSET Task,
           CheckNew(c, t, deps)
    PROVE  OrderInv'
<1>1. /\ t \notin Nodes
      /\ deps \subseteq Nodes
      /\ UNCHANGED <<node, dependencies, graph>>
      /\ call[c].step = "idle"
      /\ call' = [call EXCEPT ![c] = [step |-> "node", task |-> t, todo |-> deps, seen |-> {}]]
  BY DEF CheckNew, Begin, At
<1>2. Nodes' = Nodes
  BY <1>1 DEF Nodes
<1>3. \A d, u \in Task : Needs(d, u)' => Needs(d, u) \/ (u = t /\ d \in deps)
  BY <1>1 DEF OrderInv, TypeOK, Needs, Adds
<1>4. \A o \in Thread : call'[o].step \in {"edges", "scan"} => call'[o].task \in Nodes
  BY <1>1 DEF OrderInv, TypeOK, NeedsAreNodes
<1>5. NeedsAreNodes'
  BY <1>1, <1>2, <1>3, <1>4 DEF OrderInv, NeedsAreNodes
<1>6. \A u \in Task : ~Needs(t, u)
  BY <1>1 DEF OrderInv, NeedsAreNodes
<1>7. ASSUME NEW S \in SUBSET Task, S # {} PROVE \E u \in S : \A d \in S : ~Needs(d, u)'
  <2>1. CASE S = {t}
    <3>1. ~Needs(t, t)'
      BY <1>1, <1>3, <1>6
    <3> QED
      BY <2>1, <3>1
  <2>2. CASE S # {t}
    <3>1. S \ {t} \in SUBSET Task /\ S \ {t} # {}
      BY <1>7, <2>2
    <3>2. PICK u \in S \ {t} : \A d \in S \ {t} : ~Needs(d, u)
      BY <3>1 DEF OrderInv, NeedsAreOrdered
    <3>3. \A d \in S : ~Needs(d, u)'
      BY <1>3, <1>6, <3>1, <3>2
    <3> QED
      BY <3>2, <3>3
  <2> QED
    BY <2>1, <2>2
<1>8. NeedsAreOrdered'
  BY <1>7 DEF NeedsAreOrdered
<1> QED
  BY <1>5, <1>8 DEF OrderInv

(* The node gets the dependencies its creation held. *)
LEMMA AddNodeOrders ==
    ASSUME OrderInv, TypeOK', NEW c \in Thread, AddNode(c)
    PROVE  OrderInv'
<1>1. /\ call[c].step = "node"
      /\ UNCHANGED graph
      /\ node' = [node EXCEPT ![call[c].task] = "pending"]
      /\ dependencies' = [dependencies EXCEPT ![call[c].task] = call[c].todo]
      /\ call' = [call EXCEPT ![c].step = "edges"]
  BY DEF AddNode, At, Goto
<1>2. call[c] \in Creation
  BY <1>1, CallShape DEF OrderInv, CreateStep
<1>3. call'[c].step = "edges" /\ call'[c].task = call[c].task /\ call'[c].todo = call[c].todo
  BY <1>1, <1>2 DEF OrderInv, TypeOK, Creation
<1>4. \A o \in Thread \ {c} : call'[o] = call[o]
  BY <1>1 DEF OrderInv, TypeOK
<1>5. Nodes' = Nodes \union {call[c].task}
  BY <1>1, <1>2 DEF OrderInv, TypeOK, Nodes, Creation
<1>6. \A o \in Thread, d, t \in Task : Adds(o, d, t)' => Adds(o, d, t)
  BY <1>1, <1>3, <1>4 DEF Adds
<1>7. \A d, t \in Task : d \in dependencies'[t] => d \in dependencies[t] \/ Adds(c, d, t)
  BY <1>1, <1>2 DEF OrderInv, TypeOK, Adds, Creation
<1>8. \A d, t \in Task : Needs(d, t)' => Needs(d, t)
  BY <1>1, <1>6, <1>7 DEF Needs
<1>9. \A o \in Thread : call'[o].step \in {"edges", "scan"} => call'[o].task \in Nodes'
  BY <1>3, <1>4, <1>5 DEF OrderInv, NeedsAreNodes
<1> QED
  BY <1>5, <1>8, <1>9, FewerNeeds

LEMMA ScanOrders ==
    ASSUME OrderInv, TypeOK', NEW c \in Thread, ScanNodes(c)
    PROVE  OrderInv'
<1>1. /\ call[c].step = "edges"
      /\ UNCHANGED <<node, dependencies, graph>>
      /\ call' = [call EXCEPT ![c].step = "scan", ![c].seen = Nodes]
  BY DEF ScanNodes, At
<1>2. call[c] \in Creation
  BY <1>1, CallShape DEF OrderInv, CreateStep
<1>3. call'[c].step = "scan" /\ call'[c].task = call[c].task /\ call'[c].todo = call[c].todo
  BY <1>1, <1>2 DEF OrderInv, TypeOK, Creation
<1>4. \A o \in Thread \ {c} : call'[o] = call[o]
  BY <1>1 DEF OrderInv, TypeOK
<1>5. Nodes' = Nodes
  BY <1>1 DEF Nodes
<1>6. \A o \in Thread, d, t \in Task : Adds(o, d, t)' => Adds(o, d, t)
  BY <1>1, <1>3, <1>4 DEF Adds
<1>7. \A d, t \in Task : Needs(d, t)' => Needs(d, t)
  BY <1>1, <1>6 DEF Needs
<1>8. \A o \in Thread : call'[o].step \in {"edges", "scan"} => call'[o].task \in Nodes'
  <2>1. call[c].task \in Nodes
    BY <1>1 DEF OrderInv, NeedsAreNodes
  <2>2. ASSUME NEW o \in Thread \ {c}, call[o].step \in {"edges", "scan"} PROVE call[o].task \in Nodes
    BY <2>2 DEF OrderInv, NeedsAreNodes
  <2> QED
    BY <1>3, <1>4, <1>5, <2>1, <2>2
<1> QED
  BY <1>5, <1>7, <1>8, FewerNeeds

LEMMA AddEdgeOrders ==
    ASSUME OrderInv, TypeOK', NEW c \in Thread, AddEdge(c)
    PROVE  OrderInv'
<1>1. call[c].step = "scan" /\ UNCHANGED node
  BY DEF AddEdge, At
<1>2. call[c] \in Creation
  BY <1>1, CallShape DEF OrderInv, CreateStep
<1>3. PICK e \in call[c].todo :
         /\ graph' = graph \union {<<e, call[c].task>>}
         /\ dependencies' = [dependencies EXCEPT ![call[c].task] = @ \union {e}]
         /\ call' = [call EXCEPT ![c].step = "edges", ![c].todo = @ \ {e}]
  BY DEF AddEdge
<1>4. call'[c].step = "edges" /\ call'[c].task = call[c].task /\ call'[c].todo = call[c].todo \ {e}
  BY <1>2, <1>3 DEF OrderInv, TypeOK, Creation
<1>5. \A o \in Thread \ {c} : call'[o] = call[o]
  BY <1>3 DEF OrderInv, TypeOK
<1>6. Nodes' = Nodes
  BY <1>1 DEF Nodes
<1>7. \A o \in Thread, d, t \in Task : Adds(o, d, t)' => Adds(o, d, t)
  BY <1>1, <1>4, <1>5 DEF Adds
<1>8. \A d, t \in Task : d \in dependencies'[t] => d \in dependencies[t] \/ Adds(c, d, t)
  BY <1>1, <1>2, <1>3 DEF OrderInv, TypeOK, Adds, Creation
<1>9. \A d, t \in Task : <<d, t>> \in graph' => <<d, t>> \in graph \/ Adds(c, d, t)
  BY <1>1, <1>3 DEF Adds
<1>10. \A d, t \in Task : Needs(d, t)' => Needs(d, t)
  BY <1>7, <1>8, <1>9 DEF Needs
<1>11. \A o \in Thread : call'[o].step \in {"edges", "scan"} => call'[o].task \in Nodes'
  BY <1>1, <1>4, <1>5, <1>6 DEF OrderInv, NeedsAreNodes
<1> QED
  BY <1>6, <1>10, <1>11, FewerNeeds

(* All other steps of a creation are later ones, or end it. *)
LEMMA CreateOrders ==
    ASSUME OrderInv, TypeOK', NEW c \in Thread, Create(c)
    PROVE  OrderInv'
<1>1. ASSUME NEW s \in {"init", "initialize", "schedule", "created"}, NEW r \in CreateStep,
             call[c].step = r, Goto(c, s), UNCHANGED <<node, dependencies, graph>>
      PROVE  OrderInv'
  <2>1. call[c] \in Creation
    BY <1>1, CallShape DEF OrderInv
  <2>2. call'[c].step = s
    BY <1>1, <2>1 DEF OrderInv, TypeOK, Goto, Creation
  <2>3. \A o \in Thread \ {c} : call'[o] = call[o]
    BY <1>1 DEF OrderInv, TypeOK, Goto
  <2>4. Nodes' = Nodes
    BY <1>1 DEF Nodes
  <2> QED
    BY <1>1, <2>2, <2>3, <2>4, SameNeeds
<1>2. ASSUME call' = [call EXCEPT ![c] = Idle], UNCHANGED <<node, dependencies, graph>>
      PROVE  OrderInv'
  <2>1. call'[c].step = "idle" /\ \A o \in Thread \ {c} : call'[o] = call[o]
    BY <1>2 DEF OrderInv, TypeOK, Idle
  <2>2. Nodes' = Nodes
    BY <1>2 DEF Nodes
  <2> QED
    BY <1>2, <2>1, <2>2, SameNeeds
<1>3. ASSUME AddEdgeRaises(c) PROVE OrderInv'
  BY <1>2, <1>3 DEF AddEdgeRaises, Error
<1>4. ASSUME RecordStart(c) PROVE OrderInv'
  BY <1>1, <1>4 DEF RecordStart, At, CreateStep
<1>5. ASSUME InitializeCheck(c) PROVE OrderInv'
  BY <1>1, <1>2, <1>5 DEF InitializeCheck, Error, At, CreateStep
<1>6. ASSUME Initialize(c) PROVE OrderInv'
  BY <1>1, <1>6 DEF Initialize, At, CreateStep
<1>7. ASSUME AddTask(c) PROVE OrderInv'
  BY <1>1, <1>2, <1>7 DEF AddTask, Error, At, CreateStep
<1>8. ASSUME Created(c) PROVE OrderInv'
  BY <1>2, <1>8 DEF Created
<1> QED
  BY <1>3, <1>4, <1>5, <1>6, <1>7, <1>8, CheckNewOrders, AddNodeOrders, ScanOrders, AddEdgeOrders
  DEF Create

(* Ending a task adds no dependency, and a node that is updated stays one. *)
LEMMA EndOrders ==
    ASSUME OrderInv, TypeOK', NEW c \in Thread, End(c)
    PROVE  OrderInv'
<1>1. ASSUME NEW s \in EndStep, call[c].step \in EndStep,
             Goto(c, s), UNCHANGED <<dependencies, graph>>, Nodes \subseteq Nodes'
      PROVE  OrderInv'
  <2>1. call[c] \in Ending
    BY <1>1, CallShape DEF OrderInv
  <2>2. call'[c].step = s
    BY <1>1, <2>1 DEF OrderInv, TypeOK, Goto, Ending
  <2>3. \A o \in Thread \ {c} : call'[o] = call[o]
    BY <1>1 DEF OrderInv, TypeOK, Goto
  <2>4. call'[c].step \notin {"node", "edges", "scan"}
    BY <2>2 DEF EndStep
  <2> QED
    BY <1>1, <2>3, <2>4, SameNeeds
<1>2. ASSUME call' = [call EXCEPT ![c] = Idle], UNCHANGED <<node, dependencies, graph>>
      PROVE  OrderInv'
  <2>1. call'[c].step = "idle" /\ \A o \in Thread \ {c} : call'[o] = call[o]
    BY <1>2 DEF OrderInv, TypeOK, Idle
  <2>2. Nodes' = Nodes
    BY <1>2 DEF Nodes
  <2> QED
    BY <1>2, <2>1, <2>2, SameNeeds
<1>3. UNCHANGED node => Nodes \subseteq Nodes'
  BY DEF Nodes
<1>4. ASSUME NEW t \in Task, NEW to \in Outcome, Finish(c, t, to) PROVE OrderInv'
  <2>1. /\ call' = [call EXCEPT ![c] = [step |-> IF t \in startTimes THEN "startTime" ELSE "dag",
                                        task |-> t, to |-> to]]
        /\ UNCHANGED <<node, dependencies, graph>>
    BY <1>4 DEF Finish, Begin
  <2>2. call'[c].step \notin {"node", "edges", "scan"} /\ \A o \in Thread \ {c} : call'[o] = call[o]
    BY <2>1 DEF OrderInv, TypeOK
  <2> QED
    BY <1>3, <2>1, <2>2, SameNeeds
<1>5. ASSUME DropStartTime(c) PROVE OrderInv'
  BY <1>1, <1>2, <1>3, <1>5 DEF DropStartTime, Error, At, EndStep
<1>6. ASSUME UpdateNode(c) PROVE OrderInv'
  <2>1. call[c].step \in EndStep /\ "getState" \in EndStep
    BY <1>6 DEF UpdateNode, At, EndStep
  <2>2. call[c] \in Ending
    BY <2>1, CallShape DEF OrderInv
  <2>3. Nodes \subseteq Nodes'
    BY <1>6, <2>2 DEF UpdateNode, OrderInv, TypeOK, Nodes, Ending, Outcome
  <2> QED
    BY <1>1, <1>6, <2>1, <2>3 DEF UpdateNode
<1>7. ASSUME GetState(c) PROVE OrderInv'
  BY <1>1, <1>3, <1>7 DEF GetState, At, EndStep
<1>8. ASSUME CheckTransition(c) PROVE OrderInv'
  BY <1>1, <1>2, <1>3, <1>8 DEF CheckTransition, Error, At, EndStep
<1>9. ASSUME ApplyTransition(c) PROVE OrderInv'
  BY <1>1, <1>3, <1>9 DEF ApplyTransition, At, EndStep
<1>10. ASSUME Mark(c) PROVE OrderInv'
  BY <1>1, <1>2, <1>3, <1>10 DEF Mark, Error, At, EndStep
<1>11. ASSUME Ended(c) PROVE OrderInv'
  BY <1>2, <1>11 DEF Ended
<1> QED
  BY <1>4, <1>5, <1>6, <1>7, <1>8, <1>9, <1>10, <1>11 DEF End

LEMMA OrderIsInvariant == Spec => []OrderInv
<1>1. ASSUME OrderInv, TypeOK', UNCHANGED vars PROVE OrderInv'
  <2>1. UNCHANGED <<node, dependencies, graph, call>>
    BY <1>1 DEF vars
  <2>2. Nodes' = Nodes
    BY <2>1 DEF Nodes
  <2>3. \A d, t \in Task : Needs(d, t)' => Needs(d, t)
    BY <2>1 DEF Needs, Adds
  <2>4. \A c \in Thread : call'[c].step \in {"edges", "scan"} => call'[c].task \in Nodes'
    BY <1>1, <2>1, <2>2 DEF OrderInv, NeedsAreNodes
  <2> QED
    BY <1>1, <2>2, <2>3, <2>4, FewerNeeds
<1>2. OrderInv /\ TypeOK' /\ [Next]_vars => OrderInv'
  BY <1>1, CreateOrders, EndOrders DEF Next
<1> QED
  BY OrderInit, <1>2, TypeCorrect, PTL DEF Spec

(* The dependency lists are never circular, however many requests create   *)
(* tasks at the same time.                                                 *)
THEOREM NeverCircular == Spec => []NoCircularWait
<1>1. ASSUME OrderInv, NEW S \in SUBSET Nodes, S # {}
      PROVE  \E t \in S : dependencies[t] \intersect S = {}
  <2>1. S \in SUBSET Task
    BY DEF Nodes
  <2>2. PICK t \in S : \A d \in S : ~Needs(d, t)
    BY <1>1, <2>1 DEF OrderInv, NeedsAreOrdered
  <2>3. \A d \in S : d \notin dependencies[t]
    BY <2>2 DEF Needs
  <2> QED
    BY <2>3
<1>2. OrderInv => NoCircularWait
  BY <1>1 DEF NoCircularWait
<1> QED
  BY <1>2, OrderIsInvariant, PTL

(* The checks of create_task make those of add_edge redundant: no edge is  *)
(* ever refused.                                                           *)
THEOREM EdgesNeverRefused == Spec => []EdgesAreAccepted
<1>1. ASSUME OrderInv PROVE EdgesAreAccepted
  <2>1. \A t \in Nodes : dependencies[t] \subseteq Nodes
    BY <1>1 DEF OrderInv, TypeOK, NeedsAreNodes, Needs, Nodes
  <2>2. ASSUME NEW c \in Thread, At(c, "scan"), NEW d \in call[c].todo
        PROVE  ~Refused(d, call[c].task)
    <3>1. call[c] \in Creation
      BY <1>1, <2>2, CallShape DEF OrderInv, At, CreateStep
    <3>2. call[c].task \in Task /\ d \in Task /\ Adds(c, d, call[c].task)
      BY <2>2, <3>1 DEF Creation, Adds, At
    <3>3. call[c].task \in Nodes /\ d \in Nodes
      BY <1>1, <2>2, <3>2 DEF OrderInv, NeedsAreNodes, Needs, At
    <3>4. \A e, t \in Task : <<e, t>> \in graph \union {<<d, call[c].task>>} => Needs(e, t)
      BY <3>2 DEF Needs
    <3>5. ASSUME NEW S \in SUBSET Task, S # {},
                 \A t \in S : \E e \in S : <<e, t>> \in graph \union {<<d, call[c].task>>}
          PROVE  FALSE
      <4>1. PICK t \in S : \A e \in S : ~Needs(e, t)
        BY <1>1, <3>5 DEF OrderInv, NeedsAreOrdered
      <4> QED
        BY <3>4, <3>5, <4>1
    <3>6. ~Cyclic(graph \union {<<d, call[c].task>>})
      BY <3>5 DEF Cyclic
    <3> QED
      BY <3>3, <3>6 DEF Refused
  <2> QED
    BY <2>1, <2>2 DEF EdgesAreAccepted
<1> QED
  BY <1>1, OrderIsInvariant, PTL

(* As long as tasks are pending and none has failed, one is ready.         *)
THEOREM AlwaysWork == Spec => []NeverStuck
<1>1. ASSUME OrderInv, NoCircularWait, EdgesAreAccepted,
             \E t \in Nodes : node[t] = "pending",
             \A t \in Nodes : node[t] # "failed"
      PROVE  \E t \in Nodes : Ready(t)
  <2> DEFINE P == {t \in Nodes : node[t] = "pending"}
  <2>1. P \in SUBSET Nodes /\ P # {}
    BY <1>1
  <2>2. PICK t \in P : dependencies[t] \intersect P = {}
    BY <1>1, <2>1 DEF NoCircularWait
  <2>3. ASSUME NEW d \in dependencies[t] PROVE node[d] = "completed"
    <3>1. d \in Nodes /\ d \notin P
      BY <1>1, <2>2, <2>3 DEF EdgesAreAccepted
    <3>2. node[d] \in Status /\ node[d] # "absent" /\ node[d] # "pending" /\ node[d] # "failed"
      BY <1>1, <3>1 DEF OrderInv, TypeOK, Nodes
    <3> QED
      BY <3>2 DEF Status
  <2> QED
    BY <2>2, <2>3 DEF Ready
<1>2. OrderInv /\ NoCircularWait /\ EdgesAreAccepted => NeverStuck
  BY <1>1 DEF NeverStuck
<1> QED
  BY <1>2, OrderIsInvariant, NeverCircular, EdgesNeverRefused, PTL

----------------------------------------------------------------------------
(* The order of registration: a task is never forgotten again by the state *)
(* machine or the scheduler, and a request at a step after theirs has been *)
(* there.                                                                  *)

RegisterInv ==
    /\ RegisteredInOrder
    /\ \A c \in Thread : call[c].step = "schedule" => state[call[c].task] # None
    /\ \A c \in Thread : call[c].step \in {"created", "ended"} => scheduled[call[c].task] # "absent"

LEMMA GotoFacts ==
    ASSUME TypeOK, NEW c \in Thread, call[c].step \in CreateStep \union EndStep, NEW s, Goto(c, s)
    PROVE  /\ call'[c].step = s
           /\ call'[c].task = call[c].task
           /\ call[c].task \in Task
           /\ \A o \in Thread \ {c} : call'[o] = call[o]
<1>1. call[c] \in Creation \/ call[c] \in Ending
  BY CallShape
<1> DEFINE new == [call[c] EXCEPT !.step = s]
<1>2. new.step = s /\ new.task = call[c].task /\ call[c].task \in Task
  BY <1>1 DEF Creation, Ending
<1>3. call' = [call EXCEPT ![c] = new]
  BY DEF Goto, TypeOK
<1> HIDE DEF new
<1> QED
  BY <1>2, <1>3 DEF TypeOK

(* What preserves the order. *)
LEMMA RegisterKeeps ==
    ASSUME TypeOK, TypeOK', RegisterInv, NEW c \in Thread,
           \A t \in Task : state[t] # None => state'[t] # None,
           \A t \in Task : scheduled[t] # "absent" => scheduled'[t] # "absent",
           \A t \in Task : scheduled'[t] # "absent" => scheduled[t] # "absent" \/ state'[t] # None,
           \A e \in events' : e \in events \/ scheduled'[e[2]] # "absent",
           \A o \in Thread \ {c} : call'[o] = call[o],
           call'[c].step = "schedule" => state'[call'[c].task] # None,
           call'[c].step \in {"created", "ended"} => scheduled'[call'[c].task] # "absent"
    PROVE  RegisterInv'
<1>1. \A o \in Thread : call[o].step \in {"schedule", "created", "ended"} => call[o].task \in Task
  BY CallShape DEF CreateStep, EndStep, Creation, Ending
<1>2. \A e \in events : e[2] \in Task
  BY DEF TypeOK
<1>3. RegisteredInOrder'
  BY <1>2 DEF RegisterInv, RegisteredInOrder
<1>4. \A o \in Thread : call'[o].step = "schedule" => state'[call'[o].task] # None
  BY <1>1 DEF RegisterInv
<1>5. \A o \in Thread : call'[o].step \in {"created", "ended"} => scheduled'[call'[o].task] # "absent"
  BY <1>1 DEF RegisterInv
<1> QED
  BY <1>3, <1>4, <1>5 DEF RegisterInv

(* A step that leaves what is registered alone and goes on to a step that  *)
(* asks nothing of it.                                                     *)
LEMMA RegisterSame ==
    ASSUME TypeOK, TypeOK', RegisterInv, NEW c \in Thread, UNCHANGED <<state, scheduled, events>>,
           \A o \in Thread \ {c} : call'[o] = call[o],
           call'[c].step \notin {"schedule", "created", "ended"}
    PROVE  RegisterInv'
BY RegisterKeeps

LEMMA CreateRegisters ==
    ASSUME TypeOK, TypeOK', RegisterInv, NEW c \in Thread, Create(c)
    PROVE  RegisterInv'
<1>1. ASSUME NEW t \in Task, NEW deps \in SUBSET Task, CheckNew(c, t, deps) PROVE RegisterInv'
  BY <1>1, RegisterSame DEF CheckNew, Begin, TypeOK
<1>2. ASSUME AddNode(c) PROVE RegisterInv'
  BY <1>2, GotoFacts, RegisterSame DEF AddNode, At, CreateStep
<1>3. ASSUME ScanNodes(c) PROVE RegisterInv'
  <2>1. call[c] \in Creation
    BY <1>3, CallShape DEF ScanNodes, At, CreateStep
  <2>2. call'[c].step = "scan" /\ \A o \in Thread \ {c} : call'[o] = call[o]
    BY <1>3, <2>1 DEF ScanNodes, TypeOK, Creation
  <2> QED
    BY <1>3, <2>2, RegisterSame DEF ScanNodes
<1>4. ASSUME AddEdge(c) PROVE RegisterInv'
  <2>1. call[c] \in Creation
    BY <1>4, CallShape DEF AddEdge, At, CreateStep
  <2>2. call'[c].step = "edges" /\ \A o \in Thread \ {c} : call'[o] = call[o]
    BY <1>4, <2>1 DEF AddEdge, TypeOK, Creation
  <2> QED
    BY <1>4, <2>2, RegisterSame DEF AddEdge
<1>5. ASSUME Error(c), UNCHANGED <<state, scheduled, events>> PROVE RegisterInv'
  BY <1>5, RegisterSame DEF Error, Idle, TypeOK
<1>6. ASSUME RecordStart(c) PROVE RegisterInv'
  BY <1>6, GotoFacts, RegisterSame DEF RecordStart, At, CreateStep
<1>7. ASSUME InitializeCheck(c) PROVE RegisterInv'
  <2>1. CASE Goto(c, "initialize")
    BY <1>7, <2>1, GotoFacts, RegisterSame DEF InitializeCheck, At, CreateStep
  <2>2. CASE Error(c)
    BY <1>5, <1>7, <2>2 DEF InitializeCheck
  <2> QED
    BY <1>7, <2>1, <2>2 DEF InitializeCheck
<1>8. ASSUME Initialize(c) PROVE RegisterInv'
  <2>1. /\ call'[c].step = "schedule" /\ call'[c].task = call[c].task /\ call[c].task \in Task
        /\ \A o \in Thread \ {c} : call'[o] = call[o]
    BY <1>8, GotoFacts DEF Initialize, At, CreateStep
  <2>2. state' = [state EXCEPT ![call[c].task] = "pending"] /\ UNCHANGED <<scheduled, events>>
    BY <1>8 DEF Initialize
  <2>3. "pending" # None
    BY NoneAssumption DEF NoneAssumption, TaskState
  <2>4. /\ state'[call[c].task] # None
        /\ \A t \in Task : state[t] # None => state'[t] # None
    BY <2>1, <2>2, <2>3 DEF TypeOK
  <2>5. \A t \in Task : scheduled'[t] # "absent" => scheduled[t] # "absent"
    BY <2>2
  <2> QED
    BY <2>1, <2>2, <2>4, <2>5, RegisterKeeps
<1>9. ASSUME AddTask(c) PROVE RegisterInv'
  <2>1. CASE Error(c) /\ UNCHANGED scheduled
    BY <1>5, <1>9, <2>1 DEF AddTask
  <2>2. CASE /\ scheduled' = [scheduled EXCEPT ![call[c].task] = "pending"]
             /\ Goto(c, "created")
    <3>1. /\ call'[c].step = "created" /\ call'[c].task = call[c].task /\ call[c].task \in Task
          /\ \A o \in Thread \ {c} : call'[o] = call[o]
      BY <1>9, <2>2, GotoFacts DEF AddTask, At, CreateStep
    <3>2. state[call[c].task] # None /\ UNCHANGED <<state, events>>
      BY <1>9 DEF AddTask, At, RegisterInv
    <3>3. /\ scheduled'[call[c].task] # "absent"
          /\ \A t \in Task : scheduled[t] # "absent" => scheduled'[t] # "absent"
          /\ \A t \in Task : scheduled'[t] # "absent" => scheduled[t] # "absent" \/ t = call[c].task
      BY <2>2, <3>1 DEF TypeOK
    <3> QED
      BY <3>1, <3>2, <3>3, RegisterKeeps
  <2> QED
    BY <1>9, <2>1, <2>2 DEF AddTask
<1>10. ASSUME Created(c) PROVE RegisterInv'
  <2>1. scheduled[call[c].task] # "absent" /\ UNCHANGED <<state, scheduled>>
    BY <1>10 DEF Created, At, RegisterInv
  <2>2. call'[c].step = "idle" /\ \A o \in Thread \ {c} : call'[o] = call[o]
    BY <1>10 DEF Created, TypeOK, Idle
  <2>3. \A e \in events' : e \in events \/ scheduled'[e[2]] # "absent"
    BY <1>10, <2>1 DEF Created
  <2> QED
    BY <2>1, <2>2, <2>3, RegisterKeeps
<1>11. ASSUME AddEdgeRaises(c) PROVE RegisterInv'
  BY <1>5, <1>11 DEF AddEdgeRaises
<1> QED
  BY <1>1, <1>2, <1>3, <1>4, <1>6, <1>7, <1>8, <1>9, <1>10, <1>11 DEF Create

LEMMA EndRegisters ==
    ASSUME TypeOK, TypeOK', RegisterInv, NEW c \in Thread, End(c)
    PROVE  RegisterInv'
<1>1. ASSUME NEW t \in Task, NEW to \in Outcome, Finish(c, t, to) PROVE RegisterInv'
  BY <1>1, RegisterSame DEF Finish, Begin, TypeOK
<1>2. ASSUME Error(c), UNCHANGED <<state, scheduled, events>> PROVE RegisterInv'
  BY <1>2, RegisterSame DEF Error, Idle, TypeOK
<1>3. ASSUME NEW s \in EndStep \ {"ended"}, call[c].step \in EndStep, Goto(c, s),
             UNCHANGED <<state, scheduled, events>>
      PROVE  RegisterInv'
  BY <1>3, GotoFacts, RegisterSame DEF EndStep
<1>4. ASSUME DropStartTime(c) \/ UpdateNode(c) \/ GetState(c) \/ CheckTransition(c) PROVE RegisterInv'
  <2>1. UNCHANGED <<state, scheduled, events>> /\ call[c].step \in EndStep
    BY <1>4 DEF DropStartTime, UpdateNode, GetState, CheckTransition, At, EndStep
  <2>2. Error(c) \/ \E s \in EndStep \ {"ended"} : Goto(c, s)
    BY <1>4 DEF DropStartTime, UpdateNode, GetState, CheckTransition, EndStep
  <2> QED
    BY <1>2, <1>3, <2>1, <2>2
<1>5. ASSUME ApplyTransition(c) PROVE RegisterInv'
  <2>1. call[c] \in Ending
    BY <1>5, CallShape DEF ApplyTransition, At, EndStep
  <2>2. call'[c].step = "mark" /\ \A o \in Thread \ {c} : call'[o] = call[o]
    BY <1>5, GotoFacts DEF ApplyTransition, At, EndStep
  <2>3. call[c].to # None /\ UNCHANGED <<scheduled, events>>
    BY <1>5, <2>1, NoneAssumption DEF ApplyTransition, Ending, Outcome, NoneAssumption, TaskState
  <2>4. \A t \in Task : state[t] # None => state'[t] # None
    BY <1>5, <2>3 DEF ApplyTransition, TypeOK
  <2> QED
    BY <2>2, <2>3, <2>4, RegisterKeeps
<1>6. ASSUME Mark(c) PROVE RegisterInv'
  <2>1. CASE Error(c) /\ UNCHANGED scheduled
    BY <1>2, <1>6, <2>1 DEF Mark
  <2>2. CASE /\ scheduled[call[c].task] # "absent"
             /\ scheduled' = [scheduled EXCEPT ![call[c].task] = call[c].to]
             /\ Goto(c, "ended")
    <3>1. call[c] \in Ending
      BY <1>6, CallShape DEF Mark, At, EndStep
    <3>2. /\ call'[c].step = "ended" /\ call'[c].task = call[c].task /\ call[c].task \in Task
          /\ \A o \in Thread \ {c} : call'[o] = call[o]
      BY <1>6, <2>2, GotoFacts DEF Mark, At, EndStep
    <3>3. call[c].to # "absent" /\ UNCHANGED <<state, events>>
      BY <1>6, <3>1 DEF Mark, Ending, Outcome
    <3>4. /\ \A t \in Task : scheduled[t] # "absent" <=> scheduled'[t] # "absent"
          /\ scheduled'[call[c].task] # "absent"
      BY <2>2, <3>2, <3>3 DEF TypeOK
    <3> QED
      BY <3>2, <3>3, <3>4, RegisterKeeps
  <2> QED
    BY <1>6, <2>1, <2>2 DEF Mark
<1>7. ASSUME Ended(c) PROVE RegisterInv'
  <2>1. scheduled[call[c].task] # "absent" /\ UNCHANGED <<state, scheduled>>
    BY <1>7 DEF Ended, At, RegisterInv
  <2>2. call'[c].step = "idle" /\ \A o \in Thread \ {c} : call'[o] = call[o]
    BY <1>7 DEF Ended, TypeOK, Idle
  <2>3. \A e \in events' : e \in events \/ scheduled'[e[2]] # "absent"
    BY <1>7, <2>1 DEF Ended
  <2> QED
    BY <2>1, <2>2, <2>3, RegisterKeeps
<1> QED
  BY <1>1, <1>4, <1>5, <1>6, <1>7 DEF End

(* The scheduler knows no task the state machine does not know, and no     *)
(* event is published of a task the scheduler does not know, wherever      *)
(* creations stop and whatever other requests do meanwhile.                *)
THEOREM RegistrationIsInOrder == Spec => []RegisteredInOrder
<1>1. Init => RegisterInv
  BY DEF Init, RegisterInv, RegisteredInOrder, Idle
<1>2. ASSUME TypeOK, TypeOK', RegisterInv, [Next]_vars PROVE RegisterInv'
  <2>1. CASE Next
    BY <1>2, <2>1, CreateRegisters, EndRegisters DEF Next
  <2>2. CASE UNCHANGED vars
    BY <1>2, <2>2 DEF vars, RegisterInv, RegisteredInOrder
  <2> QED
    BY <1>2, <2>1, <2>2
<1>3. TypeOK /\ TypeOK' /\ RegisterInv /\ [Next]_vars => RegisterInv'
  BY <1>2
<1>4. RegisterInv => RegisteredInOrder
  BY DEF RegisterInv
<1> QED
  BY <1>1, <1>3, <1>4, TypeCorrect, PTL DEF Spec

----------------------------------------------------------------------------
(* The views of a task.                                                    *)

(* Thread c serves a request for task t. *)
Serves(c, t) == call[c] # Idle /\ call[c].task = t

(* No component knows the task, or all of them and they agree. *)
Unknown(t) == node[t] = "absent" /\ state[t] = None /\ scheduled[t] = "absent"
Agreed(t) == /\ node[t] # "absent"
             /\ scheduled[t] = node[t]
             /\ state[t] \in {node[t], "completed"}

(* How far the views are when thread c alone serves t. *)
Midway(c, t) ==
    LET step == call[c].step IN
    /\ step = "node" => Unknown(t)
    /\ step \in {"edges", "scan", "init", "initialize", "schedule"} =>
          /\ node[t] = "pending" /\ scheduled[t] = "absent"
          /\ state[t] = IF step = "schedule" THEN "pending" ELSE None
    /\ step \in {"created", "startTime", "dag"} => Agreed(t)
    /\ step \in {"getState", "check", "apply", "mark", "ended"} =>
          /\ node[t] = call[c].to /\ scheduled[t] # "absent"
          /\ state[t] \in {"pending"} \union Outcome
    /\ step \in {"mark", "ended"} => state[t] \in {call[c].to, "completed"}
    /\ step = "ended" => scheduled[t] = call[c].to

(* A task that is not disturbed is served by one thread at most. *)
ViewInv ==
    \A t \in Task \ disturbed :
        /\ \A c, d \in Thread : Serves(c, t) /\ Serves(d, t) => c = d
        /\ \A c \in Thread : Serves(c, t) => Midway(c, t)
        /\ (\A c \in Thread : ~Serves(c, t)) => Unknown(t) \/ Agreed(t)

(* While thread c serves t alone, nothing else changes the views of t.      *)
LEMMA ServedAlone ==
    ASSUME ViewInv, NEW c \in Thread, NEW t \in Task \ disturbed, Serves(c, t)
    PROVE  Midway(c, t) /\ \A o \in Thread \ {c} : ~Serves(o, t)
  BY DEF ViewInv

(* A step of thread c concerns one task t. *)
LEMMA ViewKeeps ==
    ASSUME ViewInv, NEW c \in Thread, NEW t \in Task,
           \A o \in Thread \ {c} : call'[o] = call[o],
           \A u \in Task \ {t} : /\ node'[u] = node[u] /\ state'[u] = state[u]
                                 /\ scheduled'[u] = scheduled[u],
           \A u \in Task \ {t} : ~Serves(c, u) /\ ~Serves(c, u)',
           disturbed \subseteq disturbed',
           t \notin disturbed' => /\ \A o \in Thread \ {c} : ~Serves(o, t)
                                  /\ Serves(c, t)' => Midway(c, t)'
                                  /\ ~Serves(c, t)' => Unknown(t)' \/ Agreed(t)'
    PROVE  ViewInv'
<1> SUFFICES ASSUME NEW u \in Task \ disturbed'
             PROVE  /\ \A a, b \in Thread : Serves(a, u)' /\ Serves(b, u)' => a = b
                    /\ \A a \in Thread : Serves(a, u)' => Midway(a, u)'
                    /\ (\A a \in Thread : ~Serves(a, u)') => Unknown(u)' \/ Agreed(u)'
  BY DEF ViewInv
<1>1. \A o \in Thread \ {c} : Serves(o, u)' <=> Serves(o, u)
  BY DEF Serves
<1>2. CASE u = t
  BY <1>1, <1>2
<1>3. CASE u # t
  <2>1. /\ \A a, b \in Thread : Serves(a, u) /\ Serves(b, u) => a = b
        /\ \A a \in Thread : Serves(a, u) => Midway(a, u)
        /\ (\A a \in Thread : ~Serves(a, u)) => Unknown(u) \/ Agreed(u)
    BY DEF ViewInv
  <2>2. ~Serves(c, u) /\ ~Serves(c, u)'
    BY <1>3
  <2>3. node'[u] = node[u] /\ state'[u] = state[u] /\ scheduled'[u] = scheduled[u]
    BY <1>3
  <2>4. \A o \in Thread \ {c} : Midway(o, u) => Midway(o, u)'
    BY <2>3 DEF Midway, Unknown, Agreed
  <2>5. (Unknown(u) => Unknown(u)') /\ (Agreed(u) => Agreed(u)')
    BY <2>3 DEF Unknown, Agreed
  <2> QED
    BY <1>1, <2>1, <2>2, <2>4, <2>5
<1> QED  BY <1>2, <1>3

(* A step in the middle of a request. *)
LEMMA Serving ==
    ASSUME ViewInv, NEW c \in Thread, NEW t \in Task, call[c] # Idle, call[c].task = t,
           \A o \in Thread \ {c} : call'[o] = call[o],
           call'[c] = Idle \/ call'[c].task = t,
           \A u \in Task \ {t} : /\ node'[u] = node[u] /\ state'[u] = state[u]
                                 /\ scheduled'[u] = scheduled[u],
           disturbed \subseteq disturbed',
           t \notin disturbed' /\ Midway(c, t) => /\ call'[c] # Idle => Midway(c, t)'
                                                  /\ call'[c] = Idle => Agreed(t)'
    PROVE  ViewInv'
<1>1. Serves(c, t) /\ \A u \in Task \ {t} : ~Serves(c, u) /\ ~Serves(c, u)'
  BY DEF Serves
<1>2. ASSUME t \notin disturbed'
      PROVE  /\ \A o \in Thread \ {c} : ~Serves(o, t)
             /\ Serves(c, t)' => Midway(c, t)'
             /\ ~Serves(c, t)' => Agreed(t)'
  <2>1. t \in Task \ disturbed
    BY <1>2
  <2>2. Midway(c, t) /\ \A o \in Thread \ {c} : ~Serves(o, t)
    BY <1>1, <2>1, ServedAlone
  <2> QED
    BY <1>2, <2>2 DEF Serves
<1> QED
  BY <1>1, <1>2, ViewKeeps

LEMMA ErrorKeepsViews ==
    ASSUME TypeOK, ViewInv, NEW c \in Thread, call[c].step \in CreateStep \union EndStep, Error(c),
           UNCHANGED <<node, state, scheduled>>
    PROVE  ViewInv'
<1>1. call[c].task \in Task /\ call[c] # Idle
  BY CallShape DEF Creation, Ending, CreateStep, EndStep, Idle
<1>2. /\ call'[c] = Idle /\ \A o \in Thread \ {c} : call'[o] = call[o]
      /\ disturbed \subseteq disturbed' /\ call[c].task \in disturbed'
  BY DEF Error, TypeOK
<1> QED
  BY <1>1, <1>2, Serving

(* A request begins: unless it overlaps another one, the views agree. *)
LEMMA BeginKeepsViews ==
    ASSUME TypeOK, ViewInv, NEW c \in Thread, NEW t \in Task, NEW request,
           Begin(c, t, request), request # Idle, request.task = t,
           UNCHANGED <<node, state, scheduled>>,
           Unknown(t) \/ Agreed(t) => Midway(c, t)'
    PROVE  ViewInv'
<1>1. /\ call[c] = Idle /\ call'[c] = request /\ \A o \in Thread \ {c} : call'[o] = call[o]
      /\ disturbed \subseteq disturbed'
  BY CallShape DEF Begin, At, TypeOK
<1>2. \A u \in Task : ~Serves(c, u)
  BY <1>1 DEF Serves
<1>3. Serves(c, t)' /\ \A u \in Task \ {t} : ~Serves(c, u)'
  BY <1>1 DEF Serves
<1>4. ASSUME t \notin disturbed'
      PROVE  /\ \A o \in Thread : ~Serves(o, t)
             /\ Midway(c, t)'
  <2>1. t \in Task \ disturbed /\ \A o \in Thread : ~Serves(o, t)
    BY <1>1, <1>4 DEF Begin, Serves
  <2> QED
    BY <2>1 DEF ViewInv
<1> QED
  BY <1>1, <1>2, <1>3, <1>4, ViewKeeps

(* The request goes on to another step. *)
LEMMA GotoKeepsViews ==
    ASSUME TypeOK, ViewInv, NEW c \in Thread, call[c].step \in CreateStep \union EndStep,
           NEW s \in CreateStep \union EndStep, Goto(c, s), NEW t, t = call[c].task,
           \A u \in Task \ {t} : /\ node'[u] = node[u] /\ state'[u] = state[u]
                                 /\ scheduled'[u] = scheduled[u],
           UNCHANGED disturbed,
           Midway(c, t) => Midway(c, t)'
    PROVE  ViewInv'
<1>1. /\ call[c] # Idle /\ t \in Task /\ call'[c].task = t /\ call'[c] # Idle
      /\ \A o \in Thread \ {c} : call'[o] = call[o]
  BY GotoFacts DEF Idle, CreateStep, EndStep
<1> QED
  BY <1>1, Serving

LEMMA GotoKeepsOutcome ==
    ASSUME TypeOK, NEW c \in Thread, call[c].step \in EndStep, NEW s \in EndStep, Goto(c, s)
    PROVE  /\ call'[c].to = call[c].to /\ call'[c].step = s
           /\ call[c].to \in Outcome /\ call[c].task \in Task
<1>1. call[c] \in Ending
  BY CallShape
<1>2. call' = [call EXCEPT ![c] = [call[c] EXCEPT !.step = s]]
  BY <1>1 DEF Goto, TypeOK
<1> QED
  BY <1>1, <1>2 DEF TypeOK, Ending

LEMMA CreateKeepsViews ==
    ASSUME TypeOK, ViewInv, NEW c \in Thread, Create(c)
    PROVE  ViewInv'
<1>t. PICK t : t = call[c].task
  OBVIOUS
<1>c. call[c].step \in CreateStep => /\ call[c] \in Creation /\ t \in Task /\ call[c] # Idle
  BY <1>t, CallShape DEF Creation, CreateStep, Idle
<1>n. None \notin TaskState /\ "pending" \in TaskState
  BY NoneAssumption DEF TaskState
<1>e. ASSUME call[c].step \in CreateStep, Error(c), UNCHANGED <<node, state, scheduled>>
      PROVE  ViewInv'
  BY <1>e, ErrorKeepsViews
<1>1. ASSUME NEW u \in Task, NEW deps \in SUBSET Task, CheckNew(c, u, deps)
      PROVE  ViewInv'
  <2> DEFINE request == [step |-> "node", task |-> u, todo |-> deps, seen |-> {}]
  <2>1. /\ Begin(c, u, request) /\ node[u] = "absent" /\ UNCHANGED <<node, state, scheduled>>
        /\ request # Idle /\ request.task = u
    BY <1>1 DEF CheckNew, Nodes, Idle
  <2>2. call'[c].step = "node"
    BY <2>1 DEF Begin, TypeOK
  <2>3. Unknown(u) \/ Agreed(u) => Midway(c, u)'
    BY <2>1, <2>2 DEF Unknown, Agreed, Midway
  <2> QED
    BY <2>1, <2>3, BeginKeepsViews
<1>2. ASSUME AddNode(c)
      PROVE  ViewInv'
  <2>1. /\ call[c].step = "node" /\ t \in Task /\ Goto(c, "edges")
        /\ node' = [node EXCEPT ![t] = "pending"] /\ UNCHANGED <<state, scheduled, disturbed>>
    BY <1>t, <1>c, <1>2 DEF AddNode, At, CreateStep
  <2>2. call'[c].step = "edges"
    BY <2>1, GotoFacts DEF CreateStep
  <2>3. node'[t] = "pending" /\ \A u \in Task \ {t} : node'[u] = node[u]
    BY <2>1 DEF TypeOK
  <2>4. Midway(c, t) => Midway(c, t)'
    BY <2>1, <2>2, <2>3 DEF Midway, Unknown
  <2> QED
    BY <1>t, <2>1, <2>3, <2>4, GotoKeepsViews DEF CreateStep
<1>3. ASSUME ScanNodes(c) \/ AddEdge(c)
      PROVE  ViewInv'
  <2>1. /\ call[c] \in Creation /\ call[c].step \in {"edges", "scan"} /\ t \in Task
        /\ call[c] # Idle /\ UNCHANGED <<node, state, scheduled, disturbed>>
    BY <1>c, <1>3 DEF ScanNodes, AddEdge, At, CreateStep
  <2>2. PICK x : /\ call' = [call EXCEPT ![c] = x] /\ x.task = t
                 /\ x.step \in {"edges", "scan"}
    <3>1. CASE ScanNodes(c)
      <4> DEFINE x == [call[c] EXCEPT !.step = "scan", !.seen = Nodes]
      <4>1. call' = [call EXCEPT ![c] = x]
        BY <2>1, <3>1 DEF ScanNodes, TypeOK
      <4>2. x.task = t /\ x.step = "scan"
        BY <1>t, <2>1 DEF Creation
      <4> HIDE DEF x
      <4> QED  BY <4>1, <4>2
    <3>2. CASE AddEdge(c)
      <4>1. PICK d : call' = [call EXCEPT ![c] =
                                 [call[c] EXCEPT !.step = "edges", !.todo = @ \ {d}]]
        BY <2>1, <3>2 DEF AddEdge, TypeOK
      <4> DEFINE x == [call[c] EXCEPT !.step = "edges", !.todo = @ \ {d}]
      <4>2. x.task = t /\ x.step = "edges"
        BY <1>t, <2>1 DEF Creation
      <4>3. call' = [call EXCEPT ![c] = x]
        BY <4>1
      <4> HIDE DEF x
      <4> QED  BY <4>2, <4>3
    <3> QED  BY <1>3, <3>1, <3>2
  <2>3. call'[c] = x /\ \A o \in Thread \ {c} : call'[o] = call[o]
    BY <2>2 DEF TypeOK
  <2>4. Midway(c, t) => Midway(c, t)'
    BY <2>1, <2>2, <2>3 DEF Midway
  <2> QED
    BY <1>t, <2>1, <2>2, <2>3, <2>4, Serving DEF Idle
<1>4. ASSUME AddEdgeRaises(c)
      PROVE  ViewInv'
  BY <1>4, <1>e DEF AddEdgeRaises, At, CreateStep
<1>5. ASSUME RecordStart(c)
      PROVE  ViewInv'
  <2>1. /\ call[c].step = "edges" /\ Goto(c, "init")
        /\ UNCHANGED <<node, state, scheduled, disturbed>>
    BY <1>5 DEF RecordStart, At
  <2>2. call'[c].step = "init"
    BY <2>1, GotoFacts DEF CreateStep
  <2>3. Midway(c, t) => Midway(c, t)'
    BY <2>1, <2>2 DEF Midway
  <2> QED
    BY <1>t, <2>1, <2>3, GotoKeepsViews DEF CreateStep
<1>6. ASSUME InitializeCheck(c)
      PROVE  ViewInv'
  <2>1. /\ call[c].step = "init" /\ UNCHANGED <<node, state, scheduled>>
        /\ \/ Error(c)
           \/ Goto(c, "initialize") /\ UNCHANGED disturbed
    BY <1>6 DEF InitializeCheck, At
  <2>2. CASE Error(c)
    BY <1>e, <2>1, <2>2 DEF CreateStep
  <2>3. CASE Goto(c, "initialize") /\ UNCHANGED disturbed
    <3>1. call'[c].step = "initialize"
      BY <2>1, <2>3, GotoFacts DEF CreateStep
    <3>2. Midway(c, t) => Midway(c, t)'
      BY <2>1, <3>1 DEF Midway
    <3> QED
      BY <1>t, <2>1, <2>3, <3>2, GotoKeepsViews DEF CreateStep
  <2> QED  BY <2>1, <2>2, <2>3
<1>7. ASSUME Initialize(c)
      PROVE  ViewInv'
  <2>1. /\ call[c].step = "initialize" /\ t \in Task /\ Goto(c, "schedule")
        /\ state' = [state EXCEPT ![t] = "pending"] /\ UNCHANGED <<node, scheduled, disturbed>>
    BY <1>t, <1>c, <1>7 DEF Initialize, At, CreateStep
  <2>2. call'[c].step = "schedule"
    BY <2>1, GotoFacts DEF CreateStep
  <2>3. state'[t] = "pending" /\ \A u \in Task \ {t} : state'[u] = state[u]
    BY <2>1 DEF TypeOK
  <2>4. Midway(c, t) => Midway(c, t)'
    BY <2>1, <2>2, <2>3 DEF Midway
  <2> QED
    BY <1>t, <2>1, <2>3, <2>4, GotoKeepsViews DEF CreateStep
<1>8. ASSUME AddTask(c)
      PROVE  ViewInv'
  <2>1. /\ call[c].step = "schedule" /\ t \in Task /\ UNCHANGED <<node, state>>
        /\ \/ Error(c) /\ UNCHANGED scheduled
           \/ /\ scheduled' = [scheduled EXCEPT ![t] = "pending"]
              /\ Goto(c, "created") /\ UNCHANGED disturbed
    BY <1>t, <1>c, <1>8 DEF AddTask, At, CreateStep
  <2>2. CASE Error(c) /\ UNCHANGED scheduled
    BY <1>e, <2>1, <2>2 DEF CreateStep
  <2>3. CASE /\ scheduled' = [scheduled EXCEPT ![t] = "pending"]
             /\ Goto(c, "created") /\ UNCHANGED disturbed
    <3>1. call'[c].step = "created"
      BY <2>1, <2>3, GotoFacts DEF CreateStep
    <3>2. scheduled'[t] = "pending" /\ \A u \in Task \ {t} : scheduled'[u] = scheduled[u]
      BY <2>1, <2>3 DEF TypeOK
    <3>3. Midway(c, t) => Midway(c, t)'
      BY <2>1, <3>1, <3>2 DEF Midway, Agreed
    <3> QED
      BY <1>t, <2>1, <2>3, <3>2, <3>3, GotoKeepsViews DEF CreateStep
  <2> QED  BY <2>1, <2>2, <2>3
<1>9. ASSUME Created(c)
      PROVE  ViewInv'
  <2>1. /\ call[c].step = "created" /\ t \in Task /\ call[c] # Idle
        /\ call'[c] = Idle /\ \A o \in Thread \ {c} : call'[o] = call[o]
        /\ UNCHANGED <<node, state, scheduled, disturbed>>
    BY <1>c, <1>9 DEF Created, At, CreateStep, TypeOK
  <2>2. Midway(c, t) => Agreed(t)'
    BY <2>1 DEF Midway, Agreed
  <2> QED
    BY <1>t, <2>1, <2>2, Serving
<1> QED
  BY <1>1, <1>2, <1>3, <1>4, <1>5, <1>6, <1>7, <1>8, <1>9 DEF Create

LEMMA EndKeepsViews ==
    ASSUME TypeOK, ViewInv, NEW c \in Thread, End(c)
    PROVE  ViewInv'
<1>t. PICK t : t = call[c].task
  OBVIOUS
<1>c. call[c].step \in EndStep => /\ call[c] \in Ending /\ t \in Task /\ call[c] # Idle
                                  /\ call[c].to \in Outcome
  BY <1>t, CallShape DEF Ending, EndStep, Idle
<1>n. None \notin {"pending"} \union Outcome
  BY NoneAssumption DEF TaskState, Outcome
<1>e. ASSUME call[c].step \in EndStep, Error(c), UNCHANGED <<node, state, scheduled>>
      PROVE  ViewInv'
  BY <1>e, ErrorKeepsViews
<1>1. ASSUME NEW u \in Task, NEW to \in Outcome, Finish(c, u, to)
      PROVE  ViewInv'
  <2> DEFINE request == [step |-> IF u \in startTimes THEN "startTime" ELSE "dag",
                         task |-> u, to |-> to]
  <2>1. /\ Begin(c, u, request) /\ node[u] # "absent" /\ UNCHANGED <<node, state, scheduled>>
        /\ request # Idle /\ request.task = u
    BY <1>1 DEF Finish, Nodes, Idle
  <2>2. call'[c].step \in {"startTime", "dag"}
    BY <2>1 DEF Begin, TypeOK
  <2>3. Unknown(u) \/ Agreed(u) => Midway(c, u)'
    BY <2>1, <2>2 DEF Unknown, Agreed, Midway
  <2> QED
    BY <2>1, <2>3, BeginKeepsViews
<1>2. ASSUME DropStartTime(c)
      PROVE  ViewInv'
  <2>1. /\ call[c].step = "startTime" /\ UNCHANGED <<node, state, scheduled>>
        /\ \/ Error(c)
           \/ Goto(c, "dag") /\ UNCHANGED disturbed
    BY <1>2 DEF DropStartTime, At
  <2>2. CASE Error(c)
    BY <1>e, <2>1, <2>2 DEF EndStep
  <2>3. CASE Goto(c, "dag") /\ UNCHANGED disturbed
    <3>1. call'[c].step = "dag"
      BY <2>1, <2>3, GotoKeepsOutcome DEF EndStep
    <3>2. Midway(c, t) => Midway(c, t)'
      BY <2>1, <3>1 DEF Midway, Agreed
    <3> QED
      BY <1>t, <2>1, <2>3, <3>2, GotoKeepsViews DEF EndStep
  <2> QED  BY <2>1, <2>2, <2>3
<1>3. ASSUME UpdateNode(c)
      PROVE  ViewInv'
  <2>1. /\ call[c].step = "dag" /\ t \in Task /\ Goto(c, "getState")
        /\ node' = [node EXCEPT ![t] = call[c].to] /\ UNCHANGED <<state, scheduled, disturbed>>
    BY <1>t, <1>c, <1>3 DEF UpdateNode, At, EndStep
  <2>2. call'[c].step = "getState" /\ call'[c].to = call[c].to
    BY <2>1, GotoKeepsOutcome DEF EndStep
  <2>3. node'[t] = call[c].to /\ \A u \in Task \ {t} : node'[u] = node[u]
    BY <2>1 DEF TypeOK
  <2>4. node[t] \in Status
    BY <2>1 DEF TypeOK
  <2>5. Midway(c, t) => Midway(c, t)'
    BY <2>1, <2>2, <2>3, <2>4 DEF Midway, Agreed, Status, Outcome
  <2> QED
    BY <1>t, <2>1, <2>3, <2>5, GotoKeepsViews DEF EndStep
<1>4. ASSUME GetState(c)
      PROVE  ViewInv'
  <2> DEFINE s == IF state[t] \in Terminal THEN "mark" ELSE "check"
  <2>1. /\ call[c].step = "getState" /\ Goto(c, s)
        /\ UNCHANGED <<node, state, scheduled, disturbed>>
    BY <1>t, <1>4 DEF GetState, At
  <2>2. call'[c].step = s /\ call'[c].to = call[c].to
    BY <2>1, GotoKeepsOutcome DEF EndStep
  <2>3. Midway(c, t) => Midway(c, t)'
    BY <2>1, <2>2 DEF Midway, Terminal, Outcome
  <2> QED
    BY <1>t, <2>1, <2>3, GotoKeepsViews DEF EndStep
<1>5. ASSUME CheckTransition(c)
      PROVE  ViewInv'
  <2>1. /\ call[c].step = "check" /\ UNCHANGED <<node, state, scheduled>>
        /\ \/ Error(c)
           \/ Goto(c, "apply") /\ UNCHANGED disturbed
    BY <1>5 DEF CheckTransition, At
  <2>2. CASE Error(c)
    BY <1>e, <2>1, <2>2 DEF EndStep
  <2>3. CASE Goto(c, "apply") /\ UNCHANGED disturbed
    <3>1. call'[c].step = "apply" /\ call'[c].to = call[c].to
      BY <2>1, <2>3, GotoKeepsOutcome DEF EndStep
    <3>2. Midway(c, t) => Midway(c, t)'
      BY <2>1, <3>1 DEF Midway
    <3> QED
      BY <1>t, <2>1, <2>3, <3>2, GotoKeepsViews DEF EndStep
  <2> QED  BY <2>1, <2>2, <2>3
<1>6. ASSUME ApplyTransition(c)
      PROVE  ViewInv'
  <2>1. /\ call[c].step = "apply" /\ t \in Task /\ Goto(c, "mark") /\ call[c].to \in Outcome
        /\ state' = [state EXCEPT ![t] = call[c].to] /\ UNCHANGED <<node, scheduled, disturbed>>
    BY <1>t, <1>c, <1>6 DEF ApplyTransition, At, EndStep
  <2>2. call'[c].step = "mark" /\ call'[c].to = call[c].to
    BY <2>1, GotoKeepsOutcome DEF EndStep
  <2>3. state'[t] = call[c].to /\ \A u \in Task \ {t} : state'[u] = state[u]
    BY <2>1 DEF TypeOK
  <2>4. Midway(c, t) => Midway(c, t)'
    BY <2>1, <2>2, <2>3 DEF Midway
  <2> QED
    BY <1>t, <2>1, <2>3, <2>4, GotoKeepsViews DEF EndStep
<1>7. ASSUME Mark(c)
      PROVE  ViewInv'
  <2>1. /\ call[c].step = "mark" /\ t \in Task /\ call[c].to \in Outcome
        /\ UNCHANGED <<node, state>>
        /\ \/ Error(c) /\ UNCHANGED scheduled
           \/ /\ scheduled' = [scheduled EXCEPT ![t] = call[c].to]
              /\ Goto(c, "ended") /\ UNCHANGED disturbed
    BY <1>t, <1>c, <1>7 DEF Mark, At, EndStep
  <2>2. CASE Error(c) /\ UNCHANGED scheduled
    BY <1>e, <2>1, <2>2 DEF EndStep
  <2>3. CASE /\ scheduled' = [scheduled EXCEPT ![t] = call[c].to]
             /\ Goto(c, "ended") /\ UNCHANGED disturbed
    <3>1. call'[c].step = "ended" /\ call'[c].to = call[c].to
      BY <2>1, <2>3, GotoKeepsOutcome DEF EndStep
    <3>2. scheduled'[t] = call[c].to /\ \A u \in Task \ {t} : scheduled'[u] = scheduled[u]
      BY <2>1, <2>3 DEF TypeOK
    <3>3. Midway(c, t) => Midway(c, t)'
      BY <2>1, <3>1, <3>2 DEF Midway, Outcome
    <3> QED
      BY <1>t, <2>1, <2>3, <3>2, <3>3, GotoKeepsViews DEF EndStep
  <2> QED  BY <2>1, <2>2, <2>3
<1>8. ASSUME Ended(c)
      PROVE  ViewInv'
  <2>1. /\ call[c].step = "ended" /\ t \in Task /\ call[c] # Idle /\ call[c].to \in Outcome
        /\ call'[c] = Idle /\ \A o \in Thread \ {c} : call'[o] = call[o]
        /\ UNCHANGED <<node, state, scheduled, disturbed>>
    BY <1>c, <1>8 DEF Ended, At, EndStep, TypeOK
  <2>2. Midway(c, t) => Agreed(t)'
    BY <2>1 DEF Midway, Agreed, Outcome
  <2> QED
    BY <1>t, <2>1, <2>2, Serving
<1> QED
  BY <1>1, <1>2, <1>3, <1>4, <1>5, <1>6, <1>7, <1>8 DEF End

(* A task none of whose requests overlapped or was answered with an error   *)
(* has one status in the DAG, the scheduler and the state machine, however *)
(* the requests for other tasks interleave (api.py:349-474).               *)
THEOREM ViewsAgreeOnTheTask == Spec => []ViewsAgree
<1>1. Init => ViewInv
  BY DEF Init, ViewInv, Serves, Unknown
<1>2. ASSUME TypeOK, ViewInv, [Next]_vars
      PROVE  ViewInv'
  <2>1. CASE Next
    BY <1>2, <2>1, CreateKeepsViews, EndKeepsViews DEF Next
  <2>2. CASE UNCHANGED vars
    BY <1>2, <2>2 DEF vars, ViewInv, Serves, Midway, Unknown, Agreed
  <2> QED
    BY <1>2, <2>1, <2>2
<1>3. TypeOK /\ ViewInv /\ [Next]_vars => ViewInv'
  BY <1>2
<1>4. ViewInv => ViewsAgree
  BY DEF ViewInv, ViewsAgree, Serves, Nodes, Unknown, Agreed
<1> QED
  BY <1>1, <1>3, <1>4, TypeCorrect, PTL DEF Spec
=============================================================================
