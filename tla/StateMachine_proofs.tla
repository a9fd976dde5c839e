------------------------ MODULE StateMachine_proofs ------------------------
(***************************************************************************)
(* Theorems about StateMachine.  Typing holds for any number of threads.   *)
(* The others are about one thread, as in the coordinator's event loop:    *)
(* with two the check and the update of a transition can interleave, and   *)
(* they are false.                                                         *)
(***************************************************************************)
EXTENDS StateMachine, SequenceTheorems, TLAPS

OneCaller == \A v, w \in Thread : v = w

(* Neither a terminal state nor None can be left. *)
LEMMA TransitionFacts ==
    \A s, new \in TaskState : CanTransition(s, new) => s \notin Terminal
<1> QED
  BY DEF CanTransition, EmergencyTransition, VALID_TRANSITIONS, Terminal, TaskState

(* Inserting a row keeps a list of transitions one. *)
LEMMA InsertedRow ==
    ASSUME NEW rows \in Seq(Transition), NEW row \in Transition, NEW p \in 0 .. Len(rows)
    PROVE  SubSeq(rows, 1, p) \o <<row>> \o SubSeq(rows, p + 1, Len(rows)) \in Seq(Transition)
<1>1. SubSeq(rows, 1, p) \in Seq(Transition)
  BY SubSeqProperties
<1>2. SubSeq(rows, p + 1, Len(rows)) \in Seq(Transition)
  BY SubSeqProperties
<1>3. <<row>> \in Seq(Transition)
  OBVIOUS
<1> QED
  BY <1>1, <1>2, <1>3

(* A row that is younger than all others comes last. *)
LEMMA YoungestRow ==
    ASSUME NEW rows \in Seq(Transition), NEW row \in Transition,
           \A i \in 1 .. Len(rows) : rows[i].timestamp < row.timestamp,
           NEW p \in 0 .. Len(rows), RowBelongsAt(rows, row, p)
    PROVE  SubSeq(rows, 1, p) \o <<row>> \o SubSeq(rows, p + 1, Len(rows)) = Append(rows, row)
<1>1. p = Len(rows)
  <2>1. SUFFICES ASSUME p < Len(rows) PROVE FALSE
    OBVIOUS
  <2>2. p + 1 \in 1 .. Len(rows) /\ p + 1 \in p + 1 .. Len(rows)
    BY <2>1
  <2>3. rows[p + 1] \in Transition
    BY <2>2, ElementOfSeq
  <2> QED
    BY <2>2, <2>3 DEF RowBelongsAt, Transition
<1>2. SubSeq(rows, 1, p) = rows
  BY <1>1, SubSeqFull
<1>3. SubSeq(rows, p + 1, Len(rows)) = <<>>
  BY <1>1, SubSeqEmpty
<1>4. rows \o <<row>> = Append(rows, row)
  BY AppendIsConcat
<1>5. (rows \o <<row>>) \o <<>> = rows \o <<row>>
  OBVIOUS
<1> QED
  BY <1>2, <1>3, <1>4, <1>5

----------------------------------------------------------------------------

LEMMA TypeInit == Init => TypeOK
<1> SUFFICES ASSUME Init PROVE TypeOK
  OBVIOUS
<1>1. states \in [Task -> TaskState \union {None}] /\ saved \in [Task -> TaskState \union {None}]
  BY DEF Init
<1>2. history \in [Task -> Seq(Transition) \union {None}]
  BY DEF Init
<1>3. savedHistory \in [Task -> Seq(Transition)]
  BY DEF Init
<1>4. call \in [Thread -> Call]
  BY DEF Init, Call
<1> QED
  BY <1>1, <1>2, <1>3, <1>4 DEF Init, TypeOK

(* What a thread's call looks like at each of its steps. *)
LEMMA CallShape ==
    ASSUME TypeOK, NEW w \in Thread
    PROVE  /\ call[w].step \in {"apply", "saveState", "saveTransition"} =>
                 /\ call[w].task \in Task
                 /\ call[w].transition \in Transition
                 /\ call[w] \in [step : {"apply", "saveState", "saveTransition"},
                                 task : Task, transition : Transition]
           /\ call[w].step = "saveInitial" =>
                 call[w].task \in Task
           /\ call[w].step \in {"idle", "apply", "saveState", "saveTransition", "saveInitial"}
           /\ call[w].step = "idle" <=> call[w] = Idle
<1>1. call[w] \in Call
  BY DEF TypeOK
<1> QED
  BY <1>1 DEF Call, Idle

(* A transition is applied to a history that is there. *)
HistoryKnown == \A w \in Thread :
    call[w].step = "apply" => history[call[w].task] \in Seq(Transition)

TypeInv == TypeOK /\ HistoryKnown

LEMMA TypeInvStep == TypeInv /\ [RuntimeNext]_vars => TypeInv'
<1> SUFFICES ASSUME TypeInv, [RuntimeNext]_vars PROVE TypeInv'
  OBVIOUS
<1>0. TypeOK /\ HistoryKnown
  BY DEF TypeInv
<1>1. ASSUME NEW w \in Thread, NEW t \in Task, InitializeUnknown(w, t) PROVE TypeInv'
  <2>1. [step |-> "saveInitial", task |-> t] \in Call
    BY DEF Call
  <2>2. <<>> \in Seq(Transition) /\ "pending" \in TaskState
    BY DEF TaskState
  <2>3. TypeOK'
    BY <1>0, <1>1, <2>1, <2>2 DEF TypeOK, InitializeUnknown, Initialize
  <2>4. HistoryKnown'
    BY <1>0, <1>1, <2>2 DEF TypeOK, HistoryKnown, InitializeUnknown, Initialize
  <2> QED
    BY <2>3, <2>4 DEF TypeInv
<1>2. ASSUME NEW w \in Thread, NEW t \in Task, NEW new \in TaskState, Check(w, t, new)
      PROVE  TypeInv'
  <2>1. Known(t) \in TaskState
    BY <1>0, <1>2 DEF TypeOK, Check, Known
  <2>2. clock \in Nat /\ clock + 1 \in Nat
    BY <1>0 DEF TypeOK
  <2>3. [from |-> Known(t), to |-> new, timestamp |-> clock] \in Transition
    BY <2>1, <2>2 DEF Transition
  <2>4. call' \in [Thread -> Call]
    BY <1>0, <1>2, <2>3 DEF TypeOK, Check, Call
  <2>5. states' \in [Task -> TaskState \union {None}]
    BY <1>0, <1>2, <2>1 DEF TypeOK, Check, Hydrated
  <2>6. /\ history' \in [Task -> Seq(Transition) \union {None}]
        /\ \A u \in Task : history[u] \in Seq(Transition) => history'[u] \in Seq(Transition)
        /\ history'[t] \in Seq(Transition)
    BY <1>0, <1>2 DEF TypeOK, Check, HydratedHistory
  <2>7. TypeOK'
    BY <1>0, <1>2, <2>2, <2>4, <2>5, <2>6 DEF TypeOK, Check
  <2>8. ASSUME NEW v \in Thread, call'[v].step = "apply"
        PROVE  history'[call'[v].task] \in Seq(Transition)
    <3>1. CASE v = w
      <4>1. call'[w] = [step |-> "apply", task |-> t,
                        transition |-> [from |-> Known(t), to |-> new, timestamp |-> clock]]
        BY <1>0, <1>2 DEF TypeOK, Check
      <4>2. call'[w].task = t
        BY <4>1
      <4> QED
        BY <2>6, <3>1, <4>2
    <3>2. CASE v # w
      <4>1. call'[v] = call[v]
        BY <1>0, <1>2, <3>2 DEF TypeOK, Check
      <4> QED
        BY <1>0, <2>6, <2>8, <4>1, CallShape DEF HistoryKnown
    <3> QED
      BY <3>1, <3>2
  <2> QED
    BY <2>7, <2>8 DEF TypeInv, HistoryKnown
<1>3. ASSUME NEW w \in Thread, Apply(w) PROVE TypeInv'
  <2> DEFINE t == call[w].task  tr == call[w].transition
  <2>1. call[w].step = "apply"
    BY <1>3 DEF Apply
  <2>2. t \in Task /\ tr \in Transition
    BY <1>0, <2>1, CallShape
  <2>3. [call[w] EXCEPT !.step = "saveState"] = [step |-> "saveState", task |-> t, transition |-> tr]
    BY <1>0, <2>1, CallShape
  <2>4. call' = [call EXCEPT ![w] = [step |-> "saveState", task |-> t, transition |-> tr]]
    BY <1>3, <2>3 DEF Apply
  <2>5. call' \in [Thread -> Call]
    <3>1. [step |-> "saveState", task |-> t, transition |-> tr] \in Call
      BY <2>2 DEF Call
    <3> QED
      BY <1>0, <2>4, <3>1 DEF TypeOK
  <2>6. tr.to \in TaskState
    BY <2>2 DEF Transition
  <2>7. Append(history[t], tr) \in Seq(Transition)
    BY <1>0, <2>1, <2>2 DEF HistoryKnown
  <2>8. /\ history' = [history EXCEPT ![t] = Append(history[t], tr)]
        /\ states' = [states EXCEPT ![t] = tr.to]
        /\ UNCHANGED <<saved, savedHistory, repoUp, clock>>
    BY <1>3 DEF Apply
  <2>9. TypeOK'
    BY <1>0, <2>2, <2>5, <2>6, <2>7, <2>8 DEF TypeOK
  <2>10. HistoryKnown'
    BY <1>0, <2>2, <2>4, <2>7, <2>8, CallShape DEF TypeOK, HistoryKnown
  <2> QED
    BY <2>9, <2>10 DEF TypeInv
<1>4. ASSUME NEW w \in Thread, SaveInitial(w) PROVE TypeInv'
  <2>1. call[w].task \in Task /\ Idle \in Call /\ "pending" \in TaskState
    BY <1>0, <1>4, CallShape DEF SaveInitial, Call, TaskState
  <2>2. TypeOK'
    BY <1>0, <1>4, <2>1 DEF TypeOK, SaveInitial
  <2>3. HistoryKnown'
    BY <1>0, <1>4 DEF TypeOK, HistoryKnown, SaveInitial, Idle
  <2> QED
    BY <2>2, <2>3 DEF TypeInv
<1>5. ASSUME NEW w \in Thread, SaveState(w) PROVE TypeInv'
  <2> DEFINE t == call[w].task  tr == call[w].transition
  <2>1. call[w].step = "saveState"
    BY <1>5 DEF SaveState
  <2>2. t \in Task /\ tr \in Transition
    BY <1>0, <2>1, CallShape
  <2>3. [call[w] EXCEPT !.step = "saveTransition"]
          = [step |-> "saveTransition", task |-> t, transition |-> tr]
    BY <1>0, <2>1, CallShape
  <2>4. call' = [call EXCEPT ![w] = [step |-> "saveTransition", task |-> t, transition |-> tr]]
    BY <1>5, <2>3 DEF SaveState
  <2>5. call' \in [Thread -> Call]
    <3>1. [step |-> "saveTransition", task |-> t, transition |-> tr] \in Call
      BY <2>2 DEF Call
    <3> QED
      BY <1>0, <2>4, <3>1 DEF TypeOK
  <2>6. tr.to \in TaskState
    BY <2>2 DEF Transition
  <2>7. TypeOK'
    BY <1>0, <1>5, <2>2, <2>5, <2>6 DEF TypeOK, SaveState
  <2>8. HistoryKnown'
    BY <1>0, <1>5, <2>4 DEF TypeOK, HistoryKnown, SaveState
  <2> QED
    BY <2>7, <2>8 DEF TypeInv
<1>6. ASSUME NEW w \in Thread, SaveTransition(w) PROVE TypeInv'
  <2> DEFINE t == call[w].task  row == call[w].transition  rows == savedHistory[t]
             inserted(p) == SubSeq(rows, 1, p) \o <<row>> \o SubSeq(rows, p + 1, Len(rows))
  <2>1. t \in Task /\ row \in Transition
    BY <1>0, <1>6, CallShape DEF SaveTransition
  <2>2. rows \in Seq(Transition)
    BY <1>0, <2>1 DEF TypeOK
  <2>3. PICK p \in 0 .. Len(rows) : savedHistory' = [savedHistory EXCEPT ![t] = inserted(p)]
    BY <1>6 DEF SaveTransition
  <2>4. inserted(p) \in Seq(Transition)
    BY <2>1, <2>2, InsertedRow
  <2>5. Idle \in Call
    BY DEF Call
  <2>6. savedHistory' \in [Task -> Seq(Transition)]
    BY <1>0, <2>1, <2>3, <2>4 DEF TypeOK
  <2>7. TypeOK'
    BY <1>0, <1>6, <2>5, <2>6 DEF TypeOK, SaveTransition
  <2>8. HistoryKnown'
    BY <1>0, <1>6 DEF TypeOK, HistoryKnown, SaveTransition, Idle
  <2> QED
    BY <2>7, <2>8 DEF TypeInv
<1>7. ASSUME NEW w \in Thread, SaveFails(w) PROVE TypeInv'
  <2>1. Idle \in Call
    BY DEF Call
  <2> QED
    BY <1>0, <1>7, <2>1 DEF TypeInv, TypeOK, HistoryKnown, SaveFails, Idle
<1>8. ASSUME NEW w \in Thread, NEW t \in Task, GetState(w, t) PROVE TypeInv'
  <2>1. Known(t) \in TaskState \union {None}
    BY <1>0 DEF TypeOK, Known
  <2> QED
    BY <1>0, <1>8, <2>1 DEF TypeInv, TypeOK, HistoryKnown, GetState, Hydrated
<1>9. ASSUME NEW w \in Thread, NEW t \in Task, GetHistory(w, t) PROVE TypeInv'
  <2>1. /\ history' \in [Task -> Seq(Transition) \union {None}]
        /\ \A u \in Task : history[u] \in Seq(Transition) => history'[u] \in Seq(Transition)
    BY <1>0, <1>9 DEF TypeOK, GetHistory, HydratedHistory
  <2>2. TypeOK'
    BY <1>0, <1>9, <2>1 DEF TypeOK, GetHistory
  <2>3. HistoryKnown'
    BY <1>0, <1>9, <2>1, CallShape DEF HistoryKnown, GetHistory
  <2> QED
    BY <2>2, <2>3 DEF TypeInv
<1>10. CASE ConnectionFails
  BY <1>0, <1>10 DEF TypeInv, TypeOK, HistoryKnown, ConnectionFails
<1>11. CASE Crash
  <2>1. Idle \in Call
    BY DEF Call
  <2> QED
    BY <1>0, <1>11, <2>1 DEF TypeInv, TypeOK, HistoryKnown, Crash, Idle
<1>12. CASE UNCHANGED vars
  BY <1>0, <1>12 DEF TypeInv, TypeOK, HistoryKnown, vars
<1> QED
  BY <1>1, <1>2, <1>3, <1>4, <1>5, <1>6, <1>7, <1>8, <1>9, <1>10, <1>11, <1>12
  DEF RuntimeNext, Common, Step

LEMMA TypeInvHolds == RuntimeSpec => []TypeInv
<1>1. Init => TypeInv
  BY TypeInit DEF Init, TypeInv, HistoryKnown, Idle
<1> QED
  BY <1>1, TypeInvStep, PTL DEF RuntimeSpec

(* Type correctness, for any number of threads. *)
THEOREM TypeCorrect == RuntimeSpec => []TypeOK
<1> QED
  BY TypeInvHolds, PTL DEF TypeInv

----------------------------------------------------------------------------

(* With one caller: what a call in progress knows of the repository while   *)
(* the connection works.                                                    *)
CallInv == repoUp => \A w \in Thread :
    LET t == call[w].task  tr == call[w].transition IN
    /\ call[w].step = "saveInitial" => saved[t] = None /\ states[t] = "pending"
    /\ call[w].step = "apply" => saved[t] = tr.from /\ CanTransition(tr.from, tr.to)
    /\ call[w].step = "saveState" =>
          saved[t] = tr.from /\ CanTransition(tr.from, tr.to) /\ states[t] = tr.to
    /\ call[w].step = "saveTransition" => saved[t] = tr.to /\ states[t] = tr.to

StateInv == TypeInv /\ StateIsDurable /\ CallInv

(* A caller between two calls leaves no task busy, one within a call only   *)
(* the task of that call.                                                   *)
LEMMA BusyTask ==
    ASSUME OneCaller, NEW w \in Thread, NEW t \in Task
    PROVE  /\ Busy(t) <=> call[w] # Idle /\ call[w].task = t
           /\ Busy(t)' <=> (call'[w] # Idle /\ call'[w].task = t)
<1> QED
  BY DEF OneCaller, Busy

LEMMA StateInvStep ==
    ASSUME OneCaller, StateInv, [RuntimeNext]_vars
    PROVE  StateInv' /\ [Lifecycle!Next]_saved
<1>0. TypeOK /\ TypeOK' /\ TypeInv'
  BY TypeInvStep DEF StateInv, TypeInv
<1> DEFINE Goal == StateIsDurable' /\ CallInv' /\ [Lifecycle!Next]_saved
<1>a. SUFFICES Goal
  BY <1>0 DEF StateInv
<1>b. StateIsDurable /\ CallInv
  BY DEF StateInv
<1>1. ASSUME NEW w \in Thread, NEW t \in Task, InitializeUnknown(w, t) PROVE Goal
  <2>1. repoUp /\ saved[t] = None /\ states[t] = None /\ UNCHANGED <<saved, repoUp>>
    BY <1>1 DEF InitializeUnknown, Initialize, CanRead, Known
  <2>2. call'[w] = [step |-> "saveInitial", task |-> t] /\ call[w] = Idle
    BY <1>0, <1>1 DEF TypeOK, InitializeUnknown, Initialize
  <2>3. states'[t] = "pending" /\ \A u \in Task \ {t} : states'[u] = states[u]
    BY <1>0, <1>1 DEF TypeOK, InitializeUnknown, Initialize
  <2>4. call'[w] # Idle /\ call'[w].task = t /\ call'[w].step = "saveInitial"
    BY <2>2 DEF Idle
  <2>5. CallInv'
    BY <2>1, <2>3, <2>4 DEF CallInv, OneCaller
  <2>6. StateIsDurable'
    <3> SUFFICES ASSUME NEW u \in Task, repoUp', ~Busy(u)' PROVE states'[u] \in {None, saved'[u]}
      BY DEF StateIsDurable
    <3>1. u # t /\ ~Busy(u)
      BY <2>2, <2>4, BusyTask
    <3> QED
      BY <1>b, <2>1, <2>3, <3>1 DEF StateIsDurable
  <2> QED
    BY <2>1, <2>5, <2>6
<1>2. ASSUME NEW w \in Thread, NEW t \in Task, NEW new \in TaskState, Check(w, t, new)
      PROVE  Goal
  <2> DEFINE tr == [from |-> Known(t), to |-> new, timestamp |-> clock]
  <2>1. CanTransition(Known(t), new) /\ Known(t) # None /\ UNCHANGED <<saved, repoUp>>
    BY <1>2 DEF Check
  <2>2. call'[w] = [step |-> "apply", task |-> t, transition |-> tr] /\ call[w] = Idle
    BY <1>0, <1>2 DEF TypeOK, Check
  <2>3. \A u \in Task \ {t} : states'[u] = states[u]
    BY <1>0, <1>2 DEF TypeOK, Check, Hydrated
  <2>4. /\ call'[w] # Idle
        /\ call'[w].task = t
        /\ call'[w].step = "apply"
        /\ call'[w].transition.from = Known(t)
        /\ call'[w].transition.to = new
    BY <2>2 DEF Idle
  <2>5. repoUp => saved[t] = Known(t)
    <3>1. ~Busy(t)
      BY <2>2, BusyTask
    <3> QED
      BY <1>b, <2>1, <3>1 DEF StateIsDurable, Known
  <2>6. CallInv'
    BY <2>1, <2>4, <2>5 DEF CallInv, OneCaller
  <2>7. StateIsDurable'
    <3> SUFFICES ASSUME NEW u \in Task, repoUp', ~Busy(u)' PROVE states'[u] \in {None, saved'[u]}
      BY DEF StateIsDurable
    <3>1. u # t /\ ~Busy(u)
      BY <2>2, <2>4, BusyTask
    <3> QED
      BY <1>b, <2>1, <2>3, <3>1 DEF StateIsDurable
  <2> QED
    BY <2>1, <2>6, <2>7
<1>3. ASSUME NEW w \in Thread, Apply(w) PROVE Goal
  <2> DEFINE t == call[w].task  tr == call[w].transition
  <2>1. call[w].step = "apply" /\ t \in Task /\ UNCHANGED <<saved, repoUp>>
    BY <1>0, <1>3, CallShape DEF Apply
  <2>2. call'[w].step = "saveState" /\ call'[w].task = t /\ call'[w].transition = tr
    BY <1>0, <1>3, <2>1, CallShape DEF TypeOK, Apply
  <2>3. states'[t] = tr.to /\ \A u \in Task \ {t} : states'[u] = states[u]
    BY <1>0, <1>3, <2>1 DEF TypeOK, Apply
  <2>4. call[w] # Idle /\ call'[w] # Idle
    BY <2>1, <2>2 DEF Idle
  <2>5. CallInv'
    BY <1>b, <2>1, <2>2, <2>3 DEF CallInv, OneCaller
  <2>6. StateIsDurable'
    <3> SUFFICES ASSUME NEW u \in Task, repoUp', ~Busy(u)' PROVE states'[u] \in {None, saved'[u]}
      BY DEF StateIsDurable
    <3>1. u # t /\ ~Busy(u)
      BY <2>1, <2>2, <2>4, BusyTask
    <3> QED
      BY <1>b, <2>1, <2>3, <3>1 DEF StateIsDurable
  <2> QED
    BY <2>1, <2>5, <2>6
<1>4. ASSUME NEW w \in Thread, SaveInitial(w) PROVE Goal
  <2> DEFINE t == call[w].task
  <2>1. /\ call[w].step = "saveInitial" /\ t \in Task
        /\ repoUp /\ UNCHANGED <<states, repoUp>>
    BY <1>0, <1>4, CallShape DEF SaveInitial
  <2>2. saved[t] = None /\ states[t] = "pending"
    BY <1>b, <2>1 DEF CallInv
  <2>3. saved' = [saved EXCEPT ![t] = "pending"] /\ call'[w] = Idle /\ call[w] # Idle
    BY <1>0, <1>4, <2>1 DEF TypeOK, SaveInitial, Idle
  <2>4. Lifecycle!Create(t)
    BY <2>2, <2>3 DEF Lifecycle!Create
  <2>5. CallInv'
    BY <2>3 DEF CallInv, OneCaller, Idle
  <2>6. StateIsDurable'
    <3> SUFFICES ASSUME NEW u \in Task, repoUp' PROVE states'[u] \in {None, saved'[u]}
      BY DEF StateIsDurable
    <3>1. CASE u = t
      BY <1>0, <2>1, <2>2, <2>3, <3>1 DEF TypeOK
    <3>2. CASE u # t
      <4>1. ~Busy(u)
        BY <3>2, BusyTask
      <4> QED
        BY <1>0, <1>b, <2>1, <2>3, <3>2, <4>1 DEF StateIsDurable, TypeOK
    <3> QED
      BY <3>1, <3>2
  <2> QED
    BY <2>1, <2>4, <2>5, <2>6 DEF Lifecycle!Next
<1>5. ASSUME NEW w \in Thread, SaveState(w) PROVE Goal
  <2> DEFINE t == call[w].task  tr == call[w].transition
  <2>1. /\ call[w].step = "saveState" /\ t \in Task /\ tr \in Transition
        /\ repoUp /\ UNCHANGED <<states, repoUp>>
    BY <1>0, <1>5, CallShape DEF SaveState
  <2>2. saved[t] = tr.from /\ CanTransition(tr.from, tr.to) /\ states[t] = tr.to
    BY <1>b, <2>1 DEF CallInv
  <2>3. saved' = [saved EXCEPT ![t] = tr.to]
    BY <1>5 DEF SaveState
  <2>4. call'[w].step = "saveTransition" /\ call'[w].task = t /\ call'[w].transition = tr
    BY <1>0, <1>5, <2>1, CallShape DEF TypeOK, SaveState
  <2>5. saved'[t] = tr.to /\ \A u \in Task \ {t} : saved'[u] = saved[u]
    BY <1>0, <2>1, <2>3 DEF TypeOK
  <2>6. call[w] # Idle /\ call'[w] # Idle
    BY <2>1, <2>4 DEF Idle
  <2>7. Lifecycle!Move(t, tr.to)
    BY <2>1, <2>2, <2>3, NoneAssumption DEF Lifecycle!Move, Transition, CanTransition,
       EmergencyTransition, VALID_TRANSITIONS, Lifecycle!CanTransition,
       Lifecycle!EmergencyTransition, Lifecycle!VALID_TRANSITIONS, Lifecycle!TaskState,
       Lifecycle!Terminal, TaskState, Terminal
  <2>8. CallInv'
    BY <2>1, <2>2, <2>4, <2>5 DEF CallInv, OneCaller
  <2>9. StateIsDurable'
    <3> SUFFICES ASSUME NEW u \in Task, repoUp', ~Busy(u)' PROVE states'[u] \in {None, saved'[u]}
      BY DEF StateIsDurable
    <3>1. u # t /\ ~Busy(u)
      BY <2>1, <2>4, <2>6, BusyTask
    <3> QED
      BY <1>b, <2>1, <2>5, <3>1 DEF StateIsDurable
  <2>10. tr.to \in Lifecycle!TaskState
    BY <2>1 DEF Transition, TaskState, Lifecycle!TaskState
  <2> QED
    BY <2>1, <2>7, <2>8, <2>9, <2>10 DEF Lifecycle!Next
<1>6. ASSUME NEW w \in Thread, SaveTransition(w) PROVE Goal
  <2> DEFINE t == call[w].task
  <2>1. /\ call[w].step = "saveTransition" /\ t \in Task /\ call[w] # Idle
        /\ repoUp /\ UNCHANGED <<states, saved, repoUp>>
    BY <1>0, <1>6, CallShape DEF SaveTransition, Idle
  <2>2. states[t] = saved[t]
    BY <1>b, <2>1 DEF CallInv
  <2>3. call'[w] = Idle
    BY <1>0, <1>6 DEF TypeOK, SaveTransition
  <2>4. CallInv'
    BY <2>3 DEF CallInv, OneCaller, Idle
  <2>5. StateIsDurable'
    <3> SUFFICES ASSUME NEW u \in Task, repoUp' PROVE states'[u] \in {None, saved'[u]}
      BY DEF StateIsDurable
    <3>1. CASE u = t
      BY <2>1, <2>2, <3>1
    <3>2. CASE u # t
      <4>1. ~Busy(u)
        BY <3>2, BusyTask
      <4> QED
        BY <1>b, <2>1, <4>1 DEF StateIsDurable
    <3> QED
      BY <3>1, <3>2
  <2> QED
    BY <2>1, <2>4, <2>5
<1>7. ASSUME repoUp' = FALSE, UNCHANGED saved PROVE Goal
  BY <1>7 DEF StateIsDurable, CallInv
<1>8. ASSUME NEW w \in Thread, NEW t \in Task, GetState(w, t) PROVE Goal
  <2>1. states' = Hydrated(t) /\ UNCHANGED <<saved, repoUp, call>> /\ call[w] = Idle
    BY <1>8 DEF GetState
  <2>2. CallInv'
    BY <2>1 DEF CallInv, OneCaller, Idle
  <2>3. StateIsDurable'
    <3> SUFFICES ASSUME NEW u \in Task, repoUp' PROVE states'[u] \in {None, saved'[u]}
      BY DEF StateIsDurable
    <3>1. ~Busy(u)
      BY <2>1, BusyTask
    <3> QED
      BY <1>0, <1>b, <2>1, <3>1 DEF StateIsDurable, TypeOK, Hydrated, Known
  <2> QED
    BY <2>1, <2>2, <2>3
<1>9. CASE UNCHANGED <<states, saved, repoUp, call>>
  BY <1>9, <1>b DEF StateIsDurable, CallInv, Busy
<1>10. CASE Crash
  <2>1. \A w \in Thread : call'[w] = Idle
    BY <1>10 DEF Crash
  <2>2. \A t \in Task : states'[t] = None
    BY <1>10 DEF Crash
  <2> QED
    BY <1>10, <2>1, <2>2 DEF Crash, StateIsDurable, CallInv, Idle
<1> QED
  <2>1. ASSUME NEW w \in Thread, SaveFails(w) PROVE Goal
    BY <1>7, <2>1 DEF SaveFails
  <2>2. CASE ConnectionFails
    BY <1>7, <2>2 DEF ConnectionFails
  <2>3. ASSUME NEW w \in Thread, NEW t \in Task, GetHistory(w, t) PROVE Goal
    BY <1>9, <2>3 DEF GetHistory
  <2>4. CASE UNCHANGED vars
    BY <1>9, <2>4 DEF vars
  <2> QED
    BY <1>1, <1>2, <1>3, <1>4, <1>5, <1>6, <1>8, <1>10, <2>1, <2>2, <2>3, <2>4
    DEF RuntimeNext, Common, Step

LEMMA StateInvInit == Init => StateInv
<1> QED
  BY TypeInit DEF Init, StateInv, TypeInv, HistoryKnown, StateIsDurable, CallInv, Idle

(* Between two calls nothing is remembered of a task's state that is not   *)
(* saved, whatever crashes, errors and lazy loads came before.             *)
THEOREM StatesAreDurable ==
    ASSUME OneCaller
    PROVE  RuntimeSpec => []StateIsDurable
<1>1. StateInv /\ [RuntimeNext]_vars => StateInv'
  BY StateInvStep
<1>2. StateInv => StateIsDurable
  BY DEF StateInv
<1> QED
  BY <1>1, <1>2, StateInvInit, PTL DEF RuntimeSpec

(* What the repository holds is the life cycle TaskLifecycle promises. *)
THEOREM SavedStatesAreALifecycle ==
    ASSUME OneCaller
    PROVE  RuntimeSpec => ImplementsLifecycle
<1>1. Init => Lifecycle!Init
  BY DEF Init, Lifecycle!Init
<1>2. StateInv /\ [RuntimeNext]_vars => StateInv' /\ [Lifecycle!Next]_saved
  BY StateInvStep
<1> QED
  BY <1>1, <1>2, StateInvInit, PTL DEF RuntimeSpec, ImplementsLifecycle, Lifecycle!Spec

----------------------------------------------------------------------------

(* The rows of a task, and what the saved state has to do with them. *)
PastInv == \A t \in Task : LET rows == savedHistory[t] IN
    /\ saved[t] = None => rows = <<>>
    /\ \A i \in 1 .. Len(rows) :
          /\ CanTransition(rows[i].from, rows[i].to)
          /\ rows[i].timestamp < clock
          /\ rows[i].to \in Terminal => saved[t] = rows[i].to
    /\ \A i \in 1 .. Len(rows) - 1 :
          /\ rows[i].to \notin Terminal
          /\ rows[i].timestamp < rows[i + 1].timestamp

(* What a call in progress knows of the rows while the connection works:    *)
(* its own transition is younger than all of them, and it is not out of a   *)
(* terminal state.                                                          *)
CallPast == repoUp => \A w \in Thread :
    LET t == call[w].task  tr == call[w].transition  rows == savedHistory[t] IN
    /\ call[w].step = "saveInitial" => rows = <<>> /\ history[t] = <<>>
    /\ call[w].step \in {"apply", "saveState", "saveTransition"} =>
          /\ CanTransition(tr.from, tr.to)
          /\ tr.timestamp < clock
          /\ \A i \in 1 .. Len(rows) : rows[i].timestamp < tr.timestamp /\ rows[i].to \notin Terminal
    /\ call[w].step = "apply" => history[t] = rows
    /\ call[w].step \in {"saveState", "saveTransition"} => history[t] = Append(rows, tr)

HistoryInv == PastInv /\ CallPast /\ HistoryIsDurable

LEMMA HistoryInvStep ==
    ASSUME OneCaller, StateInv, HistoryInv, [RuntimeNext]_vars
    PROVE  HistoryInv'
<1>0. TypeOK /\ TypeOK'
  BY TypeInvStep DEF StateInv, TypeInv
<1>a. StateIsDurable /\ CallInv
  BY DEF StateInv
<1>b. PastInv /\ CallPast /\ HistoryIsDurable
  BY DEF HistoryInv
<1>1. ASSUME NEW w \in Thread, NEW t \in Task, InitializeUnknown(w, t) PROVE HistoryInv'
  <2>1. /\ repoUp /\ saved[t] = None /\ states[t] = None
        /\ UNCHANGED <<saved, savedHistory, repoUp, clock>>
    BY <1>1 DEF InitializeUnknown, Initialize, CanRead, Known
  <2>2. call'[w] = [step |-> "saveInitial", task |-> t] /\ call[w] = Idle
    BY <1>0, <1>1 DEF TypeOK, InitializeUnknown, Initialize
  <2>3. history'[t] = <<>> /\ \A u \in Task \ {t} : history'[u] = history[u]
    BY <1>0, <1>1 DEF TypeOK, InitializeUnknown, Initialize
  <2>4. call'[w] # Idle /\ call'[w].task = t /\ call'[w].step = "saveInitial"
    BY <2>2 DEF Idle
  <2>5. PastInv'
    BY <1>b, <2>1 DEF PastInv
  <2>6. CallPast'
    BY <1>b, <2>1, <2>3, <2>4 DEF PastInv, CallPast, OneCaller
  <2>7. HistoryIsDurable'
    <3> SUFFICES ASSUME NEW u \in Task, repoUp', ~Busy(u)'
                 PROVE  history'[u] \in {None, savedHistory'[u]}
      BY DEF HistoryIsDurable
    <3>1. u # t /\ ~Busy(u)
      BY <2>2, <2>4, BusyTask
    <3> QED
      BY <1>b, <2>1, <2>3, <3>1 DEF HistoryIsDurable
  <2> QED
    BY <2>5, <2>6, <2>7 DEF HistoryInv
<1>2. ASSUME NEW w \in Thread, NEW t \in Task, NEW new \in TaskState, Check(w, t, new)
      PROVE  HistoryInv'
  <2> DEFINE tr == [from |-> Known(t), to |-> new, timestamp |-> clock]
  <2>1. /\ CanTransition(Known(t), new) /\ Known(t) # None
        /\ clock' = clock + 1 /\ clock \in Nat
        /\ UNCHANGED <<saved, savedHistory, repoUp>>
    BY <1>0, <1>2 DEF Check, TypeOK
  <2>2. call'[w] = [step |-> "apply", task |-> t, transition |-> tr] /\ call[w] = Idle
    BY <1>0, <1>2 DEF TypeOK, Check
  <2>3. \A u \in Task \ {t} : history'[u] = history[u]
    BY <1>0, <1>2 DEF TypeOK, Check, HydratedHistory
  <2>4. /\ call'[w] # Idle
        /\ call'[w].task = t
        /\ call'[w].step = "apply"
        /\ call'[w].transition = tr
    BY <2>2 DEF Idle
  <2>5. ~Busy(t)
    BY <2>2, BusyTask
  <2>6. repoUp => saved[t] = Known(t) /\ Known(t) \in TaskState
    BY <1>0, <1>a, <2>1, <2>5 DEF StateIsDurable, Known, TypeOK
  <2>7. repoUp => history'[t] = savedHistory[t]
    BY <1>0, <1>2, <1>b, <2>5 DEF HistoryIsDurable, Check, HydratedHistory, TypeOK
  <2>8. repoUp => Known(t) \notin Terminal
    BY <2>1, <2>6, <1>2, TransitionFacts
  <2>9. ASSUME NEW u \in Task, NEW i \in 1 .. Len(savedHistory[u])
        PROVE  savedHistory[u][i].timestamp \in Nat
    <3>1. savedHistory[u] \in Seq(Transition)
      BY <1>0 DEF TypeOK
    <3>2. savedHistory[u][i] \in Transition
      BY <3>1, ElementOfSeq
    <3> QED
      BY <3>2 DEF Transition
  <2>10. PastInv'
    <3>1. \A u \in Task : \A i \in 1 .. Len(savedHistory[u]) :
              savedHistory[u][i].timestamp < clock + 1
      BY <1>b, <2>1, <2>9 DEF PastInv
    <3> QED
      BY <1>b, <2>1, <3>1 DEF PastInv
  <2>11. CallPast'
    <3> SUFFICES ASSUME repoUp
                 PROVE  /\ CanTransition(tr.from, tr.to)
                        /\ tr.timestamp < clock'
                        /\ \A i \in 1 .. Len(savedHistory[t]) :
                              /\ savedHistory[t][i].timestamp < tr.timestamp
                              /\ savedHistory[t][i].to \notin Terminal
                        /\ history'[t] = savedHistory[t]
      BY <2>1, <2>4 DEF CallPast, OneCaller
    <3>1. \A i \in 1 .. Len(savedHistory[t]) :
              /\ savedHistory[t][i].timestamp < clock
              /\ savedHistory[t][i].to \notin Terminal
      BY <1>b, <2>6, <2>8 DEF PastInv
    <3> QED
      BY <2>1, <2>7, <3>1
  <2>12. HistoryIsDurable'
    <3> SUFFICES ASSUME NEW u \in Task, repoUp', ~Busy(u)'
                 PROVE  history'[u] \in {None, savedHistory'[u]}
      BY DEF HistoryIsDurable
    <3>1. u # t /\ ~Busy(u)
      BY <2>2, <2>4, BusyTask
    <3> QED
      BY <1>b, <2>1, <2>3, <3>1 DEF HistoryIsDurable
  <2> QED
    BY <2>10, <2>11, <2>12 DEF HistoryInv
<1>3. ASSUME NEW w \in Thread, Apply(w) PROVE HistoryInv'
  <2> DEFINE t == call[w].task  tr == call[w].transition
  <2>1. /\ call[w].step = "apply" /\ t \in Task
        /\ UNCHANGED <<saved, savedHistory, repoUp, clock>>
    BY <1>0, <1>3, CallShape DEF Apply
  <2>2. call'[w].step = "saveState" /\ call'[w].task = t /\ call'[w].transition = tr
    BY <1>0, <1>3, <2>1, CallShape DEF TypeOK, Apply
  <2>3. history'[t] = Append(history[t], tr) /\ \A u \in Task \ {t} : history'[u] = history[u]
    BY <1>0, <1>3, <2>1 DEF TypeOK, Apply
  <2>4. call[w] # Idle /\ call'[w] # Idle
    BY <2>1, <2>2 DEF Idle
  <2>5. PastInv'
    BY <1>b, <2>1 DEF PastInv
  <2>6. CallPast'
    <3> SUFFICES ASSUME repoUp
                 PROVE  /\ CanTransition(tr.from, tr.to)
                        /\ tr.timestamp < clock
                        /\ \A i \in 1 .. Len(savedHistory[t]) :
                              /\ savedHistory[t][i].timestamp < tr.timestamp
                              /\ savedHistory[t][i].to \notin Terminal
                        /\ history[t] = savedHistory[t]
      BY <2>1, <2>2, <2>3 DEF CallPast, OneCaller
    <3> QED
      BY <1>b, <2>1 DEF CallPast
  <2>7. HistoryIsDurable'
    <3> SUFFICES ASSUME NEW u \in Task, repoUp', ~Busy(u)'
                 PROVE  history'[u] \in {None, savedHistory'[u]}
      BY DEF HistoryIsDurable
    <3>1. u # t /\ ~Busy(u)
      BY <2>1, <2>2, <2>4, BusyTask
    <3> QED
      BY <1>b, <2>1, <2>3, <3>1 DEF HistoryIsDurable
  <2> QED
    BY <2>5, <2>6, <2>7 DEF HistoryInv
<1>4. ASSUME NEW w \in Thread, SaveInitial(w) PROVE HistoryInv'
  <2> DEFINE t == call[w].task
  <2>1. /\ call[w].step = "saveInitial" /\ t \in Task
        /\ repoUp /\ UNCHANGED <<history, savedHistory, repoUp, clock>>
    BY <1>0, <1>4, CallShape DEF SaveInitial
  <2>2. savedHistory[t] = <<>> /\ history[t] = <<>>
    BY <1>b, <2>1 DEF CallPast
  <2>3. call'[w] = Idle /\ \A u \in Task \ {t} : saved'[u] = saved[u]
    BY <1>0, <1>4, <2>1 DEF TypeOK, SaveInitial
  <2>4. PastInv'
    BY <1>b, <2>1, <2>2, <2>3 DEF PastInv
  <2>5. CallPast'
    BY <2>3 DEF CallPast, OneCaller, Idle
  <2>6. HistoryIsDurable'
    <3> SUFFICES ASSUME NEW u \in Task, u # t PROVE history[u] \in {None, savedHistory[u]}
      BY <2>1, <2>2 DEF HistoryIsDurable
    <3>1. ~Busy(u)
      BY BusyTask
    <3> QED
      BY <1>b, <2>1, <3>1 DEF HistoryIsDurable
  <2> QED
    BY <2>4, <2>5, <2>6 DEF HistoryInv
<1>5. ASSUME NEW w \in Thread, SaveState(w) PROVE HistoryInv'
  <2> DEFINE t == call[w].task  tr == call[w].transition
  <2>1. /\ call[w].step = "saveState" /\ t \in Task /\ tr \in Transition
        /\ repoUp /\ UNCHANGED <<history, savedHistory, repoUp, clock>>
    BY <1>0, <1>5, CallShape DEF SaveState
  <2>2. call'[w].step = "saveTransition" /\ call'[w].task = t /\ call'[w].transition = tr
    BY <1>0, <1>5, <2>1, CallShape DEF TypeOK, SaveState
  <2>3. saved'[t] = tr.to /\ tr.to # None /\ \A u \in Task \ {t} : saved'[u] = saved[u]
    BY <1>0, <1>5, <2>1, NoneAssumption DEF TypeOK, SaveState, Transition
  <2>4. \A i \in 1 .. Len(savedHistory[t]) : savedHistory[t][i].to \notin Terminal
    BY <1>b, <2>1 DEF CallPast
  <2>5. call[w] # Idle /\ call'[w] # Idle
    BY <2>1, <2>2 DEF Idle
  <2>6. PastInv'
    BY <1>b, <2>1, <2>3, <2>4 DEF PastInv
  <2>7. CallPast'
    BY <1>b, <2>1, <2>2 DEF CallPast, OneCaller
  <2>8. HistoryIsDurable'
    <3> SUFFICES ASSUME NEW u \in Task, ~Busy(u)' PROVE history[u] \in {None, savedHistory[u]}
      BY <2>1 DEF HistoryIsDurable
    <3>1. ~Busy(u)
      BY <2>2, <2>5, BusyTask
    <3> QED
      BY <1>b, <2>1, <3>1 DEF HistoryIsDurable
  <2> QED
    BY <2>6, <2>7, <2>8 DEF HistoryInv
<1>6. ASSUME NEW w \in Thread, SaveTransition(w) PROVE HistoryInv'
  <2> DEFINE t == call[w].task  tr == call[w].transition  rows == savedHistory[t]
  <2>1. /\ call[w].step = "saveTransition" /\ t \in Task /\ tr \in Transition
        /\ rows \in Seq(Transition)
        /\ repoUp /\ UNCHANGED <<history, saved, repoUp, clock>>
    BY <1>0, <1>6, CallShape DEF SaveTransition, TypeOK
  <2>2. /\ CanTransition(tr.from, tr.to) /\ tr.timestamp < clock
        /\ \A i \in 1 .. Len(rows) : rows[i].timestamp < tr.timestamp /\ rows[i].to \notin Terminal
        /\ history[t] = Append(rows, tr)
    BY <1>b, <2>1 DEF CallPast
  <2>3. PICK p \in 0 .. Len(rows) :
           /\ RowBelongsAt(rows, tr, p)
           /\ savedHistory' = [savedHistory EXCEPT ![t] =
                  SubSeq(rows, 1, p) \o <<tr>> \o SubSeq(rows, p + 1, Len(rows))]
    BY <1>6 DEF SaveTransition
  <2>4. savedHistory' = [savedHistory EXCEPT ![t] = Append(rows, tr)]
    BY <2>1, <2>2, <2>3, YoungestRow
  <2>5. /\ savedHistory'[t] = Append(rows, tr)
        /\ \A u \in Task \ {t} : savedHistory'[u] = savedHistory[u]
    BY <1>0, <2>1, <2>4 DEF TypeOK
  <2>6. call'[w] = Idle
    BY <1>0, <1>6 DEF TypeOK, SaveTransition
  <2>7. saved[t] = tr.to /\ tr.to # None
    BY <1>a, <2>1, NoneAssumption DEF CallInv, Transition
  <2>8. PastInv'
    <3> DEFINE new == Append(rows, tr)
    <3>1. /\ Len(new) = Len(rows) + 1 /\ Len(rows) \in Nat
          /\ \A i \in 1 .. Len(rows) : new[i] = rows[i]
          /\ new[Len(rows) + 1] = tr
      BY <2>1
    <3>2. \A i \in 1 .. Len(rows) :
             /\ CanTransition(rows[i].from, rows[i].to)
             /\ rows[i].timestamp < clock
             /\ rows[i].to \in Terminal => saved[t] = rows[i].to
      BY <1>b, <2>1 DEF PastInv
    <3>3. \A i \in 1 .. Len(rows) - 1 : rows[i].timestamp < rows[i + 1].timestamp
      BY <1>b, <2>1 DEF PastInv
    <3> HIDE DEF new, rows, tr
    <3>4. \A i \in 1 .. Len(new) :
              /\ CanTransition(new[i].from, new[i].to)
              /\ new[i].timestamp < clock
              /\ new[i].to \in Terminal => saved[t] = new[i].to
      BY <2>2, <2>7, <3>1, <3>2
    <3>5. \A i \in 1 .. Len(new) - 1 :
              /\ new[i].to \notin Terminal
              /\ new[i].timestamp < new[i + 1].timestamp
      BY <2>2, <3>1, <3>3
    <3>6. savedHistory'[t] = new /\ saved'[t] # None /\ t \in Task
      BY <2>1, <2>5, <2>7 DEF new, rows, tr
    <3>7. ASSUME NEW u \in Task PROVE PastInv!(u)'
      <4>1. CASE u = t
        BY <2>1, <3>4, <3>5, <3>6, <4>1
      <4>2. CASE u # t
        BY <1>b, <2>1, <2>5, <4>2 DEF PastInv
      <4> QED
        BY <4>1, <4>2
    <3> QED
      BY <3>7 DEF PastInv
  <2>9. CallPast'
    BY <2>6 DEF CallPast, OneCaller, Idle
  <2>10. HistoryIsDurable'
    <3>1. history'[t] = savedHistory'[t]
      BY <2>1, <2>2, <2>5
    <3>2. ASSUME NEW u \in Task, u # t PROVE history[u] \in {None, savedHistory[u]}
      <4>1. ~Busy(u)
        BY <3>2, BusyTask
      <4> QED
        BY <1>b, <2>1, <4>1 DEF HistoryIsDurable
    <3> QED
      BY <2>1, <2>5, <3>1, <3>2 DEF HistoryIsDurable
  <2> QED
    BY <2>8, <2>9, <2>10 DEF HistoryInv
<1>7. ASSUME repoUp' = FALSE, UNCHANGED <<saved, savedHistory, clock>> PROVE HistoryInv'
  BY <1>7, <1>b DEF HistoryInv, PastInv, CallPast, HistoryIsDurable
<1>8. ASSUME NEW w \in Thread, NEW t \in Task, GetHistory(w, t) PROVE HistoryInv'
  <2>1. /\ call[w] = Idle /\ history' = HydratedHistory(t)
        /\ history[t] \in {<<>>, None}
        /\ UNCHANGED <<saved, savedHistory, repoUp, call, clock>>
    BY <1>8 DEF GetHistory
  <2>2. PastInv' /\ CallPast'
    BY <1>b, <2>1 DEF PastInv, CallPast, OneCaller, Idle
  <2>3. HistoryIsDurable'
    <3> SUFFICES ASSUME NEW u \in Task, repoUp' PROVE history'[u] \in {None, savedHistory'[u]}
      BY DEF HistoryIsDurable
    <3>1. ~Busy(u)
      BY <2>1, BusyTask
    <3> QED
      BY <1>0, <1>b, <2>1, <3>1 DEF HistoryIsDurable, TypeOK, HydratedHistory
  <2> QED
    BY <2>2, <2>3 DEF HistoryInv
<1>9. CASE UNCHANGED <<history, saved, savedHistory, repoUp, call, clock>>
  BY <1>9, <1>b DEF HistoryInv, PastInv, CallPast, HistoryIsDurable, Busy
<1>10. CASE Crash
  <2>1. \A w \in Thread : call'[w] = Idle
    BY <1>10 DEF Crash
  <2>2. \A t \in Task : history'[t] = None
    BY <1>10 DEF Crash
  <2>3. PastInv'
    BY <1>10, <1>b DEF Crash, PastInv
  <2> QED
    BY <2>1, <2>2, <2>3 DEF HistoryInv, HistoryIsDurable, CallPast, Idle
<1> QED
  <2>1. ASSUME NEW w \in Thread, SaveFails(w) PROVE HistoryInv'
    BY <1>7, <2>1 DEF SaveFails
  <2>2. CASE ConnectionFails
    BY <1>7, <2>2 DEF ConnectionFails
  <2>3. ASSUME NEW w \in Thread, NEW t \in Task, GetState(w, t) PROVE HistoryInv'
    BY <1>9, <2>3 DEF GetState
  <2>4. CASE UNCHANGED vars
    BY <1>9, <2>4 DEF vars
  <2> QED
    BY <1>1, <1>2, <1>3, <1>4, <1>5, <1>6, <1>8, <1>10, <2>1, <2>2, <2>3, <2>4
    DEF RuntimeNext, Common, Step

LEMMA HistoryInvHolds ==
    ASSUME OneCaller
    PROVE  RuntimeSpec => []HistoryInv
<1>1. Init => HistoryInv
  BY DEF Init, HistoryInv, PastInv, CallPast, HistoryIsDurable, Idle
<1>2. StateInv /\ HistoryInv /\ [RuntimeNext]_vars => StateInv' /\ HistoryInv'
  BY StateInvStep, HistoryInvStep
<1> QED
  BY <1>1, <1>2, StateInvInit, PTL DEF RuntimeSpec

(* Between two calls nothing is remembered of a task's history that is not *)
(* saved: one caller never reorders or repeats a row of the table.         *)
THEOREM HistoriesAreDurable ==
    ASSUME OneCaller
    PROVE  RuntimeSpec => []HistoryIsDurable
<1>1. HistoryInv => HistoryIsDurable
  BY DEF HistoryInv
<1> QED
  BY <1>1, HistoryInvHolds, PTL

(* What the repository holds of a task's past could have happened: every   *)
(* entry is a legal transition, only the last leads into a terminal state, *)
(* and none is dated before its predecessor.                               *)
THEOREM HistoriesArePossible ==
    ASSUME OneCaller
    PROVE  RuntimeSpec => []HistoryIsPossible
<1>1. HistoryInv => HistoryIsPossible
  BY DEF HistoryInv, PastInv, HistoryIsPossible
<1> QED
  BY <1>1, HistoryInvHolds, PTL
=============================================================================
