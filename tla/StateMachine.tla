---------------------------- MODULE StateMachine ----------------------------
(***************************************************************************)
(* agentManager/engine/state_manager.py over the PostgreSQL repository of  *)
(* agentManager/storage/postgres.py.                                       *)
(*                                                                         *)
(* A call of transition is several steps, because it takes no lock and     *)
(* writes through to the repository: the state is read and the transition  *)
(* checked (Check), the dictionaries are updated (Apply), the state is     *)
(* saved (SaveState) and then the transition record (SaveTransition), each *)
(* in a database transaction of its own.  The caller is a thread: the HTTP *)
(* handlers run in a thread pool, the coordinator on its event loop.       *)
(*                                                                         *)
(* A repository call can fail.  The connection is never rolled back, so    *)
(* every later call fails too, until the process restarts (Crash also      *)
(* stands for a restart that was asked for).  The audit record that ends a *)
(* call is left out: nothing of the state machine reads it.                *)
(***************************************************************************)
EXTENDS TaskStates, Integers, Sequences

CONSTANTS
    Task,
    Thread,
    MaxTransitions  \* bound: transitions checked in a behaviour

ASSUME StateMachineAssumption == MaxTransitions \in Nat

VARIABLES
    states,      \* self.states, None when the task is not a key
    history,     \* self.history, None when the task is not a key
    saved,       \* the table task_state
    savedHistory,\* the table task_state_transition in load_transitions' order
    repoUp,      \* the connection works
    call,        \* call[w]: the call thread w is in, and its next step
    clock        \* timestamps given to transitions

vars == <<states, history, saved, savedHistory, repoUp, call, clock>>

Transition == [from : TaskState, to : TaskState, timestamp : Nat]

Idle == [step |-> "idle"]

Call == [step : {"apply", "saveState", "saveTransition"}, task : Task, transition : Transition]
        \union [step : {"saveInitial"}, task : Task]
        \union {Idle}

TypeOK ==
    /\ states \in [Task -> TaskState \union {None}]
    /\ history \in [Task -> Seq(Transition) \union {None}]
    /\ saved \in [Task -> TaskState \union {None}]
    /\ savedHistory \in [Task -> Seq(Transition)]
    /\ repoUp \in BOOLEAN
    /\ call \in [Thread -> Call]
    /\ clock \in Nat

Init ==
    /\ states = [t \in Task |-> None]
    /\ history = [t \in Task |-> None]
    /\ saved = [t \in Task |-> None]
    /\ savedHistory = [t \in Task |-> <<>>]
    /\ repoUp = TRUE
    /\ call = [w \in Thread |-> Idle]
    /\ clock = 0

----------------------------------------------------------------------------

(* get_state: the dictionary first, then the repository. *)
Known(t) == IF states[t] # None THEN states[t] ELSE saved[t]

CanRead(t) == states[t] # None \/ repoUp

(* What a call of get_state leaves in the dictionary. *)
Hydrated(t) == [states EXCEPT ![t] = Known(t)]

(* get_history, and the history a transition starts from: the persisted    *)
(* one replaces an empty list.                                             *)
HydratedHistory(t) ==
    [history EXCEPT ![t] = IF @ = None \/ @ = <<>> THEN savedHistory[t] ELSE @]

GetState(w, t) ==
    /\ call[w] = Idle
    /\ CanRead(t)
    /\ states' = Hydrated(t)
    /\ UNCHANGED <<history, saved, savedHistory, repoUp, call, clock>>

GetHistory(w, t) ==
    /\ call[w] = Idle
    /\ repoUp
    /\ history[t] = <<>> \/ history[t] = None
    /\ savedHistory[t] # <<>>
    /\ history' = HydratedHistory(t)
    /\ UNCHANGED <<states, saved, savedHistory, repoUp, call, clock>>

(* initialize looks at the dictionary only. *)
Initialize(w, t) ==
    /\ call[w] = Idle
    /\ states[t] = None
    /\ states' = [states EXCEPT ![t] = "pending"]
    /\ history' = [history EXCEPT ![t] = <<>>]
    /\ call' = [call EXCEPT ![w] = [step |-> "saveInitial", task |-> t]]
    /\ UNCHANGED <<saved, savedHistory, repoUp, clock>>

(* Mutant: only the dictionary is asked whether the task is known. *)
InitializeUnknown_dictionaryOnly(w, t) == CanRead(t) /\ Initialize(w, t)

(* The coordinator and the executor initialize a task after get_state has  *)
(* returned None.                                                          *)
InitializeUnknown(w, t) ==
    /\ CanRead(t)
    /\ Known(t) = None
    /\ Initialize(w, t)

(* The repository's upsert of the initial state. *)
SaveInitial(w) ==
    /\ call[w].step = "saveInitial"
    /\ repoUp
    /\ saved' = [saved EXCEPT ![call[w].task] = "pending"]
    /\ call' = [call EXCEPT ![w] = Idle]
    /\ UNCHANGED <<states, history, savedHistory, repoUp, clock>>

Check(w, t, new) ==
    /\ call[w] = Idle
    /\ clock < MaxTransitions
    /\ CanRead(t)
    /\ history[t] # None \/ repoUp
    /\ Known(t) # None
    /\ CanTransition(Known(t), new)
    /\ states' = Hydrated(t)
    /\ history' = IF history[t] = None THEN HydratedHistory(t) ELSE history
    /\ call' = [call EXCEPT ![w] =
                  [step |-> "apply", task |-> t,
                   transition |-> [from |-> Known(t), to |-> new, timestamp |-> clock]]]
    /\ clock' = clock + 1
    /\ UNCHANGED <<saved, savedHistory, repoUp>>

Apply(w) ==
    /\ call[w].step = "apply"
    /\ LET t == call[w].task  tr == call[w].transition
       IN  /\ history' = [history EXCEPT ![t] = Append(@, tr)]
           /\ states' = [states EXCEPT ![t] = tr.to]
    /\ call' = [call EXCEPT ![w].step = "saveState"]
    /\ UNCHANGED <<saved, savedHistory, repoUp, clock>>

SaveState(w) ==
    /\ call[w].step = "saveState"
    /\ repoUp
    /\ saved' = [saved EXCEPT ![call[w].task] = call[w].transition.to]
    /\ call' = [call EXCEPT ![w].step = "saveTransition"]
    /\ UNCHANGED <<states, history, savedHistory, repoUp, clock>>

(* The rows of a task are read in the order of their timestamps: the new   *)
(* row comes after the first p.                                            *)
RowBelongsAt(rows, row, p) ==
    /\ \A i \in 1 .. p : rows[i].timestamp < row.timestamp
    /\ \A i \in p + 1 .. Len(rows) : rows[i].timestamp > row.timestamp

SaveTransition(w) ==
    /\ call[w].step = "saveTransition"
    /\ repoUp
    /\ LET t == call[w].task  row == call[w].transition  rows == savedHistory[t]
       IN  \E p \in 0 .. Len(rows) :
              /\ RowBelongsAt(rows, row, p)
              /\ savedHistory' = [savedHistory EXCEPT ![t] =
                     SubSeq(rows, 1, p) \o <<row>> \o SubSeq(rows, p + 1, Len(rows))]
    /\ call' = [call EXCEPT ![w] = Idle]
    /\ UNCHANGED <<states, history, saved, repoUp, clock>>

(* Mutant: the error is swallowed and the connection is rolled back. *)
SaveFails_swallowed(w) ==
    /\ call[w].step \in {"saveInitial", "saveState", "saveTransition"}
    /\ call' = [call EXCEPT ![w] = Idle]
    /\ UNCHANGED <<states, history, saved, savedHistory, repoUp, clock>>

(* A repository call raises: the rest of the transition is skipped, and    *)
(* the caller gets the exception.  What is in memory stays there.          *)
SaveFails(w) ==
    /\ call[w].step \in {"saveInitial", "saveState", "saveTransition"}
    /\ repoUp' = FALSE
    /\ call' = [call EXCEPT ![w] = Idle]
    /\ UNCHANGED <<states, history, saved, savedHistory, clock>>

(* A read or an audit record fails: nothing but the connection changes.    *)
ConnectionFails ==
    /\ repoUp
    /\ repoUp' = FALSE
    /\ UNCHANGED <<states, history, saved, savedHistory, call, clock>>

Crash ==
    /\ states' = [t \in Task |-> None]
    /\ history' = [t \in Task |-> None]
    /\ call' = [w \in Thread |-> Idle]
    /\ repoUp' = TRUE
    /\ UNCHANGED <<saved, savedHistory, clock>>

----------------------------------------------------------------------------

Step(w) == \/ \E t \in Task, new \in TaskState : Check(w, t, new)
           \/ Apply(w) \/ SaveInitial(w) \/ SaveState(w) \/ SaveTransition(w)
           \/ SaveFails(w)

Common == \/ \E w \in Thread : Step(w)
          \/ \E w \in Thread, t \in Task : GetState(w, t) \/ GetHistory(w, t)
          \/ ConnectionFails
          \/ Crash

(* The coordinator and the executor as callers. *)
RuntimeNext == Common \/ \E w \in Thread, t \in Task : InitializeUnknown(w, t)

RuntimeSpec == Init /\ [][RuntimeNext]_vars

----------------------------------------------------------------------------

Lifecycle == INSTANCE TaskLifecycle WITH state <- saved

(* What the repository holds is a task's life cycle, also when transitions *)
(* are cut short by errors and crashes: the states a failed write skipped  *)
(* are never followed by a write that depends on them.                     *)
ImplementsLifecycle == Lifecycle!Spec

Busy(t) == \E w \in Thread : call[w] # Idle /\ call[w].task = t

(* While the repository answers, no state is remembered that is not saved: *)
(* between two calls the dictionary agrees with the table, whatever crashes *)
(* and lazy loads came before.                                             *)
StateIsDurable ==
    repoUp => \A t \in Task : Busy(t) \/ states[t] \in {None, saved[t]}

(* The same of the histories.                                              *)
HistoryIsDurable ==
    repoUp => \A t \in Task : Busy(t) \/ history[t] \in {None, savedHistory[t]}

(* A persisted history is a possible past: every entry is legal, none      *)
(* follows a terminal one, and none is dated before its predecessor.       *)
HistoryIsPossible ==
    \A t \in Task : LET h == savedHistory[t] IN
        /\ \A i \in 1 .. Len(h) : CanTransition(h[i].from, h[i].to)
        /\ \A i \in 1 .. Len(h) - 1 : h[i].to \notin Terminal
        /\ \A i \in 1 .. Len(h) - 1 : h[i].timestamp < h[i + 1].timestamp
=============================================================================
