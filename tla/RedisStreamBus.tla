--------------------------- MODULE RedisStreamBus ---------------------------
(***************************************************************************)
(* agentManager/engine/event_bus/redis_stream.py: one process with the     *)
(* event bus, several consumer loops on its asyncio event loop, and the    *)
(* Redis server, which is modelled as the code uses it (XADD, XGROUP       *)
(* CREATE, XREADGROUP with ">", XACK, DEL of a stream with one group).     *)
(*                                                                         *)
(* A step ends where the code awaits: a reply of the server or a callback. *)
(* Any await can end with an exception, and the request may then have been *)
(* served or not; an await of a cancelled loop ends the loop.  Messages    *)
(* are numbered as they are added, and all of them can be deserialized:    *)
(* publish wrote them.  They are of one type and workflow, so that two     *)
(* lists of callbacks matter: the exact one and the wildcard one.          *)
(***************************************************************************)
EXTENDS Integers, SequencesExt

CONSTANTS
    Loop,           \* the tasks that start_consumer creates
    Name,           \* consumer names
    Callback,
    None,
    BatchSize,      \* count of XREADGROUP
    MaxRetries,     \* max_retries
    MaxMessages,    \* bound: messages added
    MaxSubscribers, \* bound: callbacks in the two lists
    MaxFaults       \* bound: requests that fail

ASSUME RedisStreamBusAssumption ==
    /\ BatchSize \in Nat \ {0}
    /\ MaxRetries \in Nat
    /\ MaxMessages \in Nat
    /\ None \notin Loop \union Seq(Callback)

VARIABLES
    \* the server
    published,    \* id of the last message added
    deleted,      \* id of the last message before the stream was deleted
    group,        \* the stream has the consumer group
    delivered,    \* id of the last message the group delivered
    pending,      \* delivered and not acknowledged
    acked,        \* acknowledged
    dlq,          \* the dead letter stream
    \* the process
    client,       \* redis_client is set
    subscribers,  \* the list of each key; one that is missing is empty
    tasks,        \* _consumer_tasks
    retryCounts,  \* _retry_counts
    loop,         \* the state of each consumer loop
    calls,        \* calls that wait for the answer to their first request
    \* history and bound
    handled,      \* the calls of _handle_stream_message
    given,        \* the messages that every callback due got
    failed,       \* the messages whose handling ended with an exception
    faults

server == <<published, deleted, group, delivered, pending, acked, dlq>>
history == <<handled, given, failed>>
busVars == <<server, client, subscribers, tasks, retryCounts, loop, calls, history, faults>>

Message == 1 .. MaxMessages
Key == {"exact", "wildcard"}

(* batch: the messages it still has to handle, the first one now; the key of   *)
(* the list it iterates over, the index of the callback it waits for, the list *)
(* if the dictionary has dropped it (or None), and what was subscribed when    *)
(* the message's turn came and is yet to get it.                               *)
Off == [step |-> "off", batch |-> <<>>, key |-> "exact", next |-> 0, list |-> None, due |-> {}]
Reading == [Off EXCEPT !.step = "reading"]

BusTypeOK ==
    /\ published \in 0 .. MaxMessages
    /\ deleted \in 0 .. published
    /\ group \in BOOLEAN
    /\ delivered \in 0 .. published
    /\ pending \subseteq 1 .. delivered
    /\ acked \subseteq Message \ pending
    /\ dlq \subseteq Message
    /\ client \in BOOLEAN
    /\ subscribers \in [Key -> Seq(Callback)]
    /\ tasks \in [Name -> Loop \union {None}]
    /\ retryCounts \in [Message -> 0 .. MaxRetries + 1]
    /\ loop \in [Loop -> [step : {"off", "reading", "read", "calling", "acking", "acked",
                                  "burying"},
                          batch : Seq(Message), key : Key, next : Nat,
                          list : {None} \union Seq(Callback), due : SUBSET (Key \X Callback)]]
    /\ calls \subseteq {"connect", "clear"}
    /\ handled \in Seq([loop : Loop, id : Message])
    /\ given \subseteq Message
    /\ failed \subseteq Message
    /\ faults \in Nat

BusInit ==
    /\ published = 0 /\ deleted = 0
    /\ group = FALSE /\ delivered = 0
    /\ pending = {} /\ acked = {} /\ dlq = {}
    /\ client = FALSE
    /\ subscribers = [k \in Key |-> <<>>]
    /\ tasks = [n \in Name |-> None]
    /\ retryCounts = [m \in Message |-> 0]
    /\ loop = [l \in Loop |-> Off]
    /\ calls = {}
    /\ handled = <<>>
    /\ given = {}
    /\ failed = {}
    /\ faults = 0

Fault == faults < MaxFaults /\ faults' = faults + 1

----------------------------------------------------------------------------
(* The process's own methods. *)

(* The client is set before the first request is sent.  connect cannot be  *)
(* told from a call of it that waits already.                              *)
Connect ==
    /\ "connect" \notin calls
    /\ client' = TRUE
    /\ calls' = calls \union {"connect"}
    /\ UNCHANGED <<server, subscribers, tasks, retryCounts, loop, history, faults>>

(* Mutant: connecting sets an existing group back to the start of the stream. *)
CreateGroup_rewinds ==
    /\ "connect" \in calls
    /\ calls' = calls \ {"connect"}
    /\ group' = TRUE
    /\ delivered' = 0
    /\ UNCHANGED <<published, deleted, pending, acked, dlq, client, subscribers, tasks,
                   retryCounts, loop, history, faults>>

(* A new group starts at the beginning of the stream, an existing one is   *)
(* left as it is (BUSYGROUP).                                              *)
CreateGroup ==
    /\ "connect" \in calls
    /\ calls' = calls \ {"connect"}
    /\ group' = TRUE
    /\ delivered' = IF group THEN delivered ELSE 0
    /\ UNCHANGED <<published, deleted, pending, acked, dlq, client, subscribers, tasks,
                   retryCounts, loop, history, faults>>

(* A request of connect or of clear raises.  Of clear's second request it   *)
(* may be only the answer that is lost.                                    *)
CallFails(c) ==
    /\ c \in calls
    /\ Fault
    /\ calls' = calls \ {c}
    /\ \/ UNCHANGED dlq
       \/ c = "clear" /\ dlq' = {}
    /\ UNCHANGED <<published, deleted, group, delivered, pending, acked, client, subscribers, tasks,
                   retryCounts, loop, history>>

(* The tasks the dictionary knows of are cancelled.  It is not emptied, and *)
(* the client stays set and connects again when it is used.                *)
Disconnect ==
    /\ client
    /\ loop' = [l \in Loop |-> IF \E n \in Name : tasks[n] = l THEN Off ELSE loop[l]]
    /\ UNCHANGED <<server, client, subscribers, tasks, retryCounts, calls, history, faults>>

Publish ==
    /\ client
    /\ published < MaxMessages
    /\ published' = published + 1
    /\ UNCHANGED <<deleted, group, delivered, pending, acked, dlq, client, subscribers, tasks,
                   retryCounts, loop, calls, history, faults>>

Subscribe(k, c) ==
    /\ Len(subscribers["exact"]) + Len(subscribers["wildcard"]) < MaxSubscribers
    /\ subscribers' = [subscribers EXCEPT ![k] = Append(@, c)]
    /\ UNCHANGED <<server, client, tasks, retryCounts, loop, calls, history, faults>>

(* Of the callbacks due, those a removal from the list of k takes away.  In *)
(* a list that is iterated over the ones behind the removed one move up,   *)
(* and one of them is skipped.                                             *)
Missed(me, k, c) ==
    IF me.list # None THEN {} ELSE IF me.key = k THEN {k} \X Callback ELSE {<<k, c>>}

Unsubscribe(k, c) ==
    /\ Contains(subscribers[k], c)
    /\ subscribers' = [subscribers EXCEPT ![k] = RemoveFirst(@, c)]
    /\ loop' = [l \in Loop |-> [loop[l] EXCEPT !.due = @ \ Missed(loop[l], k, c)]]
    /\ UNCHANGED <<server, client, tasks, retryCounts, calls, history, faults>>

(* A second consumer of a name takes the place of the first in the         *)
(* dictionary; the first keeps running.                                    *)
StartConsumer(l, n) ==
    /\ client
    /\ loop[l].step = "off"
    /\ loop' = [loop EXCEPT ![l] = Reading]
    /\ tasks' = [k \in Name |-> IF k = n THEN l ELSE IF tasks[k] = l THEN None ELSE tasks[k]]
    /\ UNCHANGED <<server, client, subscribers, retryCounts, calls, history, faults>>

(* clear deletes the stream, and the consumer group with it ...            *)
ClearStream ==
    /\ client /\ "clear" \notin calls
    /\ deleted' = published
    /\ group' = FALSE /\ delivered' = 0 /\ pending' = {}
    /\ calls' = calls \union {"clear"}
    /\ UNCHANGED <<published, acked, dlq, client, subscribers, tasks, retryCounts, loop, history,
                   faults>>

(* The list that a loop, me, iterates over. *)
Callbacks(me) == IF me.list = None THEN subscribers[me.key] ELSE me.list

(* Mutant: the lists are emptied, not dropped. *)
ClearRest_emptiesLists ==
    /\ "clear" \in calls
    /\ calls' = calls \ {"clear"}
    /\ dlq' = {}
    /\ subscribers' = [k \in Key |-> <<>>]
    /\ loop' = [l \in Loop |-> [loop[l] EXCEPT !.due = {d \in @ : d[1] = loop[l].key}]]
    /\ UNCHANGED <<published, deleted, group, delivered, pending, acked, client, tasks,
                   retryCounts, history, faults>>

(* ... then the dead letter stream and the dictionary of callbacks.  A     *)
(* list that is iterated over lives on, one that a loop has yet to look up *)
(* is gone.                                                                *)
ClearRest ==
    /\ "clear" \in calls
    /\ calls' = calls \ {"clear"}
    /\ dlq' = {}
    /\ subscribers' = [k \in Key |-> <<>>]
    /\ loop' = [l \in Loop |->
                  IF loop[l].step = "calling"
                  THEN [loop[l] EXCEPT !.list = Callbacks(loop[l]),
                                       !.due = {d \in @ : d[1] = loop[l].key}]
                  ELSE loop[l]]
    /\ UNCHANGED <<published, deleted, group, delivered, pending, acked, client, tasks,
                   retryCounts, history, faults>>

(* The process ends and a new one starts; the server goes on. *)
Crash ==
    /\ client
    /\ Fault
    /\ client' = FALSE
    /\ subscribers' = [k \in Key |-> <<>>]
    /\ tasks' = [n \in Name |-> None]
    /\ retryCounts' = [m \in Message |-> 0]
    /\ loop' = [l \in Loop |-> Off]
    /\ calls' = {}
    /\ UNCHANGED <<server, history>>

----------------------------------------------------------------------------
(* consume_loop. *)

(* The last message that XREADGROUP with ">" leaves out: it was delivered or *)
(* is not in the stream any more.                                          *)
Seen == IF deleted > delivered THEN deleted ELSE delivered

(* The messages it finds, and the ones its answer has: the first of them. *)
New == Seen + 1 .. published

Batch == LET size == IF published - Seen < BatchSize THEN published - Seen ELSE BatchSize
         IN  [i \in 1 .. size |-> Seen + i]

(* The server answers XREADGROUP.  Without the group it answers with an    *)
(* error, which the loop logs before it asks again.                        *)
Deliver(l) ==
    /\ loop[l].step = "reading"
    /\ group /\ New # {}
    /\ loop' = [loop EXCEPT ![l].step = "read", ![l].batch = Batch]
    /\ pending' = pending \union ToSet(Batch)
    /\ delivered' = Last(Batch)
    /\ UNCHANGED <<published, deleted, group, acked, dlq, client, subscribers, tasks, retryCounts,
                   calls, history, faults>>

(* An answer is lost with its messages: they stay pending. *)
ReadFails(l) ==
    /\ loop[l].step = "read"
    /\ Fault
    /\ loop' = [loop EXCEPT ![l] = Reading]
    /\ UNCHANGED <<server, client, subscribers, tasks, retryCounts, calls, history>>

(* _trigger_callbacks goes on: to the next callback of its list, as the     *)
(* list is now, from the end of the exact list to the wildcard one, which  *)
(* is looked up only then, and from its end to the XACK.                   *)
Advance(me) ==
    LET wildcard == subscribers["wildcard"]
    IN  IF me.next < Len(Callbacks(me))
        THEN [me EXCEPT !.next = me.next + 1,
                        !.due = me.due \ {<<me.key, Callbacks(me)[me.next + 1]>>}]
        ELSE IF me.key = "exact" /\ wildcard # <<>>
        THEN [me EXCEPT !.key = "wildcard", !.next = 1, !.list = None,
                        !.due = me.due \ {<<"wildcard", wildcard[1]>>}]
        ELSE [Off EXCEPT !.step = "acking", !.batch = me.batch]

(* The messages given to every callback due, when a loop is at me and goes on. *)
GivenAfter(me) == IF Advance(me).step = "acking" /\ me.due = {}
                  THEN given \union {Head(me.batch)} ELSE given

(* What is subscribed when a message's turn comes. *)
Subscribed == {d \in Key \X Callback : Contains(subscribers[d[1]], d[2])}

(* The loop as _handle_stream_message starts with the first of the messages. *)
Starting(batch) ==
    [Off EXCEPT !.step = "calling", !.batch = batch, !.due = Subscribed]

(* _handle_stream_message for the first of the messages, up to the first   *)
(* await; with no message left the loop reads again.                       *)
Handle(l, batch) ==
    IF batch = <<>>
    THEN /\ loop' = [loop EXCEPT ![l] = Reading]
         /\ UNCHANGED <<handled, given>>
    ELSE /\ loop' = [loop EXCEPT ![l] = Advance(Starting(batch))]
         /\ handled' = Append(handled, [loop |-> l, id |-> Head(batch)])
         /\ given' = GivenAfter(Starting(batch))

(* Mutant: the messages of an answer are handled the last one first. *)
Receive_newestFirst(l) ==
    /\ loop[l].step = "read"
    /\ Handle(l, Reverse(loop[l].batch))
    /\ UNCHANGED <<server, client, subscribers, tasks, retryCounts, calls, failed, faults>>

Receive(l) ==
    /\ loop[l].step = "read"
    /\ Handle(l, loop[l].batch)
    /\ UNCHANGED <<server, client, subscribers, tasks, retryCounts, calls, failed, faults>>

(* A callback returns or raises; either way the loop goes on. *)
Return(l) ==
    /\ loop[l].step = "calling"
    /\ loop' = [loop EXCEPT ![l] = Advance(loop[l])]
    /\ given' = GivenAfter(loop[l])
    /\ UNCHANGED <<server, client, subscribers, tasks, retryCounts, calls, handled, failed, faults>>

(* The server gets the XACK. *)
Acknowledge(l) ==
    /\ loop[l].step = "acking"
    /\ LET m == Head(loop[l].batch)
       IN  /\ pending' = pending \ {m}
           /\ acked' = acked \union (pending \intersect {m})
    /\ loop' = [loop EXCEPT ![l].step = "acked"]
    /\ UNCHANGED <<published, deleted, group, delivered, dlq, client, subscribers, tasks,
                   retryCounts, calls, history, faults>>

(* Its answer: the retry count goes, and the next message's turn comes.    *)
Acknowledged(l) ==
    /\ loop[l].step = "acked"
    /\ retryCounts' = [retryCounts EXCEPT ![Head(loop[l].batch)] = 0]
    /\ Handle(l, Tail(loop[l].batch))
    /\ UNCHANGED <<server, client, subscribers, tasks, calls, failed, faults>>

(* Mutant: the exception leaves the loop over the messages of the answer. *)
AcknowledgeFails_dropsBatch(l) ==
    /\ loop[l].step \in {"acking", "acked"}
    /\ Fault
    /\ LET m == Head(loop[l].batch)
       IN  /\ failed' = failed \union {m}
           /\ retryCounts' = [retryCounts EXCEPT ![m] = @ + 1]
           /\ IF retryCounts[m] + 1 > MaxRetries
              THEN /\ loop' = [loop EXCEPT ![l].step = "burying", ![l].batch = <<m>>]
                   /\ UNCHANGED <<handled, given>>
              ELSE Handle(l, <<>>)
    /\ UNCHANGED <<server, client, subscribers, tasks, calls>>

(* The XACK raises: the message is counted as failed, and with too many    *)
(* failures it is to be moved to the dead letter queue.  The loop goes on  *)
(* with the next message; it never asks for the failed one again.          *)
AcknowledgeFails(l) ==
    /\ loop[l].step \in {"acking", "acked"}
    /\ Fault
    /\ LET m == Head(loop[l].batch)
       IN  /\ failed' = failed \union {m}
           /\ retryCounts' = [retryCounts EXCEPT ![m] = @ + 1]
           /\ IF retryCounts[m] + 1 > MaxRetries
              THEN /\ loop' = [loop EXCEPT ![l].step = "burying"]
                   /\ UNCHANGED <<handled, given>>
              ELSE Handle(l, Tail(loop[l].batch))
    /\ UNCHANGED <<server, client, subscribers, tasks, calls>>

(* _move_to_dlq, which hides an error of its own. *)
Bury(l) ==
    /\ loop[l].step = "burying"
    /\ LET m == Head(loop[l].batch)
       IN  /\ \/ dlq' = dlq \union {m} /\ UNCHANGED faults
              \/ UNCHANGED dlq /\ Fault
           /\ retryCounts' = [retryCounts EXCEPT ![m] = 0]
    /\ Handle(l, Tail(loop[l].batch))
    /\ UNCHANGED <<published, deleted, group, delivered, pending, acked, client, subscribers, tasks,
                   calls, failed>>

----------------------------------------------------------------------------

LoopStep(l) ==
    Deliver(l) \/ Receive(l) \/ Return(l) \/ Acknowledge(l) \/ Acknowledged(l) \/ Bury(l)

BusNext == \/ Connect \/ CreateGroup \/ CallFails("connect") \/ Disconnect \/ Publish
           \/ \E k \in Key, c \in Callback : Subscribe(k, c) \/ Unsubscribe(k, c)
           \/ \E l \in Loop, n \in Name : StartConsumer(l, n)
           \/ ClearStream \/ ClearRest \/ CallFails("clear") \/ Crash
           \/ \E l \in Loop : LoopStep(l) \/ ReadFails(l) \/ AcknowledgeFails(l)

BusSpec == BusInit /\ [][BusNext]_busVars

----------------------------------------------------------------------------

(* However many loops share the group, and whatever crashes, reconnects and *)
(* lost answers come between, a message is handled a second time only if    *)
(* its handling had failed.                                                 *)
RepeatedOnlyAfterFailure ==
    \A i, j \in DOMAIN handled :
        i # j /\ handled[i].id = handled[j].id => handled[i].id \in failed

(* What the server takes for processed was processed: a message that is    *)
(* acknowledged was given to every callback, exact or wildcard, that was   *)
(* subscribed when its turn came, whatever was subscribed and cleared      *)
(* while they were called.  Two ways a callback can miss it are named: an  *)
(* unsubscription took it out of the list, or moved it up in the list that *)
(* was iterated over; clear dropped the wildcard list before the loop had  *)
(* finished with the exact one.                                            *)
AckedAfterCallbacks == acked \subseteq given

(* Each loop handles messages in the order they were published in, across  *)
(* its batches, failed reads, a deleted stream and restarts.               *)
HandledInOrder ==
    \A i, j \in DOMAIN handled :
        i < j /\ handled[i].loop = handled[j].loop => handled[i].id < handled[j].id

(* No message is dropped behind one that failed: a message leaves the hands *)
(* of the loop that received it only when it is acknowledged, counted as    *)
(* failed or deleted with the stream, or when the loop is ended.            *)
Settled == acked \union failed \union 1 .. deleted

ReceivedAreSettled ==
    [][\A l \in Loop :
          \/ loop'[l].step = "off"
          \/ loop[l].step = "read" /\ loop'[l].step = "reading"
          \/ ToSet(loop[l].batch) \ ToSet(loop'[l].batch) \subseteq Settled']_busVars
=============================================================================
