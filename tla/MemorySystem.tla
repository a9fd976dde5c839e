---------------------------- MODULE MemorySystem ----------------------------
(***************************************************************************)
(* agentManager/memory/memory_system.py: entries that expire, in an SQLite *)
(* table, and a vector index of their contents beside it.                  *)
(*                                                                         *)
(* The object is shared by threads; one of them runs the event loop.  Each *)
(* acquisition of the lock is a step, and so is each reading of the clock  *)
(* and each call of the index, so that other threads come in between.  In  *)
(* the loop's thread store leaves the index to a future: the futures run   *)
(* in the order of their creation, when no call is under way there.  An    *)
(* awaited upsert does not wait for them, since nothing in it suspends.    *)
(*                                                                         *)
(* A content is abstracted to its version, the number of its store; a query *)
(* asks for the words of one version.  Ranks and the limit of a query are  *)
(* left out, and so is the substring search, one SELECT that changes        *)
(* nothing.  Table and index survive a restart.                            *)
(***************************************************************************)
EXTENDS Integers, Sequences, FiniteSets

CONSTANTS
    None,
    Id,
    Layer,       \* the layers in use
    Thread,      \* the threads without an event loop
    MaxStores,   \* bound: entries that are stored
    MaxClock     \* bound: the clock

(* MemoryLayer, with the TTLs in hours and weeks shortened to clock ticks. *)
LayerTTL == [SHORT_TERM |-> 1, MEDIUM_TERM |-> 2, LONG_TERM |-> None]

ASSUME MemoryAssumption ==
    /\ Layer \subseteq DOMAIN LayerTTL
    /\ "loop" \notin Thread
    /\ {MaxStores, MaxClock} \subseteq Nat
    /\ None \notin Nat
    /\ None \notin [version : Nat, layer : Layer, timestamp : Nat, ttl : Nat \union {None}]

VARIABLES
    table,      \* memory_entries: a row for an id, or None
    index,      \* the vectors of the layers' namespaces: a version, 0 for none
    scheduled,  \* the upserts of fire-and-forget futures
    call,       \* the call each thread is in
    clock,
    doubtful,   \* ids whose upserts failed, got lost or overlapped since their last store
    stores

vars == <<table, index, scheduled, call, clock, doubtful, stores>>

Caller == Thread \union {"loop"}

Row == [version : Nat, layer : Layer, timestamp : Nat, ttl : Nat \union {None}]

Upsert == [id : Id, version : Nat, layer : Layer]

Idle == [op |-> "idle"]

(* index: the row is committed.  look: a retrieve or a search has ids to    *)
(* look up, judge: it has read a row, delete: it found the row expired.     *)
(* clean: the clock was read, purge: the expired ids are known.             *)
Call == {Idle}
    \union [op : {"index"}, upsert : Upsert, awaited : BOOLEAN]
    \union [op : {"look"}, layer : Layer \union {None}, hits : SUBSET Id, results : SUBSET Row]
    \union [op : {"judge", "delete"}, layer : Layer \union {None}, hits : SUBSET Id,
            results : SUBSET Row, id : Id, row : Row]
    \union [op : {"clean"}, time : Nat]
    \union [op : {"purge"}, time : Nat, upto : Nat, hits : SUBSET Id]

TypeOK ==
    /\ table \in [Id -> Row \union {None}]
    /\ index \in [Layer -> [Id -> Nat]]
    /\ scheduled \in Seq(Upsert)
    /\ call \in [Caller -> Call]
    /\ doubtful \subseteq Id
    /\ {clock, stores} \subseteq Nat

Init ==
    /\ table = [id \in Id |-> None]
    /\ index = [l \in Layer |-> [id \in Id |-> 0]]
    /\ scheduled = <<>>
    /\ call = [w \in Caller |-> Idle]
    /\ clock = 0 /\ doubtful = {} /\ stores = 0

Expired(row, now) == row.ttl # None /\ now > row.timestamp + row.ttl

At(w, op) == call[w].op = op

Goto(w, c) == call' = [call EXCEPT ![w] = c]

----------------------------------------------------------------------------
(* Storing.                                                                *)

(* The upserts of an id that are on their way to the index. *)
Outstanding(id) ==
    \/ \E i \in DOMAIN scheduled : scheduled[i].id = id
    \/ \E w \in Caller : At(w, "index") /\ call[w].upsert.id = id

(* store, astore: the row is replaced under the lock.  The entry, made at   *)
(* this moment, has a TTL of its own or its layer's.                        *)
Store(w, id, layer, ttl, awaited) ==
    /\ At(w, "idle") /\ stores < MaxStores
    /\ awaited => w = "loop"
    /\ stores' = stores + 1
    /\ table' = [table EXCEPT ![id] = [version |-> stores', layer |-> layer,
                                       timestamp |-> clock, ttl |-> ttl]]
    /\ Goto(w, [op |-> "index", upsert |-> [id |-> id, version |-> stores', layer |-> layer],
                awaited |-> awaited])
    /\ doubtful' = IF Outstanding(id) THEN doubtful \union {id} ELSE doubtful \ {id}
    /\ UNCHANGED <<index, scheduled, clock>>

(* Mutant: what the namespace has already is not indexed again. *)
Indexed_once(u) ==
    /\ index' = IF index[u.layer][u.id] = 0 THEN [index EXCEPT ![u.layer][u.id] = u.version]
                                            ELSE index
    /\ UNCHANGED doubtful

Indexed(u) ==
    /\ index' = [index EXCEPT ![u.layer][u.id] = u.version]
    /\ UNCHANGED doubtful

(* The backend raises; nobody learns of it. *)
Unindexed(u) == doubtful' = doubtful \union {u.id} /\ UNCHANGED index

(* _index_to_vector_backend, or the awaited upsert of astore. *)
Index(w) ==
    /\ At(w, "index")
    /\ Goto(w, Idle)
    /\ LET u == call[w].upsert
       IN  IF w = "loop" /\ ~call[w].awaited
           THEN scheduled' = Append(scheduled, u) /\ UNCHANGED <<index, doubtful>>
           ELSE (Indexed(u) \/ Unindexed(u)) /\ UNCHANGED scheduled
    /\ UNCHANGED <<table, clock, stores>>

RunScheduled ==
    /\ scheduled # <<>> /\ At("loop", "idle")
    /\ scheduled' = Tail(scheduled)
    /\ Indexed(Head(scheduled)) \/ Unindexed(Head(scheduled))
    /\ UNCHANGED <<table, call, clock, stores>>

----------------------------------------------------------------------------
(* Retrieving and searching.  A retrieve looks up one id, a vector search   *)
(* retrieves every id the index names.                                      *)

Reading == UNCHANGED <<index, scheduled, clock, doubtful, stores>>

LookUp(w, layer, hits) == Goto(w, [op |-> "look", layer |-> layer, hits |-> hits, results |-> {}])

Retrieve(w, id) ==
    /\ At(w, "idle")
    /\ LookUp(w, None, {id})
    /\ UNCHANGED table /\ Reading

(* search outside of the loop, asearch inside: the namespace of a search in *)
(* all layers is one that nothing is ever stored under.                     *)
VectorSearch(w, layer, version) ==
    /\ At(w, "idle")
    /\ LookUp(w, layer, IF layer = None THEN {} ELSE {id \in Id : index[layer][id] = version})
    /\ UNCHANGED table /\ Reading

(* The row is read under the lock. *)
ReadRow(w, id) ==
    /\ At(w, "look") /\ id \in call[w].hits
    /\ LET c == [call[w] EXCEPT !.hits = @ \ {id}]
       IN  Goto(w, IF table[id] = None
                   THEN c
                   ELSE [op |-> "judge", layer |-> c.layer, hits |-> c.hits,
                         results |-> c.results, id |-> id, row |-> table[id]])
    /\ UNCHANGED table /\ Reading

Proceed(w, results) ==
    Goto(w, [op |-> "look", layer |-> call[w].layer, hits |-> call[w].hits, results |-> results])

(* Mutant: the index is trusted for the layer of its hits. *)
Judge_anyLayer(w) ==
    /\ At(w, "judge")
    /\ IF Expired(call[w].row, clock)
       THEN Goto(w, [call[w] EXCEPT !.op = "delete"])
       ELSE Proceed(w, call[w].results \union {call[w].row})
    /\ UNCHANGED table /\ Reading

(* is_expired, and the layer of what was retrieved. *)
Judge(w) ==
    /\ At(w, "judge")
    /\ LET row == call[w].row
       IN  IF Expired(row, clock)
           THEN Goto(w, [call[w] EXCEPT !.op = "delete"])
           ELSE Proceed(w, IF call[w].layer \in {None, row.layer} THEN call[w].results \union {row}
                                                                  ELSE call[w].results)
    /\ UNCHANGED table /\ Reading

(* _delete_entry: by id, under the lock again, and from the table only. *)
Delete(w) ==
    /\ At(w, "delete")
    /\ table' = [table EXCEPT ![call[w].id] = None]
    /\ Proceed(w, call[w].results)
    /\ Reading

Return(w) ==
    /\ call[w].op \in {"look", "purge"} /\ call[w].hits = {}
    /\ Goto(w, Idle)
    /\ UNCHANGED table /\ Reading

----------------------------------------------------------------------------
(* cleanup_expired.                                                        *)

BeginCleanup(w) ==
    /\ At(w, "idle")
    /\ Goto(w, [op |-> "clean", time |-> clock])
    /\ UNCHANGED table /\ Reading

(* Mutant: a permanent entry counts as one without time to live. *)
Overdue_permanentToo(row, time) == row.ttl = None \/ (row.ttl # 0 /\ time > row.timestamp + row.ttl)

(* Mutant: an entry without a TTL of its own is not looked at. *)
Overdue_ownTtlOnly(row, time) == row.ttl \notin {None, 0, LayerTTL[row.layer]} /\ time > row.timestamp + row.ttl

(* Expired as the clean-up sees it: a TTL of zero is taken for none. *)
Overdue(row, time) == row.ttl \notin {None, 0} /\ time > row.timestamp + row.ttl

ReadRows(w) ==
    /\ At(w, "clean")
    /\ Goto(w, [op |-> "purge", time |-> call[w].time, upto |-> stores,
                hits |-> {id \in Id : table[id] # None /\ Overdue(table[id], call[w].time)}])
    /\ UNCHANGED table /\ Reading

Purge(w, id) ==
    /\ At(w, "purge") /\ id \in call[w].hits
    /\ table' = [table EXCEPT ![id] = None]
    /\ Goto(w, [call[w] EXCEPT !.hits = @ \ {id}])
    /\ Reading

----------------------------------------------------------------------------

Tick ==
    /\ clock < MaxClock
    /\ clock' = clock + 1
    /\ UNCHANGED <<table, index, scheduled, call, doubtful, stores>>

(* The process ends with its calls and futures, and starts again. *)
Restart ==
    /\ scheduled' = <<>>
    /\ call' = [w \in Caller |-> Idle]
    /\ doubtful' = doubtful \union {id \in Id : Outstanding(id)}
    /\ UNCHANGED <<table, index, clock, stores>>

Step(w) ==
    \/ \E id \in Id, layer \in Layer, awaited \in BOOLEAN :
           \E ttl \in {LayerTTL[layer], 0, 1} : Store(w, id, layer, ttl, awaited)
    \/ Index(w)
    \/ \E id \in Id : Retrieve(w, id) \/ ReadRow(w, id) \/ Purge(w, id)
    \/ \E layer \in Layer \union {None}, version \in 1 .. stores :
           VectorSearch(w, layer, version)
    \/ Judge(w) \/ Delete(w) \/ Return(w) \/ BeginCleanup(w) \/ ReadRows(w)

Next == RunScheduled \/ Tick \/ Restart \/ \E w \in Caller : Step(w)

Spec == Init /\ [][Next]_vars

----------------------------------------------------------------------------

(* An entry leaves the table only because it has expired, or because it     *)
(* took the place of an expired one that a reader or a clean-up had already *)
(* condemned: entries are deleted by id, whatever is stored under it by     *)
(* then (memory_system.py:303, 448).                                        *)
OnlyExpiredAreDeleted ==
    [][\A id \in Id : table[id] # None /\ table'[id] = None =>
           \/ Expired(table[id], clock)
           \/ \E w \in Caller : \/ At(w, "delete") /\ call[w].row.version < table[id].version
                                \/ At(w, "purge") /\ call[w].upto < table[id].version]_vars

(* A search in one layer answers with entries of that layer, although the   *)
(* index keeps an entry under the layer it was moved away from.             *)
ResultsAreOfTheLayer ==
    \A w \in Caller : At(w, "look") =>
        \A row \in call[w].results : call[w].layer \in {None, row.layer}

(* What the table holds the index finds, as soon as no upsert is under way, *)
(* unless an upsert of that entry failed, was lost or overlapped another    *)
(* store of it.  Overlap needs no second thread: an astore that follows a   *)
(* store overtakes its future, and the index ends with the older content    *)
(* (memory_system.py:229, 255).                                             *)
IndexFollowsTable ==
    \A id \in Id : table[id] # None /\ ~Outstanding(id) /\ id \notin doubtful =>
        index[table[id].layer][id] = table[id].version

(* When a clean-up returns, the entries that were expired when it began are *)
(* gone, replaced ones and those with a TTL of zero excepted: readers take  *)
(* zero for expired at once, the clean-up takes it for no TTL               *)
(* (memory_system.py:446).                                                  *)
CleanupIsComplete ==
    \A w \in Caller : At(w, "purge") /\ call[w].hits = {} =>
        \A id \in Id : table[id] # None /\ Expired(table[id], call[w].time) =>
            table[id].ttl = 0 \/ table[id].version > call[w].upto
=============================================================================
