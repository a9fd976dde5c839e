------------------------- MODULE MemorySystem_proofs -------------------------
(***************************************************************************)
(* Theorems about MemorySystem, for any number of entries, layers, threads *)
(* and stores, and any time.                                               *)
(***************************************************************************)
EXTENDS MemorySystem, SequenceTheorems, TLAPS

IndexCall == [op : {"index"}, upsert : Upsert, awaited : BOOLEAN]
LookCall == [op : {"look"}, layer : Layer \union {None}, hits : SUBSET Id, results : SUBSET Row]
JudgeCall == [op : {"judge", "delete"}, layer : Layer \union {None}, hits : SUBSET Id,
              results : SUBSET Row, id : Id, row : Row]
CleanCall == [op : {"clean"}, time : Nat]
PurgeCall == [op : {"purge"}, time : Nat, upto : Nat, hits : SUBSET Id]

(* A call is known by its op. *)
LEMMA CallsByOp ==
    ASSUME NEW c \in Call
    PROVE  /\ c.op \in {"idle", "index", "look", "judge", "delete", "clean", "purge"}
           /\ c.op = "idle" => c = Idle
           /\ c.op = "index" => c \in IndexCall
           /\ c.op = "look" => c \in LookCall
           /\ c.op \in {"judge", "delete"} => c \in JudgeCall
           /\ c.op = "clean" => c \in CleanCall
           /\ c.op = "purge" => c \in PurgeCall
<1>1. c \in {Idle} \union IndexCall \union LookCall \union JudgeCall \union CleanCall \union PurgeCall
  BY DEF Call, IndexCall, LookCall, JudgeCall, CleanCall, PurgeCall
<1>2. CASE c = Idle
  BY <1>2 DEF Idle
<1>3. CASE c \in IndexCall
  BY <1>3 DEF IndexCall
<1>4. CASE c \in LookCall
  BY <1>4 DEF LookCall
<1>5. CASE c \in JudgeCall
  BY <1>5 DEF JudgeCall
<1>6. CASE c \in CleanCall
  BY <1>6 DEF CleanCall
<1>7. CASE c \in PurgeCall
  BY <1>7 DEF PurgeCall
<1> QED
  BY <1>1, <1>2, <1>3, <1>4, <1>5, <1>6, <1>7

LEMMA CallsAreTyped ==
    /\ Idle \in Call
    /\ IndexCall \subseteq Call /\ LookCall \subseteq Call /\ JudgeCall \subseteq Call
    /\ CleanCall \subseteq Call /\ PurgeCall \subseteq Call
BY DEF Call, IndexCall, LookCall, JudgeCall, CleanCall, PurgeCall

(* The call a thread is in, and the effect of going on to another. *)
LEMMA GotoIsTyped ==
    ASSUME TypeOK, NEW w \in Caller, NEW c \in Call, Goto(w, c)
    PROVE  /\ call' \in [Caller -> Call] /\ call'[w] = c
           /\ \A v \in Caller \ {w} : call'[v] = call[v]
BY DEF TypeOK, Goto

(***************************************************************************)
(* What a call under way knows of the table: the row it has read is the one *)
(* stored or an older one; the ids it takes for expired are, and the others *)
(* are not, the later stored ones excepted.                                 *)
(***************************************************************************)
ReadInv(w) ==
    /\ call[w].op \in {"judge", "delete"} =>
          LET id == call[w].id
              row == call[w].row
          IN  /\ row.version <= stores
              /\ table[id] # None => table[id] = row \/ row.version < table[id].version
    /\ call[w].op = "delete" => Expired(call[w].row, clock)

CleanInv(w) ==
    /\ call[w].op \in {"clean", "purge"} => call[w].time <= clock
    /\ call[w].op = "purge" =>
          /\ call[w].upto <= stores
          /\ \A id \in Id : table[id] # None =>
                \/ call[w].upto < table[id].version
                \/ id \in call[w].hits /\ Overdue(table[id], call[w].time)
                \/ id \notin call[w].hits /\ ~Overdue(table[id], call[w].time)

LayerInv(w) ==
    call[w].op \in {"look", "judge", "delete"} =>
        \A row \in call[w].results : call[w].layer \in {None, row.layer}

CallInv(w) == ReadInv(w) /\ CleanInv(w) /\ LayerInv(w)

VersionInv == \A id \in Id : table[id] # None => table[id].version <= stores

(* An upsert on its way to the index has what the table has. *)
Fits(u) ==
    \/ table[u.id] = None
    \/ u.id \in doubtful
    \/ u.version = table[u.id].version /\ u.layer = table[u.id].layer

ScheduledInv == \A i \in 1 .. Len(scheduled) : Fits(scheduled[i])

SentInv == \A w \in Caller : At(w, "index") => Fits(call[w].upsert)

IndexInv == ScheduledInv /\ SentInv /\ IndexFollowsTable

IInv ==
    /\ TypeOK
    /\ VersionInv
    /\ \A w \in Caller : CallInv(w)
    /\ IndexInv

----------------------------------------------------------------------------
(* Expiry.                                                                 *)

LEMMA RowsAreTyped ==
    ASSUME TypeOK, NEW id \in Id, table[id] # None
    PROVE  table[id] \in Row
BY DEF TypeOK

(* What has expired stays expired, and what the clean-up takes for expired  *)
(* readers do too, unless its TTL is zero.                                  *)
LEMMA ExpiryLasts ==
    ASSUME NEW row \in Row, NEW m \in Nat, NEW n \in Nat, m <= n
    PROVE  /\ Expired(row, m) => Expired(row, n)
           /\ Overdue(row, m) => Expired(row, n)
           /\ Expired(row, m) => Overdue(row, m) \/ row.ttl = 0
<1>1. row.timestamp \in Nat /\ row.ttl \in Nat \union {None}
  BY DEF Row
<1> QED
  BY <1>1, MemoryAssumption DEF MemoryAssumption, Expired, Overdue

(* The table changes by deletions and by newer entries only, so that what a *)
(* call knew of it stays true while others go on.                           *)
TableMoves ==
    /\ \A id \in Id : \/ table'[id] = table[id]
                      \/ table'[id] = None
                      \/ stores < table'[id].version /\ table'[id] # None
    /\ stores <= stores' /\ clock <= clock'

LEMMA CallsStayInformed ==
    ASSUME IInv, TypeOK', TableMoves, NEW w \in Caller, call'[w] = call[w]
    PROVE  CallInv(w)'
<1>1. call[w] \in Call /\ CallInv(w) /\ {stores, stores', clock, clock'} \subseteq Nat
  BY DEF IInv, TypeOK
<1>2. ReadInv(w)'
  <2> SUFFICES ASSUME call[w].op \in {"judge", "delete"} PROVE ReadInv(w)'
    BY DEF ReadInv
  <2> DEFINE id == call[w].id
  <2> DEFINE row == call[w].row
  <2>1. id \in Id /\ row \in Row /\ row.version \in Nat
    BY <1>1, CallsByOp DEF JudgeCall, Row
  <2>2. /\ row.version <= stores
        /\ table[id] # None => table[id] = row \/ row.version < table[id].version
        /\ call[w].op = "delete" => Expired(row, clock)
    BY <1>1 DEF CallInv, ReadInv
  <2>3. row.version <= stores'
    BY <1>1, <2>1, <2>2 DEF TableMoves
  <2>4. table'[id] # None => table'[id] = row \/ row.version < table'[id].version
    <3>1. table'[id] # None => table'[id].version \in Nat
      BY <2>1 DEF TypeOK, Row
    <3> QED
      BY <1>1, <2>1, <2>2, <3>1 DEF TableMoves
  <2>5. call[w].op = "delete" => Expired(row, clock')
    BY <1>1, <2>1, <2>2, ExpiryLasts DEF TableMoves
  <2> QED
    BY <2>3, <2>4, <2>5 DEF ReadInv, Expired
<1>3. CleanInv(w)'
  <2>1. call[w].op \in {"clean", "purge"} => call[w].time <= clock'
    <3>1. call[w].op \in {"clean", "purge"} => call[w].time \in Nat
      BY <1>1, CallsByOp DEF CleanCall, PurgeCall
    <3> QED
      BY <1>1, <3>1 DEF CallInv, CleanInv, TableMoves
  <2>2. ASSUME call[w].op = "purge"
        PROVE  /\ call[w].upto <= stores'
               /\ \A id \in Id : table'[id] # None =>
                     \/ call[w].upto < table'[id].version
                     \/ id \in call[w].hits /\ Overdue(table'[id], call[w].time)
                     \/ id \notin call[w].hits /\ ~Overdue(table'[id], call[w].time)
    <3>1. call[w].upto \in Nat
      BY <1>1, <2>2, CallsByOp DEF PurgeCall
    <3>2. /\ call[w].upto <= stores
          /\ \A id \in Id : table[id] # None =>
                     \/ call[w].upto < table[id].version
                     \/ id \in call[w].hits /\ Overdue(table[id], call[w].time)
                     \/ id \notin call[w].hits /\ ~Overdue(table[id], call[w].time)
      BY <1>1, <2>2 DEF CallInv, CleanInv
    <3>3. \A id \in Id : table'[id] # None => table'[id].version \in Nat
      BY DEF TypeOK, Row
    <3> QED
      BY <1>1, <3>1, <3>2, <3>3 DEF TableMoves
  <2> QED
    BY <2>1, <2>2 DEF CleanInv, Overdue
<1>4. LayerInv(w)'
  BY <1>1 DEF CallInv, LayerInv
<1> QED
  BY <1>2, <1>3, <1>4 DEF CallInv

----------------------------------------------------------------------------
(* Steps of readers and of the clean-up.                                   *)

LEMMA UpsertsAreTyped ==
    ASSUME TypeOK
    PROVE  /\ Len(scheduled) \in Nat /\ DOMAIN scheduled = 1 .. Len(scheduled)
           /\ \A i \in 1 .. Len(scheduled) : scheduled[i] \in Upsert /\ scheduled[i].id \in Id
           /\ \A w \in Caller : At(w, "index") =>
                 call[w].upsert \in Upsert /\ call[w].upsert.id \in Id /\ call[w].awaited \in BOOLEAN
<1>1. scheduled \in Seq(Upsert)
  BY DEF TypeOK
<1>2. \A i \in 1 .. Len(scheduled) : scheduled[i] \in Upsert
  BY <1>1, ElementOfSeq
<1>3. \A w \in Caller : At(w, "index") => call[w] \in IndexCall
  BY CallsByOp DEF TypeOK, At
<1> QED
  BY <1>1, <1>2, <1>3, LenProperties DEF Upsert, IndexCall

(* A step that stores nothing and sends nothing to the index: what is left  *)
(* to be shown is what its own call knows.                                  *)
LEMMA ReadingIsSafe ==
    ASSUME IInv, NEW w \in Caller, NEW c \in Call, Goto(w, c), Reading,
           call[w].op # "index", c.op # "index",
           table' \in [Id -> Row \union {None}],
           \A id \in Id : table'[id] = table[id] \/ table'[id] = None,
           CallInv(w)'
    PROVE  IInv'
<1>1. TypeOK
  BY DEF IInv
<1>2. UNCHANGED <<index, scheduled, clock, doubtful, stores>>
  BY DEF Reading
<1>3. call' \in [Caller -> Call] /\ call'[w] = c /\ \A v \in Caller \ {w} : call'[v] = call[v]
  BY <1>1, GotoIsTyped
<1>4. TypeOK'
  BY <1>1, <1>2, <1>3 DEF TypeOK
<1>5. TableMoves
  BY <1>1, <1>2 DEF TableMoves, TypeOK
<1>6. \A v \in Caller : CallInv(v)'
  BY <1>3, <1>4, <1>5, CallsStayInformed
<1>7. VersionInv'
  BY <1>2 DEF IInv, VersionInv
<1>8. \A v \in Caller : At(v, "index")' = At(v, "index") /\ (At(v, "index") => call'[v] = call[v])
  BY <1>3 DEF At
<1>9. \A id \in Id : Outstanding(id)' = Outstanding(id)
  BY <1>2, <1>8 DEF Outstanding
<1>10. IndexInv'
  <2>1. ScheduledInv'
    <3>1. \A i \in 1 .. Len(scheduled) : Fits(scheduled[i]) /\ scheduled[i].id \in Id
      BY <1>1, UpsertsAreTyped DEF IInv, IndexInv, ScheduledInv
    <3> QED
      BY <1>2, <3>1 DEF ScheduledInv, Fits
  <2>2. SentInv'
    <3>1. \A v \in Caller : At(v, "index") => Fits(call[v].upsert) /\ call[v].upsert.id \in Id
      BY <1>1, UpsertsAreTyped DEF IInv, IndexInv, SentInv
    <3> QED
      BY <1>2, <1>8, <3>1 DEF SentInv, Fits
  <2>3. IndexFollowsTable'
    BY <1>2, <1>9 DEF IInv, IndexInv, IndexFollowsTable
  <2> QED
    BY <2>1, <2>2, <2>3 DEF IndexInv
<1> QED
  BY <1>4, <1>6, <1>7, <1>10 DEF IInv

LEMMA CallersAreInformed ==
    ASSUME IInv, NEW w \in Caller
    PROVE  TypeOK /\ call[w] \in Call /\ ReadInv(w) /\ CleanInv(w) /\ LayerInv(w)
BY DEF IInv, CallInv, TypeOK

LEMMA BeginIsSafe ==
    ASSUME IInv, NEW w \in Caller,
           \/ \E id \in Id : Retrieve(w, id)
           \/ \E layer \in Layer \union {None}, version \in 1 .. stores :
                  VectorSearch(w, layer, version)
           \/ BeginCleanup(w) \/ Return(w)
    PROVE  IInv'
<1>1. TypeOK
  BY DEF IInv
<1>2. /\ UNCHANGED table /\ Reading /\ call[w].op # "index"
      /\ table' \in [Id -> Row \union {None}]
      /\ clock' = clock /\ clock \in Nat
  BY <1>1 DEF Retrieve, VectorSearch, BeginCleanup, Return, Reading, At, TypeOK
<1>3. PICK c \in Call : /\ Goto(w, c)
                        /\ \/ c = Idle
                           \/ c.op = "look" /\ c.results = {}
                           \/ c.op = "clean" /\ c.time = clock
  <2>1. CASE \/ \E id \in Id : Retrieve(w, id)
             \/ \E layer \in Layer \union {None}, version \in 1 .. stores :
                    VectorSearch(w, layer, version)
    <3>1. PICK l \in Layer \union {None}, hits \in SUBSET Id : LookUp(w, l, hits)
      BY <2>1 DEF Retrieve, VectorSearch
    <3>2. [op |-> "look", layer |-> l, hits |-> hits, results |-> {}] \in Call
      BY CallsAreTyped DEF LookCall
    <3> QED
      BY <3>1, <3>2 DEF LookUp
  <2>2. CASE BeginCleanup(w)
    <3>1. [op |-> "clean", time |-> clock] \in Call
      BY <1>1, CallsAreTyped DEF CleanCall, TypeOK
    <3> QED
      BY <2>2, <3>1 DEF BeginCleanup
  <2>3. CASE Return(w)
    BY <2>3, CallsAreTyped DEF Return
  <2> QED
    BY <2>1, <2>2, <2>3
<1>4. call'[w] = c /\ c.op # "index"
  BY <1>1, <1>3, GotoIsTyped DEF Idle
<1>5. CallInv(w)'
  BY <1>2, <1>3, <1>4 DEF CallInv, ReadInv, CleanInv, LayerInv, Idle
<1> QED
  BY <1>2, <1>3, <1>4, <1>5, ReadingIsSafe

LEMMA ReadRowIsSafe ==
    ASSUME IInv, NEW w \in Caller, NEW id \in Id, ReadRow(w, id)
    PROVE  IInv'
<1>1. TypeOK /\ LayerInv(w) /\ UNCHANGED table /\ Reading /\ At(w, "look") /\ call[w] \in LookCall
  BY CallersAreInformed, CallsByOp DEF ReadRow, At
<1>2. table' \in [Id -> Row \union {None}] /\ call[w].op = "look"
      /\ UNCHANGED <<table, clock, stores>>
  BY <1>1 DEF TypeOK, At, Reading
<1> DEFINE c == [call[w] EXCEPT !.hits = @ \ {id}]
<1>3. c \in LookCall /\ c.layer = call[w].layer /\ c.results = call[w].results
  BY <1>1 DEF LookCall
<1> DEFINE j == [op |-> "judge", layer |-> c.layer, hits |-> c.hits, results |-> c.results,
                 id |-> id, row |-> table[id]]
<1>4. CASE table[id] = None
  <2>1. Goto(w, c)
    BY <1>4 DEF ReadRow
  <2> HIDE DEF c
  <2>2. c \in Call /\ c.op = "look"
    BY <1>3, CallsAreTyped DEF LookCall
  <2>3. call'[w] = c
    BY <1>1, <2>1, <2>2, GotoIsTyped
  <2>4. CallInv(w)'
    BY <1>1, <1>2, <1>3, <2>2, <2>3 DEF CallInv, ReadInv, CleanInv, LayerInv
  <2> QED
    BY <1>1, <1>2, <2>1, <2>2, <2>4, ReadingIsSafe
<1>5. CASE table[id] # None
  <2>1. Goto(w, j)
    BY <1>5 DEF ReadRow
  <2>2. table[id] \in Row /\ table[id].version <= stores
    BY <1>1, <1>5, RowsAreTyped DEF IInv, VersionInv
  <2>3. j \in JudgeCall /\ j.op = "judge" /\ j.id = id /\ j.row = table[id]
        /\ j.layer = call[w].layer /\ j.results = call[w].results
    BY <1>3, <2>2 DEF LookCall, JudgeCall
  <2> HIDE DEF j
  <2>4. call'[w] = j /\ j \in Call
    BY <1>1, <2>1, <2>3, GotoIsTyped, CallsAreTyped
  <2>5. CallInv(w)'
    BY <1>1, <1>2, <2>2, <2>3, <2>4 DEF CallInv, ReadInv, CleanInv, LayerInv
  <2> QED
    BY <1>1, <1>2, <2>1, <2>3, <2>4, <2>5, ReadingIsSafe
<1> QED
  BY <1>4, <1>5

(* Going on with a result more or less. *)
LEMMA ProceedIsSafe ==
    ASSUME IInv, NEW w \in Caller, call[w].op \in {"judge", "delete"}, NEW results \in SUBSET Row,
           Proceed(w, results), Reading,
           table' \in [Id -> Row \union {None}],
           \A id \in Id : table'[id] = table[id] \/ table'[id] = None,
           \A row \in results : row \in call[w].results \/ call[w].layer \in {None, row.layer}
    PROVE  IInv'
<1>1. TypeOK /\ LayerInv(w) /\ call[w] \in JudgeCall
  BY CallersAreInformed, CallsByOp
<1> DEFINE c == [op |-> "look", layer |-> call[w].layer, hits |-> call[w].hits, results |-> results]
<1>2. c \in LookCall /\ c.op = "look" /\ c.layer = call[w].layer /\ c.results = results /\ Goto(w, c)
  BY <1>1 DEF Proceed, JudgeCall, LookCall
<1> HIDE DEF c
<1>3. call'[w] = c /\ c \in Call
  BY <1>1, <1>2, GotoIsTyped, CallsAreTyped
<1>4. CallInv(w)'
  BY <1>1, <1>2, <1>3 DEF CallInv, ReadInv, CleanInv, LayerInv
<1> QED
  BY <1>2, <1>3, <1>4, ReadingIsSafe

LEMMA JudgeIsSafe ==
    ASSUME IInv, NEW w \in Caller, Judge(w)
    PROVE  IInv'
<1>1. /\ TypeOK /\ ReadInv(w) /\ LayerInv(w) /\ call[w] \in JudgeCall
      /\ call[w].op = "judge" /\ UNCHANGED <<table, clock, stores>> /\ Reading
  BY CallersAreInformed, CallsByOp DEF Judge, At, Reading
<1>2. table' \in [Id -> Row \union {None}] /\ call[w].row \in Row /\ call[w].results \in SUBSET Row
  BY <1>1 DEF TypeOK, JudgeCall
<1>3. CASE Expired(call[w].row, clock)
  <2> DEFINE c == [call[w] EXCEPT !.op = "delete"]
  <2>1. Goto(w, c)
    BY <1>3 DEF Judge
  <2>2. /\ c \in JudgeCall /\ c.op = "delete" /\ c.id = call[w].id /\ c.row = call[w].row
        /\ c.layer = call[w].layer /\ c.results = call[w].results
    BY <1>1 DEF JudgeCall
  <2> HIDE DEF c
  <2>3. call'[w] = c /\ c \in Call
    BY <1>1, <2>1, <2>2, GotoIsTyped, CallsAreTyped
  <2>4. CallInv(w)'
    BY <1>1, <1>3, <2>2, <2>3 DEF CallInv, ReadInv, CleanInv, LayerInv, Expired
  <2> QED
    BY <1>1, <1>2, <2>1, <2>2, <2>3, <2>4, ReadingIsSafe
<1>4. CASE ~Expired(call[w].row, clock)
  <2> DEFINE results == IF call[w].layer \in {None, call[w].row.layer}
                        THEN call[w].results \union {call[w].row} ELSE call[w].results
  <2>1. Proceed(w, results)
    BY <1>4 DEF Judge
  <2>2. /\ results \in SUBSET Row
        /\ \A row \in results : row \in call[w].results \/ call[w].layer \in {None, row.layer}
    BY <1>2
  <2> HIDE DEF results
  <2> QED
    BY <1>1, <1>2, <2>1, <2>2, ProceedIsSafe
<1> QED
  BY <1>3, <1>4

LEMMA DeleteIsSafe ==
    ASSUME IInv, NEW w \in Caller, Delete(w)
    PROVE  IInv'
<1>1. /\ TypeOK /\ call[w] \in JudgeCall /\ call[w].op = "delete" /\ Reading
      /\ Proceed(w, call[w].results) /\ table' = [table EXCEPT ![call[w].id] = None]
  BY CallersAreInformed, CallsByOp DEF Delete, At
<1>2. /\ table' \in [Id -> Row \union {None}] /\ call[w].results \in SUBSET Row
      /\ \A id \in Id : table'[id] = table[id] \/ table'[id] = None
  BY <1>1 DEF TypeOK, JudgeCall
<1> QED
  BY <1>1, <1>2, ProceedIsSafe

LEMMA ReadRowsIsSafe ==
    ASSUME IInv, NEW w \in Caller, ReadRows(w)
    PROVE  IInv'
<1>1. /\ TypeOK /\ CleanInv(w) /\ call[w] \in CleanCall /\ call[w].op = "clean"
      /\ UNCHANGED <<table, clock, stores>> /\ Reading
  BY CallersAreInformed, CallsByOp DEF ReadRows, At, Reading
<1>2. /\ table' \in [Id -> Row \union {None}] /\ stores \in Nat /\ call[w].time \in Nat
      /\ call[w].time <= clock
  BY <1>1 DEF TypeOK, CleanCall, CleanInv
<1> DEFINE hits == {id \in Id : table[id] # None /\ Overdue(table[id], call[w].time)}
<1> DEFINE c == [op |-> "purge", time |-> call[w].time, upto |-> stores, hits |-> hits]
<1>3. Goto(w, c)
  BY DEF ReadRows
<1>4. /\ c \in PurgeCall /\ c.op = "purge" /\ c.time = call[w].time /\ c.upto = stores
      /\ c.hits = hits
  BY <1>2 DEF PurgeCall
<1> HIDE DEF c
<1>5. call'[w] = c /\ c \in Call
  BY <1>1, <1>3, <1>4, GotoIsTyped, CallsAreTyped
<1>6. CleanInv(w)'
  <2>1. \A id \in Id : table[id] # None =>
                \/ id \in hits /\ Overdue(table[id], c.time)
                \/ id \notin hits /\ ~Overdue(table[id], c.time)
    BY <1>4
  <2> HIDE DEF hits
  <2> QED
    BY <1>1, <1>2, <1>4, <1>5, <2>1 DEF CleanInv, Overdue
<1>7. CallInv(w)'
  BY <1>4, <1>5, <1>6 DEF CallInv, ReadInv, LayerInv
<1> QED
  BY <1>1, <1>2, <1>3, <1>4, <1>5, <1>7, ReadingIsSafe

LEMMA PurgeIsSafe ==
    ASSUME IInv, NEW w \in Caller, NEW id \in Id, Purge(w, id)
    PROVE  IInv'
<1>1. /\ TypeOK /\ CleanInv(w) /\ call[w] \in PurgeCall /\ call[w].op = "purge" /\ Reading
      /\ table' = [table EXCEPT ![id] = None] /\ UNCHANGED <<clock, stores>>
  BY CallersAreInformed, CallsByOp DEF Purge, At, Reading
<1>2. /\ table' \in [Id -> Row \union {None}]
      /\ \A i \in Id : table'[i] = IF i = id THEN None ELSE table[i]
  BY <1>1 DEF TypeOK
<1> DEFINE c == [call[w] EXCEPT !.hits = @ \ {id}]
<1>3. Goto(w, c)
  BY DEF Purge
<1>4. /\ c \in PurgeCall /\ c.op = "purge" /\ c.time = call[w].time /\ c.upto = call[w].upto
      /\ c.hits = call[w].hits \ {id}
  BY <1>1 DEF PurgeCall
<1> HIDE DEF c
<1>5. call'[w] = c /\ c \in Call
  BY <1>1, <1>3, <1>4, GotoIsTyped, CallsAreTyped
<1>6. CleanInv(w)'
  BY <1>1, <1>2, <1>4, <1>5 DEF CleanInv, Overdue
<1>7. CallInv(w)'
  BY <1>4, <1>5, <1>6 DEF CallInv, ReadInv, LayerInv
<1> QED
  BY <1>1, <1>2, <1>3, <1>4, <1>5, <1>7, ReadingIsSafe

----------------------------------------------------------------------------
(* Steps of those who store, and of the index.                             *)

(* A new entry is younger than what any call has seen.  Its upsert is on    *)
(* its way; if another one is, the id is doubtful.                          *)
LEMMA StoreIsSafe ==
    ASSUME IInv, NEW w \in Caller, NEW id \in Id, NEW layer \in Layer,
           NEW ttl \in Nat \union {None}, NEW awaited \in BOOLEAN,
           Store(w, id, layer, ttl, awaited)
    PROVE  IInv'
<1>1. TypeOK
  BY DEF IInv
<1> DEFINE row == [version |-> stores', layer |-> layer, timestamp |-> clock, ttl |-> ttl]
<1> DEFINE u == [id |-> id, version |-> stores', layer |-> layer]
<1> DEFINE c == [op |-> "index", upsert |-> u, awaited |-> awaited]
<1>2. /\ At(w, "idle") /\ stores' = stores + 1 /\ stores \in Nat /\ clock \in Nat
      /\ table' = [table EXCEPT ![id] = row]
      /\ Goto(w, c)
      /\ doubtful' = IF Outstanding(id) THEN doubtful \union {id} ELSE doubtful \ {id}
      /\ UNCHANGED <<index, scheduled, clock>>
  BY <1>1 DEF Store, TypeOK
<1>3. /\ row \in Row /\ row.version = stores + 1 /\ row.layer = layer /\ row # None
  BY <1>2, MemoryAssumption DEF Row, MemoryAssumption
<1>4. u \in Upsert /\ u.id = id /\ u.version = stores + 1 /\ u.layer = layer
  BY <1>2 DEF Upsert
<1> HIDE DEF row, u
<1>5. c \in IndexCall /\ c.op = "index" /\ c.upsert = u
  BY <1>4 DEF IndexCall
<1> HIDE DEF c
<1>6. /\ call' \in [Caller -> Call] /\ call'[w] = c
      /\ \A v \in Caller \ {w} : call'[v] = call[v]
  BY <1>1, <1>2, <1>5, GotoIsTyped, CallsAreTyped
<1>7. table' \in [Id -> Row \union {None}]
      /\ \A i \in Id : table'[i] = IF i = id THEN row ELSE table[i]
  BY <1>1, <1>2, <1>3 DEF TypeOK
<1>8. TypeOK'
  BY <1>1, <1>2, <1>6, <1>7 DEF TypeOK
<1>9. TableMoves
  BY <1>2, <1>3, <1>7 DEF TableMoves
<1>10. VersionInv'
  <2>1. \A i \in Id : table[i] # None => table[i].version <= stores /\ table[i].version \in Nat
    BY <1>1 DEF IInv, VersionInv, TypeOK, Row
  <2> QED
    BY <1>2, <1>3, <1>7, <2>1 DEF VersionInv
<1>11. ASSUME NEW v \in Caller PROVE CallInv(v)'
  <2>1. CASE v = w
    BY <2>1, <1>5, <1>6 DEF CallInv, ReadInv, CleanInv, LayerInv
  <2>2. CASE v # w
    BY <2>2, <1>6, <1>8, <1>9, CallsStayInformed
  <2> QED
    BY <2>1, <2>2
<1>12. /\ \A v \in Caller \ {w} : At(v, "index")' = At(v, "index") /\ call'[v] = call[v]
       /\ ~At(w, "index") /\ At(w, "index")' /\ call'[w].upsert = u
  BY <1>2, <1>5, <1>6 DEF At
<1>13. Outstanding(id)' /\ \A i \in Id \ {id} : Outstanding(i)' = Outstanding(i)
  BY <1>2, <1>4, <1>12 DEF Outstanding
<1>14. ScheduledInv'
  <2> SUFFICES ASSUME NEW i \in 1 .. Len(scheduled)
               PROVE  \/ table'[scheduled[i].id] = None
                      \/ scheduled[i].id \in doubtful'
                      \/ /\ scheduled[i].version = table'[scheduled[i].id].version
                         /\ scheduled[i].layer = table'[scheduled[i].id].layer
    BY <1>2 DEF ScheduledInv, Fits
  <2>1. scheduled[i].id \in Id /\ Fits(scheduled[i]) /\ i \in DOMAIN scheduled
    BY <1>1, UpsertsAreTyped DEF IInv, IndexInv, ScheduledInv
  <2>2. CASE scheduled[i].id = id
    BY <2>1, <2>2, <1>2 DEF Outstanding
  <2>3. CASE scheduled[i].id # id
    BY <2>1, <2>3, <1>2, <1>7 DEF Fits
  <2> QED
    BY <2>2, <2>3
<1>15. SentInv'
  <2> SUFFICES ASSUME NEW v \in Caller, At(v, "index")'
               PROVE  \/ table'[call'[v].upsert.id] = None
                      \/ call'[v].upsert.id \in doubtful'
                      \/ /\ call'[v].upsert.version = table'[call'[v].upsert.id].version
                         /\ call'[v].upsert.layer = table'[call'[v].upsert.id].layer
    BY DEF SentInv, Fits
  <2>1. CASE v = w
    BY <2>1, <1>3, <1>4, <1>7, <1>12
  <2>2. CASE v # w
    <3>1. call[v].upsert.id \in Id /\ Fits(call[v].upsert) /\ At(v, "index") /\ call'[v] = call[v]
      BY <2>2, <1>1, <1>12, UpsertsAreTyped DEF IInv, IndexInv, SentInv
    <3>2. CASE call[v].upsert.id = id
      BY <3>1, <3>2, <1>2 DEF Outstanding
    <3>3. CASE call[v].upsert.id # id
      BY <3>1, <3>3, <1>2, <1>7 DEF Fits
    <3> QED
      BY <3>2, <3>3
  <2> QED
    BY <2>1, <2>2
<1>16. IndexFollowsTable'
  BY <1>2, <1>7, <1>13 DEF IInv, IndexInv, IndexFollowsTable
<1> QED
  BY <1>8, <1>10, <1>11, <1>14, <1>15, <1>16 DEF IInv, IndexInv

(* An upsert reaches the index or fails there. *)
LEMMA UpsertKeepsIndex ==
    ASSUME TypeOK, IndexFollowsTable, NEW u \in Upsert, Fits(u), Indexed(u) \/ Unindexed(u)
    PROVE  /\ index' \in [Layer -> [Id -> Nat]] /\ doubtful' \subseteq Id
           /\ doubtful \subseteq doubtful'
           /\ \A id \in Id : /\ table[id] # None
                             /\ id \notin doubtful'
                             /\ id = u.id \/ ~Outstanding(id)
                             => index'[table[id].layer][id] = table[id].version
<1>1. u.id \in Id /\ u.layer \in Layer /\ u.version \in Nat
  BY DEF Upsert
<1>2. index \in [Layer -> [Id -> Nat]] /\ doubtful \subseteq Id
  BY DEF TypeOK
<1>3. CASE Indexed(u)
  <2>1. index' = [index EXCEPT ![u.layer] = [index[u.layer] EXCEPT ![u.id] = u.version]]
        /\ doubtful' = doubtful
    BY <1>3 DEF Indexed
  <2>2. [index[u.layer] EXCEPT ![u.id] = u.version] \in [Id -> Nat]
    BY <1>1, <1>2
  <2>3. index' \in [Layer -> [Id -> Nat]]
    BY <1>1, <1>2, <2>1, <2>2
  <2>4. \A l \in Layer, id \in Id :
           index'[l][id] = IF l = u.layer /\ id = u.id THEN u.version ELSE index[l][id]
    BY <1>1, <1>2, <2>1
  <2>5. \A id \in Id : table[id] # None => table[id].layer \in Layer
    BY DEF TypeOK, Row
  <2> QED
    BY <1>1, <1>2, <2>1, <2>3, <2>4, <2>5 DEF Fits, IndexFollowsTable
<1>4. CASE Unindexed(u)
  BY <1>1, <1>2, <1>4 DEF Unindexed, IndexFollowsTable
<1> QED
  BY <1>3, <1>4

LEMMA IndexIsSafe ==
    ASSUME IInv, NEW w \in Caller, Index(w)
    PROVE  IInv'
<1>1. TypeOK
  BY DEF IInv
<1> DEFINE u == call[w].upsert
<1>2. /\ At(w, "index") /\ Goto(w, Idle) /\ UNCHANGED <<table, clock, stores>>
      /\ u \in Upsert /\ u.id \in Id /\ Fits(u)
      /\ \/ scheduled' = Append(scheduled, u) /\ UNCHANGED <<index, doubtful>>
         \/ (Indexed(u) \/ Unindexed(u)) /\ UNCHANGED scheduled
  BY <1>1, UpsertsAreTyped DEF Index, IInv, IndexInv, SentInv
<1>3. /\ call' \in [Caller -> Call] /\ call'[w] = Idle
      /\ \A v \in Caller \ {w} : call'[v] = call[v]
  BY <1>1, <1>2, GotoIsTyped, CallsAreTyped
<1> HIDE DEF u
<1>4. /\ \A v \in Caller \ {w} : At(v, "index")' = At(v, "index") /\ call'[v] = call[v]
      /\ ~At(w, "index")'
  BY <1>3 DEF At, Idle
<1>5. /\ index' \in [Layer -> [Id -> Nat]] /\ doubtful' \subseteq Id
      /\ doubtful \subseteq doubtful' /\ scheduled' \in Seq(Upsert)
  <2>1. index \in [Layer -> [Id -> Nat]] /\ doubtful \subseteq Id /\ scheduled \in Seq(Upsert)
    BY <1>1 DEF TypeOK
  <2>2. CASE scheduled' = Append(scheduled, u) /\ UNCHANGED <<index, doubtful>>
    BY <1>2, <2>1, <2>2
  <2>3. CASE (Indexed(u) \/ Unindexed(u)) /\ UNCHANGED scheduled
    BY <1>1, <1>2, <2>1, <2>3, UpsertKeepsIndex DEF IInv, IndexInv
  <2> QED
    BY <1>2, <2>2, <2>3
<1>6. TypeOK'
  BY <1>1, <1>2, <1>3, <1>5 DEF TypeOK
<1>7. TableMoves /\ VersionInv'
  BY <1>1, <1>2 DEF TableMoves, IInv, VersionInv, TypeOK
<1>8. ASSUME NEW v \in Caller PROVE CallInv(v)'
  <2>1. CASE v = w
    BY <2>1, <1>3 DEF CallInv, ReadInv, CleanInv, LayerInv, Idle
  <2>2. CASE v # w
    BY <2>2, <1>3, <1>6, <1>7, CallsStayInformed
  <2> QED
    BY <2>1, <2>2
<1>9. SentInv'
  BY <1>2, <1>4, <1>5 DEF IInv, IndexInv, SentInv, Fits
<1>10. CASE scheduled' = Append(scheduled, u) /\ UNCHANGED <<index, doubtful>>
  <2>1. /\ Len(scheduled) \in Nat /\ Len(scheduled') = Len(scheduled) + 1
        /\ DOMAIN scheduled = 1 .. Len(scheduled) /\ DOMAIN scheduled' = 1 .. Len(scheduled) + 1
        /\ scheduled'[Len(scheduled) + 1] = u
        /\ \A i \in 1 .. Len(scheduled) : scheduled'[i] = scheduled[i]
    BY <1>1, <1>2, <1>5, <1>10 DEF TypeOK
  <2>2. ScheduledInv'
    BY <1>2, <1>10, <2>1 DEF IInv, IndexInv, ScheduledInv, Fits
  <2>3. \A id \in Id : Outstanding(id) => Outstanding(id)'
    <3> SUFFICES ASSUME NEW id \in Id, Outstanding(id) PROVE Outstanding(id)'
      OBVIOUS
    <3>1. CASE \E i \in DOMAIN scheduled : scheduled[i].id = id
      BY <3>1, <2>1 DEF Outstanding
    <3>2. CASE \E v \in Caller : At(v, "index") /\ call[v].upsert.id = id
      <4>1. PICK v \in Caller : At(v, "index") /\ call[v].upsert.id = id
        BY <3>2
      <4>2. CASE v = w
        <5>1. scheduled'[Len(scheduled) + 1].id = id /\ Len(scheduled) + 1 \in DOMAIN scheduled'
          BY <4>1, <4>2, <2>1 DEF u
        <5> QED
          BY <5>1 DEF Outstanding
      <4>3. CASE v # w
        BY <4>1, <4>3, <1>4 DEF Outstanding
      <4> QED
        BY <4>2, <4>3
    <3> QED
      BY <3>1, <3>2 DEF Outstanding
  <2>4. IndexFollowsTable'
    BY <1>2, <1>10, <2>3 DEF IInv, IndexInv, IndexFollowsTable
  <2> QED
    BY <1>6, <1>7, <1>8, <1>9, <2>2, <2>4 DEF IInv, IndexInv
<1>11. CASE (Indexed(u) \/ Unindexed(u)) /\ UNCHANGED scheduled
  <2>1. ScheduledInv'
    BY <1>2, <1>5, <1>11 DEF IInv, IndexInv, ScheduledInv, Fits
  <2>2. \A id \in Id : id # u.id /\ Outstanding(id) => Outstanding(id)'
    BY <1>4, <1>11 DEF Outstanding, u
  <2>3. \A id \in Id : /\ table[id] # None
                       /\ id \notin doubtful'
                       /\ id = u.id \/ ~Outstanding(id)
                       => index'[table[id].layer][id] = table[id].version
    BY <1>1, <1>2, <1>11, UpsertKeepsIndex DEF IInv, IndexInv
  <2>4. IndexFollowsTable'
    BY <1>2, <2>2, <2>3 DEF IndexFollowsTable
  <2> QED
    BY <1>6, <1>7, <1>8, <1>9, <2>1, <2>4 DEF IInv, IndexInv
<1> QED
  BY <1>2, <1>10, <1>11

LEMMA RunScheduledIsSafe ==
    ASSUME IInv, RunScheduled
    PROVE  IInv'
<1>1. TypeOK /\ scheduled \in Seq(Upsert) /\ scheduled # <<>>
  BY DEF IInv, TypeOK, RunScheduled
<1> DEFINE u == Head(scheduled)
<1>2. /\ u \in Upsert /\ u = scheduled[1] /\ Len(scheduled) \in Nat /\ Len(scheduled) >= 1
      /\ scheduled' = Tail(scheduled) /\ scheduled' \in Seq(Upsert)
      /\ Len(scheduled') = Len(scheduled) - 1
      /\ DOMAIN scheduled = 1 .. Len(scheduled) /\ DOMAIN scheduled' = 1 .. Len(scheduled')
      /\ \A i \in 1 .. Len(scheduled') : scheduled'[i] = scheduled[i + 1]
  BY <1>1, HeadTailProperties DEF RunScheduled
<1>3. Indexed(u) \/ Unindexed(u)
  BY DEF RunScheduled
<1> HIDE DEF u
<1>4. UNCHANGED <<table, call, clock, stores>>
  BY DEF RunScheduled
<1>5. Fits(u)
  BY <1>2 DEF IInv, IndexInv, ScheduledInv
<1>6. /\ index' \in [Layer -> [Id -> Nat]] /\ doubtful' \subseteq Id
      /\ doubtful \subseteq doubtful'
      /\ \A id \in Id : /\ table[id] # None
                        /\ id \notin doubtful'
                        /\ id = u.id \/ ~Outstanding(id)
                        => index'[table[id].layer][id] = table[id].version
  BY <1>1, <1>2, <1>3, <1>5, UpsertKeepsIndex DEF IInv, IndexInv
<1>7. TypeOK'
  BY <1>1, <1>2, <1>4, <1>6 DEF TypeOK
<1>8. TableMoves /\ VersionInv'
  BY <1>1, <1>4 DEF TableMoves, IInv, VersionInv, TypeOK
<1>9. \A v \in Caller : CallInv(v)'
  BY <1>4, <1>7, <1>8, CallsStayInformed
<1>10. ScheduledInv' /\ SentInv'
  <2>1. ScheduledInv'
    <3> SUFFICES ASSUME NEW i \in 1 .. Len(scheduled')
                 PROVE  \/ table[scheduled[i + 1].id] = None
                        \/ scheduled[i + 1].id \in doubtful'
                        \/ /\ scheduled[i + 1].version = table[scheduled[i + 1].id].version
                           /\ scheduled[i + 1].layer = table[scheduled[i + 1].id].layer
      BY <1>2, <1>4 DEF ScheduledInv, Fits
    <3>1. i + 1 \in 1 .. Len(scheduled)
      BY <1>2
    <3> QED
      BY <3>1, <1>6 DEF IInv, IndexInv, ScheduledInv, Fits
  <2>2. SentInv'
    BY <1>4, <1>6 DEF IInv, IndexInv, SentInv, Fits, At
  <2> QED
    BY <2>1, <2>2
<1>11. \A id \in Id : id # u.id /\ Outstanding(id) => Outstanding(id)'
  <2> SUFFICES ASSUME NEW id \in Id, id # u.id, Outstanding(id) PROVE Outstanding(id)'
    OBVIOUS
  <2>1. CASE \E i \in DOMAIN scheduled : scheduled[i].id = id
    <3>1. PICK i \in DOMAIN scheduled : scheduled[i].id = id
      BY <2>1
    <3>2. i - 1 \in DOMAIN scheduled' /\ scheduled'[i - 1] = scheduled[i]
      BY <3>1, <1>2
    <3> QED
      BY <3>1, <3>2 DEF Outstanding
  <2>2. CASE \E v \in Caller : At(v, "index") /\ call[v].upsert.id = id
    BY <2>2, <1>4 DEF Outstanding, At
  <2> QED
    BY <2>1, <2>2 DEF Outstanding
<1>12. IndexFollowsTable'
  BY <1>4, <1>6, <1>11 DEF IndexFollowsTable
<1> QED
  BY <1>7, <1>8, <1>9, <1>10, <1>12 DEF IInv, IndexInv

(* The clock goes on; a process that ends leaves the ids of its upserts     *)
(* doubtful.                                                                *)
LEMMA TickIsSafe ==
    ASSUME IInv, Tick
    PROVE  IInv'
<1>1. TypeOK /\ clock \in Nat /\ clock' = clock + 1
      /\ UNCHANGED <<table, index, scheduled, call, doubtful, stores>>
  BY DEF Tick, IInv, TypeOK
<1>2. TypeOK'
  BY <1>1 DEF TypeOK
<1>3. TableMoves /\ VersionInv'
  BY <1>1 DEF TableMoves, IInv, VersionInv, TypeOK
<1>4. \A v \in Caller : CallInv(v)'
  BY <1>1, <1>2, <1>3, CallsStayInformed
<1>5. \A id \in Id : Outstanding(id)' = Outstanding(id)
  BY <1>1 DEF Outstanding, At
<1>6. IndexInv'
  BY <1>1, <1>5 DEF IInv, IndexInv, ScheduledInv, SentInv, Fits, At, IndexFollowsTable
<1> QED
  BY <1>2, <1>3, <1>4, <1>6 DEF IInv

LEMMA RestartIsSafe ==
    ASSUME IInv, Restart
    PROVE  IInv'
<1>1. TypeOK /\ scheduled' = <<>> /\ call' = [w \in Caller |-> Idle]
      /\ doubtful' = doubtful \union {id \in Id : Outstanding(id)}
      /\ UNCHANGED <<table, index, clock, stores>>
  BY DEF Restart, IInv
<1>2. TypeOK'
  BY <1>1, CallsAreTyped DEF TypeOK
<1>3. VersionInv'
  BY <1>1 DEF IInv, VersionInv
<1>4. \A v \in Caller : CallInv(v)'
  BY <1>1 DEF CallInv, ReadInv, CleanInv, LayerInv, Idle
<1>5. ScheduledInv' /\ SentInv'
  BY <1>1 DEF ScheduledInv, SentInv, At, Idle
<1>6. IndexFollowsTable'
  BY <1>1 DEF IInv, IndexInv, IndexFollowsTable
<1> QED
  BY <1>2, <1>3, <1>4, <1>5, <1>6 DEF IInv, IndexInv

----------------------------------------------------------------------------
(* The invariant.                                                          *)

LEMMA InitIsSafe == Init => IInv
<1> SUFFICES ASSUME Init PROVE IInv
  OBVIOUS
<1>1. TypeOK
  BY CallsAreTyped DEF Init, TypeOK
<1>2. VersionInv
  BY DEF Init, VersionInv
<1>3. \A v \in Caller : CallInv(v)
  BY DEF Init, CallInv, ReadInv, CleanInv, LayerInv, Idle
<1>4. IndexInv
  BY DEF Init, IndexInv, ScheduledInv, SentInv, At, Idle, IndexFollowsTable
<1> QED
  BY <1>1, <1>2, <1>3, <1>4 DEF IInv

(* The TTLs entries are stored with. *)
LEMMA TTLsAreTyped ==
    ASSUME NEW layer \in Layer, NEW ttl \in {LayerTTL[layer], 0, 1}
    PROVE  ttl \in Nat \union {None}
BY MemoryAssumption DEF MemoryAssumption, LayerTTL

LEMMA NextIsSafe == IInv /\ [Next]_vars => IInv'
<1>1. ASSUME IInv, Next PROVE IInv'
  <2>1. CASE RunScheduled
    BY <1>1, <2>1, RunScheduledIsSafe
  <2>2. CASE Tick
    BY <1>1, <2>2, TickIsSafe
  <2>3. CASE Restart
    BY <1>1, <2>3, RestartIsSafe
  <2>4. ASSUME NEW w \in Caller, Step(w) PROVE IInv'
    <3>1. CASE \E id \in Id, layer \in Layer, awaited \in BOOLEAN :
                   \E ttl \in {LayerTTL[layer], 0, 1} : Store(w, id, layer, ttl, awaited)
      BY <1>1, <3>1, TTLsAreTyped, StoreIsSafe
    <3>2. CASE Index(w)
      BY <1>1, <3>2, IndexIsSafe
    <3>3. CASE \E id \in Id : Retrieve(w, id)
      BY <1>1, <3>3, BeginIsSafe
    <3>4. CASE \E id \in Id : ReadRow(w, id)
      BY <1>1, <3>4, ReadRowIsSafe
    <3>5. CASE \E id \in Id : Purge(w, id)
      BY <1>1, <3>5, PurgeIsSafe
    <3>6. CASE \/ \E layer \in Layer \union {None}, version \in 1 .. stores :
                      VectorSearch(w, layer, version)
               \/ BeginCleanup(w) \/ Return(w)
      BY <1>1, <3>6, BeginIsSafe
    <3>7. CASE Judge(w)
      BY <1>1, <3>7, JudgeIsSafe
    <3>8. CASE Delete(w)
      BY <1>1, <3>8, DeleteIsSafe
    <3>9. CASE ReadRows(w)
      BY <1>1, <3>9, ReadRowsIsSafe
    <3> QED
      BY <2>4, <3>1, <3>2, <3>3, <3>4, <3>5, <3>6, <3>7, <3>8, <3>9 DEF Step
  <2> QED
    BY <1>1, <2>1, <2>2, <2>3, <2>4 DEF Next
<1>2. ASSUME IInv, UNCHANGED vars PROVE IInv'
  <2>1. TypeOK /\ UNCHANGED <<table, index, scheduled, call, clock, doubtful, stores>>
    BY <1>2 DEF vars, IInv
  <2>2. TypeOK' /\ VersionInv'
    BY <1>2, <2>1 DEF IInv, TypeOK, VersionInv
  <2>3. TableMoves
    BY <2>1 DEF TableMoves, TypeOK
  <2>4. \A v \in Caller : CallInv(v)'
    BY <1>2, <2>1, <2>2, <2>3, CallsStayInformed
  <2>5. \A id \in Id : Outstanding(id)' = Outstanding(id)
    BY <2>1 DEF Outstanding, At
  <2>6. IndexInv'
    BY <1>2, <2>1, <2>5 DEF IInv, IndexInv, ScheduledInv, SentInv, Fits, At, IndexFollowsTable
  <2> QED
    BY <2>2, <2>4, <2>6 DEF IInv
<1> QED
  BY <1>1, <1>2

LEMMA AlwaysSafe == Spec => []IInv
  BY InitIsSafe, NextIsSafe, PTL DEF Spec

----------------------------------------------------------------------------
(* The theorems.                                                           *)

(* Table, index, futures and calls keep their types. *)
THEOREM TypeCorrect == Spec => []TypeOK
<1>1. IInv => TypeOK
  BY DEF IInv
<1> QED
  BY <1>1, AlwaysSafe, PTL

(* A search in a layer answers with entries of that layer                   *)
(* (memory_system.py:338-352).                                              *)
THEOREM SearchesKeepToTheirLayer == Spec => []ResultsAreOfTheLayer
<1>1. IInv => ResultsAreOfTheLayer
  BY DEF IInv, CallInv, LayerInv, ResultsAreOfTheLayer, At
<1> QED
  BY <1>1, AlwaysSafe, PTL

(* The index has what the table has, but for the ids whose upserts failed,  *)
(* got lost or overlapped (memory_system.py:229, 255).                      *)
THEOREM IndexIsCurrent == Spec => []IndexFollowsTable
<1>1. IInv => IndexFollowsTable
  BY DEF IInv, IndexInv
<1> QED
  BY <1>1, AlwaysSafe, PTL

(* When a clean-up returns, what had expired before it is gone              *)
(* (memory_system.py:446).                                                  *)
THEOREM CleanupsAreComplete == Spec => []CleanupIsComplete
<1>1. IInv => CleanupIsComplete
  <2> SUFFICES ASSUME IInv, NEW w \in Caller, At(w, "purge"), call[w].hits = {},
                      NEW id \in Id, table[id] # None, Expired(table[id], call[w].time)
               PROVE  table[id].ttl = 0 \/ table[id].version > call[w].upto
    BY DEF CleanupIsComplete
  <2>1. TypeOK /\ CleanInv(w) /\ call[w] \in PurgeCall /\ call[w].op = "purge"
    BY CallersAreInformed, CallsByOp DEF At
  <2>2. call[w].time \in Nat /\ call[w].upto \in Nat /\ table[id] \in Row /\ table[id].version \in Nat
    BY <2>1, RowsAreTyped DEF PurgeCall, Row
  <2>3. call[w].upto < table[id].version \/ ~Overdue(table[id], call[w].time)
    BY <2>1 DEF CleanInv
  <2>4. Overdue(table[id], call[w].time) \/ table[id].ttl = 0
    BY <2>2, ExpiryLasts
  <2> QED
    BY <2>2, <2>3, <2>4
<1> QED
  BY <1>1, AlwaysSafe, PTL

(* Only expired entries are deleted, and those that took the place of one   *)
(* that was already condemned (memory_system.py:303, 448).                  *)
THEOREM OnlyExpiredEntriesGo == Spec => OnlyExpiredAreDeleted
<1> DEFINE Kept == \A id \in Id : table[id] # None /\ table'[id] = None =>
           \/ Expired(table[id], clock)
           \/ \E w \in Caller : \/ At(w, "delete") /\ call[w].row.version < table[id].version
                                \/ At(w, "purge") /\ call[w].upto < table[id].version
<1>1. IInv /\ [Next]_vars => [Kept]_vars
  <2> SUFFICES ASSUME IInv, Next PROVE Kept
    OBVIOUS
  <2> SUFFICES ASSUME NEW id \in Id, table[id] # None, table'[id] = None
               PROVE  \/ Expired(table[id], clock)
                      \/ \E w \in Caller : \/ At(w, "delete") /\ call[w].row.version < table[id].version
                                           \/ At(w, "purge") /\ call[w].upto < table[id].version
    OBVIOUS
  <2>1. TypeOK
    BY DEF IInv
  <2>2. PICK w \in Caller : Delete(w) \/ \E i \in Id : Purge(w, i)
    <3>1. CASE \E w \in Caller, i \in Id, layer \in Layer, awaited \in BOOLEAN :
                   \E ttl \in {LayerTTL[layer], 0, 1} : Store(w, i, layer, ttl, awaited)
      <4>1. PICK w \in Caller, i \in Id, layer \in Layer, awaited \in BOOLEAN :
                   \E ttl \in {LayerTTL[layer], 0, 1} : Store(w, i, layer, ttl, awaited)
        BY <3>1
      <4>2. PICK ttl \in {LayerTTL[layer], 0, 1} : Store(w, i, layer, ttl, awaited)
        BY <4>1
      <4> DEFINE row == [version |-> stores', layer |-> layer, timestamp |-> clock, ttl |-> ttl]
      <4>3. table' = [table EXCEPT ![i] = row] /\ stores' \in Nat /\ clock \in Nat
        BY <2>1, <4>2 DEF Store, TypeOK
      <4>4. row \in Row
        BY <4>2, <4>3, TTLsAreTyped DEF Row
      <4>5. row # None
        BY <4>4, MemoryAssumption DEF Row, MemoryAssumption
      <4> HIDE DEF row
      <4> QED
        BY <2>1, <4>3, <4>5 DEF TypeOK
    <3>2. CASE UNCHANGED table
      BY <3>2
    <3> QED
      BY <3>1, <3>2 DEF Next, Step, RunScheduled, Tick, Restart, Index, Retrieve, VectorSearch,
                        ReadRow, Judge, Return, BeginCleanup, ReadRows
  <2>3. CASE Delete(w)
    <3>1. /\ At(w, "delete") /\ ReadInv(w) /\ call[w].op = "delete"
          /\ table' = [table EXCEPT ![call[w].id] = None]
      BY <2>3, CallersAreInformed DEF Delete, At
    <3>2. call[w].id = id
      BY <2>1, <3>1 DEF TypeOK
    <3>3. table[id] = call[w].row \/ call[w].row.version < table[id].version
      BY <3>1, <3>2 DEF ReadInv
    <3> QED
      BY <3>1, <3>3 DEF ReadInv
  <2>4. ASSUME NEW i \in Id, Purge(w, i)
        PROVE  Expired(table[id], clock) \/ (At(w, "purge") /\ call[w].upto < table[id].version)
    <3>1. /\ At(w, "purge") /\ CleanInv(w) /\ call[w] \in PurgeCall /\ call[w].op = "purge"
          /\ table' = [table EXCEPT ![i] = None] /\ i \in call[w].hits
      BY <2>4, CallersAreInformed, CallsByOp DEF Purge, At
    <3>2. i = id
      BY <2>1, <3>1 DEF TypeOK
    <3>3. call[w].time \in Nat /\ clock \in Nat /\ call[w].time <= clock /\ table[id] \in Row
      BY <2>1, <3>1, RowsAreTyped DEF CleanInv, PurgeCall, TypeOK
    <3>4. call[w].upto < table[id].version \/ Overdue(table[id], call[w].time)
      BY <3>1, <3>2 DEF CleanInv
    <3> QED
      BY <3>1, <3>3, <3>4, ExpiryLasts
  <2> QED
    BY <2>2, <2>3, <2>4
<1> QED
  BY <1>1, AlwaysSafe, PTL DEF Spec, OnlyExpiredAreDeleted
==============================================================================
