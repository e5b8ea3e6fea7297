-------------------------- MODULE MonitoringProofs --------------------------
(***************************************************************************)
(* Proofs about Monitoring, for all variables, workers and limits: types,  *)
(* the tables a process knows, and that what is stored is kept as Journal  *)
(* says.                                                                   *)
(***************************************************************************)
EXTENDS Monitoring, SequenceTheorems, FiniteSetTheorems, WellFoundedInduction, TLAPS

LEMMA NoneIsNoValue == None \notin Value
  BY MonitoringConstants DEF Value

LEMMA TypeInit == Init => TypeOK
<1> SUFFICES ASSUME Init PROVE TypeOK
  OBVIOUS
<1> NoCall \in Call
  BY DEF NoCall, Call
<1> QED BY EmptySeq DEF Init, TypeOK

(* What is in a sequence stays what it was when its head is taken.         *)
LEMMA HeadAndTail ==
  ASSUME NEW S, NEW s \in Seq(S), s # <<>>
  PROVE  /\ Head(s) \in S /\ Tail(s) \in Seq(S)
         /\ {s[i] : i \in DOMAIN s} = {Head(s)} \cup {Tail(s)[i] : i \in DOMAIN Tail(s)}
<1>1. /\ Len(s) \in Nat \ {0} /\ DOMAIN s = 1..Len(s)
      /\ Head(s) \in S /\ Tail(s) \in Seq(S) /\ Head(s) = s[1]
      /\ DOMAIN Tail(s) = 1..(Len(s) - 1)
      /\ \A i \in 1..(Len(s) - 1) : Tail(s)[i] = s[i + 1]
  BY EmptySeq, LenProperties, HeadTailProperties
<1>2. \A i \in 1..Len(s) : i = 1 \/ (i - 1 \in 1..(Len(s) - 1) /\ s[i] = Tail(s)[i - 1])
  BY <1>1
<1>3. \A i \in 1..(Len(s) - 1) : i + 1 \in 1..Len(s)
  BY <1>1
<1>4. ASSUME NEW i \in DOMAIN s
      PROVE  s[i] \in {Head(s)} \cup {Tail(s)[j] : j \in DOMAIN Tail(s)}
  BY <1>1, <1>2
<1>5. ASSUME NEW j \in DOMAIN Tail(s) PROVE Tail(s)[j] \in {s[i] : i \in DOMAIN s}
  BY <1>1, <1>3
<1>6. 1 \in DOMAIN s
  BY <1>1
<1> QED BY <1>1, <1>4, <1>5, <1>6

LEMMA Appended ==
  ASSUME NEW S, NEW s \in Seq(S), NEW e \in S
  PROVE  /\ Append(s, e) \in Seq(S)
         /\ {Append(s, e)[i] : i \in DOMAIN Append(s, e)} = {e} \cup {s[i] : i \in DOMAIN s}
<1>1. /\ Len(s) \in Nat /\ DOMAIN s = 1..Len(s)
      /\ Append(s, e) \in Seq(S) /\ DOMAIN Append(s, e) = 1..(Len(s) + 1)
      /\ Append(s, e)[Len(s) + 1] = e
      /\ \A i \in 1..Len(s) : Append(s, e)[i] = s[i]
  BY LenProperties
<1>2. \A i \in 1..(Len(s) + 1) : i = Len(s) + 1 \/ i \in 1..Len(s)
  BY <1>1
<1> QED BY <1>1, <1>2

LEMMA TypeStep == TypeOK /\ [Next]_vars => TypeOK'
<1> SUFFICES ASSUME TypeOK, [Next]_vars PROVE TypeOK'
  OBVIOUS
<1> USE MonitoringConstants, NoneIsNoValue
<1> USE DEF memory, cleaning, file
<1> NoCall \in Call
  BY DEF NoCall, Call
<1>1. ASSUME NEW w \in Workers, Store(w) PROVE TypeOK'
  <2>1. PICK names \in SUBSET Names :
           pending' = [pending EXCEPT ![w] = [names |-> names, time |-> clock]]
    BY <1>1 DEF Store
  <2>2. [names |-> names, time |-> clock] \in Call
    BY DEF Call, TypeOK
  <2> QED BY <1>1, <2>1, <2>2 DEF Store, TypeOK
<1>2. ASSUME NEW w \in Workers, NEW n \in Names, Put(w, n) PROVE TypeOK'
  <2>1. pending[w] \in Call
    BY DEF TypeOK
  <2>2. <<n, pending[w].time>> \in Value
    BY <2>1 DEF Value, Call
  <2>3. queue' \in Seq(Value \cup {None})
    BY <1>2, <2>2, Appended DEF Put, TypeOK
  <2>4. [names |-> pending[w].names \ {n}, time |-> pending[w].time] \in Call
    BY <2>1 DEF Call
  <2>5. pending' \in [Workers -> Call]
    BY <1>2, <2>4 DEF Put, TypeOK
  <2> QED BY <1>2, <2>3, <2>5 DEF Put, TypeOK
<1>3. CASE WriterGet
  <2>1. Head(queue) \in Value \cup {None} /\ Tail(queue) \in Seq(Value \cup {None})
    BY <1>3, HeadAndTail DEF WriterGet, TypeOK
  <2> QED BY <1>3, <2>1 DEF WriterGet, TypeOK
<1>4. CASE Acquire
  BY <1>4 DEF Acquire, TypeOK
<1>5. CASE CreateTable
  <2>1. item[1] \in Names
    BY <1>5 DEF CreateTable, TypeOK, Value
  <2> QED BY <1>5, <2>1 DEF CreateTable, TypeOK, ItemDone
<1>21. CASE AddTable
  <2>1. item[1] \in Names
    BY <1>21 DEF AddTable, TypeOK, Value
  <2> QED BY <1>21, <2>1 DEF AddTable, TypeOK
<1>6. CASE WriteRow
  BY <1>6 DEF WriteRow, TypeOK, ItemDone
<1>7. CASE CopyBegin \/ CopyEnd
  BY <1>7 DEF CopyBegin, CopyEnd, TypeOK
<1>8. CASE CleanStart
  BY <1>8 DEF CleanStart, TypeOK
<1>9. CASE CleanInterrupted
  BY <1>9 DEF CleanInterrupted, PassEnds, TypeOK
<1>10. ASSUME NEW n \in Names, CleanVisit(n) PROVE TypeOK'
  <2>1. CASE byRows /\ Cardinality(RowsOf(n)) <= Limit
    BY <1>10, <2>1 DEF CleanVisit, PassEnds, TypeOK
  <2>2. CASE ~(byRows /\ Cardinality(RowsOf(n)) <= Limit)
    <3>1. clock - Limit \in Int /\ \A v \in RowsOf(n) : v \in Names \X Int
      BY DEF TypeOK, RowsOf, Value
    <3>2. limitRow' \in Names \X Int
      BY <1>10, <2>2, <3>1 DEF CleanVisit
    <3> QED BY <1>10, <2>2, <3>2 DEF CleanVisit, TypeOK
  <2> QED BY <2>1, <2>2
<1>11. CASE CleanDelete
  BY <1>11 DEF CleanDelete, TypeOK, RowsOf
<1>12. CASE CleanCommit
  BY <1>12 DEF CleanCommit, PassEnds, TypeOK
<1>13. CASE Notify
  BY <1>13 DEF Notify, TypeOK
<1>14. CASE Load
  BY <1>14 DEF Load, TypeOK
<1>15. CASE Startup
  BY <1>15, EmptySeq DEF Startup, TypeOK
<1>16. CASE BeginStop
  <2>1. queue' \in Seq(Value \cup {None})
    BY <1>16, Appended DEF BeginStop, TypeOK
  <2> QED BY <1>16, <2>1 DEF BeginStop, TypeOK
<1>17. CASE EndStop
  BY <1>17, EmptySeq DEF EndStop, Unloaded, TypeOK
<1>18. CASE Kill
  BY <1>18, EmptySeq DEF Kill, Unloaded, TypeOK
<1>19. CASE Tick
  BY <1>19 DEF Tick, TypeOK
<1>20. CASE UNCHANGED vars
  BY <1>20 DEF vars, TypeOK
<1> QED
  BY <1>1, <1>2, <1>3, <1>4, <1>5, <1>6, <1>7, <1>8, <1>9, <1>10, <1>11, <1>12,
     <1>13, <1>14, <1>15, <1>16, <1>17, <1>18, <1>19, <1>20, <1>21
  DEF Next, Writer, Cleaner

(* Every variable of the process and of its file keeps its type, and what  *)
(* a thread is about to use is there. (db.py)                              *)
THEOREM TypeCorrect == Spec => []TypeOK
  BY TypeInit, TypeStep, PTL DEF Spec

-----------------------------------------------------------------------------
(* Tables *)

(* What the writer is about to do fits the tables, and every row has one.  *)
WriterInv ==
    /\ KnownTablesExist
    /\ RowsAreKnown
    /\ \A v \in rows : v[1] \in created
    /\ writer \in {"off", "get"} => item = None
    /\ writer = "create" => item[1] \notin TABLES
    /\ writer = "add" => item[1] \in (created \cap mapped) \ TABLES
    /\ writer = "write" => item[1] \in TABLES
    /\ writer \in {"create", "add", "write"} => item[1] \notin Unstorable
    /\ phase \in {"off", "loading"} => writer = "off" /\ mapped = {}

LEMMA WriterInit == Init => WriterInv
  BY DEF Init, WriterInv, KnownTablesExist, RowsAreKnown, Running

LEMMA WriterStep ==
  ASSUME TypeOK, WriterInv, [Next]_vars
  PROVE  WriterInv'
<1> USE DEF memory, cleaning, file, WriterInv, KnownTablesExist, RowsAreKnown, Running
<1>1. CASE \E w \in Workers : Store(w) \/ \E n \in Names : Put(w, n)
  BY <1>1 DEF Store, Put
<1>2. CASE WriterGet
  BY <1>2 DEF WriterGet
<1>3. CASE Acquire
  BY <1>3 DEF Acquire
<1>4. CASE CreateTable
  BY <1>4 DEF CreateTable, ItemDone
<1>5. CASE AddTable
  BY <1>5 DEF AddTable
<1>6. CASE WriteRow
  BY <1>6 DEF WriteRow, ItemDone
<1>7. CASE CleanCommit
  BY <1>7 DEF CleanCommit, PassEnds
<1>8. CASE Cleaner /\ ~CleanCommit
  BY <1>8 DEF Cleaner, CleanStart, CleanInterrupted, CleanVisit, CleanDelete, Notify
<1>9. CASE CopyBegin \/ CopyEnd \/ Load \/ BeginStop \/ Tick \/ UNCHANGED vars
  BY <1>9 DEF CopyBegin, CopyEnd, Load, BeginStop, Tick, vars
<1>10. CASE Startup
  BY <1>10 DEF Startup
<1>11. CASE EndStop \/ Kill
  BY <1>11 DEF EndStop, Kill, Unloaded
<1> QED
  BY <1>1, <1>2, <1>3, <1>4, <1>5, <1>6, <1>7, <1>8, <1>9, <1>10, <1>11
  DEF Next, Writer

(* No process knows a table that its file does not have.                   *)
(* (initialize_db, create_new_ts_table, remove_db)                         *)
THEOREM KnownTablesAreThere == Spec => []KnownTablesExist
<1>1. WriterInv => KnownTablesExist
  BY DEF WriterInv
<1> QED BY <1>1, TypeInit, TypeStep, WriterInit, WriterStep, PTL DEF Spec

(* A running process knows the table of every row in its file, whichever   *)
(* process wrote it: a table is in the file before it is known, and known  *)
(* before its first row is written, whenever the process is killed and     *)
(* however a creation fails.  (initialize_db, create_new_ts_table, _writer)*)
THEOREM RowsAreReadable == Spec => []RowsAreKnown
<1>1. WriterInv => RowsAreKnown
  BY DEF WriterInv
<1> QED BY <1>1, TypeInit, TypeStep, WriterInit, WriterStep, PTL DEF Spec

-----------------------------------------------------------------------------
(* Cleaning *)

(* What may go when the rows of left stay.                                 *)
MayGo(v, left) ==
    IF byRows THEN Cardinality(Newer(v, left)) >= Limit ELSE v[2] + Limit <= clock

(* A pass marks the rows of a table once, and others may go without them.  *)
CleanInv ==
    /\ IsFiniteSet(rows)
    /\ marked \subseteq rows
    /\ ~locked => marked = {}
    /\ cleaner \notin {"visit", "delete"} => ~locked
    /\ phase \in {"off", "loading"} => cleaner = "off"
    /\ \A v \in marked : v[1] \notin todo /\ MayGo(v, rows \ marked)
    /\ cleaner = "delete" => limitRow[1] \in todo /\ MayGo(limitRow, rows)

LEMMA MoreStay ==
  ASSUME NEW S, NEW T, NEW v, NEW w, IsFiniteSet(T), Newer(v, S) \subseteq Newer(w, T),
         Limit \in Nat, Cardinality(Newer(v, S)) >= Limit
  PROVE  Cardinality(Newer(w, T)) >= Limit
<1>1. IsFiniteSet(Newer(w, T))
  BY FS_Subset DEF Newer
<1>2. /\ IsFiniteSet(Newer(v, S))
      /\ Cardinality(Newer(v, S)) <= Cardinality(Newer(w, T))
  BY <1>1, FS_Subset
<1>3. Cardinality(Newer(v, S)) \in Nat /\ Cardinality(Newer(w, T)) \in Nat
  BY <1>1, <1>2, FS_CardinalityType
<1> QED BY <1>2, <1>3

LEMMA CleanInit == Init => CleanInv
  BY FS_EmptySet DEF Init, CleanInv

LEMMA VisitKeeps ==
  ASSUME TypeOK, CleanInv, NEW n \in Names, CleanVisit(n)
  PROVE  CleanInv'
<1> USE MonitoringConstants DEF memory, file
<1>1. CASE byRows /\ Cardinality(RowsOf(n)) <= Limit
  BY <1>1 DEF CleanVisit, PassEnds, CleanInv
<1>2. CASE ~(byRows /\ Cardinality(RowsOf(n)) <= Limit)
  <2>1. limitRow'[1] = n /\ n \in todo /\ IsLimit(limitRow')
    BY <1>2 DEF CleanVisit, RowsOf
  <2>2. UNCHANGED <<phase, byRows, clock, rows, todo, locked, marked>>
        /\ cleaner' = "delete"
        /\ cleaner = "visit"
    BY <1>2 DEF CleanVisit
  <2>3. MayGo(limitRow, rows)'
    <3>1. CASE byRows
      BY <2>1, <2>2, <3>1 DEF IsLimit, MayGo, Newer
    <3>2. CASE ~byRows
      BY <2>1, <2>2, <3>2 DEF IsLimit, MayGo, TypeOK
    <3> QED BY <3>1, <3>2
  <2>4. \A v \in marked : MayGo(v, rows \ marked)' <=> MayGo(v, rows \ marked)
    BY <2>2 DEF MayGo, Newer
  <2> QED BY <2>1, <2>2, <2>3, <2>4 DEF CleanInv
<1> QED BY <1>1, <1>2

LEMMA DeleteKeeps ==
  ASSUME TypeOK, CleanInv, CleanDelete
  PROVE  CleanInv'
<1> USE MonitoringConstants DEF memory
<1> DEFINE more == {v \in RowsOf(limitRow[1]) : v[2] <= limitRow[2]}
<1>1. /\ marked' = marked \cup more /\ locked' = TRUE /\ cleaner' = "visit"
      /\ todo' = todo \ {limitRow[1]} /\ UNCHANGED <<phase, byRows, clock, rows>>
      /\ cleaner = "delete"
  BY DEF CleanDelete, file
<1>2. limitRow \in Names \X Int /\ limitRow[1] \in todo /\ MayGo(limitRow, rows)
  BY DEF CleanDelete, TypeOK, CleanInv
<1>3. more \subseteq rows /\ \A v \in more : v[1] = limitRow[1] /\ v[2] <= limitRow[2]
  BY DEF RowsOf
<1> HIDE DEF more
<1>4. \A v \in rows : v \in Names \X Nat
  BY DEF TypeOK, Value
<1>5. IsFiniteSet(rows \ marked')
  BY <1>1, FS_Subset DEF CleanInv
<1>6. ASSUME NEW v \in more PROVE MayGo(v, rows \ marked)'
  <2>1. CASE byRows
    <3>1. ASSUME NEW u \in Newer(limitRow, rows) PROVE u \in Newer(v, rows \ marked')
      <4>1. u \in rows /\ u[1] = limitRow[1] /\ u[2] > limitRow[2] /\ u[2] \in Nat
        BY <3>1, <1>4 DEF Newer
      <4>2. u \notin marked
        BY <4>1, <1>2 DEF CleanInv
      <4>3. u \notin more
        BY <4>1, <1>2, <1>3
      <4>4. v \in rows /\ v[2] \in Nat /\ v[1] = limitRow[1] /\ v[2] <= limitRow[2]
        BY <1>6, <1>3, <1>4
      <4> QED BY <4>1, <4>2, <4>3, <4>4, <1>1, <1>2 DEF Newer
    <3>2. Cardinality(Newer(limitRow, rows)) >= Limit
      BY <1>2, <2>1 DEF MayGo
    <3>3. Cardinality(Newer(v, rows \ marked')) >= Limit
      BY <3>1, <3>2, <1>5, MoreStay
    <3> QED BY <3>3, <2>1, <1>1 DEF MayGo, Newer
  <2>2. CASE ~byRows
    <3>1. limitRow[2] + Limit <= clock
      BY <1>2, <2>2 DEF MayGo
    <3>2. v[2] \in Nat /\ v[2] <= limitRow[2] /\ limitRow[2] \in Int /\ clock \in Nat
      BY <1>6, <1>2, <1>3, <1>4 DEF TypeOK
    <3> QED BY <3>1, <3>2, <2>2, <1>1 DEF MayGo
  <2> QED BY <2>1, <2>2
<1>7. ASSUME NEW v \in marked PROVE MayGo(v, rows \ marked)'
  <2>1. v[1] \notin todo /\ MayGo(v, rows \ marked) /\ v \in rows
    BY <1>7 DEF CleanInv
  <2>2. v[1] # limitRow[1]
    BY <2>1, <1>2
  <2>3. Newer(v, rows \ marked) = Newer(v, rows \ marked')
    BY <2>2, <1>1, <1>3 DEF Newer
  <2> QED BY <2>1, <2>3, <1>1 DEF MayGo, Newer
<1>8. \A v \in marked' : v[1] \notin todo'
  BY <1>1, <1>3 DEF CleanInv
<1> QED BY <1>1, <1>3, <1>6, <1>7, <1>8 DEF CleanInv

LEMMA WriteKeeps ==
  ASSUME TypeOK, CleanInv, WriteRow, ~locked
  PROVE  CleanInv'
<1> USE MonitoringConstants DEF cleaning
<1>1. ~locked /\ marked = {} /\ rows' = rows \cup {item}
  BY DEF WriteRow, CleanInv
<1>2. UNCHANGED <<phase, byRows, clock, cleaner, todo, limitRow, locked, marked>>
  BY DEF WriteRow
<1>3. IsFiniteSet(rows')
  BY <1>1, FS_AddElement DEF CleanInv
<1>4. cleaner = "delete" => MayGo(limitRow, rows)'
  <2>1. CASE byRows
    <3>1. Newer(limitRow, rows) \subseteq Newer(limitRow, rows')
      BY <1>1 DEF Newer
    <3>2. cleaner = "delete" => Cardinality(Newer(limitRow, rows)) >= Limit
      BY <2>1 DEF CleanInv, MayGo
    <3>3. cleaner = "delete" => Cardinality(Newer(limitRow, rows')) >= Limit
      BY <1>3, <3>1, <3>2, MoreStay
    <3> QED BY <1>2, <2>1, <3>3 DEF MayGo, Newer
  <2>2. CASE ~byRows
    BY <1>2, <2>2 DEF CleanInv, MayGo
  <2> QED BY <2>1, <2>2
<1> QED BY <1>1, <1>2, <1>3, <1>4 DEF CleanInv

LEMMA TickKeeps == ASSUME TypeOK, CleanInv, Tick PROVE CleanInv'
<1> USE MonitoringConstants DEF memory, cleaning, file
<1>1. clock' = clock + 1 /\ UNCHANGED <<phase, byRows, rows, cleaning>> /\ clock \in Nat
  BY DEF Tick, TypeOK
<1>2. ASSUME NEW v \in marked PROVE MayGo(v, rows \ marked)'
  <2>1. v[2] \in Nat /\ MayGo(v, rows \ marked)
    BY DEF CleanInv, TypeOK, Value
  <2> QED BY <1>1, <2>1 DEF MayGo, Newer
<1>3. cleaner = "delete" => MayGo(limitRow, rows)'
  <2> SUFFICES ASSUME cleaner = "delete" PROVE MayGo(limitRow, rows)'
    OBVIOUS
  <2>1. limitRow[2] \in Int /\ MayGo(limitRow, rows)
    BY DEF CleanInv, TypeOK
  <2> QED BY <1>1, <2>1 DEF MayGo, Newer
<1> QED BY <1>1, <1>2, <1>3 DEF CleanInv

LEMMA CleanStep ==
  ASSUME TypeOK, CleanInv, [Next]_vars
  PROVE  CleanInv'
<1> USE DEF memory, cleaning, file
<1>1. ASSUME UNCHANGED <<byRows, clock, rows, cleaning>>,
             phase' \in {"off", "loading"} => phase \in {"off", "loading"}
      PROVE  CleanInv'
  BY <1>1 DEF CleanInv, MayGo, Newer
<1>2. CASE \/ \E w \in Workers : Store(w) \/ \E n \in Names : Put(w, n)
           \/ WriterGet \/ Acquire \/ CreateTable \/ AddTable \/ (WriteRow /\ locked)
           \/ CopyBegin \/ CopyEnd \/ Load \/ BeginStop \/ UNCHANGED vars
  <2> /\ UNCHANGED <<byRows, clock, rows, cleaning>>
      /\ phase' \in {"off", "loading"} => phase \in {"off", "loading"}
    BY <1>2 DEF Store, Put, WriterGet, Acquire, CreateTable, AddTable, WriteRow,
                CopyBegin, CopyEnd, Load, BeginStop, vars
  <2> QED BY <1>1
<1>3. CASE CleanStart \/ CleanInterrupted
  BY <1>3 DEF CleanStart, CleanInterrupted, PassEnds, CleanInv
<1>4. CASE CleanCommit
  <2>1. IsFiniteSet(rows')
    BY <1>4, FS_Subset DEF CleanCommit, CleanInv
  <2> QED BY <1>4, <2>1 DEF CleanCommit, PassEnds, CleanInv
<1>5. CASE Notify \/ Startup
  BY <1>5 DEF Notify, Startup, CleanInv, MayGo, Newer
<1>6. CASE EndStop \/ Kill
  BY <1>6, FS_EmptySet DEF EndStop, Kill, Unloaded, CleanInv
<1> QED
  BY <1>2, <1>3, <1>4, <1>5, <1>6, VisitKeeps, DeleteKeeps, WriteKeeps, TickKeeps
  DEF Next, Writer, Cleaner

-----------------------------------------------------------------------------
(* Monitoring implements Journal *)

Storable(values) == {v \in values \ {None} : v[1] \notin Unstorable}
OnQueue(q) == {q[i] : i \in DOMAIN q}

LEMMA WaitingIs ==
  Waiting = IF writer = "off" THEN {} ELSE Storable(OnQueue(queue) \cup {item})
  BY DEF Waiting, ToWrite, Storable, OnQueue, Queued, InHand

LEMMA WaitingNext ==
  Waiting' = IF writer' = "off" THEN {} ELSE Storable(OnQueue(queue') \cup {item'})
  BY DEF Waiting, ToWrite, Storable, OnQueue, Queued, InHand

(* What is given up changes only with a class or a table. *)
LEMMA SameGivenUp ==
  ASSUME UNCHANGED <<mapped, TABLES>>,
         UNCHANGED <<writer, item>> \/ (writer # "add" /\ writer' # "add")
  PROVE  GivenUp' = GivenUp
  BY DEF GivenUp

LEMMA SameCardinality == ASSUME NEW S PROVE Log!Cardinality(S) = Cardinality(S)
  BY DEF Log!Cardinality, Cardinality

LEMMA PutAccepts ==
  ASSUME TypeOK, NEW w \in Workers, NEW n \in Names, Put(w, n)
  PROVE  [Log!Next]_Log!vars
<1> DEFINE v == <<n, pending[w].time>>
<1>1. v \in Value
  BY DEF TypeOK, Call, Value
<1>2. OnQueue(queue') = {v} \cup OnQueue(queue)
  <2>1. queue \in Seq(Value \cup {None}) /\ queue' = Append(queue, v)
    BY DEF Put, TypeOK
  <2> HIDE DEF v
  <2>2. v \in Value \cup {None}
    BY <1>1
  <2>3. OnQueue(Append(queue, v)) = {v} \cup OnQueue(queue)
    BY <2>1, <2>2, Appended DEF OnQueue
  <2> QED BY <2>1, <2>3
<1>3. UNCHANGED <<writer, item, rows, byRows, clock>> /\ GivenUp' = GivenUp
  BY SameGivenUp DEF Put, file
<1> HIDE DEF v
<1>4. CASE writer = "off" \/ v[1] \in Unstorable
  <2>1. Waiting' = Waiting
    BY <1>2, <1>3, <1>4, WaitingIs, WaitingNext DEF Storable
  <2> QED BY <1>3, <2>1 DEF Log!vars
<1>5. CASE writer # "off" /\ v[1] \notin Unstorable
  <2>1. Waiting' = Waiting \cup {v}
    BY <1>1, <1>2, <1>3, <1>5, WaitingIs, WaitingNext, NoneIsNoValue DEF Storable
  <2>2. Log!Accept
    BY <1>1, <1>3, <2>1 DEF Log!Accept, Value
  <2> QED BY <2>2 DEF Log!Next
<1> QED BY <1>4, <1>5

LEMMA GetStutters ==
  ASSUME TypeOK, WriterInv, WriterGet
  PROVE  [Log!Next]_Log!vars
<1> DEFINE v == Head(queue)
<1>1. OnQueue(queue) = {v} \cup OnQueue(queue')
  <2>1. queue \in Seq(Value \cup {None}) /\ queue # <<>> /\ queue' = Tail(queue)
    BY DEF WriterGet, TypeOK
  <2>2. OnQueue(queue) = {Head(queue)} \cup OnQueue(Tail(queue))
    BY <2>1, HeadAndTail DEF OnQueue
  <2> QED BY <2>1, <2>2
<1>2. UNCHANGED <<rows, byRows, clock>> /\ writer = "get" /\ item = None
  BY DEF WriterGet, file, WriterInv
<1>6. GivenUp' = GivenUp
  BY SameGivenUp DEF WriterGet
<1>3. CASE v = None
  <2>1. Waiting' = {}
    BY <1>3, WaitingNext DEF WriterGet
  <2> QED BY <1>2, <1>6, <2>1 DEF Log!Killed, Log!Next
<1>4. CASE v # None /\ v[1] \in Unstorable
  <2>1. writer' = "get" /\ item' = None
    BY <1>2, <1>4 DEF WriterGet
  <2>2. Waiting' = Waiting
    BY <1>1, <1>2, <1>4, <2>1, WaitingIs, WaitingNext DEF Storable
  <2> QED BY <1>2, <1>6, <2>2 DEF Log!vars
<1>5. CASE v # None /\ v[1] \notin Unstorable
  <2>1. writer' # "off" /\ item' = v
    BY <1>5 DEF WriterGet
  <2>2. Waiting' = Waiting
    BY <1>1, <1>2, <1>5, <2>1, WaitingIs, WaitingNext DEF Storable
  <2> QED BY <1>2, <1>6, <2>2 DEF Log!vars
<1> QED BY <1>3, <1>4, <1>5

(* What the writer does with the value in its hand *)
LEMMA ItemWaits ==
  ASSUME TypeOK, WriterInv, writer \in {"create", "write"}
  PROVE  /\ item \in Waiting /\ item[1] \notin Unstorable
         /\ ItemDone /\ UNCHANGED queue => Waiting' \in {Waiting, Waiting \ {item}}
<1>1. item # None /\ item[1] \notin Unstorable
  BY NoneIsNoValue DEF TypeOK, WriterInv
<1>2. Waiting = Storable(OnQueue(queue)) \cup {item}
  BY <1>1, WaitingIs DEF Storable
<1>3. ASSUME ItemDone, UNCHANGED queue PROVE Waiting' = Storable(OnQueue(queue))
  BY <1>3, WaitingNext DEF Storable, ItemDone
<1> QED BY <1>1, <1>2, <1>3

LEMMA WriteKeepsOne ==
  ASSUME TypeOK, WriterInv, WriteRow
  PROVE  [Log!Next]_Log!vars
<1>1. item \in Waiting /\ Waiting' \in {Waiting, Waiting \ {item}}
  BY ItemWaits DEF WriteRow
<1>2. UNCHANGED <<byRows, clock>> /\ GivenUp' = GivenUp
  BY SameGivenUp DEF WriteRow, ItemDone
<1>3. CASE ~locked
  <2>1. Log!Keep(item)
    BY <1>1, <1>2, <1>3 DEF WriteRow, Log!Keep
  <2> QED BY <1>1, <2>1 DEF Log!Next
<1>4. CASE locked
  <2>1. Log!Refuse(item)
    BY <1>1, <1>2, <1>4 DEF WriteRow, Log!Refuse
  <2> QED BY <1>1, <2>1 DEF Log!Next
<1> QED BY <1>3, <1>4

(* A value is dropped with the class of its variable declared before, or   *)
(* with a class declared in vain because the file is locked.               *)
LEMMA CreateRefusesOne ==
  ASSUME TypeOK, WriterInv, CreateTable
  PROVE  [Log!Next]_Log!vars
<1>1. /\ writer = "create" /\ item[1] \notin TABLES
      /\ mapped' = mapped \cup {item[1]}
      /\ UNCHANGED <<byRows, clock, rows, queue, TABLES>>
  BY DEF CreateTable, WriterInv, cleaning
<1>2. CASE writer' = "add" /\ item[1] \notin mapped /\ UNCHANGED item
  <2>1. Waiting' = Waiting
    BY <1>1, <1>2, WaitingIs, WaitingNext
  <2>2. GivenUp' = GivenUp
    BY <1>1, <1>2 DEF GivenUp
  <2> QED BY <1>1, <2>1, <2>2 DEF Log!vars
<1>3. CASE ItemDone /\ (item[1] \in mapped \/ locked)
  <2>1. item \in Waiting /\ Waiting' \in {Waiting, Waiting \ {item}}
    BY <1>1, <1>3, ItemWaits
  <2>2. GivenUp' = GivenUp \cup {item[1]}
    BY <1>1, <1>3 DEF GivenUp, ItemDone
  <2>3. item[1] \in mapped => item[1] \in GivenUp
    BY <1>1 DEF GivenUp
  <2>4. Log!Refuse(item)
    BY <1>1, <1>3, <2>1, <2>2, <2>3 DEF Log!Refuse
  <2> QED BY <2>1, <2>4 DEF Log!Next
<1> QED BY <1>2, <1>3 DEF CreateTable

LEMMA CommitTrims ==
  ASSUME CleanInv, CleanCommit
  PROVE  [Log!Next]_Log!vars
<1>1. /\ rows' = rows \ marked
      /\ UNCHANGED <<byRows, clock, writer, queue, item>> /\ GivenUp' = GivenUp
  BY SameGivenUp DEF CleanCommit, memory
<1>2. Waiting' = Waiting
  BY <1>1, WaitingIs, WaitingNext
<1>3. ASSUME NEW v \in rows \ rows'
      PROVE  IF byRows THEN Cardinality(Log!Newer(v, rows')) >= Limit
             ELSE v[2] + Limit <= clock
  <2>1. v \in marked /\ rows' = rows \ marked
    BY <1>1
  <2>2. MayGo(v, rows')
    BY <2>1 DEF CleanInv
  <2> QED BY <2>2 DEF MayGo, Newer, Log!Newer
<1>4. rows' \subseteq rows
  BY <1>1
<1>5. Log!Trim
  <2>1. UNCHANGED <<Waiting, GivenUp, byRows, clock>>
    BY <1>1, <1>2
  <2>2. CASE byRows
    <3>1. \A v \in rows \ rows' : Cardinality(Log!Newer(v, rows')) >= Limit
      BY <1>3, <2>2
    <3> QED BY <1>4, <2>1, <2>2, <3>1, SameCardinality DEF Log!Trim
  <2>3. CASE ~byRows
    <3>1. \A v \in rows \ rows' : v[2] + Limit <= clock
      BY <1>3, <2>3
    <3> QED BY <1>4, <2>1, <2>3, <3>1 DEF Log!Trim
  <2> QED BY <2>2, <2>3
<1> QED BY <1>5 DEF Log!Next

LEMMA JournalStep ==
  ASSUME TypeOK, WriterInv, CleanInv, [Next]_vars
  PROVE  [Log!Next]_Log!vars
<1> USE DEF memory, cleaning, file
<1>1. ASSUME UNCHANGED <<byRows, clock, rows, writer, queue, item, mapped, TABLES>>
      PROVE  [Log!Next]_Log!vars
  <2>1. Waiting' = Waiting /\ GivenUp' = GivenUp
    BY <1>1, WaitingIs, WaitingNext, SameGivenUp
  <2> QED BY <1>1, <2>1 DEF Log!vars
<1>2. CASE \/ \E w \in Workers : Store(w)
           \/ Acquire \/ CopyBegin \/ CopyEnd \/ Load \/ UNCHANGED vars
           \/ CleanStart \/ CleanInterrupted \/ CleanDelete \/ Notify
           \/ \E n \in Names : CleanVisit(n)
  <2> UNCHANGED <<byRows, clock, rows, writer, queue, item, mapped, TABLES>>
    BY <1>2 DEF Store, Acquire, CopyBegin, CopyEnd, Load, vars, CleanStart,
                CleanInterrupted, CleanVisit, CleanDelete, Notify
  <2> QED BY <1>1
<1>3. CASE AddTable
  <2>1. /\ writer = "add" /\ writer' = "write" /\ TABLES' = TABLES \cup {item[1]}
        /\ UNCHANGED <<byRows, clock, rows, queue, item, mapped>>
    BY <1>3 DEF AddTable
  <2>2. Waiting' = Waiting
    BY <2>1, WaitingIs, WaitingNext
  <2>3. GivenUp' = GivenUp
    BY <2>1 DEF GivenUp
  <2> QED BY <2>1, <2>2, <2>3 DEF Log!vars
<1>4. CASE Startup
  <2>1. Waiting' = {} /\ UNCHANGED <<byRows, clock, rows>>
    BY <1>4, WaitingNext DEF Startup, WriterInv, Storable, OnQueue
  <2>2. GivenUp' = {}
    BY <1>4 DEF Startup, WriterInv, GivenUp
  <2> QED BY <2>1, <2>2 DEF Log!Killed, Log!Next
<1>5. CASE BeginStop
  <2>1. OnQueue(queue') = {None} \cup OnQueue(queue)
    BY <1>5, Appended DEF BeginStop, TypeOK, OnQueue
  <2>2. UNCHANGED <<byRows, clock, rows, writer, item>> /\ GivenUp' = GivenUp
    BY <1>5, SameGivenUp DEF BeginStop
  <2>3. Waiting' = Waiting
    BY <2>1, <2>2, WaitingIs, WaitingNext DEF Storable
  <2> QED BY <2>2, <2>3 DEF Log!vars
<1>6. CASE EndStop
  <2>1. Waiting' = {} /\ rows' = {} /\ UNCHANGED <<byRows, clock>>
    BY <1>6, WaitingNext DEF EndStop, Unloaded
  <2>2. GivenUp' = {}
    BY <1>6 DEF EndStop, Unloaded, GivenUp
  <2> QED BY <2>1, <2>2 DEF Log!Removed, Log!Next
<1>7. CASE Kill
  <2>1. Waiting' = {} /\ UNCHANGED <<byRows, clock, rows>>
    BY <1>7, WaitingNext DEF Kill, Unloaded
  <2>2. GivenUp' = {}
    BY <1>7 DEF Kill, Unloaded, GivenUp
  <2> QED BY <2>1, <2>2 DEF Log!Killed, Log!Next
<1>8. CASE Tick
  <2>1. UNCHANGED <<byRows, rows, writer, queue, item>> /\ clock' = clock + 1
        /\ GivenUp' = GivenUp
    BY <1>8, SameGivenUp DEF Tick
  <2>2. Waiting' = Waiting
    BY <2>1, WaitingIs, WaitingNext
  <2> QED BY <2>1, <2>2 DEF Log!Tick, Log!Next
<1> QED
  BY <1>2, <1>3, <1>4, <1>5, <1>6, <1>7, <1>8,
     PutAccepts, GetStutters, WriteKeepsOne, CreateRefusesOne, CommitTrims
  DEF Next, Writer, Cleaner

(* Nothing that a running service stored is lost but by the limit, by its  *)
(* end, when it is killed, or while a pass of the cleaning keeps the file  *)
(* for too long; and a variable is given up only when its first value is   *)
(* due in such a time.  No assumption about the length of a pass is made.  *)
(* (_writer, create_new_ts_table, clean_database, initialize_db, remove_db)*)
THEOREM StoredValuesAreKept == Spec => ImplementsJournal
<1>1. Init => Log!Init
  BY WaitingIs DEF Init, Log!Init, GivenUp
<1>2. TypeOK /\ CleanInv /\ [Next]_vars => CleanInv'
  BY CleanStep
<1>3. TypeOK /\ WriterInv /\ CleanInv /\ [Next]_vars => [Log!Next]_Log!vars
  BY JournalStep
<1> QED
  BY <1>1, <1>2, <1>3, TypeInit, TypeStep, WriterInit, WriterStep, CleanInit, PTL
  DEF Spec, ImplementsJournal, Log!Spec

-----------------------------------------------------------------------------
(* What keeps the threads of a running service going *)

Elements == {queue[i] : i \in DOMAIN queue}

(* A running service has a writer.  One that stops has told the writer to  *)
(* end, and nobody else holds what the writer needs for good.              *)
StopInv ==
    /\ phase \in {"off", "loading"} => writer = "off" /\ LOCK = "none"
    /\ phase = "up" => writer # "off" /\ None \notin Elements
    /\ phase = "stopping" => LOCK # "copy" /\ (writer = "off" \/ None \in Elements)
    /\ LOCK = "writer" => writer \in {"create", "add", "write"}

LEMMA ElementsOfPut ==
  ASSUME TypeOK, NEW w \in Workers, NEW n \in Names, Put(w, n)
  PROVE  Elements' = {<<n, pending[w].time>>} \cup Elements /\ <<n, pending[w].time>> # None
<1>1. <<n, pending[w].time>> \in Value
  BY DEF TypeOK, Call, Value
<1>2. queue \in Seq(Value \cup {None}) /\ queue' = Append(queue, <<n, pending[w].time>>)
  BY DEF TypeOK, Put
<1>3. PICK e \in Value : e = <<n, pending[w].time>>
  BY <1>1
<1>4. queue \in Seq(Value \cup {None}) /\ queue' = Append(queue, e)
  BY <1>2, <1>3
<1>5. e \in Value \cup {None}
  OBVIOUS
<1>6. Elements' = {e} \cup Elements
  BY <1>4, <1>5, Appended DEF Elements
<1> QED BY <1>3, <1>6, NoneIsNoValue

LEMMA ElementsOfStop ==
  ASSUME TypeOK, BeginStop PROVE Elements' = {None} \cup Elements
<1>1. queue \in Seq(Value \cup {None}) /\ queue' = Append(queue, None)
  BY DEF TypeOK, BeginStop
<1> QED BY <1>1, Appended DEF Elements

LEMMA ElementsOfGet ==
  ASSUME TypeOK, WriterGet PROVE Elements = {Head(queue)} \cup Elements'
<1>1. queue \in Seq(Value \cup {None}) /\ queue # <<>> /\ queue' = Tail(queue)
  BY DEF TypeOK, WriterGet
<1> QED BY <1>1, HeadAndTail DEF Elements

LEMMA StopStep ==
  ASSUME TypeOK, StopInv, [Next]_vars PROVE StopInv'
<1> USE DEF memory, cleaning, file
<1>1. ASSUME NEW w \in Workers, NEW n \in Names, Put(w, n) PROVE StopInv'
  BY <1>1, ElementsOfPut DEF Put, StopInv
<1>2. CASE WriterGet
  BY <1>2, ElementsOfGet DEF WriterGet, StopInv
<1>3. CASE BeginStop
  BY <1>3, ElementsOfStop DEF BeginStop, StopInv
<1>4. CASE Startup
  <2>1. Elements' = {}
    BY <1>4, EmptySeq DEF Startup, Elements
  <2> QED BY <1>4, <2>1 DEF Startup, StopInv
<1>5. CASE EndStop \/ Kill
  BY <1>5 DEF EndStop, Kill, Unloaded, StopInv
<1>6. CASE /\ UNCHANGED <<phase, queue>>
           /\ \/ UNCHANGED <<writer, LOCK>>
              \/ Acquire \/ CreateTable \/ AddTable \/ WriteRow \/ CopyBegin \/ CopyEnd
  BY <1>6 DEF Elements, Acquire, CreateTable, AddTable, WriteRow, ItemDone, CopyBegin,
              CopyEnd, StopInv
<1>7. CASE Load
  BY <1>7 DEF Load, StopInv
<1>8. ASSUME NEW w \in Workers, Store(w) PROVE StopInv'
  BY <1>6, <1>8 DEF Store
<1>9. CASE Cleaner
  BY <1>6, <1>9 DEF Cleaner, CleanStart, CleanInterrupted, CleanVisit,
                    CleanDelete, CleanCommit, Notify
<1>10. CASE Tick \/ UNCHANGED vars
  BY <1>6, <1>10 DEF Tick, vars
<1>11. CASE Acquire \/ CreateTable \/ AddTable \/ WriteRow \/ CopyBegin \/ CopyEnd
  BY <1>6, <1>11 DEF Acquire, CreateTable, AddTable, WriteRow, CopyBegin, CopyEnd
<1> QED
  BY <1>1, <1>2, <1>3, <1>4, <1>5, <1>7, <1>8, <1>9, <1>10, <1>11
  DEF Next, Writer

(* No stop waits for a writer that nobody has told to end, and the lock is *)
(* held by a thread that gives it back: by a copy, which a stop waits for, *)
(* or by a writer about to write.  The writer of a service that is not     *)
(* stopping never ends.  StopEnds and ValuesGetWritten add that the        *)
(* threads run on.  (remove_db, _writer, get_monitored_data_db)            *)
THEOREM StopsAreHeard == Spec => []StopInv
<1>1. Init => StopInv
  BY DEF Init, StopInv
<1> QED BY <1>1, TypeInit, TypeStep, StopStep, PTL DEF Spec

CleanerLives == Running => cleaner \notin {"off", "dead"}

(* No pass of the cleaning ends its timer, however it ends: by a commit,   *)
(* by a table that was created meanwhile, or by one with too few rows.     *)
(* Only a notification that is refused does.  CleaningGoesOn adds that the *)
(* timer keeps calling.  (call_every, clean_database)                      *)
THEOREM CleaningOutlivesPasses ==
  ASSUME ~NotifyFails PROVE Spec => []CleanerLives
<1>1. Init => CleanerLives
  BY DEF Init, CleanerLives, Running
<1>2. CleanerLives /\ [Next]_vars => CleanerLives'
  <2> SUFFICES ASSUME CleanerLives, [Next]_vars PROVE CleanerLives'
    OBVIOUS
  <2> USE DEF CleanerLives, Running, memory, cleaning, file
  <2>1. CASE Cleaner
    BY <2>1 DEF Cleaner, CleanStart, CleanInterrupted, CleanVisit, CleanDelete,
                CleanCommit, Notify, PassEnds
  <2>2. CASE Load \/ Startup \/ BeginStop \/ EndStop \/ Kill
    BY <2>2 DEF Load, Startup, BeginStop, EndStop, Kill, Unloaded
  <2>3. CASE UNCHANGED <<phase, cleaner>>
    BY <2>3
  <2>4. ASSUME NEW w \in Workers, Store(w) \/ \E n \in Names : Put(w, n)
        PROVE  UNCHANGED <<phase, cleaner>>
    BY <2>4 DEF Store, Put
  <2>5. ASSUME Writer \/ CopyBegin \/ CopyEnd \/ Tick \/ UNCHANGED vars
        PROVE  UNCHANGED <<phase, cleaner>>
    BY <2>5 DEF Writer, WriterGet, Acquire, CreateTable, AddTable, WriteRow, CopyBegin,
                CopyEnd, Tick, vars
  <2> QED BY <2>1, <2>2, <2>3, <2>4, <2>5 DEF Next
<1> QED BY <1>1, <1>2, PTL DEF Spec

-----------------------------------------------------------------------------
(* The row behind the newest ones *)

LEMMA LessIsRelation == \A a, b \in Nat : a < b => <<a, b>> \in OpToRel(<, Nat)
<1> SUFFICES ASSUME NEW a \in Nat, NEW b \in Nat, a < b
             PROVE  <<a, b>> \in {ss \in Nat \X Nat : ss[1] < ss[2]}
  BY Zenon DEF OpToRel
<1> QED BY SMT

LEMMA LeastNatural ==
  ASSUME NEW S \in SUBSET Nat, S # {}
  PROVE  \E i \in S : \A j \in S : i <= j
<1>1. PICK i \in S : \A j \in S : <<j, i>> \notin OpToRel(<, Nat)
  BY NatLessThanWellFounded, WFMin, Zenon
<1>2. \A j \in S : ~(j < i)
  BY <1>1, LessIsRelation, Zenon
<1>3. i \in Nat /\ S \subseteq Nat
  OBVIOUS
<1>4. \A j \in S : i <= j
  BY ONLY <1>2, <1>3, SMT
<1> QED BY <1>4, Zenon

(* The rows of S that are newer than its oldest row are all its others.    *)
LEMMA OldestHasNewer ==
  ASSUME TypeOK, IsFiniteSet(rows), NEW n \in Names, NEW S \in SUBSET RowsOf(n), S # {},
         \A x \in S, y \in RowsOf(n) : y[2] > x[2] => y \in S
  PROVE  \E u \in S : Cardinality(Newer(u, rows)) = Cardinality(S) - 1
<1>1. \A x \in S : /\ x \in rows /\ x[1] = n /\ x[2] \in Nat
                   /\ x = <<n, x[2]>>
  BY DEF TypeOK, Value, RowsOf
<1> DEFINE T == {x[2] : x \in S}
<1>2. T \in SUBSET Nat /\ T # {}
  BY <1>1
<1>3. PICK u \in S : \A x \in S : u[2] <= x[2]
  <2>1. PICK t \in T : \A j \in T : t <= j
    <3> HIDE DEF T
    <3> QED BY <1>2, LeastNatural
  <2> QED BY <2>1
<1>4. ASSUME NEW x \in Newer(u, rows) PROVE x \in S \ {u}
  BY <1>1 DEF Newer, RowsOf, TypeOK, Value
<1>5. ASSUME NEW x \in S \ {u} PROVE x \in Newer(u, rows)
  <2>1. u[2] # x[2]
    BY <1>1
  <2>2. x[2] > u[2]
    BY <1>1, <1>3, <2>1
  <2> QED BY <1>1, <2>2 DEF Newer
<1>6. Newer(u, rows) = S \ {u}
  BY <1>4, <1>5
<1>7. IsFiniteSet(S)
  BY FS_Subset DEF RowsOf
<1> QED BY <1>6, <1>7, FS_RemoveElement

LEMMA LimitRow ==
  ASSUME TypeOK, IsFiniteSet(rows), byRows, NEW n \in Names
  PROVE  (\E v \in RowsOf(n) : IsLimit(v)) <=> Cardinality(RowsOf(n)) > Limit
<1> Limit \in Nat
  BY MonitoringConstants
<1>1. /\ IsFiniteSet(RowsOf(n)) /\ Cardinality(RowsOf(n)) \in Nat
      /\ Cardinality(RowsOf(n)) = 0 => RowsOf(n) = {}
  BY FS_Subset, FS_CardinalityType, FS_EmptySet DEF RowsOf
<1>2. \A v \in RowsOf(n) : /\ v \in rows /\ v[1] = n /\ v[2] \in Nat
                           /\ Newer(v, rows) \subseteq RowsOf(n) \ {v}
                           /\ v \in Value
  BY DEF RowsOf, Newer, TypeOK, Value
<1> DEFINE Behind(v) == Cardinality(Newer(v, rows))
<1>3. \A v \in RowsOf(n) : IsFiniteSet(Newer(v, rows)) /\ Behind(v) \in Nat
  BY FS_Subset, FS_CardinalityType DEF Newer
<1>4. ASSUME NEW v \in RowsOf(n), IsLimit(v) PROVE Cardinality(RowsOf(n)) > Limit
  <2>1. IsFiniteSet(RowsOf(n) \ {v}) /\ Cardinality(RowsOf(n) \ {v}) = Cardinality(RowsOf(n)) - 1
    BY <1>1, FS_RemoveElement
  <2>2. Behind(v) <= Cardinality(RowsOf(n)) - 1
    BY <1>2, <2>1, FS_Subset
  <2> QED BY <1>1, <1>4, <2>2 DEF IsLimit
<1>5. ASSUME Cardinality(RowsOf(n)) > Limit PROVE \E v \in RowsOf(n) : IsLimit(v)
  <2> DEFINE Far == {Behind(v) : v \in {x \in RowsOf(n) : Behind(x) >= Limit}}
  <2>1. RowsOf(n) # {}
    BY <1>1, <1>5, FS_EmptySet
  <2>2. PICK u \in RowsOf(n) : Behind(u) = Cardinality(RowsOf(n)) - 1
    BY <2>1, OldestHasNewer
  <2>3. Behind(u) >= Limit
    BY <1>1, <1>5, <2>2
  <2>4. Far \in SUBSET Nat /\ Far # {}
    BY <1>3, <2>3
  <2>5. PICK k \in Far : \A j \in Far : k <= j
    <3> HIDE DEF Far
    <3> QED BY <2>4, LeastNatural
  <2>6. PICK v \in RowsOf(n) : k = Behind(v) /\ Behind(v) >= Limit
    BY <2>5
  <2>7. ASSUME Behind(v) > Limit PROVE FALSE
    <3>1. Newer(v, rows) \in SUBSET RowsOf(n)
      BY <1>2
    <3>2. Newer(v, rows) # {}
      BY <1>3, <2>7, FS_EmptySet
    <3>3. \A x \in Newer(v, rows), y \in RowsOf(n) : y[2] > x[2] => y \in Newer(v, rows)
      BY <1>2, <3>1 DEF Newer
    <3>4. PICK x \in Newer(v, rows) : Behind(x) = Behind(v) - 1
      BY <3>1, <3>2, <3>3, OldestHasNewer
    <3>5. x \in RowsOf(n) /\ Behind(x) >= Limit /\ Behind(x) < Behind(v)
      BY <1>3, <2>7, <3>1, <3>4
    <3>6. Behind(x) \in Far
      BY <3>5
    <3> QED BY <1>3, <2>5, <2>6, <3>5, <3>6
  <2>8. Behind(v) = Limit
    BY <1>3, <2>6, <2>7
  <2> QED BY <1>2, <2>8 DEF IsLimit
<1> QED BY <1>4, <1>5

LEMMA FiniteStep ==
  ASSUME TypeOK, IsFiniteSet(rows), [Next]_vars PROVE IsFiniteSet(rows')
<1>1. CASE UNCHANGED rows
  BY <1>1
<1>2. CASE WriteRow
  BY <1>2, FS_AddElement DEF WriteRow
<1>3. CASE CleanCommit
  BY <1>3, FS_Subset DEF CleanCommit
<1>4. CASE EndStop
  BY <1>4, FS_EmptySet DEF EndStop
<1>5. WriteRow \/ CleanCommit \/ EndStop \/ UNCHANGED rows
  BY DEF Next, Writer, Cleaner, vars, file, Store, Put, WriterGet, Acquire, CreateTable, AddTable,
         CopyBegin, CopyEnd, CleanStart, CleanInterrupted, CleanVisit, CleanDelete, Notify,
         Load, Startup, BeginStop, Kill, Tick
<1> QED BY <1>1, <1>2, <1>3, <1>4, <1>5

FindsLimitRow ==
    byRows => \A n \in Names :
        (\E v \in RowsOf(n) : IsLimit(v)) <=> Cardinality(RowsOf(n)) > Limit

(* With a limit in rows, a table has a row behind its newest ones exactly  *)
(* when it has more rows than the limit: the query of the cleaning finds   *)
(* one for every table that has something to delete, whatever was stored,  *)
(* deleted and kept before, and none, whose [0] then raises, for all other *)
(* tables.  (clean_database)                                               *)
THEOREM LimitRowIsFound == Spec => []FindsLimitRow
<1>1. Init => IsFiniteSet(rows)
  BY FS_EmptySet DEF Init
<1>2. TypeOK /\ IsFiniteSet(rows) /\ [Next]_vars => IsFiniteSet(rows)'
  BY FiniteStep
<1>3. TypeOK /\ IsFiniteSet(rows) => FindsLimitRow
  BY LimitRow DEF FindsLimitRow
<1> QED BY <1>1, <1>2, <1>3, TypeInit, TypeStep, PTL DEF Spec
=============================================================================
