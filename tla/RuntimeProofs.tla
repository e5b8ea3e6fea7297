--------------------------- MODULE RuntimeProofs ---------------------------
(***************************************************************************)
(* Proofs about Runtime, for every set of parameters, values, threads and  *)
(* calls: types, the history of parameters that are set in turns, and the  *)
(* pairs that calls store.                                                 *)
(***************************************************************************)
EXTENDS Runtime, SequenceTheorems, WellFoundedInduction, TLAPS

-----------------------------------------------------------------------------
(* Why the history follows when parameters are set in turns, each value    *)
(* at a time of its own                                                    *)

OnQueue(p, i) == i \in DOMAIN queue /\ queue[i].name = p
Stamped(w, p) == Sets(w, p) /\ pc[w] = "put"
Changing(p) == \E w \in Threads : Sets(w, p) /\ pc[w] # "assign"

SetInTurn ==
    /\ \A w \in Threads : pc[w] # "idle" => phase = "up"
    /\ \A w, x \in Threads, p \in Parameters : Sets(w, p) /\ Sets(x, p) => w = x

(* What is in the history of p, on the way there, or stamped, is of the past. *)
IsPast(p) ==
    /\ \A r \in rows[p] : r.time < clock
    /\ phase = "up" =>
          \A i \in DOMAIN queue : queue[i].name = p => queue[i].time < clock
    /\ \A w \in Threads : Stamped(w, p) => stamp[w] < clock

(* It gets there in the order of its times. *)
InOrder(p) ==
    /\ \A i, j \in DOMAIN queue :
          OnQueue(p, i) /\ OnQueue(p, j) /\ i < j => queue[i].time < queue[j].time
    /\ \A r \in rows[p], i \in DOMAIN queue : OnQueue(p, i) => r.time < queue[i].time
    /\ \A w \in Threads : Stamped(w, p) =>
          /\ \A r \in rows[p] : r.time < stamp[w]
          /\ \A i \in DOMAIN queue : OnQueue(p, i) => queue[i].time < stamp[w]

(* The last of it has the value of p, or whoever sets p has. *)
LastIsCurrent(p) ==
    /\ \A w \in Threads : Sets(w, p) /\ pc[w] # "assign" => value[w] = parameters[p]
    /\ ~Changing(p) =>
          /\ \A i \in DOMAIN queue :
                OnQueue(p, i) /\ (\A j \in DOMAIN queue : OnQueue(p, j) => j <= i)
                  => queue[i].value = parameters[p]
          /\ (\A i \in DOMAIN queue : ~OnQueue(p, i)) =>
                \A r \in rows[p] :
                    Newest(p, r) /\ r.time >= started => r.value = parameters[p]

(* Under turns, what is stored of a parameter is stored in the order of    *)
(* its times, and the last of it is the value the parameter has.           *)
(* (update_parameter, store, _writer)                                      *)
HistoryInv ==
    /\ SetInTurn
    /\ \A p \in Parameters :
          /\ IsPast(p)
          /\ phase = "up" => InOrder(p) /\ LastIsCurrent(p)

-----------------------------------------------------------------------------
(* Sequences and numbers *)

LEMMA Appended ==
  ASSUME NEW S, NEW s \in Seq(S), NEW e \in S
  PROVE  /\ Append(s, e) \in Seq(S)
         /\ DOMAIN s = 1..Len(s) /\ DOMAIN Append(s, e) = 1..(Len(s) + 1)
         /\ Len(s) \in Nat
         /\ \A i \in 1..Len(s) : Append(s, e)[i] = s[i]
         /\ Append(s, e)[Len(s) + 1] = e
  BY LenProperties, AppendProperties

LEMMA HeadAndTail ==
  ASSUME NEW S, NEW s \in Seq(S), s # <<>>
  PROVE  /\ Head(s) \in S /\ Tail(s) \in Seq(S) /\ Head(s) = s[1]
         /\ DOMAIN s = 1..Len(s) /\ DOMAIN Tail(s) = 1..(Len(s) - 1)
         /\ Len(s) \in Nat \ {0}
         /\ \A i \in 1..(Len(s) - 1) : Tail(s)[i] = s[i + 1]
  BY EmptySeq, LenProperties, HeadTailProperties

LEMMA NoEntry ==
  /\ <<>> \in Seq(Entry) /\ DOMAIN <<>> = {}
  OBVIOUS

LEMMA TimeIsNat ==
  /\ 0 \in Times
  /\ \A t \in Times : t \in Nat /\ (t < MaxTime => t + 1 \in Times)
  BY RuntimeConstants DEF Times

LEMMA ClockIsNat == TypeOK => clock \in Nat /\ started \in Nat
  BY TimeIsNat DEF TypeOK

-----------------------------------------------------------------------------
LEMMA TypeInit == Init => TypeOK
  BY RuntimeConstants, NoEntry, TimeIsNat DEF Init, TypeOK, Names, Actors

LEMMA PutType ==
  ASSUME TypeOK, NEW n \in Names, NEW t \in Times, NEW v \in Values, Put(n, t, v)
  PROVE  queue' \in Seq(Entry)
<1>1. [name |-> n, time |-> t, value |-> v] \in Entry
  BY DEF Entry
<1> QED BY <1>1, Appended DEF Put, TypeOK

LEMMA ClockType ==
  ASSUME TypeOK, NEW w \in Threads, Stamp(w)
  PROVE  clock' \in Times /\ clock' >= clock
  BY RuntimeConstants DEF TypeOK, Stamp, Times

LEMMA WriteType ==
  ASSUME TypeOK, Write
  PROVE  queue' \in Seq(Entry) /\ rows' \in [Names -> SUBSET Row]
<1>1. Head(queue) \in Entry /\ Tail(queue) \in Seq(Entry)
  BY HeadAndTail DEF TypeOK, Write
<1>2. [time |-> Head(queue).time, value |-> Head(queue).value] \in Row
      /\ Head(queue).name \in Names
  BY <1>1 DEF Entry, Row
<1> QED BY <1>1, <1>2 DEF TypeOK, Write

LEMMA IdleType ==
  ASSUME Unloaded, TypeOK, rows' \in [Names -> SUBSET Row]
  PROVE  TypeOK'
  BY NoEntry, RuntimeConstants, TimeIsNat DEF Unloaded, Idle, TypeOK, Actors

LEMMA TypeStep == TypeOK /\ [Next]_vars => TypeOK'
<1> SUFFICES ASSUME TypeOK, [Next]_vars PROVE TypeOK'
  OBVIOUS
<1> USE RuntimeConstants
<1>1. ASSUME NEW w \in Threads, NEW p \in Parameters, NEW v \in Values, BeginSet(w, p, v)
      PROVE  TypeOK'
  BY <1>1 DEF BeginSet, Goto, TypeOK, Actors
<1>2. ASSUME NEW w \in Threads, Assign(w) PROVE TypeOK'
  <2>1. name[w] \in Parameters /\ value[w] \in Values
    BY <1>2 DEF Assign, TypeOK, Actors
  <2> QED BY <1>2, <2>1 DEF Assign, Goto, TypeOK, Actors
<1>3. ASSUME NEW w \in Threads, Stamp(w) PROVE TypeOK'
  BY <1>3, ClockType DEF Stamp, Goto, TypeOK, Actors
<1>4. ASSUME NEW w \in Threads, StoreSet(w) PROVE TypeOK'
  <2>1. name[w] \in Names /\ value[w] \in Values /\ stamp[w] \in Times
    BY <1>4 DEF StoreSet, TypeOK, Actors, Names
  <2>2. queue' \in Seq(Entry)
    BY <1>4, <2>1, PutType DEF StoreSet
  <2> QED BY <1>4, <2>2 DEF StoreSet, Goto, TypeOK, Actors
<1>5. ASSUME NEW c \in Calls, NEW v \in Values, BeginCall(c, v) PROVE TypeOK'
  BY <1>5 DEF BeginCall, Goto, TypeOK, Actors
<1>6. ASSUME NEW c \in Calls, CallFails(c) PROVE TypeOK'
  BY <1>6 DEF CallFails, Goto, TypeOK, Actors
<1>7. ASSUME NEW c \in Calls, Return(c) PROVE TypeOK'
  BY <1>7, ClockType DEF Return, Goto, TypeOK, Actors
<1>8. ASSUME NEW c \in Calls, StoreRequest(c) PROVE TypeOK'
  <2>1. Request \in Names /\ value[c] \in Values /\ stamp[c] \in Times
    BY <1>8 DEF StoreRequest, TypeOK, Actors, Names
  <2>2. queue' \in Seq(Entry)
    BY <1>8, <2>1, PutType DEF StoreRequest
  <2> QED BY <1>8, <2>2 DEF StoreRequest, Goto, TypeOK, Actors
<1>9. ASSUME NEW c \in Calls, StoreResponse(c) PROVE TypeOK'
  <2>1. Response \in Names /\ value[c] \in Values /\ stamp[c] \in Times
    BY <1>9 DEF StoreResponse, TypeOK, Actors, Names
  <2>2. queue' \in Seq(Entry)
    BY <1>9, <2>1, PutType DEF StoreResponse
  <2> QED BY <1>9, <2>2 DEF StoreResponse, Goto, TypeOK, Actors
<1>10. CASE Write
  BY <1>10, WriteType DEF Write, TypeOK, work
<1>11. CASE Load
  BY <1>11 DEF Load, TypeOK, work
<1>12. ASSUME NEW p \in Parameters, AddParameter(p) PROVE TypeOK'
  <2>1. Initial[p] \in Values /\ p \in Names /\ clock \in Times
    BY DEF TypeOK, Names
  <2>2. queue' \in Seq(Entry)
    BY <1>12, <2>1, PutType DEF AddParameter
  <2> QED BY <1>12, <2>1, <2>2, ClockType DEF AddParameter, TypeOK, work
<1>13. CASE Startup
  BY <1>13, NoEntry, TimeIsNat DEF Startup, TypeOK, work
<1>14. CASE Stop
  <2>1. rows' \in [Names -> SUBSET Row]
    BY <1>14 DEF Stop
  <2> QED BY <1>14, <2>1, IdleType DEF Stop
<1>15. CASE Kill
  <2>1. rows' \in [Names -> SUBSET Row]
    BY <1>15 DEF Kill, TypeOK
  <2> QED BY <1>15, <2>1, IdleType DEF Kill
<1>16. CASE Tick
  BY <1>16, TimeIsNat DEF Tick, TypeOK, work
<1>17. CASE UNCHANGED vars
  BY <1>17 DEF vars, work, TypeOK
<1> QED
  BY <1>1, <1>2, <1>3, <1>4, <1>5, <1>6, <1>7, <1>8, <1>9, <1>10, <1>11, <1>12,
     <1>13, <1>14, <1>15, <1>16, <1>17 DEF Next, Set, CallStep

(* Every variable keeps its type.  (service.py) *)
THEOREM TypeCorrect == Spec => []TypeOK
  BY TypeInit, TypeStep, PTL DEF Spec

-----------------------------------------------------------------------------
(* What an action leaves as it is to thread w, and to the queue of p. *)

SameThread(w) ==
    /\ pc'[w] = pc[w] /\ name'[w] = name[w]
    /\ value'[w] = value[w] /\ stamp'[w] = stamp[w]

SameQueue(p) ==
    \A i : /\ OnQueue(p, i)' <=> OnQueue(p, i)
           /\ OnQueue(p, i) => queue'[i] = queue[i]

LEMMA QueueNumbers == TypeOK => \A i \in DOMAIN queue : i \in Nat /\ queue[i].time \in Nat
<1> SUFFICES ASSUME TypeOK, NEW i \in DOMAIN queue PROVE i \in Nat /\ queue[i].time \in Nat
  OBVIOUS
<1>1. queue \in Seq(Entry) /\ DOMAIN queue = 1..Len(queue) /\ Len(queue) \in Nat
  BY LenProperties DEF TypeOK
<1>2. queue[i] \in Entry
  BY <1>1, ElementOfSeq
<1> QED BY <1>1, <1>2, TimeIsNat DEF Entry

LEMMA RowNumbers ==
  TypeOK => \A p \in Parameters : \A r \in rows[p] : r.time \in Nat
  BY TimeIsNat DEF TypeOK, Names, Row

(* The invariant of p looks at the threads, at its value, its rows and its *)
(* queue only.                                                             *)
LEMMA Frame ==
  ASSUME TypeOK, TypeOK', HistoryInv, NEW p \in Parameters,
         phase' = phase, started' = started, clock' >= clock,
         parameters'[p] = parameters[p], rows'[p] = rows[p], SameQueue(p),
         \A w \in Threads : Sets(w, p) \/ Sets(w, p)' => SameThread(w)
  PROVE  /\ IsPast(p)'
         /\ phase' = "up" => InOrder(p)' /\ LastIsCurrent(p)'
<1>1. \A w \in Threads : Sets(w, p)' <=> Sets(w, p)
  BY DEF Sets, SameThread
<1>2. \A w \in Threads : Sets(w, p) => SameThread(w)
  OBVIOUS
<1>3. \A w \in Threads : Stamped(w, p)' <=> Stamped(w, p)
  BY <1>1, <1>2 DEF Stamped, SameThread
<1>4. Changing(p)' <=> Changing(p)
  BY <1>1, <1>2 DEF Changing, SameThread
<1>5. clock \in Nat /\ clock' \in Nat
  BY TimeIsNat DEF TypeOK
<1>6. \A w \in Threads : stamp[w] \in Times
  BY DEF TypeOK, Actors
<1>7. IsPast(p)'
  <2>1. \A r \in rows'[p] : r.time < clock'
    BY <1>5, RowNumbers DEF HistoryInv, IsPast
  <2>2. phase' = "up" =>
           \A i \in DOMAIN queue' : queue'[i].name = p => queue'[i].time < clock'
    <3> SUFFICES ASSUME phase' = "up", NEW i \in DOMAIN queue', queue'[i].name = p
                 PROVE  queue'[i].time < clock'
      OBVIOUS
    <3>1. OnQueue(p, i)
      BY DEF OnQueue, SameQueue
    <3>2. queue'[i] = queue[i] /\ i \in DOMAIN queue /\ queue[i].time \in Nat
      BY <3>1, QueueNumbers DEF SameQueue, OnQueue
    <3> QED BY <1>5, <3>1, <3>2 DEF HistoryInv, IsPast, OnQueue
  <2>3. \A w \in Threads : Stamped(w, p)' => stamp'[w] < clock'
    BY <1>2, <1>3, <1>5, <1>6, TimeIsNat DEF HistoryInv, IsPast, SameThread, Stamped
  <2> QED BY <2>1, <2>2, <2>3 DEF IsPast
<1>8. ASSUME phase' = "up" PROVE InOrder(p)'
  BY <1>2, <1>3, <1>8 DEF HistoryInv, InOrder, SameQueue, OnQueue, SameThread, Stamped
<1>9. ASSUME phase' = "up" PROVE LastIsCurrent(p)'
  <2>1. LastIsCurrent(p)
    BY <1>9 DEF HistoryInv
  <2>2. \A w \in Threads : Sets(w, p)' /\ pc'[w] # "assign" => value'[w] = parameters'[p]
    BY <1>1, <1>2, <2>1 DEF LastIsCurrent, SameThread
  <2>3. ASSUME ~Changing(p)', NEW i \in DOMAIN queue', OnQueue(p, i)',
               \A j \in DOMAIN queue' : OnQueue(p, j)' => j <= i
        PROVE  queue'[i].value = parameters'[p]
    BY <1>4, <2>1, <2>3 DEF LastIsCurrent, SameQueue, OnQueue
  <2>4. ASSUME ~Changing(p)', \A i \in DOMAIN queue' : ~OnQueue(p, i)',
               NEW r \in rows'[p], Newest(p, r)', r.time >= started'
        PROVE  r.value = parameters'[p]
    BY <1>4, <2>1, <2>4 DEF LastIsCurrent, SameQueue, OnQueue, Newest
  <2> QED BY <2>2, <2>3, <2>4 DEF LastIsCurrent
<1> QED BY <1>7, <1>8, <1>9

LEMMA SameQueueStays == UNCHANGED queue => \A p \in Parameters : SameQueue(p)
  BY DEF SameQueue, OnQueue

LEMMA OtherAppended ==
  ASSUME TypeOK, NEW n \in Names, NEW t \in Times, NEW v \in Values, Put(n, t, v),
         NEW p \in Parameters, p # n
  PROVE  SameQueue(p)
<1> DEFINE e == [name |-> n, time |-> t, value |-> v]
<1>1. e \in Entry /\ queue \in Seq(Entry) /\ queue' = Append(queue, e)
  BY DEF Entry, Put, TypeOK
<1> QED BY <1>1, Appended DEF SameQueue, OnQueue

-----------------------------------------------------------------------------
LEMMA HistoryInit == Init => HistoryInv
  BY NoEntry DEF Init, HistoryInv, SetInTurn, IsPast, Stamped, Sets, Actors, Names

(* What sets no parameter and touches no row keeps the invariant. *)
LEMMA OthersKeep ==
  ASSUME TypeOK, TypeOK', HistoryInv, phase' = phase, started' = started,
         clock' >= clock, parameters' = parameters, rows' = rows,
         \A p \in Parameters : SameQueue(p),
         \A w \in Threads : SameThread(w)
  PROVE  HistoryInv'
<1>1. SetInTurn'
  BY DEF HistoryInv, SetInTurn, Sets, SameThread
<1>2. ASSUME NEW p \in Parameters
      PROVE  IsPast(p)' /\ (phase' = "up" => InOrder(p)' /\ LastIsCurrent(p)')
  <2>1. parameters'[p] = parameters[p] /\ rows'[p] = rows[p] /\ SameQueue(p)
    OBVIOUS
  <2>2. \A w \in Threads : Sets(w, p) \/ Sets(w, p)' => SameThread(w)
    OBVIOUS
  <2> QED BY <2>1, <2>2, Frame
<1> QED BY <1>1, <1>2 DEF HistoryInv

LEMMA BeginKeeps ==
  ASSUME TypeOK, TypeOK', HistoryInv, TakeTurns,
         NEW w \in Threads, NEW q \in Parameters, NEW v \in Values, BeginSet(w, q, v)
  PROVE  HistoryInv'
<1>1. \A x \in Threads : x # w => SameThread(x)
  BY DEF BeginSet, Goto, SameThread, TypeOK, Actors
<1>2. pc[w] = "idle" /\ pc'[w] = "assign" /\ name'[w] = q /\ phase = "up"
  BY DEF BeginSet, Goto, TypeOK, Actors
<1>3. SetInTurn'
  BY <1>1, <1>2 DEF HistoryInv, SetInTurn, Sets, SameThread, BeginSet
<1>4. ASSUME NEW p \in Parameters
      PROVE  IsPast(p)' /\ (phase' = "up" => InOrder(p)' /\ LastIsCurrent(p)')
  <2>1. SameQueue(p)
    BY SameQueueStays DEF BeginSet
  <2>2. CASE p # q
    <3>1. /\ phase' = phase /\ started' = started /\ clock' >= clock
          /\ parameters'[p] = parameters[p] /\ rows'[p] = rows[p]
      BY <1>2, <2>1, <2>2, ClockIsNat DEF BeginSet, TypeOK
    <3>2. \A x \in Threads : Sets(x, p) \/ Sets(x, p)' => SameThread(x)
      <4>1. ~Sets(w, p) /\ ~Sets(w, p)'
        BY <1>2, <2>2 DEF Sets, BeginSet
      <4> QED BY <1>1, <4>1 DEF Sets
    <3> QED BY <2>1, <3>1, <3>2, Frame
  <2>3. CASE p = q
    <3>1. \A x \in Threads : ~Sets(x, p) /\ (x # w => ~Sets(x, p)')
      BY <1>1, <2>3 DEF BeginSet, Sets, SameThread
    <3>2. ~Changing(p)' /\ ~Changing(p) /\ \A x \in Threads : ~Stamped(x, p)'
      BY <1>2, <3>1 DEF Changing, Stamped
    <3>3. IsPast(p) /\ InOrder(p) /\ LastIsCurrent(p)
      BY <1>2 DEF HistoryInv
    <3> QED
      BY <1>2, <3>1, <3>2, <3>3
      DEF BeginSet, IsPast, InOrder, LastIsCurrent, OnQueue, Newest
  <2> QED BY <2>2, <2>3
<1> QED BY <1>3, <1>4 DEF HistoryInv

LEMMA AssignKeeps ==
  ASSUME TypeOK, TypeOK', HistoryInv, NEW w \in Threads, Assign(w)
  PROVE  HistoryInv'
<1>1. \A x \in Threads : x # w => SameThread(x)
  BY DEF Assign, Goto, SameThread, TypeOK, Actors
<1>2. /\ pc[w] = "assign" /\ pc'[w] = "stamp" /\ phase = "up"
      /\ name' = name /\ value' = value /\ stamp' = stamp /\ name[w] \in Parameters
  BY DEF Assign, Goto, TypeOK, Actors, HistoryInv, SetInTurn
<1>3. SetInTurn'
  BY <1>1, <1>2 DEF HistoryInv, SetInTurn, Sets, SameThread, Assign
<1>4. ASSUME NEW p \in Parameters
      PROVE  IsPast(p)' /\ (phase' = "up" => InOrder(p)' /\ LastIsCurrent(p)')
  <2>1. SameQueue(p)
    BY SameQueueStays DEF Assign
  <2>2. CASE p # name[w]
    <3>1. /\ phase' = phase /\ started' = started /\ clock' >= clock
          /\ parameters'[p] = parameters[p] /\ rows'[p] = rows[p]
      BY <1>2, <2>1, <2>2, ClockIsNat DEF Assign, TypeOK
    <3>2. \A x \in Threads : Sets(x, p) \/ Sets(x, p)' => SameThread(x)
      <4>1. ~Sets(w, p) /\ ~Sets(w, p)'
        BY <1>2, <2>2 DEF Sets, Assign
      <4> QED BY <1>1, <4>1 DEF Sets
    <3> QED BY <2>1, <3>1, <3>2, Frame
  <2>3. CASE p = name[w]
    <3>1. Sets(w, p) /\ Sets(w, p)'
      BY <1>2, <2>3 DEF Sets
    <3>2. \A x \in Threads : x # w => ~Sets(x, p) /\ ~Sets(x, p)'
      BY <1>1, <3>1 DEF HistoryInv, SetInTurn, Sets, SameThread
    <3>3. Changing(p)' /\ \A x \in Threads : ~Stamped(x, p)'
      BY <1>2, <3>1, <3>2 DEF Changing, Stamped
    <3>4. parameters'[p] = value'[w]
      BY <2>3 DEF Assign, TypeOK
    <3>5. IsPast(p) /\ InOrder(p)
      BY <1>2 DEF HistoryInv
    <3>6. LastIsCurrent(p)'
      BY <3>2, <3>3, <3>4 DEF LastIsCurrent
    <3> QED
      BY <3>3, <3>5, <3>6 DEF Assign, IsPast, InOrder, OnQueue
  <2> QED BY <2>2, <2>3
<1> QED BY <1>3, <1>4 DEF HistoryInv

LEMMA StampKeeps ==
  ASSUME TypeOK, TypeOK', HistoryInv, ClockAdvances, NEW w \in Threads, Stamp(w)
  PROVE  HistoryInv'
<1>1. \A x \in Threads : x # w => SameThread(x)
  BY DEF Stamp, Goto, SameThread, TypeOK, Actors
<1>2. /\ pc[w] = "stamp" /\ pc'[w] = "put" /\ phase = "up" /\ stamp'[w] = clock
      /\ name' = name /\ value' = value /\ name[w] \in Parameters
      /\ clock' = clock + 1 /\ clock \in Nat
  BY TimeIsNat DEF Stamp, Goto, TypeOK, Actors, HistoryInv, SetInTurn
<1>3. SetInTurn'
  BY <1>1, <1>2 DEF HistoryInv, SetInTurn, Sets, SameThread, Stamp
<1>4. ASSUME NEW p \in Parameters
      PROVE  IsPast(p)' /\ (phase' = "up" => InOrder(p)' /\ LastIsCurrent(p)')
  <2>1. SameQueue(p) /\ clock' >= clock
    BY <1>2, SameQueueStays DEF Stamp
  <2>2. CASE p # name[w]
    <3>1. /\ phase' = phase /\ started' = started /\ clock' >= clock
          /\ parameters'[p] = parameters[p] /\ rows'[p] = rows[p]
      BY <1>2, <2>1, <2>2 DEF Stamp, TypeOK
    <3>2. \A x \in Threads : Sets(x, p) \/ Sets(x, p)' => SameThread(x)
      <4>1. ~Sets(w, p) /\ ~Sets(w, p)'
        BY <1>2, <2>2 DEF Sets, Stamp
      <4> QED BY <1>1, <4>1 DEF Sets
    <3> QED BY <2>1, <3>1, <3>2, Frame
  <2>3. CASE p = name[w]
    <3>1. Sets(w, p) /\ Sets(w, p)'
      BY <1>2, <2>3 DEF Sets
    <3>2. \A x \in Threads : x # w => ~Sets(x, p) /\ ~Sets(x, p)'
      BY <1>1, <3>1 DEF HistoryInv, SetInTurn, Sets, SameThread
    <3>3. Changing(p)' /\ \A x \in Threads : Stamped(x, p)' => x = w
      BY <1>2, <3>1, <3>2 DEF Changing, Stamped
    <3>4. IsPast(p) /\ InOrder(p) /\ LastIsCurrent(p)
      BY <1>2 DEF HistoryInv
    <3>5. LastIsCurrent(p)'
      BY <1>2, <3>1, <3>2, <3>3, <3>4 DEF LastIsCurrent, Stamp
    <3>6. IsPast(p)'
      BY <1>2, <3>3, <3>4, RowNumbers, QueueNumbers DEF IsPast, Stamp
    <3>7. InOrder(p)'
      BY <1>2, <3>3, <3>4 DEF InOrder, IsPast, OnQueue, Stamp
    <3> QED BY <3>5, <3>6, <3>7
  <2> QED BY <2>2, <2>3
<1> QED BY <1>3, <1>4 DEF HistoryInv

LEMMA StoreKeeps ==
  ASSUME TypeOK, TypeOK', HistoryInv, NEW w \in Threads, StoreSet(w)
  PROVE  HistoryInv'
<1>1. \A x \in Threads : x # w => SameThread(x)
  BY DEF StoreSet, Goto, SameThread, TypeOK, Actors
<1>2. /\ pc[w] = "put" /\ pc'[w] = "idle" /\ phase = "up"
      /\ name' = name /\ value' = value /\ stamp' = stamp
      /\ name[w] \in Parameters /\ value[w] \in Values /\ stamp[w] \in Times
  BY DEF StoreSet, Goto, TypeOK, Actors, HistoryInv, SetInTurn
<1>3. SetInTurn'
  BY <1>1, <1>2 DEF HistoryInv, SetInTurn, Sets, SameThread, StoreSet
<1>4. ASSUME NEW p \in Parameters
      PROVE  IsPast(p)' /\ (phase' = "up" => InOrder(p)' /\ LastIsCurrent(p)')
  <2>1. CASE p # name[w]
    <3>1. SameQueue(p)
      BY <1>2, <2>1, OtherAppended DEF StoreSet, Names
    <3>2. /\ phase' = phase /\ started' = started /\ clock' >= clock
          /\ parameters'[p] = parameters[p] /\ rows'[p] = rows[p]
      BY ClockIsNat DEF StoreSet, TypeOK
    <3>3. \A x \in Threads : Sets(x, p) \/ Sets(x, p)' => SameThread(x)
      <4>1. ~Sets(w, p) /\ ~Sets(w, p)'
        BY <1>2, <2>1 DEF Sets
      <4> QED BY <1>1, <4>1 DEF Sets
    <3> QED BY <3>1, <3>2, <3>3, Frame
  <2>2. CASE p = name[w]
    <3> DEFINE e == [name |-> p, time |-> stamp[w], value |-> value[w]]
    <3> PICK n \in Nat : n = Len(queue) + 1
      BY LenProperties DEF TypeOK
    <3>1. /\ DOMAIN queue = 1..Len(queue) /\ DOMAIN queue' = 1..n /\ Len(queue) \in Nat
          /\ \A i \in DOMAIN queue : queue'[i] = queue[i]
          /\ queue'[n] = e
      <4>1. e \in Entry /\ queue \in Seq(Entry) /\ queue' = Append(queue, e)
        BY <1>2, <2>2 DEF Entry, Put, TypeOK, StoreSet, Names
      <4> QED BY <4>1, Appended
    <3>2. e.name = p /\ e.time = stamp[w] /\ e.value = value[w]
      OBVIOUS
    <3> HIDE DEF e
    <3>3. \A i \in DOMAIN queue' : i = n \/ (i \in DOMAIN queue /\ i < n)
      <4> SUFFICES ASSUME NEW i \in 1..n, i # n PROVE i \in 1..Len(queue) /\ i < n
        BY <3>1
      <4> QED BY <3>1
    <3>4. Sets(w, p) /\ Stamped(w, p) /\ \A x \in Threads : ~Sets(x, p)'
      BY <1>1, <1>2, <2>2 DEF HistoryInv, SetInTurn, Sets, Stamped, SameThread
    <3>5. ~Changing(p)' /\ \A x \in Threads : ~Stamped(x, p)'
      BY <3>4 DEF Changing, Stamped
    <3>6. IsPast(p) /\ InOrder(p) /\ LastIsCurrent(p)
      BY <1>2 DEF HistoryInv
    <3>7. IsPast(p)'
      BY <3>1, <3>2, <3>3, <3>4, <3>5, <3>6 DEF IsPast, StoreSet
    <3>8. InOrder(p)'
      <4>1. \A i, j \in DOMAIN queue' :
               OnQueue(p, i)' /\ OnQueue(p, j)' /\ i < j => queue'[i].time < queue'[j].time
        BY <3>1, <3>2, <3>3, <3>4, <3>6 DEF InOrder, OnQueue
      <4>2. \A r \in rows'[p], i \in DOMAIN queue' : OnQueue(p, i)' => r.time < queue'[i].time
        BY <3>1, <3>2, <3>3, <3>4, <3>6 DEF InOrder, OnQueue, StoreSet
      <4> QED BY <3>5, <4>1, <4>2 DEF InOrder
    <3>9. LastIsCurrent(p)'
      <4>1. value[w] = parameters'[p]
        BY <1>2, <3>4, <3>6 DEF LastIsCurrent, StoreSet
      <4>2. OnQueue(p, n)' /\ n \in DOMAIN queue'
        BY <3>1, <3>2 DEF OnQueue
      <4>3. ASSUME NEW i \in DOMAIN queue', \A j \in DOMAIN queue' : OnQueue(p, j)' => j <= i
            PROVE  queue'[i].value = parameters'[p]
        <5>1. i = n
          BY <3>1, <3>3, <4>2, <4>3
        <5> QED BY <3>1, <3>2, <4>1, <5>1
      <4> QED BY <3>4, <4>2, <4>3 DEF LastIsCurrent
    <3> QED BY <3>7, <3>8, <3>9
  <2> QED BY <2>1, <2>2
<1> QED BY <1>3, <1>4 DEF HistoryInv

-----------------------------------------------------------------------------
(* What is taken off the queue is the first entry, the others move up. *)
LEMMA Popped ==
  ASSUME TypeOK, Write
  PROVE  /\ 1 \in DOMAIN queue /\ Head(queue) = queue[1] /\ queue[1] \in Entry
         /\ \A i \in DOMAIN queue' :
               i \in Nat /\ i + 1 \in DOMAIN queue /\ queue'[i] = queue[i + 1]
         /\ \A i \in DOMAIN queue : i = 1 \/ (i - 1 \in DOMAIN queue' /\ i \in Nat)
  BY HeadAndTail DEF TypeOK, Write

LEMMA WriteKeeps ==
  ASSUME TypeOK, TypeOK', HistoryInv, Write
  PROVE  HistoryInv'
<1> DEFINE e == queue[1]
           row == [time |-> e.time, value |-> e.value]
<1>1. e.name \in Names /\ e.time \in Nat /\ phase = "up"
  BY Popped, TimeIsNat DEF Entry, Write
<1>2. SetInTurn'
  BY DEF HistoryInv, SetInTurn, Sets, Write, work
<1>3. ASSUME NEW p \in Parameters
      PROVE  IsPast(p)' /\ (phase' = "up" => InOrder(p)' /\ LastIsCurrent(p)')
  <2>1. IsPast(p) /\ InOrder(p) /\ LastIsCurrent(p)
    BY <1>1, <1>3 DEF HistoryInv
  <2>2. \A w \in Threads : (Sets(w, p)' <=> Sets(w, p)) /\ (Stamped(w, p)' <=> Stamped(w, p))
    BY DEF Sets, Stamped, Write, work
  <2>3. Changing(p)' <=> Changing(p)
    BY DEF Changing, Sets, Write, work
  <2>4. OnQueue(p, 1) <=> p = e.name
    BY Popped DEF OnQueue
  <2>5. \A i \in DOMAIN queue' : OnQueue(p, i)' <=> OnQueue(p, i + 1)
    BY Popped DEF OnQueue
  <2>6. row.time = e.time /\ row.value = e.value
    OBVIOUS
  <2>7. IF p = e.name THEN rows'[p] = rows[p] \cup {row} ELSE rows'[p] = rows[p]
    <3>1. p = e.name => \A r \in rows[p] : r.time # e.time
      BY <1>1, <2>1, <2>4, Popped, RowNumbers DEF InOrder
    <3>2. p \in Names
      BY DEF Names
    <3> QED BY <1>1, <3>1, <3>2, Popped DEF Write, TypeOK
  <2> HIDE DEF row
  <2>8. IsPast(p)'
    <3>1. \A r \in rows'[p] : r.time < clock'
      BY <2>1, <2>4, <2>6, <2>7, Popped DEF IsPast, OnQueue, Write
    <3>2. \A i \in DOMAIN queue' : queue'[i].name = p => queue'[i].time < clock'
      BY <2>1, Popped DEF IsPast, Write
    <3> QED BY <2>1, <2>2, <3>1, <3>2 DEF IsPast, Write, work
  <2>9. InOrder(p)'
    <3>1. \A i, j \in DOMAIN queue' :
             OnQueue(p, i)' /\ OnQueue(p, j)' /\ i < j => queue'[i].time < queue'[j].time
      BY <2>1, <2>5, Popped DEF InOrder
    <3>2. ASSUME NEW r \in rows'[p], NEW i \in DOMAIN queue', OnQueue(p, i)'
          PROVE  r.time < queue'[i].time
      <4>1. OnQueue(p, i + 1) /\ i + 1 \in DOMAIN queue /\ queue'[i] = queue[i + 1] /\ 1 < i + 1
        <5>1. i # 0
          BY LenProperties DEF TypeOK
        <5> QED BY <2>5, <3>2, <5>1, Popped
      <4>2. CASE r \in rows[p]
        BY <2>1, <4>1, <4>2 DEF InOrder
      <4>3. CASE r = row /\ p = e.name
        BY <2>1, <2>4, <2>6, <4>1, <4>3, Popped DEF InOrder
      <4> QED BY <2>7, <4>2, <4>3
    <3>3. ASSUME NEW w \in Threads, Stamped(w, p)'
          PROVE  /\ \A r \in rows'[p] : r.time < stamp'[w]
                 /\ \A i \in DOMAIN queue' : OnQueue(p, i)' => queue'[i].time < stamp'[w]
      <4>1. Stamped(w, p) /\ stamp' = stamp
        BY <2>2, <3>3 DEF Write, work
      <4> QED BY <2>1, <2>4, <2>5, <2>6, <2>7, <4>1, Popped DEF InOrder
    <3> QED BY <3>1, <3>2, <3>3 DEF InOrder
  <2>10. LastIsCurrent(p)'
    <3>1. parameters' = parameters /\ started' = started /\ value' = value /\ pc' = pc
      BY DEF Write, work
    <3>2. ASSUME ~Changing(p)', NEW i \in DOMAIN queue', OnQueue(p, i)',
                 \A j \in DOMAIN queue' : OnQueue(p, j)' => j <= i
          PROVE  queue'[i].value = parameters'[p]
      <4>1. i \in Nat /\ i + 1 \in DOMAIN queue /\ OnQueue(p, i + 1) /\ queue'[i] = queue[i + 1]
        BY <2>5, <3>2, Popped
      <4>2. ASSUME NEW j \in DOMAIN queue, OnQueue(p, j) PROVE j <= i + 1
        <5>1. CASE j = 1
          BY <4>1, <5>1
        <5>2. CASE j # 1
          <6>1. j - 1 \in DOMAIN queue' /\ j \in Nat /\ OnQueue(p, j - 1)'
            BY <2>5, <4>2, <5>2, Popped
          <6>2. j - 1 <= i
            BY <3>2, <6>1
          <6> QED BY <4>1, <6>1, <6>2
        <5> QED BY <5>1, <5>2
      <4> QED BY <2>1, <2>3, <3>1, <3>2, <4>1, <4>2 DEF LastIsCurrent
    <3>3. ASSUME ~Changing(p)', \A i \in DOMAIN queue' : ~OnQueue(p, i)',
                 NEW r \in rows'[p], Newest(p, r)', r.time >= started'
          PROVE  r.value = parameters'[p]
      <4>1. \A j \in DOMAIN queue : OnQueue(p, j) => j = 1
        BY <2>5, <3>3, Popped
      <4>2. CASE p = e.name
        <5>1. e.value = parameters[p]
          BY <2>1, <2>3, <2>4, <3>3, <4>1, <4>2, Popped DEF LastIsCurrent
        <5>2. row \in rows'[p] /\ row.time <= r.time
          BY <2>7, <3>3, <4>2 DEF Newest
        <5>3. r \notin rows[p]
          BY <1>1, <2>1, <2>4, <2>6, <4>2, <5>2, Popped, RowNumbers DEF InOrder
        <5> QED BY <2>6, <2>7, <3>1, <4>2, <5>1, <5>3
      <4>3. CASE p # e.name
        BY <2>1, <2>3, <2>4, <2>7, <3>1, <3>3, <4>1, <4>3 DEF LastIsCurrent, Newest
      <4> QED BY <4>2, <4>3
    <3>4. \A w \in Threads : Sets(w, p)' /\ pc'[w] # "assign" => value'[w] = parameters'[p]
      BY <2>1, <2>2, <3>1 DEF LastIsCurrent
    <3> QED BY <3>2, <3>3, <3>4 DEF LastIsCurrent
  <2> QED BY <2>8, <2>9, <2>10
<1> QED BY <1>2, <1>3 DEF HistoryInv

-----------------------------------------------------------------------------
(* Between a kill and the start nothing but the rows is left. *)

LEMMA AddKeeps ==
  ASSUME TypeOK, TypeOK', HistoryInv, NEW q \in Parameters, AddParameter(q)
  PROVE  HistoryInv'
<1>1. \A w \in Threads, p \in Parameters : ~Sets(w, p)' /\ ~Stamped(w, p)'
  BY DEF HistoryInv, SetInTurn, Sets, Stamped, AddParameter, work
<1>2. SetInTurn'
  BY <1>1 DEF HistoryInv, SetInTurn, AddParameter, work
<1>3. ASSUME NEW p \in Parameters PROVE IsPast(p)'
  BY <1>1 DEF HistoryInv, IsPast, AddParameter
<1> QED BY <1>2, <1>3 DEF HistoryInv, AddParameter

LEMMA StartupKeeps ==
  ASSUME TypeOK, TypeOK', HistoryInv, Startup
  PROVE  HistoryInv'
<1>1. \A w \in Threads, p \in Parameters : ~Sets(w, p)' /\ ~Stamped(w, p)'
  BY DEF HistoryInv, SetInTurn, Sets, Stamped, Startup, work
<1>2. DOMAIN queue' = {} /\ clock' = clock + 1 /\ started' = clock + 1 /\ clock \in Nat
  BY NoEntry, TimeIsNat DEF Startup, TypeOK
<1>3. SetInTurn'
  BY <1>1 DEF HistoryInv, SetInTurn, Startup, work
<1>4. ASSUME NEW p \in Parameters PROVE IsPast(p)' /\ InOrder(p)' /\ LastIsCurrent(p)'
  <2>1. \A r \in rows'[p] : r.time \in Nat /\ r.time < clock
    BY RowNumbers DEF HistoryInv, IsPast, Startup
  <2>2. IsPast(p)' /\ InOrder(p)'
    BY <1>1, <1>2, <2>1 DEF IsPast, InOrder
  <2> QED BY <1>1, <1>2, <2>1, <2>2 DEF LastIsCurrent
<1> QED BY <1>3, <1>4 DEF HistoryInv

LEMMA OffKeeps ==
  ASSUME TypeOK, TypeOK', HistoryInv, Unloaded,
         \A p \in Parameters : rows'[p] \subseteq rows[p]
  PROVE  HistoryInv'
<1>1. \A w \in Threads : pc'[w] = "idle"
  BY DEF Unloaded, Idle, Actors
<1>2. DOMAIN queue' = {} /\ clock' = clock /\ phase' = "off"
  BY NoEntry DEF Unloaded
<1>3. SetInTurn' /\ \A p \in Parameters : IsPast(p)'
  BY <1>1, <1>2 DEF HistoryInv, SetInTurn, Sets, Stamped, IsPast
<1> QED BY <1>2, <1>3 DEF HistoryInv

LEMMA LoadKeeps == ASSUME HistoryInv, Load PROVE HistoryInv'
<1>1. SetInTurn'
  BY DEF HistoryInv, SetInTurn, Sets, Load, work
<1>2. \A p \in Parameters : IsPast(p)'
  BY DEF HistoryInv, IsPast, Stamped, Sets, Load, work
<1> QED BY <1>1, <1>2 DEF HistoryInv, Load

LEMMA CallKeeps ==
  ASSUME TypeOK, TypeOK', HistoryInv, NEW c \in Calls,
         CallStep(c) \/ \E v \in Values : BeginCall(c, v)
  PROVE  HistoryInv'
<1>1. \A w \in Threads : SameThread(w)
  BY RuntimeConstants
  DEF CallStep, BeginCall, CallFails, Return, StoreRequest, StoreResponse, Goto,
      SameThread, TypeOK, Actors
<1>2. \A p \in Parameters : SameQueue(p)
  <2>1. CASE StoreRequest(c)
    <3>1. value[c] \in Values /\ stamp[c] \in Times /\ Request \in Names
      BY <2>1 DEF StoreRequest, TypeOK, Actors, Names
    <3> QED BY <2>1, <3>1, OtherAppended, RuntimeConstants DEF StoreRequest
  <2>2. CASE StoreResponse(c)
    <3>1. value[c] \in Values /\ stamp[c] \in Times /\ Response \in Names
      BY <2>2 DEF StoreResponse, TypeOK, Actors, Names
    <3> QED BY <2>2, <3>1, OtherAppended, RuntimeConstants DEF StoreResponse
  <2>3. CASE ~StoreRequest(c) /\ ~StoreResponse(c)
    BY <2>3, SameQueueStays DEF CallStep, BeginCall, CallFails, Return
  <2> QED BY <2>1, <2>2, <2>3
<1>3. /\ phase' = phase /\ started' = started /\ parameters' = parameters /\ rows' = rows
      /\ clock' >= clock
  BY ClockType, ClockIsNat
  DEF CallStep, BeginCall, CallFails, Return, StoreRequest, StoreResponse, TypeOK
<1> QED BY <1>1, <1>2, <1>3, OthersKeep

LEMMA HistoryStep ==
  ASSUME TypeOK, TypeOK', HistoryInv, TakeTurns, ClockAdvances, [Next]_vars
  PROVE  HistoryInv'
<1>1. ASSUME NEW w \in Threads, Set(w) PROVE HistoryInv'
  BY <1>1, AssignKeeps, StampKeeps, StoreKeeps DEF Set
<1>2. ASSUME NEW w \in Threads, NEW p \in Parameters, NEW v \in Values, BeginSet(w, p, v)
      PROVE  HistoryInv'
  BY <1>2, BeginKeeps
<1>3. ASSUME NEW p \in Parameters, AddParameter(p) PROVE HistoryInv'
  BY <1>3, AddKeeps
<1>4. CASE Stop
  BY <1>4, OffKeeps DEF Stop, Names
<1>5. CASE Kill
  BY <1>5, OffKeeps DEF Kill
<1>6. CASE Tick \/ UNCHANGED vars
  <2>1. UNCHANGED <<phase, started, parameters, queue, rows, work>> /\ clock' >= clock
    BY <1>6, ClockIsNat DEF Tick, vars, TypeOK
  <2>2. \A w \in Threads : SameThread(w)
    BY <2>1 DEF SameThread, work
  <2> QED BY <2>1, <2>2, SameQueueStays, OthersKeep
<1> QED
  BY <1>1, <1>2, <1>3, <1>4, <1>5, <1>6, CallKeeps, WriteKeeps, LoadKeeps, StartupKeeps
  DEF Next

LEMMA InvFollows == TypeOK /\ HistoryInv => HistoryFollows
<1> SUFFICES ASSUME TypeOK, HistoryInv, NEW p \in Parameters, Settled(p),
                    NEW r \in rows[p], Newest(p, r), r.time >= started
             PROVE  r.value = parameters[p]
  BY DEF HistoryFollows
<1> QED BY DEF HistoryInv, LastIsCurrent, Settled, Changing, OnQueue

(* Parameters set in turns, at times that differ, are stored in            *)
(* order and the last one stored is the last one set.  (update_parameter)  *)
THEOREM SetsAreInOrder ==
  ASSUME TakeTurns, ClockAdvances
  PROVE  Spec => []HistoryInv
  BY TypeInit, TypeStep, HistoryInit, HistoryStep, PTL DEF Spec

(* Then the history of a parameter ends with its value, for any number of  *)
(* parameters and threads.  (add_parameter, store)                         *)
THEOREM HistoriesFollow ==
  ASSUME TakeTurns, ClockAdvances
  PROVE  Spec => []HistoryFollows
  BY TypeCorrect, SetsAreInOrder, InvFollows, PTL

-----------------------------------------------------------------------------
(* Why pairs match *)

Stores(c) == pc[c] \in {"request", "response"}

(* What the history of n shows, or will show, for time t: the row, or the  *)
(* first entry on the queue.                                               *)
HasRow(n, t) == \E r \in rows[n] : r.time = t
At(n, t, i) == i \in DOMAIN queue /\ queue[i].name = n /\ queue[i].time = t
FirstAt(n, t, i) == At(n, t, i) /\ \A j \in DOMAIN queue : At(n, t, j) => i <= j
Shows(n, t, v) ==
    IF HasRow(n, t) THEN [time |-> t, value |-> v] \in rows[n]
    ELSE \E i \in DOMAIN queue : FirstAt(n, t, i) /\ queue[i].value = v

(* One call at a time stores its pair, at a time of this process; each     *)
(* time has one row.                                                       *)
LoopIsHeld ==
    /\ \A c \in Calls : (Stores(c) <=> loop = c) /\ (pc[c] # "idle" => phase = "up")
    /\ loop # None => phase = "up" /\ started <= stamp[loop] /\ stamp[loop] <= clock
    /\ started <= clock

OneRow ==
    \A n \in {Request, Response} :
        /\ \A q, r \in rows[n] : q.time = r.time => q.value = r.value
        /\ \A r \in rows[n] : r.time <= clock
        /\ \A i \in DOMAIN queue : queue[i].name = n => queue[i].time <= clock

(* A response gets to the queue, and to the rows, after a request.         *)
RequestComesFirst ==
    \A t \in Times :
        /\ HasRow(Response, t) => HasRow(Request, t)
        /\ \A j \in DOMAIN queue : At(Response, t, j) =>
              HasRow(Request, t) \/ \E i \in DOMAIN queue : At(Request, t, i) /\ i < j

(* The response to show for a time is that of the request to show; a       *)
(* request without one is that of the call that is about to store it.      *)
ShownPairs ==
    \A t \in Times, v \in Values :
        /\ Shows(Response, t, v) => Shows(Request, t, v)
        /\ phase = "up" /\ started <= t /\ Shows(Request, t, v)
           /\ (\A u \in Values : ~Shows(Response, t, u))
             => loop # None /\ pc[loop] = "response" /\ stamp[loop] = t /\ value[loop] = v

ShowsRequest ==
    \A t \in Times :
        loop # None /\ pc[loop] = "response" /\ stamp[loop] = t
          => \E v \in Values : Shows(Request, t, v)

PairsInv == LoopIsHeld /\ OneRow /\ RequestComesFirst /\ ShownPairs /\ ShowsRequest

-----------------------------------------------------------------------------
(* What the history shows for a time is there as soon as anything with     *)
(* that time is, and stays what it is.                                     *)

LEMMA QueueIs ==
  TypeOK => /\ Len(queue) \in Nat /\ DOMAIN queue = 1..Len(queue)
            /\ \A i \in DOMAIN queue : i \in Nat /\ queue[i] \in Entry
<1> SUFFICES ASSUME TypeOK
             PROVE  /\ Len(queue) \in Nat /\ DOMAIN queue = 1..Len(queue)
                    /\ \A i \in DOMAIN queue : i \in Nat /\ queue[i] \in Entry
  OBVIOUS
<1>1. queue \in Seq(Entry) /\ DOMAIN queue = 1..Len(queue) /\ Len(queue) \in Nat
  BY LenProperties DEF TypeOK
<1> QED BY <1>1, ElementOfSeq

LEMMA LessIsRelation == \A a, b \in Nat : a < b => <<a, b>> \in OpToRel(<, Nat)
<1> SUFFICES ASSUME NEW a \in Nat, NEW b \in Nat, a < b
             PROVE  <<a, b>> \in {ss \in Nat \X Nat : ss[1] < ss[2]}
  BY Zenon DEF OpToRel
<1> QED BY SMT

LEMMA LeastNatural ==
  ASSUME NEW S \in SUBSET Nat, S # {}
  PROVE  \E i \in S : \A j \in S : i <= j
<1>1. PICK i \in S : \A j \in S : <<j, i>> \notin OpToRel(<, Nat)
  BY NatLessThanWellFounded, WFMin, Zenon
<1>2. \A j \in S : ~(j < i)
  BY <1>1, LessIsRelation, Zenon
<1>3. i \in Nat /\ S \subseteq Nat
  OBVIOUS
<1>4. \A j \in S : i <= j
  BY ONLY <1>2, <1>3, SMT
<1> QED BY <1>4, Zenon

LEMMA SomethingShows ==
  ASSUME TypeOK, NEW n \in Names, NEW t \in Times,
         HasRow(n, t) \/ \E i \in DOMAIN queue : At(n, t, i)
  PROVE  \E v \in Values : Shows(n, t, v)
<1>1. CASE HasRow(n, t)
  <2>1. PICK r \in rows[n] : r.time = t
    BY <1>1 DEF HasRow
  <2>2. r.value \in Values /\ r = [time |-> t, value |-> r.value]
    BY <2>1 DEF TypeOK, Row
  <2> QED BY <1>1, <2>1, <2>2 DEF Shows
<1>2. CASE ~HasRow(n, t)
  <2> DEFINE S == {i \in DOMAIN queue : At(n, t, i)}
  <2>1. PICK i \in S : \A j \in S : i <= j
    <3>1. S \in SUBSET Nat /\ S # {}
      BY <1>2, QueueIs
    <3> HIDE DEF S
    <3> QED BY <3>1, LeastNatural
  <2>2. FirstAt(n, t, i) /\ i \in DOMAIN queue /\ queue[i].value \in Values
    BY <2>1, QueueIs DEF FirstAt, Entry
  <2> QED BY <1>2, <2>2 DEF Shows
<1> QED BY <1>1, <1>2

LEMMA ShownIsThere ==
  ASSUME NEW n, NEW t, NEW v, Shows(n, t, v)
  PROVE  HasRow(n, t) \/ \E i \in DOMAIN queue : At(n, t, i)
  BY DEF Shows, FirstAt

(* One value is shown for a time. *)
LEMMA OneIsShown ==
  ASSUME TypeOK, OneRow, NEW n \in {Request, Response}, NEW t \in Times,
         NEW u \in Values, NEW v \in Values, Shows(n, t, u), Shows(n, t, v)
  PROVE  u = v
<1>1. CASE HasRow(n, t)
  BY <1>1 DEF Shows, OneRow
<1>2. CASE ~HasRow(n, t)
  <2>1. PICK i \in DOMAIN queue : FirstAt(n, t, i) /\ queue[i].value = u
    BY <1>2 DEF Shows
  <2>2. PICK j \in DOMAIN queue : FirstAt(n, t, j) /\ queue[j].value = v
    BY <1>2 DEF Shows
  <2>3. i = j
    BY <2>1, <2>2, QueueIs DEF FirstAt
  <2> QED BY <2>1, <2>2, <2>3
<1> QED BY <1>1, <1>2

-----------------------------------------------------------------------------
(* An entry that is put on the queue is shown if nothing was. *)
LEMMA PutShows ==
  ASSUME TypeOK, NEW n \in Names, NEW t \in Times, NEW v \in Values, Put(n, t, v),
         rows' = rows
  PROVE  /\ \A m \in Names, s \in Times : HasRow(m, s)' <=> HasRow(m, s)
         /\ \A i \in DOMAIN queue : i \in DOMAIN queue' /\ queue'[i] = queue[i]
         /\ \A j \in DOMAIN queue', i \in DOMAIN queue : j \notin DOMAIN queue => i < j
         /\ (\A x \in Values : ~Shows(n, t, x)) => Shows(n, t, v)'
         /\ \A m \in Names, s \in Times, i \in DOMAIN queue' :
               At(m, s, i)' => (At(m, s, i) /\ i \in DOMAIN queue) \/ (m = n /\ s = t)
         /\ \A m \in Names, s \in Times, u \in Values :
               Shows(m, s, u) => Shows(m, s, u)'
         /\ \A m \in Names, s \in Times, u \in Values :
               Shows(m, s, u)' => \/ Shows(m, s, u)
                                  \/ /\ m = n /\ s = t /\ u = v
                                     /\ \A x \in Values : ~Shows(m, s, x)
<1> DEFINE e == [name |-> n, time |-> t, value |-> v]
<1> PICK k \in Nat : k = Len(queue) + 1
  BY QueueIs
<1>1. /\ DOMAIN queue = 1..Len(queue) /\ DOMAIN queue' = 1..k /\ Len(queue) \in Nat
      /\ \A i \in DOMAIN queue : queue'[i] = queue[i]
      /\ queue'[k] = e
  <2>1. e \in Entry /\ queue \in Seq(Entry) /\ queue' = Append(queue, e)
    BY DEF Entry, Put, TypeOK
  <2> QED BY <2>1, Appended
<1>2. e.name = n /\ e.time = t /\ e.value = v
  OBVIOUS
<1> HIDE DEF e
<1>3. \A i \in DOMAIN queue : i \in DOMAIN queue' /\ i < k
  BY <1>1
<1>4. \A i \in DOMAIN queue' : i = k \/ (i \in DOMAIN queue /\ i < k)
  <2> SUFFICES ASSUME NEW i \in 1..k, i # k PROVE i \in 1..Len(queue) /\ i < k
    BY <1>1
  <2> QED BY <1>1
<1>5. \A m \in Names, s \in Times : HasRow(m, s)' <=> HasRow(m, s)
  BY DEF HasRow
<1>6. \A m, s : \A i \in DOMAIN queue : At(m, s, i)' <=> At(m, s, i)
  BY <1>1, <1>3 DEF At
<1>7. \A m, s : At(m, s, k)' <=> m = n /\ s = t
  BY <1>1, <1>2 DEF At
<1>8. ASSUME NEW m \in Names, NEW s \in Times, NEW u \in Values, Shows(m, s, u)
      PROVE  Shows(m, s, u)'
  <2>1. CASE HasRow(m, s)
    BY <1>5, <1>8, <2>1 DEF Shows
  <2>2. CASE ~HasRow(m, s)
    <3>1. PICK i \in DOMAIN queue : FirstAt(m, s, i) /\ queue[i].value = u
      BY <1>8, <2>2 DEF Shows
    <3>2. FirstAt(m, s, i)'
      BY <1>1, <1>3, <1>4, <1>6, <3>1 DEF FirstAt
    <3> QED BY <1>1, <1>3, <1>5, <2>2, <3>1, <3>2 DEF Shows
  <2> QED BY <2>1, <2>2
<1>9. ASSUME NEW m \in Names, NEW s \in Times, NEW u \in Values, Shows(m, s, u)'
      PROVE  \/ Shows(m, s, u)
             \/ /\ m = n /\ s = t /\ u = v
                /\ \A x \in Values : ~Shows(m, s, x)
  <2>1. CASE HasRow(m, s)
    BY <1>5, <1>9, <2>1 DEF Shows
  <2>2. CASE ~HasRow(m, s)
    <3>1. PICK i \in DOMAIN queue' : FirstAt(m, s, i)' /\ queue'[i].value = u
      BY <1>5, <1>9, <2>2 DEF Shows
    <3>2. CASE i = k
      <4>1. \A j \in DOMAIN queue : ~At(m, s, j)
        BY <1>3, <1>6, <3>1, <3>2 DEF FirstAt
      <4>2. \A x \in Values : ~Shows(m, s, x)
        BY <2>2, <4>1 DEF Shows, FirstAt
      <4> QED BY <1>1, <1>2, <1>7, <3>1, <3>2, <4>2 DEF FirstAt
    <3>3. CASE i # k
      <4>1. i \in DOMAIN queue /\ FirstAt(m, s, i)
        BY <1>3, <1>4, <1>6, <3>1, <3>3 DEF FirstAt
      <4> QED BY <1>1, <2>2, <3>1, <4>1 DEF Shows
    <3> QED BY <3>2, <3>3
  <2> QED BY <2>1, <2>2
<1>10. ASSUME \A x \in Values : ~Shows(n, t, x) PROVE Shows(n, t, v)'
  <2>1. ~HasRow(n, t) /\ \A i \in DOMAIN queue : ~At(n, t, i)
    BY <1>10, SomethingShows
  <2>2. FirstAt(n, t, k)' /\ k \in DOMAIN queue'
    BY <1>1, <1>4, <1>6, <1>7, <2>1 DEF FirstAt
  <2> QED BY <1>1, <1>2, <1>5, <2>1, <2>2 DEF Shows
<1> QED BY <1>1, <1>3, <1>4, <1>5, <1>6, <1>7, <1>8, <1>9, <1>10

(* Writing moves what is first for its time from the queue to a row. *)
LEMMA WriteShows ==
  ASSUME TypeOK, Write, NEW n \in Names, NEW t \in Times
  PROVE  /\ \A v \in Values : Shows(n, t, v)' <=> Shows(n, t, v)
         /\ HasRow(n, t) => HasRow(n, t)'
         /\ HasRow(n, t)' => HasRow(n, t) \/ At(n, t, 1)
         /\ At(n, t, 1) => HasRow(n, t)'
         /\ \A i \in DOMAIN queue' : At(n, t, i)' <=> At(n, t, i + 1)
<1> DEFINE e == queue[1]
           row == [time |-> e.time, value |-> e.value]
<1>1. e \in Entry /\ Head(queue) = e /\ e.name \in Names /\ 1 \in DOMAIN queue
  BY Popped DEF Entry
<1>2. row.time = e.time /\ row.value = e.value
  OBVIOUS
<1>3. rows'[n] = IF n = e.name /\ ~HasRow(n, e.time) THEN rows[n] \cup {row} ELSE rows[n]
  BY <1>1 DEF Write, TypeOK, HasRow
<1>4. \A v : row = [time |-> t, value |-> v] <=> e.time = t /\ e.value = v
  OBVIOUS
<1> HIDE DEF row
<1>5. \A i \in DOMAIN queue' : At(n, t, i)' <=> At(n, t, i + 1)
  BY Popped DEF At
<1>6. /\ HasRow(n, t) => HasRow(n, t)'
      /\ HasRow(n, t)' => HasRow(n, t) \/ At(n, t, 1)
      /\ At(n, t, 1) => HasRow(n, t)'
  BY <1>1, <1>2, <1>3 DEF HasRow, At
<1>7. ASSUME NEW v \in Values PROVE Shows(n, t, v)' <=> Shows(n, t, v)
  <2>1. CASE HasRow(n, t)
    <3>1. [time |-> t, value |-> v] \in rows'[n] <=> [time |-> t, value |-> v] \in rows[n]
      BY <1>3, <1>4, <2>1
    <3> QED BY <1>6, <2>1, <3>1 DEF Shows
  <2>2. CASE ~HasRow(n, t) /\ At(n, t, 1)
    <3>1. FirstAt(n, t, 1) /\ \A i \in DOMAIN queue : FirstAt(n, t, i) => i = 1
      BY <2>2, QueueIs DEF FirstAt
    <3>2. Shows(n, t, v) <=> e.value = v
      BY <1>1, <2>2, <3>1 DEF Shows
    <3>3. [time |-> t, value |-> v] \notin rows[n]
      BY <2>2 DEF HasRow
    <3>4. [time |-> t, value |-> v] \in rows'[n] <=> e.value = v
      BY <1>3, <1>4, <2>2, <3>3 DEF At
    <3> QED BY <1>6, <2>2, <3>2, <3>4 DEF Shows
  <2>3. CASE ~HasRow(n, t) /\ ~At(n, t, 1)
    <3>1. ~HasRow(n, t)'
      BY <1>6, <2>3
    <3>2. ASSUME NEW i \in DOMAIN queue' PROVE FirstAt(n, t, i)' <=> FirstAt(n, t, i + 1)
      <4>1. i \in Nat /\ i + 1 \in DOMAIN queue
        BY Popped
      <4>2. ASSUME FirstAt(n, t, i)' PROVE FirstAt(n, t, i + 1)
        <5>1. ASSUME NEW j \in DOMAIN queue, At(n, t, j) PROVE i + 1 <= j
          <6>1. j # 1 /\ j \in Nat /\ j - 1 \in DOMAIN queue'
            BY <2>3, <5>1, Popped
          <6>2. At(n, t, j - 1)'
            BY <1>5, <5>1, <6>1
          <6>3. i <= j - 1
            BY <4>2, <6>1, <6>2 DEF FirstAt
          <6> QED BY <4>1, <6>1, <6>3
        <5> QED BY <1>5, <4>2, <5>1 DEF FirstAt
      <4>3. ASSUME FirstAt(n, t, i + 1) PROVE FirstAt(n, t, i)'
        <5>1. ASSUME NEW j \in DOMAIN queue', At(n, t, j)' PROVE i <= j
          <6>1. j \in Nat /\ j + 1 \in DOMAIN queue /\ At(n, t, j + 1)
            BY <1>5, <5>1, Popped
          <6>2. i + 1 <= j + 1
            BY <4>3, <6>1 DEF FirstAt
          <6> QED BY <4>1, <6>1, <6>2
        <5> QED BY <1>5, <4>3, <5>1 DEF FirstAt
      <4> QED BY <4>2, <4>3
    <3>3. \A i \in DOMAIN queue : FirstAt(n, t, i) => i - 1 \in DOMAIN queue' /\ i \in Nat
      BY <2>3, Popped DEF FirstAt
    <3>4. ASSUME NEW i \in DOMAIN queue', FirstAt(n, t, i)', queue'[i].value = v
          PROVE  Shows(n, t, v)
      BY <2>3, <3>2, <3>4, Popped DEF Shows
    <3>5. ASSUME NEW i \in DOMAIN queue, FirstAt(n, t, i), queue[i].value = v
          PROVE  Shows(n, t, v)'
      <4>1. PICK j \in DOMAIN queue' : j = i - 1
        BY <3>3, <3>5
      <4>2. j + 1 = i /\ queue'[j] = queue[i]
        BY <3>3, <3>5, <4>1, Popped
      <4>3. FirstAt(n, t, j)'
        BY <3>2, <3>5, <4>2
      <4> QED BY <3>1, <3>5, <4>2, <4>3 DEF Shows
    <3> QED BY <2>3, <3>1, <3>4, <3>5 DEF Shows
  <2> QED BY <2>1, <2>2, <2>3
<1> QED BY <1>5, <1>6, <1>7

-----------------------------------------------------------------------------
(* An action that stores nothing of a pair leaves pairs as they are. *)

PairNames == {Request, Response}

PairsStay ==
    /\ \A n \in PairNames : rows'[n] = rows[n]
    /\ \A n \in PairNames, t \in Times : HasRow(n, t)' <=> HasRow(n, t)
    /\ \A n \in PairNames, t \in Times, v \in Values : Shows(n, t, v)' <=> Shows(n, t, v)
    /\ \A i \in DOMAIN queue : i \in DOMAIN queue' /\ queue'[i] = queue[i]
    /\ \A i \in DOMAIN queue' :
          i \in DOMAIN queue \/ queue'[i].name \notin PairNames

LEMMA UnchangedStay == ASSUME UNCHANGED <<queue, rows>> PROVE PairsStay
  BY DEF PairsStay, HasRow, Shows, FirstAt, At

LEMMA ParameterStay ==
  ASSUME TypeOK, NEW p \in Parameters, NEW t \in Times, NEW v \in Values, Put(p, t, v),
         UNCHANGED rows
  PROVE  PairsStay
<1>1. p \in Names /\ p \notin PairNames /\ PairNames \subseteq Names
  BY RuntimeConstants DEF Names, PairNames
<1>2. /\ \A m \in Names, s \in Times : HasRow(m, s)' <=> HasRow(m, s)
      /\ \A i \in DOMAIN queue : i \in DOMAIN queue' /\ queue'[i] = queue[i]
  BY <1>1, PutShows
<1>3. \A m \in PairNames, s \in Times, u \in Values : Shows(m, s, u)' <=> Shows(m, s, u)
  BY <1>1, PutShows
<1>4. \A i \in DOMAIN queue' : i \in DOMAIN queue \/ queue'[i].name \notin PairNames
  <2> DEFINE e == [name |-> p, time |-> t, value |-> v]
  <2>1. e \in Entry /\ queue \in Seq(Entry) /\ queue' = Append(queue, e)
    BY <1>1 DEF Entry, Put, TypeOK
  <2>2. \A i \in DOMAIN queue' : i \in DOMAIN queue \/ queue'[i] = e
    BY <2>1, Appended
  <2>3. e.name = p
    OBVIOUS
  <2> QED BY <1>1, <2>2, <2>3
<1> QED BY <1>1, <1>2, <1>3, <1>4 DEF PairsStay

LoopStays ==
    /\ loop # None => /\ loop' = loop /\ pc'[loop] = pc[loop]
                      /\ stamp'[loop] = stamp[loop] /\ value'[loop] = value[loop]
    /\ loop' # None /\ pc'[loop'] = "response" => loop # None

LEMMA StayKeeps ==
  ASSUME TypeOK, TypeOK', PairsInv, PairsStay, LoopStays, LoopIsHeld', clock' >= clock,
         phase' = "up" => phase = "up" /\ started' = started
  PROVE  PairsInv'
<1>1. clock \in Nat /\ clock' \in Nat
  BY TimeIsNat DEF TypeOK
<1>2. OneRow'
  <2>1. ASSUME NEW n \in PairNames
        PROVE  /\ \A q, r \in rows'[n] : q.time = r.time => q.value = r.value
               /\ \A r \in rows'[n] : r.time <= clock'
               /\ \A i \in DOMAIN queue' : queue'[i].name = n => queue'[i].time <= clock'
    <3>1. /\ \A q, r \in rows[n] : q.time = r.time => q.value = r.value
          /\ \A r \in rows[n] : r.time <= clock /\ r.time \in Nat
          /\ \A i \in DOMAIN queue : queue[i].name = n =>
                queue[i].time <= clock /\ queue[i].time \in Nat
      BY QueueNumbers, TimeIsNat DEF PairsInv, OneRow, PairNames, TypeOK, Names, Row
    <3> QED BY <1>1, <3>1 DEF PairsStay
  <2> QED BY <2>1 DEF OneRow, PairNames
<1>3. RequestComesFirst'
  <2>1. ASSUME NEW n \in PairNames, NEW t \in Times, NEW i \in DOMAIN queue', At(n, t, i)'
        PROVE  i \in DOMAIN queue /\ At(n, t, i)
    BY <2>1 DEF PairsStay, At
  <2>2. ASSUME NEW n \in PairNames, NEW t \in Times, NEW i \in DOMAIN queue, At(n, t, i)
        PROVE  i \in DOMAIN queue' /\ At(n, t, i)'
    BY <2>2 DEF PairsStay, At
  <2>3. \A t \in Times : HasRow(Response, t)' => HasRow(Request, t)'
    BY DEF PairsInv, RequestComesFirst, PairsStay, PairNames
  <2>4. ASSUME NEW t \in Times, NEW j \in DOMAIN queue', At(Response, t, j)', ~HasRow(Request, t)'
        PROVE  \E i \in DOMAIN queue' : At(Request, t, i)' /\ i < j
    <3>1. j \in DOMAIN queue /\ At(Response, t, j) /\ ~HasRow(Request, t)
      BY <2>1, <2>4 DEF PairsStay, PairNames
    <3>2. PICK i \in DOMAIN queue : At(Request, t, i) /\ i < j
      BY <3>1 DEF PairsInv, RequestComesFirst
    <3> QED BY <2>2, <3>2 DEF PairNames
  <2> QED BY <2>3, <2>4 DEF RequestComesFirst
<1>4. ShownPairs'
  <2>1. \A t \in Times, v \in Values :
           /\ Shows(Response, t, v)' <=> Shows(Response, t, v)
           /\ Shows(Request, t, v)' <=> Shows(Request, t, v)
    BY DEF PairsStay, PairNames
  <2>2. \A t \in Times, v \in Values : Shows(Response, t, v)' => Shows(Request, t, v)'
    BY <2>1 DEF PairsInv, ShownPairs
  <2>3. ASSUME NEW t \in Times, NEW v \in Values, phase' = "up", started' <= t,
               Shows(Request, t, v)', \A u \in Values : ~Shows(Response, t, u)'
        PROVE  loop' # None /\ pc'[loop'] = "response" /\ stamp'[loop'] = t /\ value'[loop'] = v
    <3>1. loop # None /\ pc[loop] = "response" /\ stamp[loop] = t /\ value[loop] = v
      BY <2>1, <2>3 DEF PairsInv, ShownPairs
    <3> QED BY <3>1 DEF LoopStays
  <2> QED BY <2>2, <2>3 DEF ShownPairs
<1>5. ShowsRequest'
  <2>1. ASSUME NEW t \in Times, loop' # None, pc'[loop'] = "response", stamp'[loop'] = t
        PROVE  \E v \in Values : Shows(Request, t, v)'
    <3>1. loop # None /\ pc[loop] = "response" /\ stamp[loop] = t
      BY <2>1 DEF LoopStays
    <3>2. PICK v \in Values : Shows(Request, t, v)
      BY <3>1 DEF PairsInv, ShowsRequest
    <3> QED BY <3>2 DEF PairsStay, PairNames
  <2> QED BY <2>1 DEF ShowsRequest
<1> QED BY <1>2, <1>3, <1>4, <1>5 DEF PairsInv

-----------------------------------------------------------------------------
LEMMA PairsInit == Init => PairsInv
<1> SUFFICES ASSUME Init PROVE PairsInv
  OBVIOUS
<1>1. /\ DOMAIN queue = {} /\ loop = None /\ started <= clock
      /\ \A n \in PairNames : rows[n] = {}
  BY NoEntry DEF Init, PairNames, Names
<1>2. \A n \in PairNames : \A t, v : ~HasRow(n, t) /\ ~Shows(n, t, v)
  BY <1>1 DEF HasRow, Shows
<1>3. LoopIsHeld
  BY <1>1, RuntimeConstants DEF LoopIsHeld, Stores, Init, Actors
<1> QED
  BY <1>1, <1>2, <1>3
  DEF PairsInv, OneRow, RequestComesFirst, ShownPairs, ShowsRequest, PairNames

LEMMA SameCalls ==
  ASSUME TypeOK, TypeOK', LoopIsHeld, phase' = phase, started' = started, clock' >= clock,
         loop' = loop,
         \A c \in Calls : pc'[c] = pc[c] /\ stamp'[c] = stamp[c] /\ value'[c] = value[c]
  PROVE  LoopIsHeld' /\ LoopStays
<1>1. loop # None => loop \in Calls /\ stamp[loop] \in Nat
  BY TimeIsNat DEF TypeOK, Actors
<1>2. clock \in Nat /\ clock' \in Nat /\ started \in Nat
  BY TimeIsNat DEF TypeOK
<1>3. LoopStays
  BY <1>1 DEF LoopStays
<1>4. \A c \in Calls : (Stores(c)' <=> loop' = c) /\ (pc'[c] # "idle" => phase' = "up")
  BY DEF LoopIsHeld, Stores
<1>5. loop' # None => phase' = "up" /\ started' <= stamp'[loop'] /\ stamp'[loop'] <= clock'
  BY <1>1, <1>2 DEF LoopIsHeld
<1>6. started' <= clock'
  BY <1>2 DEF LoopIsHeld
<1> QED BY <1>3, <1>4, <1>5, <1>6 DEF LoopIsHeld

LEMMA ThreadPairs ==
  ASSUME TypeOK, TypeOK', PairsInv, NEW w \in Threads,
         Set(w) \/ \E p \in Parameters, v \in Values : BeginSet(w, p, v)
  PROVE  PairsInv'
<1>1. /\ phase' = phase /\ started' = started /\ loop' = loop
      /\ \A c \in Calls : pc'[c] = pc[c] /\ stamp'[c] = stamp[c] /\ value'[c] = value[c]
  BY RuntimeConstants DEF Set, BeginSet, Assign, Stamp, StoreSet, Goto, TypeOK, Actors
<1>2. clock' >= clock
  BY ClockType, ClockIsNat DEF Set, BeginSet, Assign, Stamp, StoreSet
<1>3. PairsStay
  <2>1. CASE StoreSet(w)
    <3>1. name[w] \in Parameters /\ stamp[w] \in Times /\ value[w] \in Values
      BY <2>1 DEF StoreSet, TypeOK, Actors
    <3> QED BY <2>1, <3>1, ParameterStay DEF StoreSet
  <2>2. CASE ~StoreSet(w)
    BY <2>2, UnchangedStay DEF Set, BeginSet, Assign, Stamp
  <2> QED BY <2>1, <2>2
<1>4. LoopIsHeld' /\ LoopStays
  BY <1>1, <1>2, SameCalls DEF PairsInv
<1> QED BY <1>1, <1>2, <1>3, <1>4, StayKeeps

(* A call that does not store yet *)
LEMMA CallPairs ==
  ASSUME TypeOK, TypeOK', PairsInv, NEW c \in Calls,
         CallFails(c) \/ Return(c) \/ \E v \in Values : BeginCall(c, v)
  PROVE  PairsInv'
<1>1. /\ phase' = phase /\ started' = started /\ clock' >= clock
      /\ ~Stores(c) /\ loop # c
      /\ \A x \in Calls : x # c =>
            pc'[x] = pc[x] /\ stamp'[x] = stamp[x] /\ value'[x] = value[x]
  BY ClockType, ClockIsNat
  DEF CallFails, Return, BeginCall, Goto, TypeOK, Actors, Stores, PairsInv, LoopIsHeld
<1>2. PairsStay
  BY UnchangedStay DEF CallFails, Return, BeginCall
<1>3. clock \in Nat /\ clock' \in Nat /\ started \in Nat
  BY TimeIsNat DEF TypeOK
<1>4. loop # None => loop \in Calls /\ loop # c /\ stamp[loop] \in Nat
  BY <1>1, TimeIsNat DEF TypeOK, Actors
<1>5. CASE Return(c)
  <2>1. /\ loop = None /\ loop' = c /\ pc'[c] = "request" /\ stamp'[c] = clock
        /\ pc[c] = "run" /\ c # None
    BY <1>5, RuntimeConstants DEF Return, Goto, TypeOK, Actors
  <2>2. phase = "up"
    BY <2>1 DEF PairsInv, LoopIsHeld
  <2>3. LoopIsHeld'
    <3>1. \A x \in Calls : (Stores(x)' <=> loop' = x) /\ (pc'[x] # "idle" => phase' = "up")
      BY <1>1, <2>1, <2>2, RuntimeConstants DEF PairsInv, LoopIsHeld, Stores
    <3>2. started' <= stamp'[loop'] /\ stamp'[loop'] <= clock' /\ started' <= clock'
      BY <1>1, <1>3, <2>1 DEF PairsInv, LoopIsHeld
    <3> QED BY <1>1, <2>2, <3>1, <3>2 DEF LoopIsHeld
  <2>4. LoopStays
    BY <2>1 DEF LoopStays
  <2> QED BY <1>1, <1>2, <2>3, <2>4, StayKeeps
<1>6. CASE ~Return(c)
  <2>1. loop' = loop /\ ~Stores(c)' /\ (pc'[c] # "idle" => phase' = "up")
    BY <1>6 DEF CallFails, BeginCall, Goto, TypeOK, Actors, Stores
  <2>2. LoopStays
    BY <1>1, <1>4, <2>1 DEF LoopStays
  <2>3. LoopIsHeld'
    <3>1. \A x \in Calls : (Stores(x)' <=> loop' = x) /\ (pc'[x] # "idle" => phase' = "up")
      BY <1>1, <2>1 DEF PairsInv, LoopIsHeld, Stores
    <3>2. loop' # None => phase' = "up" /\ started' <= stamp'[loop'] /\ stamp'[loop'] <= clock'
      BY <1>1, <1>3, <1>4, <2>1 DEF PairsInv, LoopIsHeld
    <3>3. started' <= clock'
      BY <1>1, <1>3 DEF PairsInv, LoopIsHeld
    <3> QED BY <3>1, <3>2, <3>3 DEF LoopIsHeld
  <2> QED BY <1>1, <1>2, <2>2, <2>3, StayKeeps
<1> QED BY <1>5, <1>6

LEMMA OtherPairs ==
  ASSUME TypeOK, TypeOK', PairsInv,
         Load \/ Tick \/ UNCHANGED vars \/ \E p \in Parameters : AddParameter(p)
  PROVE  PairsInv'
<1>1. /\ started' = started /\ UNCHANGED work
      /\ phase' = phase \/ (phase = "off" /\ phase' = "loading")
  BY DEF Load, Tick, vars, AddParameter
<1>2. clock' >= clock
  BY ClockType, ClockIsNat DEF Load, Tick, vars, AddParameter
<1>3. PairsStay
  <2>1. ASSUME NEW p \in Parameters, AddParameter(p) PROVE PairsStay
    <3>1. clock \in Times /\ Initial[p] \in Values
      BY RuntimeConstants DEF TypeOK
    <3> QED BY <2>1, <3>1, ParameterStay DEF AddParameter
  <2>2. CASE Load \/ Tick \/ UNCHANGED vars
    BY <2>2, UnchangedStay DEF Load, Tick, vars
  <2> QED BY <2>1, <2>2
<1>4. LoopIsHeld' /\ LoopStays
  <2>1. CASE phase' = phase
    BY <1>1, <1>2, <2>1, SameCalls DEF work, PairsInv
  <2>2. CASE phase = "off"
    <3>1. loop = None /\ loop' = None /\ pc' = pc /\ \A c \in Calls : pc[c] = "idle"
      BY <1>1, <2>2 DEF work, PairsInv, LoopIsHeld
    <3>2. started' <= clock'
      <4>1. clock \in Nat /\ clock' \in Nat /\ started \in Nat
        BY TimeIsNat DEF TypeOK
      <4> QED BY <1>1, <1>2, <4>1 DEF PairsInv, LoopIsHeld
    <3> QED BY <3>1, <3>2 DEF PairsInv, LoopIsHeld, LoopStays, Stores
  <2> QED BY <1>1, <2>1, <2>2
<1> QED BY <1>1, <1>2, <1>3, <1>4, StayKeeps

LEMMA StartupPairs ==
  ASSUME TypeOK, TypeOK', PairsInv, Startup
  PROVE  PairsInv'
<1>1. /\ DOMAIN queue' = {} /\ rows' = rows /\ loop = None /\ loop' = None /\ pc' = pc
      /\ phase' = "up" /\ clock \in Nat /\ clock' = clock + 1 /\ started' = clock'
  BY NoEntry, TimeIsNat DEF Startup, work, PairsInv, LoopIsHeld, TypeOK
<1>2. \A n \in PairNames, t \in Times : HasRow(n, t)' <=> HasRow(n, t)
  BY <1>1 DEF HasRow
<1>3. \A n \in PairNames, t \in Times, v \in Values :
         Shows(n, t, v)' <=> HasRow(n, t) /\ Shows(n, t, v)
  BY <1>1, <1>2 DEF Shows
<1>4. \A n \in PairNames, t \in Times : HasRow(n, t) => t < started'
  <2>1. \A n \in PairNames : \A r \in rows[n] : r.time <= clock /\ r.time \in Nat
    BY TimeIsNat DEF PairsInv, OneRow, PairNames, TypeOK, Names, Row
  <2> QED BY <1>1, <2>1 DEF HasRow
<1>5. LoopIsHeld'
  BY <1>1 DEF PairsInv, LoopIsHeld, Stores
<1>6. OneRow'
  <2>1. \A n \in PairNames : \A r \in rows[n] : r.time <= clock /\ r.time \in Nat
    BY TimeIsNat DEF PairsInv, OneRow, PairNames, TypeOK, Names, Row
  <2> QED BY <1>1, <2>1 DEF PairsInv, OneRow, PairNames
<1>7. RequestComesFirst'
  BY <1>1, <1>2 DEF PairsInv, RequestComesFirst, PairNames
<1>8. ShownPairs'
  <2>1. \A t \in Times, v \in Values : Shows(Response, t, v)' => Shows(Request, t, v)'
    BY <1>3 DEF PairsInv, ShownPairs, RequestComesFirst, PairNames
  <2>2. \A t \in Times, v \in Values : Shows(Request, t, v)' => ~(started' <= t)
    BY <1>1, <1>3, <1>4, TimeIsNat DEF PairNames
  <2> QED BY <2>1, <2>2 DEF ShownPairs
<1>9. ShowsRequest'
  BY <1>1 DEF ShowsRequest
<1> QED BY <1>5, <1>6, <1>7, <1>8, <1>9 DEF PairsInv

LEMMA OffPairs ==
  ASSUME TypeOK, TypeOK', PairsInv, Stop \/ Kill
  PROVE  PairsInv'
<1>1. /\ DOMAIN queue' = {} /\ loop' = None /\ \A c \in Calls : pc'[c] = "idle"
      /\ phase' = "off" /\ clock' = clock /\ started' = started
  BY NoEntry DEF Stop, Kill, Unloaded, Idle, Actors
<1>2. \/ \A n \in PairNames : rows'[n] = rows[n]
      \/ \A n \in PairNames : rows'[n] = {}
  BY DEF Stop, Kill, PairNames, Names
<1>3. LoopIsHeld'
  BY <1>1, RuntimeConstants DEF PairsInv, LoopIsHeld, Stores
<1>4. OneRow'
  BY <1>1, <1>2 DEF PairsInv, OneRow, PairNames
<1>5. RequestComesFirst'
  BY <1>1, <1>2 DEF PairsInv, RequestComesFirst, HasRow, PairNames
<1>6. \A t \in Times, v \in Values : Shows(Response, t, v)' => Shows(Request, t, v)'
  <2> SUFFICES ASSUME NEW t \in Times, NEW v \in Values, Shows(Response, t, v)'
               PROVE  Shows(Request, t, v)'
    OBVIOUS
  <2>1. HasRow(Response, t)' /\ rows'[Response] # {}
    BY <1>1 DEF Shows, HasRow
  <2>2. \A n \in PairNames : rows'[n] = rows[n]
    BY <1>2, <2>1 DEF PairNames
  <2>3. \A n \in PairNames : HasRow(n, t)' <=> HasRow(n, t)
    BY <2>2 DEF HasRow
  <2>4. HasRow(Request, t) /\ HasRow(Response, t)
    BY <2>1, <2>3 DEF PairsInv, RequestComesFirst, PairNames
  <2>5. Shows(Response, t, v)
    BY <2>1, <2>2, <2>4 DEF Shows, PairNames
  <2> QED BY <2>2, <2>3, <2>4, <2>5 DEF PairsInv, ShownPairs, Shows, PairNames
<1> QED
  BY <1>1, <1>3, <1>4, <1>5, <1>6 DEF PairsInv, ShownPairs, ShowsRequest

-----------------------------------------------------------------------------
LEMMA PutOneRow ==
  ASSUME TypeOK, TypeOK', OneRow, NEW n \in PairNames, NEW t \in Times, NEW v \in Values,
         Put(n, t, v), UNCHANGED <<rows, clock>>, t <= clock
  PROVE  OneRow'
<1>1. n \in Names
  BY DEF Names, PairNames
<1>2. ASSUME NEW m \in PairNames, NEW i \in DOMAIN queue', queue'[i].name = m
      PROVE  queue'[i].time <= clock'
  <2>1. PICK s \in Times : s = queue'[i].time
    <3>1. queue' \in Seq(Entry) /\ DOMAIN queue' = 1..Len(queue')
      BY LenProperties DEF TypeOK
    <3>2. queue'[i] \in Entry
      BY <3>1, ElementOfSeq
    <3> QED BY <3>2 DEF Entry
  <2>2. At(m, s, i)' /\ m \in Names
    BY <1>2, <2>1 DEF At, Names, PairNames
  <2>3. (At(m, s, i) /\ i \in DOMAIN queue) \/ s = t
    BY <1>1, <2>2, PutShows
  <2> QED BY <2>1, <2>3 DEF At, OneRow, PairNames
<1> QED BY <1>2 DEF OneRow, PairNames

LEMMA StoreRequestPairs ==
  ASSUME TypeOK, TypeOK', PairsInv, NEW c \in Calls, StoreRequest(c)
  PROVE  PairsInv'
<1> PICK t \in Times, v \in Values : t = stamp[c] /\ v = value[c]
  BY DEF StoreRequest, TypeOK, Actors
<1>1. /\ Put(Request, t, v) /\ Request \in PairNames /\ PairNames \subseteq Names
      /\ pc[c] = "request" /\ pc'[c] = "response" /\ loop = c /\ loop' = c /\ c # None
      /\ UNCHANGED <<phase, clock, started, rows, value, stamp>>
      /\ phase = "up" /\ started <= t /\ t <= clock
      /\ \A x \in Calls : x # c => pc'[x] = pc[x]
  BY RuntimeConstants
  DEF StoreRequest, PairNames, Names, Goto, TypeOK, Actors, PairsInv, LoopIsHeld, Stores
<1>2. /\ \A m \in Names, s \in Times : HasRow(m, s)' <=> HasRow(m, s)
      /\ \A i \in DOMAIN queue : i \in DOMAIN queue' /\ queue'[i] = queue[i]
      /\ (\A x \in Values : ~Shows(Request, t, x)) => Shows(Request, t, v)'
      /\ \A s \in Times, i \in DOMAIN queue' :
            At(Response, s, i)' => At(Response, s, i) /\ i \in DOMAIN queue
      /\ \A m \in Names, s \in Times, u \in Values : Shows(m, s, u) => Shows(m, s, u)'
      /\ \A s \in Times, u \in Values : Shows(Response, s, u)' => Shows(Response, s, u)
      /\ \A s \in Times, u \in Values :
            Shows(Request, s, u)' => Shows(Request, s, u) \/ (s = t /\ u = v)
  <2>1. Request \in Names /\ Response \in Names /\ Response # Request
    BY DEF Names, Request, Response
  <2> QED BY <1>1, <2>1, PutShows
<1>3. LoopIsHeld'
  BY <1>1 DEF PairsInv, LoopIsHeld, Stores
<1>4. OneRow'
  BY <1>1, PutOneRow DEF PairsInv
<1>5. RequestComesFirst'
  <2>1. \A s \in Times : HasRow(Response, s)' => HasRow(Request, s)'
    BY <1>1, <1>2 DEF PairsInv, RequestComesFirst, PairNames
  <2>2. ASSUME NEW s \in Times, NEW j \in DOMAIN queue', At(Response, s, j)', ~HasRow(Request, s)'
        PROVE  \E i \in DOMAIN queue' : At(Request, s, i)' /\ i < j
    <3>1. At(Response, s, j) /\ j \in DOMAIN queue /\ ~HasRow(Request, s)
      BY <1>1, <1>2, <2>2
    <3>2. PICK i \in DOMAIN queue : At(Request, s, i) /\ i < j
      BY <3>1 DEF PairsInv, RequestComesFirst
    <3>3. i \in DOMAIN queue' /\ At(Request, s, i)'
      BY <1>2, <3>2 DEF At
    <3> QED BY <3>2, <3>3
  <2> QED BY <2>1, <2>2 DEF RequestComesFirst
<1>6. ShownPairs'
  <2>1. \A s \in Times, u \in Values : Shows(Response, s, u)' => Shows(Request, s, u)'
    BY <1>1, <1>2 DEF PairsInv, ShownPairs
  <2>2. ASSUME NEW s \in Times, NEW u \in Values, started <= s, Shows(Request, s, u)',
               \A x \in Values : ~Shows(Response, s, x)'
        PROVE  s = t /\ u = v
    <3>1. \A x \in Values : ~Shows(Response, s, x)
      BY <1>1, <1>2, <2>2 DEF PairNames
    <3>2. ~Shows(Request, s, u)
      BY <1>1, <2>2, <3>1 DEF PairsInv, ShownPairs
    <3> QED BY <1>2, <2>2, <3>2
  <2>3. \A s \in Times, u \in Values :
           /\ phase' = "up" /\ started' <= s /\ Shows(Request, s, u)'
              /\ (\A x \in Values : ~Shows(Response, s, x)')
           => /\ loop' # None /\ pc'[loop'] = "response"
              /\ stamp'[loop'] = s /\ value'[loop'] = u
    BY <1>1, <2>2
  <2> QED BY <2>1, <2>3 DEF ShownPairs
<1>7. ShowsRequest'
  <2>1. \E u \in Values : Shows(Request, t, u)'
    BY <1>1, <1>2
  <2> QED BY <1>1, <2>1 DEF ShowsRequest
<1> QED BY <1>3, <1>4, <1>5, <1>6, <1>7 DEF PairsInv

LEMMA StoreResponsePairs ==
  ASSUME TypeOK, TypeOK', PairsInv, NEW c \in Calls, StoreResponse(c)
  PROVE  PairsInv'
<1> PICK t \in Times, v \in Values : t = stamp[c] /\ v = value[c]
  BY DEF StoreResponse, TypeOK, Actors
<1>1. /\ Put(Response, t, v) /\ Response \in PairNames /\ PairNames \subseteq Names
      /\ pc[c] = "response" /\ pc'[c] = "idle" /\ loop = c /\ loop' = None /\ c # None
      /\ UNCHANGED <<phase, clock, started, rows, value, stamp>>
      /\ phase = "up" /\ started <= t /\ t <= clock
      /\ \A x \in Calls : x # c => pc'[x] = pc[x]
  BY RuntimeConstants
  DEF StoreResponse, PairNames, Names, Goto, TypeOK, Actors, PairsInv, LoopIsHeld, Stores
<1>2. /\ \A m \in Names, s \in Times : HasRow(m, s)' <=> HasRow(m, s)
      /\ \A i \in DOMAIN queue : i \in DOMAIN queue' /\ queue'[i] = queue[i]
      /\ \A j \in DOMAIN queue', i \in DOMAIN queue : j \notin DOMAIN queue => i < j
      /\ (\A x \in Values : ~Shows(Response, t, x)) => Shows(Response, t, v)'
      /\ \A s \in Times, i \in DOMAIN queue' :
            At(Response, s, i)' => (At(Response, s, i) /\ i \in DOMAIN queue) \/ s = t
      /\ \A m \in Names, s \in Times, u \in Values : Shows(m, s, u) => Shows(m, s, u)'
      /\ \A s \in Times, u \in Values : Shows(Request, s, u)' => Shows(Request, s, u)
      /\ \A s \in Times, u \in Values :
            Shows(Response, s, u)' =>
              \/ Shows(Response, s, u)
              \/ s = t /\ u = v /\ \A x \in Values : ~Shows(Response, s, x)
  <2>1. Request \in Names /\ Response \in Names /\ Response # Request
    BY DEF Names, Request, Response
  <2> QED BY <1>1, <2>1, PutShows
<1>3. LoopIsHeld'
  BY <1>1, RuntimeConstants DEF PairsInv, LoopIsHeld, Stores
<1>4. OneRow'
  BY <1>1, PutOneRow DEF PairsInv
<1>5. PICK x \in Values : Shows(Request, t, x)
  BY <1>1 DEF PairsInv, ShowsRequest
<1>6. RequestComesFirst'
  <2>1. \A s \in Times : HasRow(Response, s)' => HasRow(Request, s)'
    BY <1>1, <1>2 DEF PairsInv, RequestComesFirst, PairNames, Names
  <2>2. ASSUME NEW s \in Times, NEW j \in DOMAIN queue', At(Response, s, j)', ~HasRow(Request, s)'
        PROVE  \E i \in DOMAIN queue' : At(Request, s, i)' /\ i < j
    <3>1. ~HasRow(Request, s)
      BY <1>1, <1>2, <2>2 DEF Names
    <3>2. \E i \in DOMAIN queue : At(Request, s, i) /\ i < j
      <4>1. CASE j \in DOMAIN queue
        <5>1. At(Response, s, j)
          BY <1>2, <2>2, <4>1 DEF At
        <5> QED BY <3>1, <4>1, <5>1 DEF PairsInv, RequestComesFirst
      <4>2. CASE j \notin DOMAIN queue
        <5>1. s = t
          BY <1>2, <2>2, <4>2
        <5>2. PICK i \in DOMAIN queue : At(Request, t, i)
          BY <1>5, <3>1, <5>1, ShownIsThere
        <5> QED BY <1>2, <4>2, <5>1, <5>2
      <4> QED BY <4>1, <4>2
    <3>3. PICK i \in DOMAIN queue : At(Request, s, i) /\ i < j
      BY <3>2
    <3>4. i \in DOMAIN queue' /\ At(Request, s, i)'
      BY <1>2, <3>3 DEF At
    <3> QED BY <3>3, <3>4
  <2> QED BY <2>1, <2>2 DEF RequestComesFirst
<1>7. ShownPairs'
  <2>1. ASSUME NEW s \in Times, NEW u \in Values, Shows(Response, s, u)'
        PROVE  Shows(Request, s, u)
    <3>1. CASE Shows(Response, s, u)
      BY <3>1 DEF PairsInv, ShownPairs
    <3>2. CASE s = t /\ u = v /\ \A y \in Values : ~Shows(Response, s, y)
      BY <1>1, <1>5, <3>2 DEF PairsInv, ShownPairs
    <3> QED BY <1>2, <2>1, <3>1, <3>2
  <2>2. \A s \in Times, u \in Values : Shows(Response, s, u)' => Shows(Request, s, u)'
    BY <1>1, <1>2, <2>1 DEF Names
  <2>3. ASSUME NEW s \in Times, NEW u \in Values, started <= s, Shows(Request, s, u)',
               \A y \in Values : ~Shows(Response, s, y)'
        PROVE  FALSE
    <3>1. Shows(Request, s, u) /\ \A y \in Values : ~Shows(Response, s, y)
      BY <1>1, <1>2, <2>3 DEF Names
    <3>2. s = t
      BY <1>1, <2>3, <3>1 DEF PairsInv, ShownPairs
    <3> QED BY <1>2, <2>3, <3>1, <3>2
  <2> QED BY <1>1, <2>2, <2>3 DEF ShownPairs
<1>8. ShowsRequest'
  BY <1>1 DEF ShowsRequest
<1> QED BY <1>3, <1>4, <1>6, <1>7, <1>8 DEF PairsInv

LEMMA WritePairs ==
  ASSUME TypeOK, TypeOK', PairsInv, Write
  PROVE  PairsInv'
<1>1. PairNames \subseteq Names /\ Request \in PairNames /\ Response \in PairNames
  BY DEF PairNames, Names
<1>2. UNCHANGED <<phase, clock, started, work>>
  BY DEF Write
<1>3. LoopIsHeld' /\ LoopStays
  BY <1>2, SameCalls, ClockIsNat DEF work, PairsInv
<1>4. OneRow'
  <2> DEFINE e == queue[1]
             row == [time |-> e.time, value |-> e.value]
  <2>1. e \in Entry /\ Head(queue) = e /\ e.name \in Names /\ 1 \in DOMAIN queue
    BY Popped DEF Entry
  <2>2. row.time = e.time
    OBVIOUS
  <2>3. ASSUME NEW n \in PairNames
        PROVE  /\ rows'[n] = rows[n]
                  \/ (n = e.name /\ ~HasRow(n, e.time) /\ rows'[n] = rows[n] \cup {row})
               /\ \A i \in DOMAIN queue : queue[i].name = n => queue[i].time <= clock
               /\ \A r \in rows[n] : r.time <= clock
               /\ \A q, r \in rows[n] : q.time = r.time => q.value = r.value
    BY <1>1, <2>1 DEF Write, TypeOK, HasRow, PairsInv, OneRow, PairNames
  <2> HIDE DEF row
  <2>4. ASSUME NEW n \in PairNames
        PROVE  /\ \A q, r \in rows'[n] : q.time = r.time => q.value = r.value
               /\ \A r \in rows'[n] : r.time <= clock'
    BY <1>2, <2>1, <2>2, <2>3 DEF HasRow
  <2>5. \A n \in PairNames : \A i \in DOMAIN queue' :
           queue'[i].name = n => queue'[i].time <= clock'
    BY <1>2, <2>3, Popped
  <2> QED BY <2>4, <2>5 DEF OneRow, PairNames
<1>5. RequestComesFirst'
  <2>1. ASSUME NEW t \in Times, HasRow(Response, t)'
        PROVE  HasRow(Request, t)'
    <3>1. HasRow(Response, t) \/ At(Response, t, 1)
      BY <1>1, <2>1, WriteShows
    <3>2. 1 \in DOMAIN queue /\ \A i \in DOMAIN queue : ~(i < 1)
      BY Popped, QueueIs
    <3>3. HasRow(Request, t)
      BY <3>1, <3>2 DEF PairsInv, RequestComesFirst
    <3> QED BY <1>1, <3>3, WriteShows
  <2>2. ASSUME NEW t \in Times, NEW j \in DOMAIN queue', At(Response, t, j)', ~HasRow(Request, t)'
        PROVE  \E i \in DOMAIN queue' : At(Request, t, i)' /\ i < j
    <3>1. At(Response, t, j + 1) /\ ~HasRow(Request, t) /\ ~At(Request, t, 1)
      BY <1>1, <2>2, WriteShows
    <3>2. j \in Nat /\ j + 1 \in DOMAIN queue
      BY Popped
    <3>3. PICK i \in DOMAIN queue : At(Request, t, i) /\ i < j + 1
      BY <3>1, <3>2 DEF PairsInv, RequestComesFirst
    <3>4. PICK k \in DOMAIN queue' : k = i - 1 /\ i \in Nat /\ k \in Nat
      BY <3>1, <3>3, Popped
    <3>5. At(Request, t, k + 1) /\ k < j
      BY <3>2, <3>3, <3>4
    <3> QED BY <1>1, <3>5, WriteShows
  <2> QED BY <2>1, <2>2 DEF RequestComesFirst
<1>6. \A n \in PairNames, t \in Times, v \in Values : Shows(n, t, v)' <=> Shows(n, t, v)
  BY <1>1, WriteShows
<1>7. ShownPairs'
  <2>1. \A t \in Times, v \in Values : Shows(Response, t, v)' => Shows(Request, t, v)'
    BY <1>1, <1>6 DEF PairsInv, ShownPairs
  <2>2. ASSUME NEW t \in Times, NEW v \in Values, phase' = "up", started' <= t,
               Shows(Request, t, v)', \A u \in Values : ~Shows(Response, t, u)'
        PROVE  loop' # None /\ pc'[loop'] = "response" /\ stamp'[loop'] = t /\ value'[loop'] = v
    <3>1. loop # None /\ pc[loop] = "response" /\ stamp[loop] = t /\ value[loop] = v
      BY <1>1, <1>2, <1>6, <2>2 DEF PairsInv, ShownPairs
    <3> QED BY <1>2, <3>1 DEF work
  <2> QED BY <2>1, <2>2 DEF ShownPairs
<1>8. ShowsRequest'
  <2>1. ASSUME NEW t \in Times, loop' # None, pc'[loop'] = "response", stamp'[loop'] = t
        PROVE  \E v \in Values : Shows(Request, t, v)'
    <3>1. PICK v \in Values : Shows(Request, t, v)
      BY <1>2, <2>1 DEF work, PairsInv, ShowsRequest
    <3> QED BY <1>1, <1>6, <3>1
  <2> QED BY <2>1 DEF ShowsRequest
<1> QED BY <1>3, <1>4, <1>5, <1>7, <1>8 DEF PairsInv

LEMMA PairsStep ==
  ASSUME TypeOK, TypeOK', PairsInv, [Next]_vars
  PROVE  PairsInv'
<1>1. ASSUME NEW w \in Threads,
             Set(w) \/ \E p \in Parameters, v \in Values : BeginSet(w, p, v)
      PROVE  PairsInv'
  BY <1>1, ThreadPairs
<1>2. ASSUME NEW c \in Calls, CallStep(c) \/ \E v \in Values : BeginCall(c, v)
      PROVE  PairsInv'
  BY <1>2, CallPairs, StoreRequestPairs, StoreResponsePairs DEF CallStep
<1>3. CASE Load \/ Tick \/ UNCHANGED vars \/ \E p \in Parameters : AddParameter(p)
  BY <1>3, OtherPairs
<1>4. CASE Write \/ Startup \/ Stop \/ Kill
  BY <1>4, WritePairs, StartupPairs, OffPairs
<1> QED BY <1>1, <1>2, <1>3, <1>4 DEF Next

LEMMA InvPairs == TypeOK /\ PairsInv => PairsMatch
<1> SUFFICES ASSUME TypeOK, PairsInv, NEW q \in rows[Request], NEW r \in rows[Response],
                    q.time = r.time
             PROVE  q.value = r.value
  BY DEF PairsMatch
<1> PICK t \in Times, v \in Values : t = r.time /\ v = r.value /\ r = [time |-> t, value |-> v]
  BY DEF TypeOK, Names, Row
<1>1. HasRow(Response, t) /\ HasRow(Request, t)
  BY DEF HasRow
<1>2. Shows(Request, t, v)
  BY <1>1 DEF Shows, PairsInv, ShownPairs
<1>3. [time |-> t, value |-> v] \in rows[Request]
  BY <1>1, <1>2 DEF Shows
<1> QED BY <1>3 DEF PairsInv, OneRow

(* A response in the history belongs to the request with its time, for any *)
(* number of calls, with any clock, through crashes and restarts.          *)
(* (entrypoint, store, _writer)                                            *)
THEOREM ResponsesMatch == Spec => []PairsMatch
  BY TypeInit, TypeStep, PairsInit, PairsStep, InvPairs, PTL DEF Spec

-----------------------------------------------------------------------------
(* The queue and the rows, seen by Journal *)

(* What is stored while the module loads does not count: its queue goes.   *)
Unwritten ==
    IF phase = "up" THEN {<<queue[i].name, queue[i].time>> : i \in DOMAIN queue} ELSE {}
Written == {v \in Names \X Times : \E r \in rows[v[1]] : r.time = v[2]}

Log == INSTANCE Journal WITH
         waiting <- Unwritten, kept <- Written, refused <- {}, byRows <- FALSE,
         busy <- FALSE, Limit <- 0

LEMMA PutAccepts ==
  ASSUME TypeOK, NEW n \in Names, NEW t \in Times, NEW v \in Values, Put(n, t, v),
         phase = "up", UNCHANGED <<phase, clock, rows>>
  PROVE  Log!Accept
<1> DEFINE e == [name |-> n, time |-> t, value |-> v]
<1>1. e \in Entry /\ queue \in Seq(Entry) /\ queue' = Append(queue, e)
  BY DEF TypeOK, Entry, Put
<1>2. e.name = n /\ e.time = t
  OBVIOUS
<1> HIDE DEF e
<1>3. /\ DOMAIN queue = 1..Len(queue) /\ DOMAIN queue' = 1..(Len(queue) + 1)
      /\ Len(queue) \in Nat
      /\ \A i \in 1..Len(queue) : queue'[i] = queue[i]
      /\ queue'[Len(queue) + 1] = e
  BY <1>1, Appended
<1>4. \A i \in DOMAIN queue' : i \in DOMAIN queue \/ i = Len(queue) + 1
  BY <1>3
<1>5. Unwritten' = Unwritten \cup {<<n, t>>}
  BY <1>2, <1>3, <1>4 DEF Unwritten
<1>6. <<n, t>> \in Names \X Nat
  BY TimeIsNat
<1>7. Written' = Written
  BY DEF Written
<1> QED BY <1>5, <1>6, <1>7 DEF Log!Accept

LEMMA WriteKeepsOne ==
  ASSUME TypeOK, Write PROVE \E v \in Unwritten : Log!Keep(v)
<1>1. queue \in Seq(Entry) /\ queue # <<>> /\ queue' = Tail(queue) /\ phase = "up"
  BY DEF TypeOK, Write
<1>2. PICK e \in Entry : e = Head(queue)
  BY <1>1, HeadAndTail
<1> DEFINE v == <<e.name, e.time>>
<1>3. /\ e = queue[1]
      /\ DOMAIN queue = 1..Len(queue) /\ DOMAIN queue' = 1..(Len(queue) - 1)
      /\ Len(queue) \in Nat \ {0}
      /\ \A i \in 1..(Len(queue) - 1) : queue'[i] = queue[i + 1]
  BY <1>1, <1>2, HeadAndTail
<1>4. /\ \A i \in DOMAIN queue : i = 1 \/ (i - 1 \in DOMAIN queue' /\ queue[i] = queue'[i - 1])
      /\ \A i \in DOMAIN queue' : i + 1 \in DOMAIN queue /\ queue'[i] = queue[i + 1]
      /\ 1 \in DOMAIN queue
  BY <1>3
<1>5. e.name \in Names /\ e.time \in Times /\ v \in Names \X Times
  BY DEF Entry
<1>6. phase' = phase /\ clock' = clock
  BY DEF Write
<1>7. Unwritten = Unwritten' \cup {v}
  <2>1. /\ Unwritten = {<<queue[i].name, queue[i].time>> : i \in DOMAIN queue}
        /\ Unwritten' = {<<queue'[i].name, queue'[i].time>> : i \in DOMAIN queue'}
    BY <1>1, <1>6 DEF Unwritten
  <2>2. ASSUME NEW i \in DOMAIN queue
        PROVE  <<queue[i].name, queue[i].time>> \in Unwritten' \cup {v}
    BY <1>3, <1>4, <2>1
  <2>3. ASSUME NEW i \in DOMAIN queue'
        PROVE  <<queue'[i].name, queue'[i].time>> \in Unwritten
    BY <1>4, <2>1
  <2>4. v \in Unwritten
    BY <1>3, <1>4, <2>1
  <2> QED BY <2>1, <2>2, <2>3, <2>4
<1>8. ASSUME NEW n \in Names, NEW t \in Times
      PROVE  HasRow(n, t)' <=> HasRow(n, t) \/ <<n, t>> = v
  <2> DEFINE row == [time |-> e.time, value |-> e.value]
  <2>1. CASE HasRow(e.name, e.time) /\ rows' = rows
    BY <2>1 DEF HasRow
  <2>2. CASE rows' = [rows EXCEPT ![e.name] = @ \cup {row}]
    <3>1. /\ rows'[e.name] = rows[e.name] \cup {row}
          /\ n # e.name => rows'[n] = rows[n]
      BY <1>5, <2>2 DEF TypeOK
    <3>2. row.time = e.time
      OBVIOUS
    <3> HIDE DEF row
    <3> QED BY <3>1, <3>2 DEF HasRow
  <2> QED BY <1>2, <2>1, <2>2 DEF Write, HasRow
<1>9. /\ Written = {x \in Names \X Times : HasRow(x[1], x[2])}
      /\ Written' = {x \in Names \X Times : HasRow(x[1], x[2])'}
  BY DEF Written, HasRow
<1>10. Written' = Written \cup {v}
  BY <1>5, <1>8, <1>9
<1> HIDE DEF v
<1>11. v \in Unwritten /\ Unwritten' \in {Unwritten, Unwritten \ {v}}
  BY <1>7
<1> QED BY <1>6, <1>10, <1>11 DEF Log!Keep

LEMMA LogStep == ASSUME TypeOK, [Next]_vars PROVE [Log!Next]_(Log!vars)
<1> USE DEF Log!vars, work
<1>1. ASSUME UNCHANGED <<phase, queue, rows>>, clock' \in {clock, clock + 1}
      PROVE  [Log!Next]_(Log!vars)
  <2>1. Unwritten' = Unwritten /\ Written' = Written
    BY <1>1 DEF Unwritten, Written
  <2> QED BY <1>1, <2>1 DEF Log!Next, Log!Tick
<1>2. ASSUME phase # "up", Unwritten' = {}, UNCHANGED rows, clock' \in {clock, clock + 1}
      PROVE  [Log!Next]_(Log!vars)
  <2>1. Unwritten = {} /\ Written' = Written
    BY <1>2 DEF Unwritten, Written
  <2> QED BY <1>2, <2>1 DEF Log!Next, Log!Tick
<1>3. ASSUME NEW n \in Names, NEW t \in Times, NEW v \in Values, Put(n, t, v),
             UNCHANGED <<phase, clock, rows>>
      PROVE  [Log!Next]_(Log!vars)
  <2>1. CASE phase = "up"
    BY <1>3, <2>1, PutAccepts DEF Log!Next
  <2>2. CASE phase # "up"
    BY <1>2, <1>3, <2>2 DEF Unwritten
  <2> QED BY <2>1, <2>2
<1>4. ASSUME NEW w \in Threads,
             Set(w) \/ \E p \in Parameters, v \in Values : BeginSet(w, p, v)
      PROVE  [Log!Next]_(Log!vars)
  <2>1. CASE StoreSet(w)
    <3>1. name[w] \in Names /\ stamp[w] \in Times /\ value[w] \in Values
      BY <2>1 DEF StoreSet, TypeOK, Actors, Names
    <3> QED BY <1>3, <2>1, <3>1 DEF StoreSet
  <2>2. CASE Assign(w) \/ Stamp(w) \/ \E p \in Parameters, v \in Values : BeginSet(w, p, v)
    BY <1>1, <2>2 DEF Assign, Stamp, BeginSet
  <2> QED BY <1>4, <2>1, <2>2 DEF Set
<1>5. ASSUME NEW c \in Calls, CallStep(c) \/ \E v \in Values : BeginCall(c, v)
      PROVE  [Log!Next]_(Log!vars)
  <2>1. CASE StoreRequest(c) \/ StoreResponse(c)
    <3>1. stamp[c] \in Times /\ value[c] \in Values /\ {Request, Response} \subseteq Names
      BY <2>1 DEF StoreRequest, StoreResponse, TypeOK, Actors, Names
    <3> QED BY <1>3, <2>1, <3>1 DEF StoreRequest, StoreResponse
  <2>2. CASE CallFails(c) \/ Return(c) \/ \E v \in Values : BeginCall(c, v)
    BY <1>1, <2>2 DEF CallFails, Return, BeginCall
  <2> QED BY <1>5, <2>1, <2>2 DEF CallStep
<1>6. CASE (\E p \in Parameters : AddParameter(p)) \/ Load \/ Startup
  <2>1. phase # "up" /\ Unwritten' = {}
    BY <1>6, EmptySeq DEF AddParameter, Load, Startup, Unwritten
  <2> QED BY <1>2, <1>6, <2>1 DEF AddParameter, Load, Startup
<1>7. CASE Write
  BY <1>7, WriteKeepsOne DEF Log!Next
<1>8. CASE Stop \/ Kill
  <2>1. Unwritten' = {} /\ clock' = clock
    BY <1>8 DEF Stop, Kill, Unloaded, Unwritten
  <2>2. Stop => Written' = {}
    BY DEF Stop, Written
  <2>3. Kill => Written' = Written
    BY DEF Kill, Written
  <2> QED BY <1>8, <2>1, <2>2, <2>3 DEF Log!Next, Log!Killed, Log!Removed
<1>9. CASE Tick \/ UNCHANGED vars
  BY <1>1, <1>9 DEF Tick, vars
<1> QED BY <1>4, <1>5, <1>6, <1>7, <1>8, <1>9 DEF Next

(* The queue and the rows of Runtime are a journal, as those of Monitoring *)
(* are: parameters and calls that overlap, crashes and restarts lose no    *)
(* value but what waits when the process ends.  The one database that the  *)
(* two modules describe makes the same promise in both.                    *)
(* (store, _writer, initialize_db, remove_db)                              *)
THEOREM HistoryIsAJournal == Spec => Log!Spec
<1>1. Init => Log!Init
  BY EmptySeq DEF Init, Unwritten, Written, Log!Init
<1> QED BY <1>1, LogStep, TypeInit, TypeStep, PTL DEF Spec, Log!Spec
=============================================================================
