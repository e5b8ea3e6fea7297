----------------------------- MODULE Monitoring -----------------------------
(***************************************************************************)
(* The monitoring database of a service (daeploy/_service/db.py) and the   *)
(* parts of the runtime that use it (service.py): variables are put on a   *)
(* queue, a thread writes them to one table each, and a timer cleans the   *)
(* tables.  SQLite locks the file for a transaction from its first DELETE  *)
(* on; whoever waits longer than five seconds for that lock fails.         *)
(***************************************************************************)
EXTENDS Integers, Sequences, FiniteSets

CONSTANTS
    Names,        \* the variables a service stores
    Unstorable,   \* those whose values are no numbers, text or JSON
    Limit,        \* DAEPLOY_SERVICE_DB_TABLE_LIMIT, rows or units of time
    Workers,      \* threads of the service that store variables
    CleansAreFast, \* TRUE: cleaning locks the file for less than five seconds
    NotifyFails,  \* TRUE: the manager may refuse a notification
    MaxTime,      \* bound: the clock stops there
    MaxQueue,     \* bound: nobody stores more than fits on the queue
    None

Value == Names \X Nat
Call == [names : SUBSET Names, time : Nat]
NoCall == [names |-> {}, time |-> 0]

ASSUME MonitoringConstants ==
    /\ Limit \in Nat
    /\ CleansAreFast \in BOOLEAN /\ NotifyFails \in BOOLEAN
    /\ MaxTime \in Nat /\ MaxQueue \in Nat
    /\ Unstorable \subseteq Names
    /\ None \notin Names \X Int

VARIABLES
    phase,    \* where the process is between its start and its end
    byRows,   \* the unit of Limit is rows
    clock,    \* utcnow
    pending,  \* pending[w]: what the store() of w has yet to put on the queue
    queue,    \* QUEUE; None tells the writer to end
    writer,   \* the next step of the writer thread
    item,     \* what the writer took from the queue, or None
    TABLES,   \* the variables whose tables the process knows
    mapped,   \* the variables with a class declared on Base
    created,  \* the tables in the file
    rows,     \* their rows
    LOCK,     \* who holds the lock: "none", "writer", or "copy" for a request
    cleaner,  \* the next step of the timer that cleans the database
    todo,     \* the tables its pass has yet to visit
    known,    \* TABLES when its pass began
    limitRow, \* the newest row to delete from the table it visits, or None
    locked,   \* it has begun to delete and holds the lock of the file
    marked    \* the rows it deletes when it commits

memory == <<pending, queue, writer, item, TABLES, mapped, LOCK>>
cleaning == <<cleaner, todo, known, limitRow, locked, marked>>
file == <<created, rows>>
vars == <<phase, byRows, clock, memory, cleaning, file>>

TypeOK ==
    /\ phase \in {"off", "loading", "up", "stopping"}
    /\ byRows \in BOOLEAN
    /\ clock \in Nat
    /\ pending \in [Workers -> Call]
    /\ queue \in Seq(Value \cup {None})
    /\ writer \in {"off", "get", "create", "add", "write"}
    /\ item \in Value \cup {None}
    /\ writer \in {"create", "add", "write"} => item \in Value
    /\ TABLES \in SUBSET Names /\ mapped \in SUBSET Names
    /\ created \in SUBSET Names /\ rows \in SUBSET Value
    /\ LOCK \in {"none", "writer", "copy"}
    /\ cleaner \in {"off", "sleep", "visit", "delete", "notify", "dead"}
    /\ todo \in SUBSET Names /\ known \in SUBSET Names
    /\ limitRow \in {None} \cup (Names \X Int)
    /\ cleaner = "delete" => limitRow \in Names \X Int
    /\ locked \in BOOLEAN /\ marked \in SUBSET Value

Init ==
    /\ phase = "off"
    /\ byRows \in BOOLEAN
    /\ clock = 0
    /\ pending = [w \in Workers |-> NoCall]
    /\ queue = <<>>
    /\ writer = "off" /\ item = None
    /\ TABLES = {} /\ mapped = {}
    /\ created = {} /\ rows = {}
    /\ LOCK = "none"
    /\ cleaner = "off" /\ todo = {} /\ known = {}
    /\ limitRow = None /\ locked = FALSE /\ marked = {}

Running == phase \in {"up", "stopping"}
-----------------------------------------------------------------------------
(* store() and write_to_ts *)

(* One reading of the clock for all variables of a call. *)
Store(w) ==
    /\ phase # "off"
    /\ pending[w] = NoCall
    /\ \E names \in SUBSET Names \ {{}} :
          pending' = [pending EXCEPT ![w] = [names |-> names, time |-> clock]]
    /\ UNCHANGED <<phase, byRows, clock, queue, writer, item, TABLES, mapped,
                   LOCK, cleaning, file>>

Put(w, n) ==
    /\ n \in pending[w].names
    /\ Len(queue) < MaxQueue
    /\ queue' = Append(queue, <<n, pending[w].time>>)
    /\ pending' = [pending EXCEPT ![w] =
          IF @.names = {n} THEN NoCall
          ELSE [names |-> @.names \ {n}, time |-> @.time]]
    /\ UNCHANGED <<phase, byRows, clock, writer, item, TABLES, mapped, LOCK,
                   cleaning, file>>

-----------------------------------------------------------------------------
(* _writer *)

(* Mutation: the exception of an unstorable value ends the thread. *)
MutantWriterGet ==
    /\ writer = "get"
    /\ queue # <<>>
    /\ queue' = Tail(queue)
    /\ LET next == Head(queue) IN
       IF next = None \/ next[1] \in Unstorable
       THEN writer' = "off" /\ UNCHANGED item
       ELSE /\ item' = next
            /\ writer' = IF next[1] \in TABLES THEN "write" ELSE "create"
    /\ UNCHANGED <<phase, byRows, clock, pending, TABLES, mapped, LOCK,
                   cleaning, file>>

(* Mutation: the writer does not end when it is told to. *)
MutantWriterStays ==
    /\ writer = "get"
    /\ queue # <<>>
    /\ queue' = Tail(queue)
    /\ LET next == Head(queue) IN
       IF next = None THEN UNCHANGED <<writer, item>>
       ELSE IF next[1] \in Unstorable
       THEN UNCHANGED <<writer, item>>
       ELSE /\ item' = next
            /\ writer' = IF next[1] \in TABLES THEN "write" ELSE "create"
    /\ UNCHANGED <<phase, byRows, clock, pending, TABLES, mapped, LOCK,
                   cleaning, file>>

(* What cannot be stored (no JSON, no column type) is logged and dropped. *)
WriterGet ==
    /\ writer = "get"
    /\ queue # <<>>
    /\ queue' = Tail(queue)
    /\ LET next == Head(queue) IN
       IF next = None
       THEN writer' = "off" /\ UNCHANGED item
       ELSE IF next[1] \in Unstorable
       THEN UNCHANGED <<writer, item>>
       ELSE /\ item' = next
            /\ writer' = IF next[1] \in TABLES THEN "write" ELSE "create"
    /\ UNCHANGED <<phase, byRows, clock, pending, TABLES, mapped, LOCK,
                   cleaning, file>>

(* The value in hand is dropped, or written. *)
ItemDone == writer' = "get" /\ item' = None

Acquire ==
    /\ writer \in {"create", "write"}
    /\ LOCK = "none"
    /\ LOCK' = "writer"
    /\ UNCHANGED <<phase, byRows, clock, pending, queue, writer, item, TABLES,
                   mapped, cleaning, file>>

(* create_new_ts_table declares a class, which works once for a variable,  *)
(* then creates the table.                                                 *)
CreateTable ==
    /\ writer = "create" /\ LOCK = "writer"
    /\ mapped' = mapped \cup {item[1]}
    /\ \/ /\ item[1] \notin mapped /\ ~locked
          /\ created' = created \cup {item[1]}
          /\ writer' = "add"
          /\ UNCHANGED <<item, LOCK>>
       \/ /\ item[1] \in mapped \/ (locked /\ ~CleansAreFast)
          /\ ItemDone
          /\ LOCK' = "none"
          /\ UNCHANGED created
    /\ UNCHANGED <<phase, byRows, clock, pending, queue, TABLES, cleaning, rows>>

(* A pass of the cleaning may have begun since, and have deleted rows. *)
AddTable ==
    /\ writer = "add"
    /\ TABLES' = TABLES \cup {item[1]}
    /\ writer' = "write"
    /\ LOCK' = "none"
    /\ UNCHANGED <<phase, byRows, clock, pending, queue, item, mapped, cleaning,
                   file>>

(* The time is the primary key: a second value at that time is refused. *)
WriteRow ==
    /\ writer = "write" /\ LOCK = "writer"
    /\ \/ ~locked /\ rows' = rows \cup {item}
       \/ locked /\ ~CleansAreFast /\ UNCHANGED rows
    /\ ItemDone
    /\ LOCK' = "none"
    /\ UNCHANGED <<phase, byRows, clock, pending, queue, TABLES, mapped,
                   cleaning, created>>

Writer == WriterGet \/ Acquire \/ CreateTable \/ AddTable \/ WriteRow

-----------------------------------------------------------------------------
(* get_monitored_data_db *)

CopyBegin ==
    /\ phase = "up" /\ LOCK = "none"
    /\ LOCK' = "copy"
    /\ UNCHANGED <<phase, byRows, clock, pending, queue, writer, item, TABLES,
                   mapped, cleaning, file>>

CopyEnd ==
    /\ LOCK = "copy"
    /\ LOCK' = "none"
    /\ UNCHANGED <<phase, byRows, clock, pending, queue, writer, item, TABLES,
                   mapped, cleaning, file>>

-----------------------------------------------------------------------------
(* clean_database, called by the timer of call_every *)

RowsOf(n) == {v \in rows : v[1] = n}
Newer(v, values) == {x \in values : x[1] = v[1] /\ x[2] > v[2]}

(* Mutation: the row to start from is one too new. *)
MutantIsLimit(v) ==
    IF byRows THEN v \in rows /\ Cardinality(Newer(v, rows)) = Limit - 1
    ELSE v[2] = clock - Limit

(* The row behind the newest Limit ones, or the time that is too long ago. *)
IsLimit(v) ==
    IF byRows THEN v \in rows /\ Cardinality(Newer(v, rows)) = Limit
    ELSE v[2] = clock - Limit

(* Mutation: a pass that raises or is late ends the timer. *)
MutantPassEnds ==
    /\ cleaner' = "dead"
    /\ todo' = {} /\ known' = {}
    /\ limitRow' = None /\ locked' = FALSE /\ marked' = {}

(* The pass returned or raised: the session ends, and so does the call.    *)
(* When it took longer than the interval the manager is notified.          *)
PassEnds ==
    /\ cleaner' \in {"sleep", "notify"}
    /\ todo' = {} /\ known' = {}
    /\ limitRow' = None /\ locked' = FALSE /\ marked' = {}

CleanStart ==
    /\ phase = "up" /\ cleaner = "sleep"
    /\ cleaner' = "visit"
    /\ todo' = TABLES /\ known' = TABLES
    /\ UNCHANGED <<phase, byRows, clock, memory, limitRow, locked, marked, file>>

(* Mutation: the exception of a pass ends the timer. *)
MutantCleanInterrupted ==
    /\ cleaner = "visit"
    /\ TABLES # known
    /\ cleaner' = "dead"
    /\ todo' = {} /\ known' = {}
    /\ limitRow' = None /\ locked' = FALSE /\ marked' = {}
    /\ UNCHANGED <<phase, byRows, clock, memory, file>>

(* Iterating over a dictionary that has grown raises a RuntimeError, and   *)
(* what the pass deleted before that is rolled back.                       *)
CleanInterrupted ==
    /\ cleaner = "visit"
    /\ TABLES # known
    /\ PassEnds
    /\ UNCHANGED <<phase, byRows, clock, memory, file>>

(* With no more than Limit rows, first() is None and [0] raises. *)
CleanVisit(n) ==
    /\ cleaner = "visit"
    /\ TABLES = known
    /\ n \in todo
    /\ IF byRows /\ Cardinality(RowsOf(n)) <= Limit
       THEN PassEnds
       ELSE /\ cleaner' = "delete"
            /\ \E v \in IF byRows THEN RowsOf(n) ELSE {<<n, clock - Limit>>} :
                  IsLimit(v) /\ limitRow' = v
            /\ UNCHANGED <<todo, known, locked, marked>>
    /\ UNCHANGED <<phase, byRows, clock, memory, file>>

CleanDelete ==
    /\ cleaner = "delete"
    /\ cleaner' = "visit"
    /\ locked' = TRUE
    /\ marked' = marked \cup {v \in RowsOf(limitRow[1]) : v[2] <= limitRow[2]}
    /\ todo' = todo \ {limitRow[1]}
    /\ limitRow' = None
    /\ UNCHANGED <<phase, byRows, clock, memory, known, file>>

CleanCommit ==
    /\ cleaner = "visit"
    /\ TABLES = known
    /\ todo = {}
    /\ rows' = rows \ marked
    /\ PassEnds
    /\ UNCHANGED <<phase, byRows, clock, memory, created>>

(* A notification that is refused ends the timer. *)
Notify ==
    /\ phase = "up" /\ cleaner = "notify"
    /\ \/ cleaner' = "sleep"
       \/ NotifyFails /\ cleaner' = "dead"
    /\ UNCHANGED <<phase, byRows, clock, memory, todo, known, limitRow, locked,
                   marked, file>>

Cleaner ==
    \/ CleanStart \/ CleanInterrupted \/ CleanDelete \/ CleanCommit \/ Notify
    \/ \E n \in Names : CleanVisit(n)

-----------------------------------------------------------------------------
(* The process *)

Unloaded ==
    /\ pending' = [w \in Workers |-> NoCall]
    /\ queue' = <<>>
    /\ writer' = "off" /\ item' = None
    /\ TABLES' = {} /\ mapped' = {}
    /\ LOCK' = "none"
    /\ cleaner' = "off" /\ todo' = {} /\ known' = {}
    /\ limitRow' = None /\ locked' = FALSE /\ marked' = {}

(* The module of the service runs and may store, for example what          *)
(* add_parameter monitors.                                                 *)
Load ==
    /\ phase = "off"
    /\ phase' = "loading"
    /\ UNCHANGED <<byRows, clock, memory, cleaning, file>>

(* Mutation: the tables of an earlier process are not looked for. *)
MutantStartup ==
    /\ phase = "loading"
    /\ phase' = "up"
    /\ queue' = <<>>
    /\ TABLES' = {}
    /\ writer' = "get"
    /\ cleaner' = "sleep"
    /\ UNCHANGED <<byRows, clock, pending, item, mapped, LOCK, todo, known,
                   limitRow, locked, marked, file>>

(* initialize_db and the start of the timer.  The queue is a new one. *)
Startup ==
    /\ phase = "loading"
    /\ phase' = "up"
    /\ queue' = <<>>
    /\ TABLES' = created
    /\ writer' = "get"
    /\ cleaner' = "sleep"
    /\ UNCHANGED <<byRows, clock, pending, item, mapped, LOCK, todo, known,
                   limitRow, locked, marked, file>>

(* Mutation: the file is removed before the writer has ended. *)
MutantBeginStop ==
    /\ phase = "up" /\ LOCK # "copy"
    /\ phase' = "stopping"
    /\ queue' = Append(queue, None)
    /\ created' = {} /\ rows' = {}
    /\ UNCHANGED <<byRows, clock, pending, writer, item, TABLES, mapped, LOCK,
                   cleaning>>

(* remove_db, up to the join of the writer. *)
BeginStop ==
    /\ phase = "up" /\ LOCK # "copy"
    /\ phase' = "stopping"
    /\ queue' = Append(queue, None)
    /\ UNCHANGED <<byRows, clock, pending, writer, item, TABLES, mapped, LOCK,
                   cleaning, file>>

(* The rest of remove_db, and the end of the process. *)
EndStop ==
    /\ phase = "stopping"
    /\ writer = "off"
    /\ phase' = "off"
    /\ Unloaded
    /\ created' = {} /\ rows' = {}
    /\ UNCHANGED <<byRows, clock>>

(* The process is killed, and the container starts again with its files. *)
Kill ==
    /\ phase # "off"
    /\ phase' = "off"
    /\ Unloaded
    /\ UNCHANGED <<byRows, clock, file>>

Tick ==
    /\ clock < MaxTime
    /\ clock' = clock + 1
    /\ UNCHANGED <<phase, byRows, memory, cleaning, file>>

Next ==
    \/ \E w \in Workers : Store(w) \/ \E n \in Names : Put(w, n)
    \/ Writer \/ Cleaner
    \/ CopyBegin \/ CopyEnd
    \/ Load \/ Startup \/ BeginStop \/ EndStop \/ Kill
    \/ Tick

Spec == Init /\ [][Next]_vars

(* Threads that can run do so, and copies of the file end.  The writer gets *)
(* the lock and the file in time: both are free most of the time, and those *)
(* who take them come back only with the next request or the next interval. *)
FairSpec ==
    /\ Spec
    /\ SF_vars(Writer)
    /\ WF_vars(Cleaner) /\ WF_vars(CopyEnd) /\ WF_vars(EndStop)

-----------------------------------------------------------------------------
(* A table that the process knows is in the file, so that reading it never *)
(* fails: not after a restart, nor while the database is taken away.       *)
(* (initialize_db, read_from_ts, remove_db)                                *)
KnownTablesExist == TABLES \subseteq created

(* What is in the file can be read, and is cleaned: the process knows the  *)
(* table of every row, also of those that an earlier process wrote.        *)
(* (initialize_db, _writer, stored_variables)                              *)
RowsAreKnown == Running => \A v \in rows : v[1] \in TABLES

Queued == {queue[i] : i \in DOMAIN queue} \ {None}
InHand == {item} \ {None}

\* What the writer has yet to write
ToWrite == {v \in Queued \cup InHand : v[1] \notin Unstorable}
Waiting == IF writer = "off" THEN {} ELSE ToWrite

\* The variables whose class is declared and whose table could not be created
GivenUp == {n \in mapped \ TABLES : writer = "add" => item[1] # n}

Log == INSTANCE Journal WITH
    waiting <- Waiting, kept <- rows, busy <- locked, refused <- GivenUp

(* What is stored while the service runs is written and kept for as long   *)
(* as the limit says, through cleaning, tables created on the way, copies  *)
(* and restarts.  Lost is what waits when the process is killed, what is   *)
(* due while a pass of the cleaning keeps the file for more than five      *)
(* seconds, and what follows of a variable whose first value was due then. *)
(* (_writer, clean_database, initialize_db, remove_db)                     *)
ImplementsJournal == Log!Spec

(* What a running service put on the queue is written, unless the process  *)
(* ends before that: no value that cannot be stored, no table that is      *)
(* being created, no copy and no cleaning stops the writer for good, and a *)
(* service that stops writes what was there before.  (_writer, remove_db)  *)
ValuesGetWritten ==
    \A v \in Names \X (0..MaxTime) :
        phase = "up" /\ v \in ToWrite ~> (v \in rows \/ phase = "off")

(* A service that is asked to stop stops: the writer gets to the end of    *)
(* the queue.  (remove_db)                                                 *)
StopEnds == phase = "stopping" ~> phase = "off"

(* The database of a running service is cleaned again and again, whatever  *)
(* becomes of a single pass.  (call_every, clean_database)                 *)
CleaningGoesOn == []<>(cleaner = "visit" \/ ~Running)

(* Where the limit is a time, what is older goes in the end: tables created *)
(* while a pass goes through them end that pass only.                      *)
(* (clean_database, call_every)                                            *)
Old(v) == v \in rows /\ v[2] + Limit <= clock
OldValuesGo ==
    ~byRows => \A v \in Names \X (0..(MaxTime - Limit)) : Old(v) ~> (v \notin rows \/ ~Running)

(* Where the limit is a number of rows, what is more goes in the end.      *)
(* "Number of rows or length of time to keep data in database, cleaned at  *)
(* even intervals" (clean_database)                                        *)
TooMany(n) == Cardinality(RowsOf(n)) > Limit
RowLimitHolds ==
    byRows => \A n \in Names : TooMany(n) ~> (~TooMany(n) \/ ~Running)
=============================================================================
