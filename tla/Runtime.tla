------------------------------ MODULE Runtime ------------------------------
(***************************************************************************)
(* The runtime of a service (daeploy/_service/service.py): parameters that *)
(* requests and timed functions read and set in threads, an entry point on *)
(* the event loop, and the history of both in the monitoring database.     *)
(*                                                                         *)
(* Only parameters and entry points with monitor=True are here; the others *)
(* do the same and store nothing.  The database is the queue and the rows  *)
(* that Monitoring looks at more closely: tables get created, files are    *)
(* not locked for long, and no row is old enough to be cleaned away.       *)
(***************************************************************************)
EXTENDS Naturals, Sequences

CONSTANTS
    Parameters,    \* the names of the parameters
    Values,        \* of parameters, and arguments of the entry point
    Initial,       \* Initial[p]: the value in the call of add_parameter
    Threads,       \* whatever sets parameters
    Calls,         \* requests to the entry point
    TakeTurns,     \* TRUE: nobody sets a parameter that is being set
    ClockAdvances, \* TRUE: two values of parameters get different times
    MaxTime,       \* bound: the clock stops there
    MaxQueue,      \* bound: nobody stores more than fits on the queue
    None

(* The two variables that a call of the entry point stores *)
Request == "request"
Response == "response"
Names == Parameters \cup {Request, Response}

ASSUME RuntimeConstants ==
    /\ Initial \in [Parameters -> Values]
    /\ TakeTurns \in BOOLEAN /\ ClockAdvances \in BOOLEAN
    /\ MaxTime \in Nat /\ MaxQueue \in Nat
    /\ {Request, Response} \cap Parameters = {}
    /\ Threads \cap Calls = {}
    /\ None \notin Values \cup Parameters \cup Calls

VARIABLES
    phase,       \* the process is off, loading the service's module, or up
    clock,       \* utcnow
    started,     \* when the process came up
    parameters,  \* parameters[p]: its value, or None before it is added
    queue,       \* what the database has yet to write
    rows,        \* rows[n]: the times and values in the table of n
    pc,          \* the next step of a thread or call
    name,        \* name[w]: the parameter that thread w sets
    value,       \* the value it sets, or the argument of a call
    stamp,       \* when it read the clock
    loop         \* the call that has the event loop, or None

Actors == Threads \cup Calls
Times == 0..MaxTime
Entry == [name : Names, time : Times, value : Values]
Row == [time : Times, value : Values]

work == <<pc, name, value, stamp, loop>>
vars == <<phase, clock, started, parameters, queue, rows, work>>

TypeOK ==
    /\ phase \in {"off", "loading", "up"}
    /\ clock \in Times /\ started \in Times
    /\ parameters \in [Parameters -> Values \cup {None}]
    /\ queue \in Seq(Entry)
    /\ rows \in [Names -> SUBSET Row]
    /\ pc \in [Actors -> {"idle", "assign", "stamp", "put", "run", "request", "response"}]
    /\ name \in [Threads -> Parameters \cup {None}]
    /\ value \in [Actors -> Values \cup {None}]
    /\ stamp \in [Actors -> Times]
    /\ loop \in Calls \cup {None}
    /\ \A x \in Actors : pc[x] # "idle" => value[x] \in Values
    /\ \A w \in Threads :
          /\ pc[w] \in {"idle", "assign", "stamp", "put"}
          /\ pc[w] # "idle" => name[w] \in Parameters

Idle ==
    /\ pc' = [x \in Actors |-> "idle"]
    /\ name' = [w \in Threads |-> None]
    /\ value' = [x \in Actors |-> None]
    /\ stamp' = [x \in Actors |-> 0]
    /\ loop' = None

Init ==
    /\ phase = "off"
    /\ clock = 0 /\ started = 0
    /\ parameters = [p \in Parameters |-> None]
    /\ queue = <<>>
    /\ rows = [n \in Names |-> {}]
    /\ pc = [x \in Actors |-> "idle"]
    /\ name = [w \in Threads |-> None]
    /\ value = [x \in Actors |-> None]
    /\ stamp = [x \in Actors |-> 0]
    /\ loop = None

(* write_to_ts *)
Put(n, t, v) ==
    /\ Len(queue) < MaxQueue
    /\ queue' = Append(queue, [name |-> n, time |-> t, value |-> v])

Goto(x, step) == pc' = [pc EXCEPT ![x] = step]

-----------------------------------------------------------------------------
(* update_parameter, called by a POST request or by set_parameter.  A value *)
(* of another class than the first is refused before anything happens.     *)

Sets(w, p) == pc[w] # "idle" /\ name[w] = p

BeginSet(w, p, v) ==
    /\ phase = "up"
    /\ parameters[p] # None
    /\ pc[w] = "idle"
    /\ TakeTurns => \A x \in Threads : ~Sets(x, p)
    /\ Goto(w, "assign")
    /\ name' = [name EXCEPT ![w] = p]
    /\ value' = [value EXCEPT ![w] = v]
    /\ UNCHANGED <<phase, clock, started, parameters, queue, rows, stamp, loop>>

Assign(w) ==
    /\ pc[w] = "assign"
    /\ parameters' = [parameters EXCEPT ![name[w]] = value[w]]
    /\ Goto(w, "stamp")
    /\ UNCHANGED <<phase, clock, started, queue, rows, name, value, stamp, loop>>

(* Mutation: the time is the default value of an argument of store.        *)
MutantStamp(w) ==
    /\ pc[w] = "stamp"
    /\ stamp' = [stamp EXCEPT ![w] = started]
    /\ Goto(w, "put")
    /\ UNCHANGED <<phase, clock, started, parameters, queue, rows, name, value, loop>>

Stamp(w) ==
    /\ pc[w] = "stamp"
    /\ stamp' = [stamp EXCEPT ![w] = clock]
    /\ IF ClockAdvances THEN clock < MaxTime /\ clock' = clock + 1 ELSE UNCHANGED clock
    /\ Goto(w, "put")
    /\ UNCHANGED <<phase, started, parameters, queue, rows, name, value, loop>>

StoreSet(w) ==
    /\ pc[w] = "put"
    /\ Put(name[w], stamp[w], value[w])
    /\ Goto(w, "idle")
    /\ UNCHANGED <<phase, clock, started, parameters, rows, name, value, stamp, loop>>

-----------------------------------------------------------------------------
(* The wrapper of an entry point: its function runs in a thread, in which  *)
(* it may set parameters like any other thread.  Once it has returned and  *)
(* the body of the request is read, nothing else gets the event loop until *)
(* both variables are on the queue.                                        *)

BeginCall(c, v) ==
    /\ phase = "up"
    /\ pc[c] = "idle"
    /\ Goto(c, "run")
    /\ value' = [value EXCEPT ![c] = v]
    /\ UNCHANGED <<phase, clock, started, parameters, queue, rows, name, stamp, loop>>

(* The function raises, or the response is no JSON. *)
CallFails(c) ==
    /\ pc[c] = "run"
    /\ Goto(c, "idle")
    /\ UNCHANGED <<phase, clock, started, parameters, queue, rows, name, value, stamp, loop>>

Return(c) ==
    /\ pc[c] = "run"
    /\ loop = None
    /\ loop' = c
    /\ stamp' = [stamp EXCEPT ![c] = clock]
    /\ Goto(c, "request")
    /\ UNCHANGED <<phase, clock, started, parameters, queue, rows, name, value>>

StoreRequest(c) ==
    /\ pc[c] = "request"
    /\ Put(Request, stamp[c], value[c])
    /\ Goto(c, "response")
    /\ UNCHANGED <<phase, clock, started, parameters, rows, name, value, stamp, loop>>

(* Mutation: each variable is stored with a time of its own. *)
MutantStoreResponse(c) ==
    /\ pc[c] = "response"
    /\ Put(Response, clock, value[c])
    /\ loop' = None
    /\ Goto(c, "idle")
    /\ UNCHANGED <<phase, clock, started, parameters, rows, name, value, stamp>>

(* The response is told apart by the argument it answers. *)
StoreResponse(c) ==
    /\ pc[c] = "response"
    /\ Put(Response, stamp[c], value[c])
    /\ loop' = None
    /\ Goto(c, "idle")
    /\ UNCHANGED <<phase, clock, started, parameters, rows, name, value, stamp>>

-----------------------------------------------------------------------------
(* The database and the process *)

(* The time is the primary key: a second value at that time is refused. *)
Write ==
    /\ phase = "up"
    /\ queue # <<>>
    /\ queue' = Tail(queue)
    /\ LET e == Head(queue)
           row == [time |-> e.time, value |-> e.value]
       IN rows' = IF \E r \in rows[e.name] : r.time = e.time THEN rows
                  ELSE [rows EXCEPT ![e.name] = @ \cup {row}]
    /\ UNCHANGED <<phase, clock, started, parameters, work>>

Load ==
    /\ phase = "off"
    /\ phase' = "loading"
    /\ UNCHANGED <<clock, started, parameters, queue, rows, work>>

(* add_parameter, with the update by which it sets the first value *)
AddParameter(p) ==
    /\ phase = "loading"
    /\ parameters[p] = None
    /\ parameters' = [parameters EXCEPT ![p] = Initial[p]]
    /\ Put(p, clock, Initial[p])
    /\ UNCHANGED <<phase, clock, started, rows, work>>

(* The module is loaded.  initialize_db replaces the queue.  Coming up     *)
(* takes time.                                                             *)
Startup ==
    /\ phase = "loading"
    /\ \A p \in Parameters : parameters[p] # None
    /\ clock < MaxTime
    /\ phase' = "up"
    /\ clock' = clock + 1
    /\ started' = clock + 1
    /\ queue' = <<>>
    /\ UNCHANGED <<parameters, rows, work>>

Unloaded ==
    /\ phase' = "off"
    /\ parameters' = [p \in Parameters |-> None]
    /\ queue' = <<>>
    /\ Idle
    /\ UNCHANGED <<clock, started>>

(* service_shutdown, once all requests to the entry point are answered: the *)
(* queue is written and the file removed.                                  *)
Stop ==
    /\ phase = "up"
    /\ \A c \in Calls : pc[c] = "idle"
    /\ Unloaded
    /\ rows' = [n \in Names |-> {}]

(* The process is killed, and the container starts again with its files. *)
Kill ==
    /\ phase # "off"
    /\ Unloaded
    /\ UNCHANGED rows

Tick ==
    /\ clock < MaxTime
    /\ clock' = clock + 1
    /\ UNCHANGED <<phase, started, parameters, queue, rows, work>>

Set(w) == Assign(w) \/ Stamp(w) \/ StoreSet(w)
CallStep(c) == CallFails(c) \/ Return(c) \/ StoreRequest(c) \/ StoreResponse(c)

Next ==
    \/ \E w \in Threads :
          Set(w) \/ \E p \in Parameters, v \in Values : BeginSet(w, p, v)
    \/ \E c \in Calls : CallStep(c) \/ \E v \in Values : BeginCall(c, v)
    \/ \E p \in Parameters : AddParameter(p)
    \/ Write \/ Load \/ Startup \/ Stop \/ Kill \/ Tick

Spec == Init /\ [][Next]_vars

-----------------------------------------------------------------------------
Newest(n, r) == r \in rows[n] /\ \A s \in rows[n] : s.time <= r.time

(* Nobody sets p, and all that was stored is written. *)
Settled(p) ==
    /\ phase = "up"
    /\ \A w \in Threads : ~Sets(w, p)
    /\ \A i \in DOMAIN queue : queue[i].name # p

(* The newest value in the history of a parameter, if it is of this        *)
(* process, is the value the parameter has: the one is set first and the   *)
(* other stored later, with a time read in between.                        *)
(* (add_parameter, store)                                                  *)
HistoryFollows ==
    \A p \in Parameters : Settled(p) =>
        \A r \in rows[p] : Newest(p, r) /\ r.time >= started => r.value = parameters[p]

(* A request and a response stored with one time belong to one call: by    *)
(* their times a reader tells which response answers which request, also   *)
(* when calls overlap, share a time, or are cut off by a crash.            *)
(* (entrypoint, store)                                                     *)
PairsMatch ==
    \A q \in rows[Request], r \in rows[Response] :
        q.time = r.time => q.value = r.value
=============================================================================
