------------------------------- MODULE Journal -------------------------------
(***************************************************************************)
(* What a service is promised about the variables it stores: a value it    *)
(* handed over is waiting until it is kept, a value that is kept goes only *)
(* by the limit of the database or with the whole database, and a process  *)
(* that is killed loses what waited and nothing else.  A value may be      *)
(* refused while the database is busy; then its variable may be refused    *)
(* until the end of the process, and no other one is.                      *)
(***************************************************************************)
EXTENDS Integers, FiniteSets

CONSTANTS Names,  \* the variables
          Limit   \* how many values of each, or for how long they are kept

VARIABLES waiting,  \* the values, each a name and a time, not yet written
          kept,     \* the values in the database
          refused,  \* the variables of which nothing more is kept
          byRows,   \* the limit is a number of values
          clock,
          busy      \* an input: the database cannot be written

vars == <<waiting, kept, refused, byRows, clock>>

Init ==
    /\ waiting = {}
    /\ kept = {}
    /\ refused = {}
    /\ byRows \in BOOLEAN
    /\ clock = 0

Accept ==
    /\ \E v \in waiting' : /\ v \in Names \X Nat
                          /\ waiting' = waiting \cup {v}
    /\ UNCHANGED <<kept, refused, byRows, clock>>

(* The same variable may have been handed over twice at the same time. *)
Keep(v) ==
    /\ v \in waiting
    /\ kept' = kept \cup {v}
    /\ waiting' \in {waiting, waiting \ {v}}
    /\ UNCHANGED <<refused, byRows, clock>>

Refuse(v) ==
    /\ v \in waiting
    /\ waiting' \in {waiting, waiting \ {v}}
    /\ \/ v[1] \in refused /\ UNCHANGED refused
       \/ busy /\ refused' \in {refused, refused \cup {v[1]}}
    /\ UNCHANGED <<kept, byRows, clock>>

Newer(v, values) == {x \in values : x[1] = v[1] /\ x[2] > v[2]}

(* Values go only when enough newer ones stay, or when they are old. *)
Trim ==
    /\ kept' \subseteq kept
    /\ \A v \in kept \ kept' :
          IF byRows THEN Cardinality(Newer(v, kept')) >= Limit
          ELSE v[2] + Limit <= clock
    /\ UNCHANGED <<waiting, refused, byRows, clock>>

(* The next process refuses nothing. *)
Killed ==
    /\ waiting' = {} /\ refused' \in {refused, {}}
    /\ UNCHANGED <<kept, byRows, clock>>

Removed ==
    /\ waiting' = {} /\ kept' = {} /\ refused' = {}
    /\ UNCHANGED <<byRows, clock>>

Tick == clock' = clock + 1 /\ UNCHANGED <<waiting, kept, refused, byRows>>

Next ==
    \/ Accept \/ Trim \/ Killed \/ Removed \/ Tick
    \/ \E v \in waiting : Keep(v) \/ Refuse(v)

Spec == Init /\ [][Next]_vars
=============================================================================
