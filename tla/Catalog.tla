------------------------------ MODULE Catalog ------------------------------
(***************************************************************************)
(* What the manager promises about the services it hosts, without handlers,*)
(* database sessions, containers or proxy files: under each name there is  *)
(* a set of versions, and exactly one of them is the main version as soon  *)
(* as there is any.  The first version deployed becomes main, a main with  *)
(* shadows is never removed, and promoting a version is one step: no       *)
(* reader ever finds a name with no main or with two.                      *)
(***************************************************************************)
CONSTANTS Names,     \* the names services can have
          Versions,  \* the versions a service can have
          None       \* stands for "no version"

VARIABLES versions,  \* versions[n]: the versions deployed under the name n
          main       \* main[n]: the main version of n, None when there is none

vars == <<versions, main>>

TypeOK ==
    /\ versions \in [Names -> SUBSET Versions]
    /\ main \in [Names -> Versions \cup {None}]

Init ==
    /\ versions = [n \in Names |-> {}]
    /\ main = [n \in Names |-> None]

(* A new version: a shadow when the name has a main, the main otherwise. *)
Add(n, v) ==
    /\ v \notin versions[n]
    /\ versions' = [versions EXCEPT ![n] = @ \cup {v}]
    /\ main' = [main EXCEPT ![n] = IF @ = None THEN v ELSE @]

(* A shadow may go at any time, the main only when it is alone. *)
Remove(n, v) ==
    /\ v \in versions[n]
    /\ v = main[n] => versions[n] = {v}
    /\ versions' = [versions EXCEPT ![n] = @ \ {v}]
    /\ main' = [main EXCEPT ![n] = IF @ = v THEN None ELSE @]

(* The old main becomes a shadow and a version already deployed the main. *)
Promote(n, v) ==
    /\ v \in versions[n]
    /\ main' = [main EXCEPT ![n] = v]
    /\ UNCHANGED versions

Next == \E n \in Names, v \in Versions : Add(n, v) \/ Remove(n, v) \/ Promote(n, v)

Spec == Init /\ [][Next]_vars

============================================================================
