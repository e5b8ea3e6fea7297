----------------------------- MODULE NoticeBoard -----------------------------
(***************************************************************************)
(* What a user of the dashboard is promised about notifications: each one  *)
(* that is posted is counted, in one step and once, with those equal to    *)
(* it, and the counts only go when somebody clears the board.              *)
(***************************************************************************)
EXTENDS Naturals

CONSTANTS Keys,     \* the notifications that differ
          Clients,  \* whoever posts
          None

VARIABLES counts,   \* counts[k]: how often k was posted since the last clearing
          posting   \* posting[c]: what c is about to post, or None

vars == <<counts, posting>>

Init ==
    /\ counts = [k \in Keys |-> 0]
    /\ posting = [c \in Clients |-> None]

Begin(c, k) ==
    /\ posting[c] = None
    /\ posting' = [posting EXCEPT ![c] = k]
    /\ UNCHANGED counts

Count(c) ==
    /\ posting[c] # None
    /\ counts' = [counts EXCEPT ![posting[c]] = @ + 1]
    /\ posting' = [posting EXCEPT ![c] = None]

Clear ==
    /\ counts' = [k \in Keys |-> 0]
    /\ UNCHANGED posting

Next == Clear \/ \E c \in Clients : Count(c) \/ \E k \in Keys : Begin(c, k)

Spec == Init /\ [][Next]_vars
=============================================================================
