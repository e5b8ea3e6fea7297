----------------------------- MODULE Directory -----------------------------
(***************************************************************************)
(* What the manager promises about its users: each has one password, that  *)
(* an administrator adds, changes or takes away; only a crash while the    *)
(* password of a user is being changed may lose that user.                 *)
(***************************************************************************)
CONSTANTS Names, Passwords, None

VARIABLES account,   \* account[u]: the password of u, None: no such user
          changing   \* the users whose password is being changed

vars == <<account, changing>>

Init ==
    /\ account = [u \in Names |-> None]
    /\ changing = {}

Add(u, p) ==
    /\ account[u] = None
    /\ account' = [account EXCEPT ![u] = p]
    /\ UNCHANGED changing

Remove(u) ==
    /\ account[u] # None /\ u \notin changing
    /\ account' = [account EXCEPT ![u] = None]
    /\ UNCHANGED changing

BeginChange(u) ==
    /\ account[u] # None /\ u \notin changing
    /\ changing' = changing \cup {u}
    /\ UNCHANGED account

EndChange(u, p) ==
    /\ u \in changing
    /\ account' = [account EXCEPT ![u] = p]
    /\ changing' = changing \ {u}

Crash ==
    /\ \A u \in Names : \/ account'[u] = account[u]
                        \/ u \in changing /\ account'[u] = None
    /\ changing' = {}

Next ==
    \/ \E u \in Names, p \in Passwords : Add(u, p) \/ EndChange(u, p)
    \/ \E u \in Names : Remove(u) \/ BeginChange(u)
    \/ Crash

Spec == Init /\ [][Next]_vars
=============================================================================
