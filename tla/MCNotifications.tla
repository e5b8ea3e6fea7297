-------------------------- MODULE MCNotifications --------------------------
EXTENDS Notifications, TLC

CONSTANTS k1, k2, w1, w2

\* k1 has no timer, k2 freezes its e-mails for two ticks.
MCTimer == [k \in Keys |-> IF k = k1 THEN 0 ELSE 2]

Symmetry == Permutations({w1, w2})
=============================================================================
