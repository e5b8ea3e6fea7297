----------------------------- MODULE MCAccounts -----------------------------
EXTENDS Accounts, TLC

CONSTANTS u, v, w1, w2

Symmetry == Permutations({u, v}) \cup Permutations({w1, w2})
=============================================================================
