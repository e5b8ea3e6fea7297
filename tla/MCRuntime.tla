----------------------------- MODULE MCRuntime -----------------------------
(* An instance of Runtime for TLC. *)
EXTENDS Runtime, TLC

CONSTANTS v1, v2, w1, c1, c2

\* Every parameter starts with v1.
FirstValues == [p \in Parameters |-> v1]

Symmetry == Permutations(Calls)
=============================================================================
