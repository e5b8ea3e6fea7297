---------------------------- MODULE MCDeployment ----------------------------
(* Instances of Deployment for TLC. *)
EXTENDS Deployment, TLC

CONSTANTS n1, n2, v1, v2, v3, p1, p2, t1, t2, t3, t4, w1, w2

Symmetry ==
    UNION {Permutations(Names), Permutations(Versions), Permutations(Ports),
           Permutations(Tokens), Permutations(Workers)}
=============================================================================
