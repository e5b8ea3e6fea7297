------------------------------- MODULE MCCli -------------------------------
EXTENDS Cli, TLC

CONSTANTS h1, h2, s1, s2, t1, t2, v1, v2

Symmetry == Permutations({h1, h2}) \cup Permutations({s1, s2})
                \cup Permutations({t1, t2}) \cup Permutations({v1, v2})
=============================================================================
