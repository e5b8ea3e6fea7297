---------------------------- MODULE MCMonitoring ----------------------------
EXTENDS Monitoring, TLC

CONSTANTS x, y, z, w1

Symmetry == Permutations({x, y})
=============================================================================
