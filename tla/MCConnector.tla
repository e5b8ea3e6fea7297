---------------------------- MODULE MCConnector ----------------------------
(* An instance of Connector for TLC. *)
EXTENDS Connector

CONSTANTS s1, s2, w1, w2, i1, i2, i3
=============================================================================
