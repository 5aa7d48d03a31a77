------------------------------ MODULE MCService ------------------------------
(* Instances of Service for TLC.                                           *)
EXTENDS Service

CONSTANTS c1, c2, a1, a2

MCConns == {c1, c2}
MCAddrs == {a1, a2}
=============================================================================
