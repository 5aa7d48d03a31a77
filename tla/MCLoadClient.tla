----------------------------- MODULE MCLoadClient -----------------------------
(* Instances of LoadClient for TLC.                                        *)
EXTENDS LoadClient

CONSTANTS c1, c2, a1, a2

TwoConns == {c1, c2}
TwoAddrs == {a1, a2}
=============================================================================
