------------------------------ MODULE MCReactor ------------------------------
(* Instances of Reactor for TLC.                                           *)
EXTENDS Reactor

CONSTANTS c1, c2

OneConn == {c1}
TwoConns == {c1, c2}
TwoFds == {5, 6}
JustGet == {"GET"}
GetAndHead == {"GET", "HEAD"}
=============================================================================
