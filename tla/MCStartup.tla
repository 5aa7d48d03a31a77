------------------------------ MODULE MCStartup ------------------------------
(* Instances of Startup for TLC.                                           *)
EXTENDS Startup

CONSTANTS p23333, p8080

ThreeServers == {"server1", "server2", "service"}
TwoServers == {"server1", "server2"}
BothPorts == {p23333, p8080}
=============================================================================
