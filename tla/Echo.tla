-------------------------------- MODULE Echo --------------------------------
(***************************************************************************)
(* What the libev server of src/lib promises its peers: every connection   *)
(* is an independent FIFO byte echo.  Byte number i of a connection's      *)
(* input stream is written i, so a faithful echo of k bytes is 1, 2 .. k.  *)
(* Module Service implements this specification.                           *)
(***************************************************************************)
EXTENDS Naturals, Sequences

CONSTANT Conns          \* the connections peers open

VARIABLES
  phase,                \* "new", "open" (accepted) or "closed" by the server
  fed,                  \* how many bytes the peer has sent
  echoed                \* the bytes written back, in the order of writing

vars == <<phase, fed, echoed>>

\* The k bytes that follow the first n ones of a stream.
Bytes(n, k) == [i \in 1..k |-> n + i]

Init ==
  /\ phase = [c \in Conns |-> "new"]
  /\ fed = [c \in Conns |-> 0]
  /\ echoed = [c \in Conns |-> << >>]

Open(c) ==
  /\ phase[c] = "new"
  /\ phase' = [phase EXCEPT ![c] = "open"]
  /\ UNCHANGED <<fed, echoed>>

Feed(c) ==
  /\ phase[c] # "closed"
  /\ fed' = [fed EXCEPT ![c] = @ + 1]
  /\ UNCHANGED <<phase, echoed>>

\* The server returns the next k bytes it has not returned yet, never more
\* than the peer has sent.
Reply(c) ==
  /\ phase[c] = "open"
  /\ \E k \in 1 .. fed[c] - Len(echoed[c]) :
       echoed' = [echoed EXCEPT ![c] = @ \o Bytes(Len(@), k)]
  /\ UNCHANGED <<phase, fed>>

\* One connection ends, or all of them do when the process goes down.
HangUp(S) ==
  /\ \A c \in S : phase[c] = "open"
  /\ phase' = [c \in Conns |-> IF c \in S THEN "closed" ELSE phase[c]]
  /\ UNCHANGED <<fed, echoed>>

Next ==
  \/ \E c \in Conns : Open(c) \/ Feed(c) \/ Reply(c)
  \/ \E S \in SUBSET Conns : HangUp(S)

Spec == Init /\ [][Next]_vars
=============================================================================
