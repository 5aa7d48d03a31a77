------------------------------- MODULE OneShot -------------------------------
(***************************************************************************)
(* What trashy_server promises its peers: a connection is opened once, is  *)
(* closed by the server at most once, and carries at most one response,    *)
(* which belongs to that closing.  Module Reactor implements it.           *)
(***************************************************************************)
CONSTANTS
  Conns,      \* the connections peers open
  Answers,    \* the ways a connection can be closed
  Null        \* no answer: not closed by the server

VARIABLES
  open,       \* the connections the server has accepted and not closed
  answer,     \* what each connection was closed with
  up          \* the server serves

vars == <<open, answer, up>>

Init ==
  /\ open = {}
  /\ answer = [c \in Conns |-> Null]
  /\ up = TRUE

Accept(c) ==
  /\ up
  /\ c \notin open /\ answer[c] = Null
  /\ open' = open \cup {c}
  /\ UNCHANGED <<answer, up>>

Close(c) ==
  /\ up /\ c \in open
  /\ open' = open \ {c}
  /\ \E a \in Answers : answer' = [answer EXCEPT ![c] = a]
  /\ UNCHANGED up

\* The process ends or hangs: whatever is open stays unanswered.
GoDown ==
  /\ up
  /\ up' = FALSE
  /\ UNCHANGED <<open, answer>>

Next == GoDown \/ \E c \in Conns : Accept(c) \/ Close(c)

Spec == Init /\ [][Next]_vars
=============================================================================
