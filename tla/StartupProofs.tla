---------------------------- MODULE StartupProofs ----------------------------
(***************************************************************************)
(* What holds of Startup for every set of servers and ports.               *)
(***************************************************************************)
EXTENDS Startup, TLAPS

\* What a process has at each point of its start.
StageOK(s) ==
  /\ proc[s] \in Ended \cup {"created"} => at[s] = "nowhere"
  /\ proc[s] \in Ended \cup {"created", "bound"} => ~listening[s]
  /\ at[s] = "anywhere" => listening[s]
  /\ at[s] \in Ports => at[s] = AddrPort(s)
  /\ s \notin Epoll /\ proc[s] \in {"listened", "running"} => sock[s]
  /\ s \in Epoll /\ proc[s] = "running" => sock[s]
  /\ s \in Epoll /\ proc[s] \in {"listened", "running"} =>
       (status[s] = "0x00" <=> listening[s] /\ at[s] = DEBUG_PORT)

IInv == TypeOK /\ \A s \in Servers : StageOK(s)

\* Without its values the result of config() is one of four.
LEMMA StatusRange ==
  ASSUME NEW b \in BOOLEAN, NEW h \in BOOLEAN
  PROVE  /\ ConfigStatus(b, h) \in {"0x00", "0x01", "0x10", "0x11"}
         /\ ConfigStatus(b, h) = "0x00" <=> b /\ h
  BY DEF ConfigStatus

\* The invariant holds before any process is started.
LEMMA InitInv == Init => IInv
  BY ConstantsOK DEF Init, IInv, TypeOK, StageOK, Ended

\* The end of a process keeps the invariant.
LEMMA EndInv ==
  ASSUME IInv, NEW s \in Servers, NEW how \in Ended, End(s, how)
  PROVE  IInv'
<1>1. TypeOK'
  BY ConstantsOK DEF IInv, TypeOK, End, Ended
<1>2. ASSUME NEW t \in Servers PROVE StageOK(t)'
  BY <1>2, ConstantsOK DEF IInv, TypeOK, End, Ended, StageOK, AddrPort
<1>. QED  BY <1>1, <1>2 DEF IInv

\* Every step of a starting process keeps the invariant.
LEMMA StartInv ==
  ASSUME IInv, NEW s \in Servers, Step(s)
  PROVE  IInv'
<1>1. CASE Construct(s)
  <2>1. TypeOK'
    BY <1>1, ConstantsOK DEF IInv, TypeOK, Construct, Ended
  <2>2. ASSUME NEW t \in Servers PROVE StageOK(t)'
    BY <1>1, <2>2, ConstantsOK DEF IInv, TypeOK, Construct, Ended, StageOK, AddrPort
  <2>. QED  BY <2>1, <2>2 DEF IInv
<1>2. CASE Bind(s)
  <2>0. AddrPort(s) \in Ports
    BY ConstantsOK DEF IInv, TypeOK, AddrPort
  <2>1. TypeOK'
    BY <1>2, <2>0, ConstantsOK DEF IInv, TypeOK, Bind, Bindable, Ended
  <2>2. ASSUME NEW t \in Servers PROVE StageOK(t)'
    BY <1>2, <2>0, <2>2, ConstantsOK DEF IInv, TypeOK, Bind, Ended, StageOK, AddrPort
  <2>. QED  BY <2>1, <2>2 DEF IInv
<1>3. CASE Listen(s)
  <2>1. CASE ~AssertFd(s) /\ End(s, "aborted")
    BY <2>1, EndInv DEF Ended
  <2>2. CASE AssertFd(s) /\ ~(End(s, "aborted") /\ ~AssertFd(s))
    <3>. PICK heard \in {FALSE, sock[s]} :
           /\ listening' = [listening EXCEPT ![s] = heard]
           /\ status' = [status EXCEPT ![s] = ConfigStatus(at[s] # "nowhere", heard)]
           /\ at' = [at EXCEPT ![s] = IF heard /\ @ = "nowhere" THEN "anywhere" ELSE @]
      BY <1>3, <2>2 DEF Listen
    <3>0. /\ proc[s] = "bound"
          /\ proc' = [proc EXCEPT ![s] = "listened"]
          /\ UNCHANGED <<wanted, sock, lingering>>
      BY <1>3, <2>2 DEF Listen
    <3>a. heard \in BOOLEAN /\ (heard => sock[s])
      BY DEF IInv, TypeOK
    <3>b. /\ ConfigStatus(at[s] # "nowhere", heard) \in {"0x00", "0x01", "0x10", "0x11"}
          /\ ConfigStatus(at[s] # "nowhere", heard) = "0x00" <=> at[s] # "nowhere" /\ heard
      BY <3>a, StatusRange
    <3>1. TypeOK'
      BY <3>0, <3>a, <3>b, ConstantsOK DEF IInv, TypeOK, Ended
    <3>2. ASSUME NEW t \in Servers PROVE StageOK(t)'
      BY <2>2, <3>0, <3>a, <3>b, <3>2, ConstantsOK
        DEF IInv, TypeOK, Ended, StageOK, AddrPort, AssertFd
    <3>. QED  BY <3>1, <3>2 DEF IInv
  <2>. QED  BY <1>3, <2>1, <2>2 DEF Listen
<1>4. CASE Register(s)
  <2>1. CASE End(s, "exit_failure")
    BY <2>1, EndInv DEF Ended
  <2>2. CASE ~End(s, "exit_failure")
    <3>0. /\ proc[s] = "listened" /\ (s \in Epoll => sock[s])
          /\ proc' = [proc EXCEPT ![s] = "running"]
          /\ UNCHANGED <<wanted, sock, at, listening, status, lingering>>
      BY <1>4, <2>2 DEF Register, Registers
    <3>1. TypeOK'
      BY <3>0 DEF IInv, TypeOK, Ended
    <3>2. ASSUME NEW t \in Servers PROVE StageOK(t)'
      BY <3>0, <3>2 DEF IInv, TypeOK, Ended, StageOK, AddrPort
    <3>. QED  BY <3>1, <3>2 DEF IInv
  <2>. QED  BY <2>1, <2>2
<1>5. CASE AcceptFails(s)
  BY <1>5, EndInv DEF AcceptFails, Ended
<1>. QED  BY <1>1, <1>2, <1>3, <1>4, <1>5 DEF Step

\* So does every other step.
LEMMA NextInv == IInv /\ [Next]_vars => IInv'
<1>. SUFFICES ASSUME IInv, [Next]_vars PROVE IInv'
  OBVIOUS
<1>1. ASSUME NEW s \in Servers, Step(s) PROVE IInv'
  BY <1>1, StartInv
<1>2. ASSUME NEW s \in Servers, Serve(s) PROVE IInv'
  <2>1. TypeOK'
    BY <1>2 DEF IInv, TypeOK, Serve, Ended
  <2>2. ASSUME NEW t \in Servers PROVE StageOK(t)'
    BY <1>2, <2>2 DEF IInv, Serve, Ended, StageOK, AddrPort
  <2>. QED  BY <2>1, <2>2 DEF IInv
<1>3. ASSUME NEW s \in Servers, Stop(s) PROVE IInv'
  BY <1>3, EndInv DEF Stop, Ended
<1>4. ASSUME NEW p \in Ports, Expire(p) PROVE IInv'
  <2>1. TypeOK'
    BY <1>4 DEF IInv, TypeOK, Expire, Ended
  <2>2. ASSUME NEW t \in Servers PROVE StageOK(t)'
    BY <1>4, <2>2 DEF IInv, Expire, Ended, StageOK, AddrPort
  <2>. QED  BY <2>1, <2>2 DEF IInv
<1>5. CASE UNCHANGED vars
  BY <1>5 DEF IInv, TypeOK, StageOK, Ended, AddrPort, vars
<1>. QED  BY <1>1, <1>2, <1>3, <1>4, <1>5 DEF Next

\* The inductive invariant holds in every reachable state.
THEOREM Invariance == Spec => []IInv
<1>. QED  BY InitInv, NextInv, PTL DEF Spec

\* Two servers are never bound to one port, whatever fails and whoever restarts.
THEOREM TypeCorrect == Spec => []TypeOK
<1>1. IInv => TypeOK
  BY DEF IInv
<1>. QED  BY <1>1, Invariance, PTL

\* config() of a running net::Server returned 0 if and only if it can be reached
\* at its port.
THEOREM StatusCorrect == Spec => []StatusTellsReach
<1>1. IInv => StatusTellsReach
  BY ConstantsOK DEF IInv, StatusTellsReach, StageOK
<1>. QED  BY <1>1, Invariance, PTL

\* No server runs its loop without a socket.
THEOREM SocketCorrect == Spec => []RunningHasSocket
<1>1. IInv => RunningHasSocket
  BY DEF IInv, RunningHasSocket, StageOK
<1>. QED  BY <1>1, Invariance, PTL
=============================================================================
