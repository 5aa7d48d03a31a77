------------------------------- MODULE Startup -------------------------------
(***************************************************************************)
(* How the servers of the tree come up: net::Server (main, Creat_socket,   *)
(* config, run up to its first accept) and core::service (net::socket and  *)
(* the constructor).  Several processes, restarted at any time, compete    *)
(* for ports; every system call on the way may fail.                       *)
(***************************************************************************)
EXTENDS Integers

CONSTANTS
  Servers,    \* server processes, each started any number of times
  Epoll,      \* those that run net::Server; the others run core::service
  Ports,      \* ports somebody asks for
  DEBUG_PORT  \* the port config.h compiles into net::Server

ASSUME ConstantsOK ==
  /\ Epoll \subseteq Servers
  /\ DEBUG_PORT \in Ports
  /\ Ports \cap {"nowhere", "anywhere"} = {}

VARIABLES
  proc,       \* how far a process is, or how it ended
  wanted,     \* the port it was asked to serve
  sock,       \* did socket() give it a descriptor?
  at,         \* where its socket is bound; "anywhere": a port nobody knows
  listening,  \* did listen() succeed?
  status,     \* what Server::config returns
  lingering   \* ports with connections in TIME_WAIT

vars == <<proc, wanted, sock, at, listening, status, lingering>>

Ended == {"down", "exit_failure", "aborted"}

Init ==
  /\ proc = [s \in Servers |-> "down"]
  /\ wanted = [s \in Servers |-> DEBUG_PORT]
  /\ sock = [s \in Servers |-> FALSE]
  /\ at = [s \in Servers |-> "nowhere"]
  /\ listening = [s \in Servers |-> FALSE]
  /\ status = [s \in Servers |-> "0x00"]
  /\ lingering = {}

\* The process ends; the kernel closes its socket.
End(s, how) ==
  /\ proc' = [proc EXCEPT ![s] = how]
  /\ sock' = [sock EXCEPT ![s] = FALSE]
  /\ at' = [at EXCEPT ![s] = "nowhere"]
  /\ listening' = [listening EXCEPT ![s] = FALSE]
  /\ UNCHANGED <<wanted, status, lingering>>

\* The constructors: socket(), whose result nobody looks at.  Server(ip, port)
\* makes a second Creat_socket that is gone, but for its descriptor, when the
\* constructor returns: it is like Server().
Construct(s) ==
  /\ proc[s] \in Ended
  /\ proc' = [proc EXCEPT ![s] = "created"]
  /\ \E p \in Ports : wanted' = [wanted EXCEPT ![s] = p]
  /\ \E ok \in BOOLEAN : sock' = [sock EXCEPT ![s] = ok]
  /\ status' = [status EXCEPT ![s] = "0x00"]
  /\ UNCHANGED <<at, listening, lingering>>

\* What the address given to bind() names.
AddrPort(s) == IF s \in Epoll THEN DEBUG_PORT ELSE wanted[s]

\* Without SO_REUSEADDR, bind() also refuses a port with connections in
\* TIME_WAIT.
Bindable(p) == p \notin lingering /\ \A t \in Servers : at[t] # p

\* Fault: config() forgets that bind() failed once listen() has succeeded.
ForgetBind(bound, heard) == IF heard THEN "0x00" ELSE IF bound THEN "0x10" ELSE "0x11"

\* What config() returns.
ConfigStatus(bound, heard) ==
  CASE bound /\ heard -> "0x00"
    [] ~bound /\ heard -> "0x01"
    [] bound /\ ~heard -> "0x10"
    [] ~bound /\ ~heard -> "0x11"

Bind(s) ==
  /\ proc[s] = "created"
  /\ proc' = [proc EXCEPT ![s] = "bound"]
  /\ at' = [at EXCEPT ![s] = IF sock[s] /\ Bindable(AddrPort(s)) THEN AddrPort(s) ELSE @]
  /\ UNCHANGED <<wanted, sock, listening, status, lingering>>

\* setnonblocking, which core::service calls between bind() and listen(),
\* asserts that there is a descriptor.
AssertFd(s) == s \in Epoll \/ sock[s]

\* listen() on a socket that bind() refused binds it to any free port.  It can
\* fail on every socket.
Listen(s) ==
  /\ proc[s] = "bound"
  /\ \/ /\ ~AssertFd(s) /\ End(s, "aborted")
     \/ /\ AssertFd(s)
        /\ proc' = [proc EXCEPT ![s] = "listened"]
        /\ \E heard \in {FALSE, sock[s]} :
             /\ listening' = [listening EXCEPT ![s] = heard]
             /\ status' = [status EXCEPT ![s] = ConfigStatus(at[s] # "nowhere", heard)]
             /\ at' = [at EXCEPT ![s] = IF heard /\ @ = "nowhere" THEN "anywhere" ELSE @]
        /\ UNCHANGED <<wanted, sock, lingering>>

\* epoll_ctl refuses a descriptor of -1.
Registers(s) == sock[s]

\* main drops the result of config() and calls run(), which registers the
\* socket; epoll_create1() may fail.  core::service starts its watcher.
Register(s) ==
  /\ proc[s] = "listened"
  /\ \/ /\ s \in Epoll /\ End(s, "exit_failure")
     \/ /\ s \in Epoll => Registers(s)
        /\ proc' = [proc EXCEPT ![s] = "running"]
        /\ UNCHANGED <<wanted, sock, at, listening, status, lingering>>

\* Fault: run() goes on after a failing accept(), as listen_accept does.
ExitsNever(s) == FALSE

\* run() ends the process when accept() fails; listen_accept returns.
ExitsOnFailure(s) == s \in Epoll

\* A socket that does not listen is reported with EPOLLHUP, and accept() fails.
\* core::service comes back to that for ever: no variable changes.
AcceptFails(s) ==
  /\ proc[s] = "running" /\ ~listening[s] /\ ExitsOnFailure(s)
  /\ End(s, "exit_failure")

\* A peer is served, and the server closes first.
Serve(s) ==
  /\ proc[s] = "running" /\ listening[s] /\ at[s] \in Ports
  /\ lingering' = lingering \cup {at[s]}
  /\ UNCHANGED <<proc, wanted, sock, at, listening, status>>

Expire(p) ==
  /\ p \in lingering
  /\ lingering' = lingering \ {p}
  /\ UNCHANGED <<proc, wanted, sock, at, listening, status>>

\* SIGINT, at any moment.
Stop(s) == proc[s] \notin Ended /\ End(s, "down")

Step(s) == Construct(s) \/ Bind(s) \/ Listen(s) \/ Register(s) \/ AcceptFails(s)

Next ==
  \/ \E s \in Servers : Step(s) \/ Serve(s) \/ Stop(s)
  \/ \E p \in Ports : Expire(p)

Spec == Init /\ [][Next]_vars

\* A process that was started keeps running; nobody has to start, stop or use
\* one.
FairSpec ==
  Spec /\ \A s \in Servers :
            WF_vars(Bind(s)) /\ WF_vars(Listen(s)) /\ WF_vars(Register(s)) /\ WF_vars(AcceptFails(s))

-----------------------------------------------------------------------------
(* Properties.                                                             *)

\* Every variable keeps to its type, and two sockets are never bound to one
\* port.
TypeOK ==
  /\ proc \in [Servers -> Ended \cup {"created", "bound", "listened", "running"}]
  /\ wanted \in [Servers -> Ports]
  /\ sock \in [Servers -> BOOLEAN]
  /\ at \in [Servers -> Ports \cup {"nowhere", "anywhere"}]
  /\ listening \in [Servers -> BOOLEAN]
  /\ status \in [Servers -> {"0x00", "0x01", "0x10", "0x11"}]
  /\ lingering \subseteq Ports
  /\ \A s, t \in Servers : at[s] \in Ports /\ at[s] = at[t] => s = t

\* The result of config(), which main drops, is exactly what it would need: it
\* is 0 if and only if the server that runs can be reached at its port, however
\* the ports change hands while it runs.
StatusTellsReach ==
  \A s \in Epoll : proc[s] = "running" =>
    (status[s] = "0x00" <=> listening[s] /\ at[s] = DEBUG_PORT)

\* No server of either kind runs its loop on the descriptor -1 of a socket()
\* that failed: epoll_ctl or the assertion of setnonblocking stops it.
RunningHasSocket == \A s \in Servers : proc[s] = "running" => sock[s]

\* A net::Server whose socket does not listen does not stay up: it comes up
\* unreachable only on a port of the kernel's choice.
DeafServerEnds ==
  \A s \in Epoll : proc[s] = "running" /\ ~listening[s] ~> proc[s] # "running"
=============================================================================
