------------------------------- MODULE Reactor -------------------------------
(***************************************************************************)
(* trashy_server: Server::run's epoll loop, Server::do_somthing and the    *)
(* request handlers it calls.  One thread takes a batch of events from     *)
(* epoll_wait, accepts on the listening socket, and reads, answers and     *)
(* closes every other descriptor at its first event.  Peers, the kernel    *)
(* and whoever edits the configuration file move between those steps.      *)
(*                                                                         *)
(* Request text is abstracted to how much of it has arrived, replies to    *)
(* the handler that made them and whether one write() carried them whole.  *)
(***************************************************************************)
EXTENDS Integers, Sequences, FiniteSets, Functions, RequestReading

CONSTANTS
  Conns,      \* the connections peers open; each is opened at most once
  Requests,   \* the kinds of requests peers send: see RequestReading
  Fds,        \* descriptors left after stdio, sockfd and epollfd
  MaxEvent,   \* MAX_EVENT, the capacity of the array given to epoll_wait
  Null        \* "no request served"

ASSUME ConstantsOK ==
  /\ Requests \subseteq Kinds
  /\ Fds \subseteq Nat \ {0} /\ IsFiniteSet(Fds)
  /\ MaxEvent \in Nat \ {0}
  /\ Null \notin Conns \cup [by : Methods, extent : {"full", "cut", "lost", "none"}]

VARIABLES
  proc,       \* the process; "hung" is the endless loop over the config file
  pc,         \* where run() is: "wait", "dispatch" or "respond"
  batch,      \* events epoll_wait reported and the loop has not handled
  connfd,     \* Server::connfd, the descriptor accept() returned last
  backlog,    \* connections the kernel has queued on sockfd
  fd,         \* the server's descriptor of a connection, 0 when it has none
  edge,       \* connections whose readiness epoll has not reported yet
  stale,      \* what the stack array of do_somthing holds from earlier calls:
              \* see RequestReading
  meaning,    \* the method http_parse took from the array
  current,    \* the connection being answered
  served,     \* how each connection was answered and closed
  config,     \* the configuration file: "ok", "missing" or "bad"
  peer,       \* the other end of a connection
  sent,       \* how much of its request the peer has sent
  request,    \* the kind of that request
  sockerr     \* error pending on the server's socket

LISTEN == 0   \* the entry of a batch that is sockfd's

loopVars == <<batch, connfd, stale, meaning, current>>
peerVars == <<peer, sent, request, sockerr>>
vars == <<proc, pc, loopVars, backlog, fd, edge, served, config, peerVars>>

Open(c) == fd[c] # 0
FreeFds == Fds \ {fd[c] : c \in Conns}
IsLowestFree(f) == f \in FreeFds /\ \A g \in FreeFds : f <= g

\* The connection whose descriptor f is.
Owner(f) == CHOOSE c \in Conns : fd[c] = f

Init ==
  /\ proc = "running" /\ pc = "wait"
  /\ batch = << >> /\ connfd = 0
  /\ stale = "garbage" /\ meaning = "none" /\ current = Null
  /\ backlog = << >>
  /\ fd = [c \in Conns |-> 0]
  /\ edge = {}
  /\ served = [c \in Conns |-> Null]
  /\ config = "ok"
  /\ peer = [c \in Conns |-> "idle"]
  /\ sent = [c \in Conns |-> "nothing"]
  /\ request = [c \in Conns |-> "none"]
  /\ sockerr = [c \in Conns |-> "none"]

-----------------------------------------------------------------------------
(* The kernel.                                                             *)

\* A connection with data, an end of file or an error to report.
Readable(c) == sent[c] # "nothing" \/ peer[c] \in {"fin", "rst"}

\* Fault: sockfd is registered with EPOLLONESHOT and never re-armed.
ListenOnce ==
  {fd[c] : c \in edge} \cup (IF backlog # << >> /\ connfd = 0 THEN {LISTEN} ELSE {})

\* sockfd is level-triggered: it is ready while a connection waits.
Ready == {fd[c] : c \in edge} \cup (IF backlog # << >> THEN {LISTEN} ELSE {})

\* The arrays of n events epoll_wait can fill in.
Batches(n) ==
  {q \in [1..n -> Ready] : \A i, j \in 1..n : q[i] = q[j] => i = j}

\* Every error of epoll_wait ends the process, a signal (EINTR) included.
EpollWaitFails ==
  /\ proc = "running" /\ pc = "wait"
  /\ proc' = "exit_failure"
  /\ UNCHANGED <<pc, loopVars, backlog, fd, edge, served, config, peerVars>>

EpollWait ==
  /\ proc = "running" /\ pc = "wait" /\ Ready # {}
  /\ LET n == IF Cardinality(Ready) < MaxEvent THEN Cardinality(Ready) ELSE MaxEvent
     IN \E q \in Batches(n) :
          /\ batch' = q
          /\ edge' = {c \in edge : fd[c] \notin Range(q)}
  /\ pc' = "dispatch"
  /\ UNCHANGED <<proc, connfd, stale, meaning, current, backlog, fd, served, config, peerVars>>

-----------------------------------------------------------------------------
(* The body of the loop over a batch.                                      *)

\* pc when the rest of the batch is still to be handled.
Continue(rest) == IF rest = << >> THEN "wait" ELSE "dispatch"

\* Fault: the loop breaks off after an accept().
BreakOff == << >>
RestOfBatch == Tail(batch)

Exit ==
  /\ proc' = "exit_failure"
  /\ UNCHANGED <<pc, loopVars, backlog, fd, edge, served, config, peerVars>>

\* accept(), setnonblocking() and EPOLL_CTL_ADD with EPOLLIN | EPOLLET.  The
\* registration reports what has arrived before it.  A failing accept() (no
\* descriptor left) ends the process.
AcceptOne ==
  /\ proc = "running" /\ pc = "dispatch" /\ Head(batch) = LISTEN
  /\ backlog # << >>
  /\ \/ /\ FreeFds = {}
        /\ Exit
     \/ \E f \in FreeFds :
          /\ IsLowestFree(f)
          /\ fd' = [fd EXCEPT ![Head(backlog)] = f]
          /\ edge' = IF Readable(Head(backlog)) THEN edge \cup {Head(backlog)} ELSE edge
          /\ connfd' = f
          /\ backlog' = Tail(backlog)
          /\ batch' = RestOfBatch
          /\ pc' = Continue(RestOfBatch)
          /\ UNCHANGED <<proc, stale, meaning, current, served, config, peerVars>>

\* The read() of do_somthing, and http_parse.  Every error but EINTR ends the
\* process: a pending reset is such an error once nothing is left to read.  An
\* exception of set_path comes later in the code, but changes nothing before.
Read ==
  /\ proc = "running" /\ pc = "dispatch" /\ Head(batch) # LISTEN
  /\ LET c == Owner(Head(batch)) IN
     \/ /\ sent[c] = "nothing" /\ sockerr[c] = "ECONNRESET"
        /\ Exit
     \/ /\ sent[c] # "nothing" \/ sockerr[c] # "ECONNRESET"
        /\ \E m \in Parsed(stale, sent[c], request[c]) :
             \/ m \in Ends /\ proc' = m
                /\ UNCHANGED <<pc, stale, meaning, current>>
             \/ m \in Methods /\ proc' = proc /\ pc' = "respond"
                /\ stale' = Left(stale, sent[c], request[c])
                /\ meaning' = m /\ current' = c
        /\ UNCHANGED <<batch, connfd, backlog, fd, edge, served, config, peerVars>>

-----------------------------------------------------------------------------
(* The handlers of make_response.                                          *)

\* set_path and try_open construct a config_file_parse.
NeedsConfig(m) == m \in {"GET", "PUT"}

\* The file cannot be opened: load_file_to loops for ever.
ConfigHangs == config = "missing" \/ FreeFds = {}

Down(how) ==
  /\ proc' = how
  /\ UNCHANGED <<pc, loopVars, backlog, fd, edge, served, config, peerVars>>

\* Faults: the handler forgets close(sockfd), or closes Server::connfd.
LeaveOpen(c) == fd
CloseLast(c) == [d \in Conns |-> IF fd[d] = connfd THEN 0 ELSE fd[d]]

CloseFd(c) == [fd EXCEPT ![c] = 0]

\* The handler of m closes the connection, having answered it like that.
Finish(extent) ==
  /\ served' = [served EXCEPT ![current] = [by |-> meaning, extent |-> extent]]
  /\ fd' = CloseFd(current)
  /\ edge' = edge \ {current}
  /\ batch' = Tail(batch)
  /\ pc' = Continue(Tail(batch))
  /\ meaning' = "none" /\ current' = Null
  /\ UNCHANGED <<proc, connfd, stale, backlog, config, peerVars>>

\* One write() on a nonblocking socket, whatever it returns, then close().  On
\* a connection the peer reset, it returns the pending ECONNRESET or raises
\* SIGPIPE.
WriteAndClose ==
  \/ peer[current] # "rst" /\ \E x \in {"full", "cut"} : Finish(x)
  \/ peer[current] = "rst" /\ sockerr[current] = "ECONNRESET" /\ Finish("lost")
  \/ peer[current] = "rst" /\ sockerr[current] = "EPIPE" /\ Down("killed")

Responding == proc = "running" /\ pc = "respond"

\* GET and PUT without a readable configuration file, or with one that
\* load_file_to throws on, never get to their response.
RespondConfig ==
  /\ Responding /\ NeedsConfig(meaning)
  /\ \/ ConfigHangs /\ Down("hung")
     \/ ~ConfigHangs /\ config = "bad" /\ Down("aborted")

RespondGet ==
  /\ Responding /\ meaning = "GET"
  /\ ~ConfigHangs /\ config = "ok"
  /\ WriteAndClose

\* from_route_get_name takes a substring of the empty target_file: substr
\* throws and nothing catches it.
RespondPut ==
  /\ Responding /\ meaning = "PUT"
  /\ ~ConfigHangs /\ config = "ok"
  /\ Down("aborted")

\* memcpy reads 102400 bytes from the 1024 of http_header_buff.
RespondHead ==
  /\ Responding /\ meaning = "HEAD"
  /\ WriteAndClose \/ Down("undefined")

\* index.html, of the working directory, goes through an array that nothing
\* terminates.
RespondDefault ==
  /\ Responding /\ meaning = "DELETE"
  /\ WriteAndClose \/ Down("undefined")

\* post_method writes nothing.  init_enctype reads the last character of
\* file_type_str, which has one only after a Content-type: with a value.
RespondPost ==
  /\ Responding /\ meaning = "POST"
  /\ Finish("none") \/ Down("undefined")

\* sig_int_Ctrl_c exits, from wherever the process is.
SigInt ==
  /\ proc \in {"running", "hung"}
  /\ Down("exited")

-----------------------------------------------------------------------------
(* The peers, and the configuration file.                                  *)

Up == proc \in {"running", "hung"}

\* Something arrives on c: epoll queues it if c is registered.
Notified(c) == IF Open(c) THEN edge \cup {c} ELSE edge

PeerConnect(c) ==
  /\ Up /\ peer[c] = "idle"
  /\ peer' = [peer EXCEPT ![c] = "open"]
  /\ backlog' = Append(backlog, c)
  /\ UNCHANGED <<proc, pc, loopVars, fd, edge, served, config, sent, request, sockerr>>

\* A whole request arrives at once, or split: a part first, and the rest of it
\* later.
PeerSend(c) ==
  /\ Up /\ peer[c] = "open" /\ served[c] = Null
  /\ \/ /\ sent[c] = "nothing"
        /\ sent' = [sent EXCEPT ![c] = "part"]
        /\ UNCHANGED request
     \/ /\ sent[c] \in {"nothing", "part"}
        /\ sent' = [sent EXCEPT ![c] = "whole"]
        /\ \E m \in Requests : request' = [request EXCEPT ![c] = m]
  /\ edge' = Notified(c)
  /\ UNCHANGED <<proc, pc, loopVars, backlog, fd, served, config, peer, sockerr>>

PeerShutdown(c) ==
  /\ Up /\ peer[c] = "open" /\ served[c] = Null
  /\ peer' = [peer EXCEPT ![c] = "fin"]
  /\ edge' = Notified(c)
  /\ UNCHANGED <<proc, pc, loopVars, backlog, fd, served, config, sent, request, sockerr>>

PeerReset(c) ==
  /\ Up /\ peer[c] \in {"open", "fin"} /\ served[c] = Null
  /\ peer' = [peer EXCEPT ![c] = "rst"]
  /\ sockerr' = [sockerr EXCEPT ![c] = IF peer[c] = "open" THEN "ECONNRESET" ELSE "EPIPE"]
  /\ edge' = Notified(c)
  /\ UNCHANGED <<proc, pc, loopVars, backlog, fd, served, config, sent, request>>

\* default.conf is edited, or moved away, while the server runs.
EditConfig ==
  /\ Up
  /\ config' \in {"ok", "missing", "bad"} \ {config}
  /\ UNCHANGED <<proc, pc, loopVars, backlog, fd, edge, served, peerVars>>

-----------------------------------------------------------------------------
(* The specification.                                                      *)

Respond ==
  \/ RespondConfig \/ RespondGet \/ RespondPut
  \/ RespondHead \/ RespondDefault \/ RespondPost

Loop == EpollWait \/ AcceptOne \/ Read \/ Respond

PeerNext ==
  \E c \in Conns :
    PeerConnect(c) \/ PeerSend(c) \/ PeerShutdown(c) \/ PeerReset(c)

Next == Loop \/ EpollWaitFails \/ SigInt \/ PeerNext \/ EditConfig

Spec == Init /\ [][Next]_vars

\* The thread keeps running; nothing is assumed of peers, signals or errors.
FairSpec == Spec /\ WF_vars(Loop)

-----------------------------------------------------------------------------
(* Properties.                                                             *)

Answers == [by : Methods, extent : {"full", "cut", "lost", "none"}]

\* Every variable keeps to its type, no two connections share a descriptor,
\* and pc agrees with the batch and the connection being answered.
TypeOK ==
  /\ proc \in {"running", "hung", "exited", "exit_failure", "aborted", "killed", "undefined"}
  /\ pc \in {"wait", "dispatch", "respond"}
  /\ batch \in Seq(Fds \cup {LISTEN}) /\ (batch = << >> <=> pc = "wait")
  /\ connfd \in Fds \cup {0}
  /\ stale \in Methods \cup {"garbage", "mixed"}
  /\ meaning \in Methods \cup {"none"} /\ current \in Conns \cup {Null}
  /\ pc = "respond" <=> current # Null
  /\ backlog \in Seq(Conns)
  /\ fd \in [Conns -> Fds \cup {0}]
  /\ \A c, d \in Conns : Open(c) /\ fd[c] = fd[d] => c = d
  /\ edge \subseteq Conns
  /\ served \in [Conns -> Answers \cup {Null}]
  /\ config \in {"ok", "missing", "bad"}
  /\ peer \in [Conns -> {"idle", "open", "fin", "rst"}]
  /\ sent \in [Conns -> {"nothing", "part", "whole"}]
  /\ request \in [Conns -> Requests \cup {"none"}]
  /\ sockerr \in [Conns -> {"none", "ECONNRESET", "EPIPE"}]

\* The events of a batch stay true until the loop gets to them: a descriptor
\* is still that of an open connection with something to read, sockfd still
\* has a connection to accept (it is blocking: accept() would stop the
\* server), and the handler answers the connection its event is for.
NoStaleDispatch ==
  /\ \A f \in Range(batch) :
       IF f = LISTEN THEN backlog # << >>
       ELSE \E c \in Conns : fd[c] = f /\ Readable(c)
  /\ \A i, j \in 1..Len(batch) : batch[i] = batch[j] => i = j
  /\ pc = "respond" => fd[current] = Head(batch)

\* A descriptor number in a batch is not closed and given to another
\* connection before its own event is handled.
EventKeepsItsConnection ==
  [][\A c \in Conns :
       Open(c) /\ fd[c] \in Range(batch) /\ fd'[c] # fd[c] =>
         fd[c] = Head(batch) /\ fd'[c] = 0 /\ fd[c] \notin Range(batch')
     ]_vars

\* Edge-triggered readiness is not lost: an open connection with something to
\* read is still to be reported by epoll or is in the batch being handled.
NoEdgeLost ==
  \A c \in Conns :
    proc = "running" /\ Open(c) /\ Readable(c) =>
      c \in edge \/ fd[c] \in Range(batch)

\* A peer whose plain request arrives whole gets the answer to its own
\* request, whatever plain requests were left in the array before it.
OwnRequestServed ==
  \A c \in Conns :
    served[c] # Null /\ sent[c] = "whole" /\ request[c] \in Methods /\ stale # "mixed" =>
      served[c].by = request[c]

\* What can bring the server down while c is being served: a peer that hung up,
\* a request in parts, and every request but a plain GET.
Culprit(c) ==
  Open(c) /\ (\/ peer[c] # "open"
              \/ sent[c] = "part"
              \/ request[c] \in Kinds \ {"GET"})

\* Connected peers that send whole plain GETs never end the server, as long as
\* descriptors last, the configuration is good and only plain requests have
\* been read.  epoll_wait failing, between two batches, is nobody's doing, and
\* the page is module GetResponse's.
DownNeedsCause ==
  proc \in {"aborted", "killed", "undefined"} \/ (proc = "exit_failure" /\ pc # "wait") =>
    config # "ok" \/ FreeFds = {} \/ stale = "mixed" \/ \E c \in Conns : Culprit(c)

OneShotServer ==
  INSTANCE OneShot WITH
    open <- {c \in Conns : Open(c)}, answer <- served, up <- proc = "running"

\* Every connection is accepted once, and answered at most once, by being
\* closed (module OneShot).
ImplementsOneShot == OneShotServer!Spec

\* default.conf:2 tells whoever edits the configuration file that the server
\* need not be restarted: a server that hangs does so for a reason that is
\* still there.
RestartUnnecessary == proc = "hung" => ConfigHangs

\* Whoever sends something, or hangs up, is answered or closed, as long as
\* the server is up.
ServedEventually ==
  \A c \in Conns :
    Open(c) /\ Readable(c) ~> served[c] # Null \/ proc # "running"

\* A waiting connection is accepted.
AcceptedEventually ==
  \A c \in Conns :
    peer[c] # "idle" ~> Open(c) \/ served[c] # Null \/ proc # "running"
=============================================================================
