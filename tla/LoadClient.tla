------------------------------ MODULE LoadClient ------------------------------
(***************************************************************************)
(* The load client of src/lib (test_connection.cpp) against the echo       *)
(* service: module Service is the server, and this client is every one of  *)
(* its peers.  One thread connects, then sends a buffer and reads once on  *)
(* each connection in turn, driven by epoll.                               *)
(***************************************************************************)
EXTENDS Service

CONSTANTS
  Chunk,      \* size of the buffer given to send() and recv()
  PathBuf     \* what the kernels hold between send() and the server's recv()

ASSUME ClientConstantsOK == Chunk \in Nat \ {0} /\ PathBuf \in Nat \ {0} /\ "none" \notin Conns

VARIABLES
  client,     \* the client process: "running" or "killed"
  arm,        \* what epoll is asked for on a connection, once it is made
  cbatch,     \* events epoll_wait reported and the loop has not handled
  writing,    \* the connection write_bytes is at work on, or "none"
  left,       \* what it still has to send
  link        \* how the server's end went, when the server is gone

clientVars == <<client, arm, cbatch, writing, left, link>>
allVars == <<vars, clientVars>>

Armed == {"both", "in", "out"}
Connected(c) == arm[c] \in Armed

ClientInit ==
  /\ Init
  /\ client = "running"
  /\ arm = [c \in Conns |-> "untried"]
  /\ cbatch = {}
  /\ writing = "none" /\ left = 0
  /\ link = [c \in Conns |-> "up"]

Unread(c) == Len(out[c]) - taken[c]
PathRoom(c) == PathBuf - (input[c] - rcvd[c])

Starting == \E c \in Conns : arm[c] = "untried"
Idle == client = "running" /\ writing = "none"

\* One round of start_conn: socket() and connect(), which may fail, then addfd.
StartConn(c) ==
  /\ client = "running" /\ arm[c] = "untried"
  /\ \/ PeerConnect(c) /\ arm' = [arm EXCEPT ![c] = "both"]
     \/ arm' = [arm EXCEPT ![c] = "failed"] /\ UNCHANGED vars
  /\ UNCHANGED <<client, cbatch, writing, left, link>>

-----------------------------------------------------------------------------
(* epoll_wait.  A connection is reported at most once before the loop sets *)
(* its events again, and that reports what is ready: edges need no state.  *)

CanRead(c) == arm[c] \in {"both", "in"} /\ (Unread(c) > 0 \/ link[c] # "up")

\* Bound: nothing is sent beyond MaxBytes.
CanWrite(c) ==
  /\ arm[c] \in {"both", "out"}
  /\ link[c] = "up" => PathRoom(c) > 0 /\ input[c] + Chunk <= MaxBytes

\* Fault: main tests for EPOLLOUT whether or not it has handled EPOLLIN.
BothEvents(c) ==
  {e \in {"IN", "OUT"} : IF e = "IN" THEN CanRead(c) ELSE CanWrite(c)}

\* EPOLLIN goes before EPOLLOUT; EPOLLERR never comes without one of them.
EventsOf(c) ==
  IF CanRead(c) THEN {"IN"} ELSE IF CanWrite(c) THEN {"OUT"} ELSE {}

ClientWait ==
  /\ Idle /\ ~Starting /\ cbatch = {}
  /\ \E S \in (SUBSET {c \in Conns : EventsOf(c) # {}}) \ {{}} :
       cbatch' = {<<c, e>> : c \in S, e \in {"IN", "OUT"}} \cap
                   UNION {{c} \X EventsOf(c) : c \in S}
  /\ UNCHANGED <<vars, client, arm, writing, left, link>>

-----------------------------------------------------------------------------
(* The body of the loop.  EPOLL_CTL_MOD on a descriptor close_conn has     *)
(* closed fails: no descriptor is opened once the loop runs.               *)

\* close_conn: the server's end sees a FIN, or a reset when something that has
\* arrived was not read.
CloseConn(c) ==
  /\ arm' = [arm EXCEPT ![c] = "closed"]
  /\ \/ ~Up /\ UNCHANGED vars
     \/ Up /\ PeerShutdown(c)
     \/ Up /\ Unread(c) > 0 /\ PeerReset(c)

\* Faults: after recv() the connection is armed for EPOLLIN again; recv() is
\* taken to have failed unless it fills the buffer.
ArmInAgain(n) == "in"
ShortReadFails(c) == 0 .. Chunk - 1

ArmAfterRead(n) == "out"

\* The results of recv() that make read_once fail.
ReadFails(c) == IF Unread(c) = 0 \/ link[c] = "rst" THEN {0} ELSE {}

\* read_once, and what main does after it.
ReadOnce(c) ==
  /\ Idle /\ <<c, "IN">> \in cbatch
  /\ cbatch' = cbatch \ {<<c, "IN">>}
  /\ \/ \E n \in 1 .. Min2(Chunk, Unread(c)) :
          /\ n \notin ReadFails(c)
          /\ taken' = [taken EXCEPT ![c] = @ + n]
          /\ arm' = [arm EXCEPT ![c] = ArmAfterRead(n)]
          /\ UNCHANGED <<proc, m_listen, backlog, m_instance, at, ioVars, peer, sockerr, input>>
     \/ /\ 0 .. Min2(Chunk, Unread(c)) \cap ReadFails(c) # {}
        /\ CloseConn(c)
  /\ UNCHANGED <<client, writing, left, link>>

\* write_bytes starts.
WriteBytes(c) ==
  /\ Idle /\ <<c, "OUT">> \in cbatch
  /\ cbatch' = cbatch \ {<<c, "OUT">>}
  /\ writing' = c /\ left' = Chunk
  /\ UNCHANGED <<vars, client, arm, link>>

\* k bytes of the buffer are gone; after the last main arms EPOLLIN.
Advance(c, k) ==
  /\ left' = left - k
  /\ writing' = IF left = k THEN "none" ELSE c
  /\ arm' = IF left = k THEN [arm EXCEPT ![c] = "in"] ELSE arm
  /\ UNCHANGED <<client, cbatch>>

\* One send() of write_bytes to a server that is up.
SendSome(c) ==
  /\ client = "running" /\ writing = c /\ link[c] = "up"
  /\ \E k \in 1 .. Min2(left, PathRoom(c)) :
       /\ input' = [input EXCEPT ![c] = @ + k]
       /\ Advance(c, k)
  /\ UNCHANGED <<proc, m_listen, backlog, m_instance, at, ioVars, peer, sockerr, taken, link>>

\* send() to a socket whose other end is closed: the bytes vanish and may be
\* answered with a reset.
SendToGone(c) ==
  /\ client = "running" /\ writing = c /\ link[c] = "fin"
  /\ \E k \in 1 .. left : Advance(c, k)
  /\ \E l \in {"fin", "epipe"} : link' = [link EXCEPT ![c] = l]
  /\ UNCHANGED vars

\* send() fails: no room (EAGAIN) or a pending ECONNRESET.  write_bytes returns
\* false, however much it has sent before.
SendFails(c) ==
  /\ client = "running" /\ writing = c
  /\ (link[c] = "up" /\ PathRoom(c) = 0) \/ link[c] = "rst"
  /\ writing' = "none" /\ left' = 0
  /\ CloseConn(c)
  /\ UNCHANGED <<client, cbatch, link>>

\* send() without MSG_NOSIGNAL after a reset that followed a FIN.
SigPipe(c) ==
  /\ client = "running" /\ writing = c /\ link[c] = "epipe"
  /\ client' = "killed"
  /\ UNCHANGED <<vars, arm, cbatch, writing, left, link>>

-----------------------------------------------------------------------------
(* The kernels.                                                            *)

\* Echo that arrives on a closed descriptor is answered with a reset.
LateEcho(c) ==
  /\ arm[c] = "closed" /\ peer[c] = "fin" /\ Unread(c) > 0
  /\ PeerReset(c)
  /\ UNCHANGED clientVars

\* The server process has ended: its end of the connection is closed, with a
\* reset when it leaves data behind it has not read.
ServerGone(c) ==
  /\ ~Up /\ Connected(c) /\ link[c] = "up"
  /\ link' = [link EXCEPT ![c] = IF rcvd[c] < input[c] THEN "rst" ELSE "fin"]
  /\ UNCHANGED <<vars, client, arm, cbatch, writing, left>>

-----------------------------------------------------------------------------

Handle(c) == ReadOnce(c) \/ WriteBytes(c) \/ SendSome(c) \/ SendToGone(c) \/ SendFails(c) \/ SigPipe(c)

ClientLoop == ClientWait \/ \E c \in Conns : StartConn(c) \/ Handle(c)

ClientNext == ClientLoop \/ \E c \in Conns : LateEcho(c) \/ ServerGone(c)

System == ServerNext /\ UNCHANGED clientVars

LoadSpec == ClientInit /\ [][System \/ ClientNext]_allVars

\* Both loops keep running.
FairLoadSpec ==
  /\ LoadSpec
  /\ WF_allVars(ClientLoop)
  /\ WF_allVars(ListenAccept /\ UNCHANGED clientVars)
  /\ \A c \in Conns :
       WF_allVars(Callback(c) /\ UNCHANGED clientVars) /\ WF_allVars(ServerGone(c))

-----------------------------------------------------------------------------
(* Properties.                                                             *)

\* No event of the batch, and no write under way, is for a descriptor that
\* close_conn has closed.
NoUseAfterClose ==
  /\ \A e \in cbatch : Connected(e[1])
  /\ writing # "none" => Connected(writing)

\* Against a server that is up, the client gives a connection up only when
\* everything between the two is full.
ClosesOnlyWhenStuffed ==
  [][\A c \in Conns :
       Up /\ Connected(c) /\ arm'[c] = "closed" => PathRoom(c) = 0]_allVars

\* Neither end brings the other down while all is well: the server is killed,
\* or its behaviour is undefined, only when the client has given a connection
\* up, and the client is killed only when the server is gone.
NeitherKillsTheOther ==
  /\ proc \in {"killed", "undefined"} => \E c \in Conns : arm[c] = "closed"
  /\ client = "killed" => ~Up

\* The client can read or send on a connection as it is armed.
ClientHasTurn(c) ==
  \/ arm[c] \in {"both", "in"} /\ Unread(c) > 0
  \/ arm[c] \in {"both", "out"} /\ PathRoom(c) > 0

\* The service has a connection to accept, something to read or room to write
\* what is queued.
ServerHasTurn(c) ==
  \/ ~Accepted(c)
  \/ Live(c) /\ "READ" \in events[c] /\ rcvd[c] < input[c]
  \/ Live(c) /\ "WRITE" \in events[c] /\ wlist[c] # << >> /\ Room(c) > 0

\* The two never wait for each other: on a connection that is up one of them has
\* something to do, unless the service's watcher has failed.  The client must not
\* wait for an answer it is not owed, nor the service sleep on one.
NoMutualWait ==
  Up => \A c \in Conns :
    Connected(c) => ClientHasTurn(c) \/ ServerHasTurn(c) \/ (Live(c) /\ events[c] = {})

\* Every wait for an answer ends, as long as the server is up and its watcher
\* has not failed.
RoundTripEnds ==
  \A c \in Conns :
    arm[c] = "in" ~> \/ arm[c] # "in"
                     \/ ~m_listen
                     \/ Live(c) /\ events[c] = {}
=============================================================================
