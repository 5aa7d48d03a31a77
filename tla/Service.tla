------------------------------- MODULE Service -------------------------------
(***************************************************************************)
(* The libev echo server of src/lib: core::service owns a listening socket *)
(* and a list of serviceinstance objects, one per accepted connection; an  *)
(* instance reads chunks into mbuffers, queues them on m_wlist and writes  *)
(* them back.  One thread runs every callback; peers and the kernel move   *)
(* between callbacks.                                                      *)
(*                                                                         *)
(* Data is abstracted to positions: byte number i of a connection's input  *)
(* is written i, so the bytes recv() copies into an mbuffer are the        *)
(* interval from+1 .. from+len.                                            *)
(***************************************************************************)
EXTENDS Integers, Sequences, FiniteSets

CONSTANTS
  Conns,      \* the connections peers open; each is opened at most once
  Addrs,      \* heap addresses `new serviceinstance' can return
  Null,       \* "no instance"
  MaxBytes,   \* bound: bytes one peer sends
  MaxRead,    \* M_MAXSIZE, the size of the buffer given to recv()
  SndBuf,     \* capacity of a connection's kernel send buffer
  MaxFd       \* file descriptors left for accepted connections

ASSUME ConstantsOK ==
  /\ Null \notin Addrs
  /\ MaxBytes \in Nat /\ MaxFd \in Nat
  /\ MaxRead \in Nat \ {0} /\ SndBuf \in Nat \ {0}

VARIABLES
  proc,       \* the server process
  m_listen,   \* is the accept watcher started?
  backlog,    \* connections the kernel has queued on the listening socket
  m_instance, \* the addresses service pushed on its list of instances
  at,         \* where the live instance of a connection is, or Null
  events,     \* what the instance's watcher m_io waits for; {} when stopped
  wlist,      \* m_wlist, the queue of mbuffers still to be written
  rcvd,       \* bytes recv() has returned
  out,        \* the bytes write() has put into the send buffer
  peer,       \* the other end of the connection
  sockerr,    \* error pending on the server's socket
  input,      \* bytes the peer has sent
  taken       \* bytes the peer has taken out of the send buffer

ioVars   == <<events, wlist, rcvd, out>>
peerVars == <<peer, sockerr, input, taken>>
vars == <<proc, m_listen, backlog, m_instance, at, ioVars, peerVars>>

Live(c) == at[c] # Null
Accepted(c) == peer[c] # "idle" /\ \A i \in 1..Len(backlog) : backlog[i] # c

\* The event loop runs.  After break_loop() it still completes the callbacks
\* that were pending in the same iteration ("breaking").
Up == proc \in {"running", "breaking"}

Min2(m, n) == IF m <= n THEN m ELSE n

-----------------------------------------------------------------------------
(* mbuffer                                                                 *)

MBuffer(from, n) == [from |-> from, len |-> n, curs |-> 0]
NBytes(b) == b.len - b.curs

\* Fault: write() from data instead of dpos().
DPosAtStart(b) == b.from

\* Position of the byte in front of dpos(), the next byte to write.
DPos(b) == b.from + b.curs

\* The k bytes a write from dpos() hands to the kernel.
Written(b, k) == [i \in 1..k |-> DPos(b) + i]

\* Fault: the front buffer is popped even after a partial write.
PopAlways(q, k) == Tail(q)

\* m_wlist after a write of k bytes: the front buffer advances, and leaves
\* the queue only once nothing of it remains.
AfterWrite(q, k) ==
  IF k = NBytes(Head(q)) THEN Tail(q)
  ELSE [q EXCEPT ![1].curs = @ + k]

\* Faults: m_io always waits for READ alone, or always for both.
ReadOnly(q) == {"READ"}
AlwaysBoth(q) == {"READ", "WRITE"}

\* What callback() arms m_io for, given the queue it leaves behind.
Interest(q) == IF q = << >> THEN {"READ"} ELSE {"READ", "WRITE"}

-----------------------------------------------------------------------------
(* The kernel's view of a connection.                                      *)

Readable(c) == rcvd[c] < input[c] \/ peer[c] \in {"fin", "rst"}
Room(c) == SndBuf - (Len(out[c]) - taken[c])
Writable(c) == Room(c) > 0 \/ peer[c] = "rst"

\* What libev can report to the watcher: a non-empty part of the events it
\* waits for; less than all of them when the poll is older than the data.
Reported(c) ==
  {r \in SUBSET events[c] :
     /\ r # {}
     /\ "READ" \in r => Readable(c)
     /\ "WRITE" \in r => Writable(c)}

\* Fault: end of file goes unnoticed.
NeverEof(c) == FALSE

\* recv() returns 0: everything was read and the peer has ended its side.  A
\* reset that no FIN preceded is returned first, as the error ECONNRESET.
AtEof(c) ==
  rcvd[c] = input[c] /\ peer[c] \in {"fin", "rst"} /\ sockerr[c] # "ECONNRESET"

Init ==
  /\ proc = "running"
  /\ m_listen = TRUE
  /\ backlog = << >>
  /\ m_instance = << >>
  /\ at = [c \in Conns |-> Null]
  /\ events = [c \in Conns |-> {}]
  /\ wlist = [c \in Conns |-> << >>]
  /\ rcvd = [c \in Conns |-> 0]
  /\ out = [c \in Conns |-> << >>]
  /\ peer = [c \in Conns |-> "idle"]
  /\ sockerr = [c \in Conns |-> "none"]
  /\ input = [c \in Conns |-> 0]
  /\ taken = [c \in Conns |-> 0]

-----------------------------------------------------------------------------
(* service::listen_accept.  When accept() fails (no descriptor left) the   *)
(* callback reports it and returns: no variable changes.                   *)

\* Faults: push_back() forgotten, or done twice.
NotListed(a) == m_instance
ListedTwice(a) == m_instance \o <<a, a>>

Listed(a) == Append(m_instance, a)

ListenAccept ==
  /\ Up /\ m_listen /\ backlog # << >>
  /\ Cardinality({c \in Conns : Live(c)}) < MaxFd
  /\ \E a \in Addrs \ {at[c] : c \in Conns} :
       /\ at' = [at EXCEPT ![Head(backlog)] = a]
       /\ m_instance' = Listed(a)
  /\ events' = [events EXCEPT ![Head(backlog)] = {"READ"}]
  /\ backlog' = Tail(backlog)
  /\ UNCHANGED <<proc, m_listen, wlist, rcvd, out, peerVars>>

\* libev gives up on a descriptor (epoll_ctl fails): it stops the watcher and
\* calls back with EV_ERROR, and the callback returns at once.
ListenError ==
  /\ Up /\ m_listen
  /\ m_listen' = FALSE
  /\ UNCHANGED <<proc, backlog, m_instance, at, ioVars, peerVars>>

CallbackError(c) ==
  /\ Up /\ Live(c) /\ events[c] # {}
  /\ events' = [events EXCEPT ![c] = {}]
  /\ UNCHANGED <<proc, m_listen, backlog, m_instance, at, wlist, rcvd, out, peerVars>>

-----------------------------------------------------------------------------
(* serviceinstance::callback: read_cb, then write_cb, then m_io.set().     *)

\* How many bytes recv() can return for these events; 0 stands for a callback
\* without read_cb, and for a recv() that returns the pending error.
Received(c, revents) ==
  IF "READ" \in revents /\ rcvd[c] < input[c]
  THEN 1 .. Min2(MaxRead, input[c] - rcvd[c]) ELSE {0}

\* Fault: a buffer is queued at the front.
QueueAtFront(c, n) ==
  IF n = 0 THEN wlist[c] ELSE <<MBuffer(rcvd[c], n)>> \o wlist[c]

QueueAfterRead(c, n) ==
  IF n = 0 THEN wlist[c] ELSE Append(wlist[c], MBuffer(rcvd[c], n))

ErrorAfterRead(c, revents, n) ==
  IF "READ" \in revents /\ n = 0 THEN "none" ELSE sockerr[c]

\* No write_cb, or write_cb with nothing queued.
WriteNothing(c, q, err) ==
  /\ wlist' = [wlist EXCEPT ![c] = q]
  /\ events' = [events EXCEPT ![c] = Interest(q)]
  /\ sockerr' = [sockerr EXCEPT ![c] = err]
  /\ UNCHANGED <<proc, out>>

\* write() on a connection the peer reset: the pending ECONNRESET is returned
\* once; after that, or when the pending error is EPIPE, SIGPIPE is raised,
\* which nothing in src/lib handles.
WriteToReset(c, q, err) ==
  /\ peer[c] = "rst"
  /\ IF err = "ECONNRESET" THEN WriteNothing(c, q, "none")
     ELSE /\ proc' = "killed"
          /\ wlist' = [wlist EXCEPT ![c] = q]
          /\ UNCHANGED <<events, out, sockerr>>

\* write() takes some of what fits.  It runs only when WRITE was reported, so
\* there is room.
WriteSome(c, q, err) ==
  /\ peer[c] # "rst"
  /\ \E k \in 1 .. Min2(NBytes(Head(q)), Room(c)) :
       /\ out' = [out EXCEPT ![c] = @ \o Written(Head(q), k)]
       /\ wlist' = [wlist EXCEPT ![c] = AfterWrite(q, k)]
       /\ events' = [events EXCEPT ![c] = Interest(AfterWrite(q, k))]
  /\ sockerr' = [sockerr EXCEPT ![c] = err]
  /\ UNCHANGED proc

CallbackServe(c) ==
  /\ Up /\ Live(c)
  /\ \E revents \in Reported(c) :
       /\ ~("READ" \in revents /\ AtEof(c))
       /\ \E n \in Received(c, revents) :
            LET q == QueueAfterRead(c, n)
                err == ErrorAfterRead(c, revents, n) IN
            /\ rcvd' = [rcvd EXCEPT ![c] = @ + n]
            /\ \/ /\ "WRITE" \notin revents \/ q = << >>
                  /\ WriteNothing(c, q, err)
               \/ /\ "WRITE" \in revents /\ q # << >>
                  /\ WriteToReset(c, q, err) \/ WriteSome(c, q, err)
  /\ UNCHANGED <<m_listen, backlog, m_instance, at, peer, input, taken>>

\* recv() returns 0 and read_cb does `delete this': the watcher stops, the
\* descriptor is closed, the queue is gone.  m_instance keeps the address.
\* callback() then goes on using the object: either nothing comes of it or
\* the behaviour of the process is undefined from here on.
CallbackEof(c) ==
  /\ Up /\ Live(c)
  /\ \E revents \in Reported(c) : "READ" \in revents /\ AtEof(c)
  /\ at' = [at EXCEPT ![c] = Null]
  /\ events' = [events EXCEPT ![c] = {}]
  /\ wlist' = [wlist EXCEPT ![c] = << >>]
  /\ proc' \in {proc, "undefined"}
  /\ UNCHANGED <<m_listen, backlog, m_instance, rcvd, out, peerVars>>

-----------------------------------------------------------------------------
(* Shutdown.                                                               *)

\* service::signal_cb on SIGINT.
SignalCb ==
  /\ proc = "running"
  /\ proc' = "breaking"
  /\ UNCHANGED <<m_listen, backlog, m_instance, at, ioVars, peerVars>>

\* ~service deletes every entry of m_instance.  An entry is a good pointer
\* when its instance lives and no earlier entry is the same address.
DeletesTwice ==
  \E i \in 1..Len(m_instance) :
    \/ \A c \in Conns : at[c] # m_instance[i]
    \/ \E j \in 1..i-1 : m_instance[j] = m_instance[i]

\* run() returns and the service is destroyed.  The instances reached through
\* m_instance are deleted; a double delete is undefined behaviour.
Destroy ==
  /\ proc = "breaking"
  /\ proc' \in IF DeletesTwice THEN {"exited", "undefined"} ELSE {"exited"}
  /\ LET gone(c) == \E i \in 1..Len(m_instance) : m_instance[i] = at[c] IN
     /\ at' = [c \in Conns |-> IF gone(c) THEN Null ELSE at[c]]
     /\ events' = [c \in Conns |-> IF gone(c) THEN {} ELSE events[c]]
     /\ wlist' = [c \in Conns |-> IF gone(c) THEN << >> ELSE wlist[c]]
  /\ m_instance' = << >>
  /\ m_listen' = FALSE
  /\ UNCHANGED <<backlog, rcvd, out, peerVars>>

-----------------------------------------------------------------------------
(* The peers.                                                              *)

PeerConnect(c) ==
  /\ Up /\ peer[c] = "idle"
  /\ peer' = [peer EXCEPT ![c] = "open"]
  /\ backlog' = Append(backlog, c)
  /\ UNCHANGED <<proc, m_listen, m_instance, at, ioVars, sockerr, input, taken>>

PeerSend(c) ==
  /\ Up /\ peer[c] = "open" /\ input[c] < MaxBytes
  /\ input' = [input EXCEPT ![c] = @ + 1]
  /\ UNCHANGED <<proc, m_listen, backlog, m_instance, at, ioVars, peer, sockerr, taken>>

PeerRead(c) ==
  /\ Up /\ peer[c] \in {"open", "fin"} /\ taken[c] < Len(out[c])
  /\ taken' = [taken EXCEPT ![c] = @ + 1]
  /\ UNCHANGED <<proc, m_listen, backlog, m_instance, at, ioVars, peer, sockerr, input>>

PeerShutdown(c) ==
  /\ Up /\ peer[c] = "open"
  /\ peer' = [peer EXCEPT ![c] = "fin"]
  /\ UNCHANGED <<proc, m_listen, backlog, m_instance, at, ioVars, sockerr, input, taken>>

\* A reset after the peer's FIN leaves EPIPE pending, otherwise ECONNRESET.
PeerReset(c) ==
  /\ Up /\ peer[c] \in {"open", "fin"}
  /\ peer' = [peer EXCEPT ![c] = "rst"]
  /\ sockerr' = [sockerr EXCEPT ![c] = IF peer[c] = "open" THEN "ECONNRESET" ELSE "EPIPE"]
  /\ UNCHANGED <<proc, m_listen, backlog, m_instance, at, ioVars, input, taken>>

-----------------------------------------------------------------------------
(* The specification.                                                      *)

Callback(c) == CallbackServe(c) \/ CallbackEof(c)

ServerNext ==
  \/ ListenAccept \/ ListenError \/ SignalCb \/ Destroy
  \/ \E c \in Conns : Callback(c) \/ CallbackError(c)

PeerNext ==
  \E c \in Conns :
    \/ PeerConnect(c) \/ PeerSend(c) \/ PeerRead(c)
    \/ PeerShutdown(c) \/ PeerReset(c)

Next == ServerNext \/ PeerNext

Spec == Init /\ [][Next]_vars

\* libev calls back every watcher whose events are ready in each iteration of
\* the loop, and run() returns after break_loop().  PeerRead: a peer that
\* stays connected reads what it is sent.
Fairness ==
  /\ WF_vars(ListenAccept)
  /\ WF_vars(Destroy)
  /\ \A c \in Conns : WF_vars(Callback(c)) /\ WF_vars(PeerRead(c))

FairSpec == Spec /\ Fairness

-----------------------------------------------------------------------------
(* Properties.                                                             *)

MBuffers == [from : Nat, len : Nat \ {0}, curs : Nat]

\* Every variable keeps to its type, and malloc never gives two live
\* instances the same address.
TypeOK ==
  /\ proc \in {"running", "breaking", "exited", "killed", "undefined"}
  /\ m_listen \in BOOLEAN
  /\ backlog \in Seq(Conns)
  /\ m_instance \in Seq(Addrs)
  /\ at \in [Conns -> Addrs \cup {Null}]
  /\ \A c, d \in Conns : Live(c) /\ at[c] = at[d] => c = d
  /\ events \in [Conns -> SUBSET {"READ", "WRITE"}]
  /\ wlist \in [Conns -> Seq(MBuffers)]
  /\ rcvd \in [Conns -> Nat]
  /\ out \in [Conns -> Seq(Nat)]
  /\ peer \in [Conns -> {"idle", "open", "fin", "rst"}]
  /\ sockerr \in [Conns -> {"none", "ECONNRESET", "EPIPE"}]
  /\ input \in [Conns -> Nat]
  /\ taken \in [Conns -> Nat]

\* What service::serviceinstance echoes is what the peer sent: the i-th byte
\* written to a connection is the i-th byte the peer sent on it, whatever the
\* chunks recv() and write() happened to use.
EchoFidelity ==
  \A c \in Conns :
    /\ Len(out[c]) <= input[c]
    /\ \A i \in 1..Len(out[c]) : out[c][i] = i

\* The buffers of q, in order, are exactly the bytes lo+1 .. hi: only the
\* front one may be partly written, and none is empty.
QueueOK(q, lo, hi) ==
  /\ q = << >> => lo = hi
  /\ q # << >> => DPos(q[1]) = lo /\ q[Len(q)].from + q[Len(q)].len = hi
  /\ \A i \in 1..Len(q) : NBytes(q[i]) > 0 /\ q[i].from + q[i].len <= hi
  /\ \A i \in 2..Len(q) : q[i].curs = 0 /\ q[i].from = q[i-1].from + q[i-1].len

\* m_wlist is the gap between what read_cb has received and what write_cb has
\* written: no byte is dropped, queued twice or sent out of order.
QueueHoldsGap ==
  \A c \in Conns : Live(c) => QueueOK(wlist[c], Len(out[c]), rcvd[c])

\* A running watcher always waits for READ, and for WRITE exactly while
\* something is queued: callback() neither forgets a queued buffer nor spins.
ArmedIffQueued ==
  \A c \in Conns :
    Live(c) /\ events[c] # {} =>
      "READ" \in events[c] /\ ("WRITE" \in events[c] <=> wlist[c] # << >>)

\* Destroying the service deletes every instance: none is lost from
\* m_instance, and none outlives ~service.
TeardownReachesAll ==
  \A c \in Conns : Live(c) =>
    /\ proc # "exited"
    /\ \E i \in 1..Len(m_instance) : m_instance[i] = at[c]

\* Some connection was deleted by its own read_cb after the peer hung up.
SomeHungUp ==
  \E c \in Conns :
    Accepted(c) /\ ~Live(c) /\ peer[c] \in {"fin", "rst"} /\ rcvd[c] = input[c]

\* Only a peer's hang-up brings the server down: `delete this' in read_cb and
\* the address it leaves in m_instance are the only sources of undefined
\* behaviour, and SIGPIPE comes only from writing to a reset connection whose
\* echo is incomplete.
DownNeedsHangUp ==
  /\ proc = "undefined" \/ DeletesTwice => SomeHungUp
  /\ proc = "killed" =>
       \E c \in Conns : Live(c) /\ peer[c] = "rst" /\ Len(out[c]) < rcvd[c]

\* service implements the abstract echo: a connection is open while its
\* instance is live and the process is up.
Phase(c) ==
  IF ~Accepted(c) THEN "new"
  ELSE IF Live(c) /\ Up THEN "open" ELSE "closed"

EchoService ==
  INSTANCE Echo WITH
    phase <- [c \in Conns |-> Phase(c)], fed <- input, echoed <- out

\* Every behaviour of the server is one of the abstract echo (module Echo).
ImplementsEcho == EchoService!Spec

\* The reasons for which the server owes a connection nothing more.
Excused(c) == ~Live(c) \/ events[c] = {} \/ proc # "running"

\* Every byte a connected peer sends comes back, unless the watcher of its
\* connection failed or the process goes down.
EchoedEventually ==
  \A c \in Conns : \A n \in 1..MaxBytes :
    Live(c) /\ input[c] >= n ~>
      Len(out[c]) >= n \/ peer[c] # "open" \/ Excused(c)

\* All descriptors are in use, and none by a connection whose peer hung up.
FdsHeld ==
  Cardinality({c \in Conns : Live(c) /\ (peer[c] = "open" \/ events[c] = {})}) = MaxFd

\* A connection waiting in the backlog is accepted, unless the peers that are
\* still connected hold all the descriptors: a hang-up frees one.
AcceptedEventually ==
  \A c \in Conns :
    peer[c] # "idle" ~> Accepted(c) \/ FdsHeld \/ ~m_listen \/ proc # "running"
=============================================================================
