---------------------------- MODULE ServiceProofs ----------------------------
(***************************************************************************)
(* Proofs about Service, and about LoadClient, which extends it, for every *)
(* set of connections and addresses and every size of a buffer.            *)
(*                                                                         *)
(* Of Service first the data of a connection: the type invariant, the      *)
(* contiguity of m_wlist, from these that the bytes echoed are the bytes   *)
(* received, and the refinement of Echo.  Then the life of instances and   *)
(* watchers: who is in m_instance, when a watcher waits for what, when an  *)
(* instance goes, and what can bring the process down.                     *)
(*                                                                         *)
(* Then the client alone, and the client and the service together, where   *)
(* the invariants of Service are kept by the client's steps.               *)
(***************************************************************************)
EXTENDS LoadClient, SequenceTheorems, TLAPS

-----------------------------------------------------------------------------
(* Lemmas about the queue of mbuffers.                                     *)

\* An mbuffer is made of the bytes one recv() returned, so it is well typed.
LEMMA MBufferType ==
  ASSUME NEW from \in Nat, NEW n \in Nat \ {0}
  PROVE  MBuffer(from, n) \in MBuffers
BY DEF MBuffer, MBuffers

\* read_cb: queueing the n bytes that follow byte hi extends the queue to
\* byte hi + n.
LEMMA QueueAppend ==
  ASSUME NEW q \in Seq(MBuffers), NEW lo \in Nat, NEW hi \in Nat,
         NEW n \in Nat \ {0}, QueueOK(q, lo, hi)
  PROVE  /\ Append(q, MBuffer(hi, n)) \in Seq(MBuffers)
         /\ QueueOK(Append(q, MBuffer(hi, n)), lo, hi + n)
<1> DEFINE b == MBuffer(hi, n)
           r == Append(q, b)
<1>1. b \in MBuffers /\ b.from = hi /\ b.len = n /\ b.curs = 0
  BY MBufferType DEF MBuffer
<1>2. /\ r \in Seq(MBuffers)
      /\ Len(r) = Len(q) + 1
      /\ r[Len(q) + 1] = b
      /\ \A i \in 1..Len(q) : r[i] = q[i]
  BY <1>1
<1>3. Len(q) \in Nat /\ \A i \in 1..Len(q) : q[i] \in MBuffers
  OBVIOUS
<1> HIDE DEF b, r
<1>4. r # << >> /\ r[Len(r)].from + r[Len(r)].len = hi + n
  BY <1>1, <1>2, <1>3
<1>5. DPos(r[1]) = lo
  <2>1. CASE q = << >>
    BY <2>1, <1>1, <1>2 DEF QueueOK, DPos
  <2>2. CASE q # << >>
    BY <2>2, <1>2, <1>3 DEF QueueOK
  <2> QED BY <2>1, <2>2
<1>6. \A i \in 1..Len(r) : NBytes(r[i]) > 0 /\ r[i].from + r[i].len <= hi + n
  <2> SUFFICES ASSUME NEW i \in 1..Len(r)
               PROVE  NBytes(r[i]) > 0 /\ r[i].from + r[i].len <= hi + n
    OBVIOUS
  <2>1. CASE i \in 1..Len(q)
    <3>1. NBytes(q[i]) > 0 /\ q[i].from + q[i].len <= hi
      BY <2>1 DEF QueueOK
    <3>2. q[i] \in MBuffers /\ r[i] = q[i]
      BY <2>1, <1>2, <1>3
    <3> QED BY <3>1, <3>2 DEF MBuffers
  <2>2. CASE i = Len(q) + 1
    BY <2>2, <1>1, <1>2 DEF NBytes
  <2> QED BY <2>1, <2>2, <1>2, <1>3
<1>7. \A i \in 2..Len(r) :
        r[i].curs = 0 /\ r[i].from = r[i-1].from + r[i-1].len
  <2> SUFFICES ASSUME NEW i \in 2..Len(r)
               PROVE  r[i].curs = 0 /\ r[i].from = r[i-1].from + r[i-1].len
    OBVIOUS
  <2>1. CASE i \in 2..Len(q)
    BY <2>1, <1>2, <1>3 DEF QueueOK
  <2>2. CASE i = Len(q) + 1
    <3>1. q # << >> /\ Len(q) \in 1..Len(q) /\ i - 1 = Len(q)
      BY <2>2, <1>3
    <3>2. q[Len(q)].from + q[Len(q)].len = hi
      BY <3>1 DEF QueueOK
    <3> QED BY <3>1, <3>2, <2>2, <1>1, <1>2
  <2> QED BY <2>1, <2>2, <1>2, <1>3
<1>8. QueueOK(r, lo, hi + n)
  BY <1>4, <1>5, <1>6, <1>7 DEF QueueOK
<1> QED BY <1>2, <1>8 DEF r, b

\* write_cb: writing k bytes of the front buffer leaves a queue that starts
\* k bytes later, and never goes past what was received.
LEMMA QueueWrite ==
  ASSUME NEW q \in Seq(MBuffers), NEW lo \in Nat, NEW hi \in Nat,
         q # << >>, QueueOK(q, lo, hi), NEW k \in 1..NBytes(Head(q))
  PROVE  /\ AfterWrite(q, k) \in Seq(MBuffers)
         /\ QueueOK(AfterWrite(q, k), lo + k, hi)
         /\ lo + k <= hi
         /\ DPos(Head(q)) = lo
<1>1. Len(q) \in Nat \ {0} /\ \A i \in 1..Len(q) : q[i] \in MBuffers
  OBVIOUS
<1>2. Head(q) = q[1] /\ q[1] \in MBuffers /\ DPos(q[1]) = lo
  BY <1>1 DEF QueueOK
<1>3. q[1].from + q[1].len <= hi /\ NBytes(q[1]) > 0
  BY <1>1 DEF QueueOK
<1>4. k \in Nat \ {0} /\ k <= NBytes(q[1])
  BY <1>2 DEF NBytes, MBuffers
<1>5. lo + k <= hi
  BY <1>2, <1>3, <1>4 DEF NBytes, DPos, MBuffers
<1>6. CASE k = NBytes(q[1])
  <2> DEFINE r == Tail(q)
  <2>1. r \in Seq(MBuffers) /\ Len(r) = Len(q) - 1
        /\ \A i \in 1..Len(r) : r[i] = q[i + 1]
    BY <1>1
  <2>2. lo + k = q[1].from + q[1].len
    BY <1>6, <1>2 DEF NBytes, DPos, MBuffers
  <2> HIDE DEF r
  <2>3. r = << >> => lo + k = hi
    <3> HAVE r = << >>
    <3>1. Len(q) = 1
      BY <2>1, <1>1
    <3> QED BY <3>1, <2>2 DEF QueueOK
  <2>4. r # << >> =>
          DPos(r[1]) = lo + k /\ r[Len(r)].from + r[Len(r)].len = hi
    <3> HAVE r # << >>
    <3>1. Len(r) \in Nat \ {0} /\ Len(q) >= 2
      BY <2>1, <1>1
    <3>2. r[1] = q[2] /\ r[Len(r)] = q[Len(q)]
      BY <3>1, <2>1
    <3>3. q[2].curs = 0 /\ q[2].from = q[1].from + q[1].len
      <4>1. 2 \in 2..Len(q)
        BY <3>1, <1>1
      <4> QED BY <4>1 DEF QueueOK
    <3>4. q[Len(q)].from + q[Len(q)].len = hi
      BY DEF QueueOK
    <3>5. q[2] \in MBuffers
      BY <3>1, <1>1
    <3> QED BY <3>2, <3>3, <3>4, <3>5, <2>2 DEF DPos, MBuffers
  <2>5. \A i \in 1..Len(r) : NBytes(r[i]) > 0 /\ r[i].from + r[i].len <= hi
    <3> SUFFICES ASSUME NEW i \in 1..Len(r)
                 PROVE  NBytes(r[i]) > 0 /\ r[i].from + r[i].len <= hi
      OBVIOUS
    <3>1. i + 1 \in 1..Len(q) /\ r[i] = q[i + 1]
      BY <2>1, <1>1
    <3>2. NBytes(q[i + 1]) > 0 /\ q[i + 1].from + q[i + 1].len <= hi
      BY <3>1 DEF QueueOK
    <3> QED BY <3>1, <3>2
  <2>6. \A i \in 2..Len(r) :
          r[i].curs = 0 /\ r[i].from = r[i-1].from + r[i-1].len
    <3> SUFFICES ASSUME NEW i \in 2..Len(r)
                 PROVE  r[i].curs = 0 /\ r[i].from = r[i-1].from + r[i-1].len
      OBVIOUS
    <3>1. i \in 1..Len(r) /\ i-1 \in 1..Len(r) /\ i+1 \in 2..Len(q)
      BY <2>1, <1>1
    <3>2. q[i+1].curs = 0 /\ q[i+1].from = q[(i+1)-1].from + q[(i+1)-1].len
      BY <3>1 DEF QueueOK
    <3>3. r[i] = q[i+1] /\ r[i-1] = q[(i-1)+1] /\ (i+1)-1 = (i-1)+1
      BY <3>1, <2>1
    <3> QED BY <3>2, <3>3
  <2>7. QueueOK(r, lo + k, hi)
    BY <2>3, <2>4, <2>5, <2>6 DEF QueueOK
  <2>8. AfterWrite(q, k) = r
    BY <1>2, <1>6 DEF AfterWrite, r
  <2> QED BY <2>1, <2>7, <2>8, <1>2, <1>5
<1>7. CASE k # NBytes(q[1])
  <2> DEFINE r == [q EXCEPT ![1].curs = @ + k]
  <2>1. /\ Len(r) = Len(q) /\ DOMAIN r = 1..Len(q)
        /\ r[1] = [q[1] EXCEPT !.curs = @ + k]
        /\ \A i \in 2..Len(q) : r[i] = q[i]
    BY <1>1
  <2>2. r[1] \in MBuffers
        /\ r[1].from = q[1].from /\ r[1].len = q[1].len
        /\ r[1].curs = q[1].curs + k
    <3> DEFINE b == q[1]
    <3>1. b \in MBuffers /\ b.curs + k \in Nat
      BY <1>2, <1>4 DEF MBuffers
    <3>2. r[1] = [b EXCEPT !.curs = b.curs + k]
      BY <2>1
    <3> HIDE DEF b
    <3>3. /\ [b EXCEPT !.curs = b.curs + k] \in MBuffers
          /\ [b EXCEPT !.curs = b.curs + k].from = b.from
          /\ [b EXCEPT !.curs = b.curs + k].len = b.len
          /\ [b EXCEPT !.curs = b.curs + k].curs = b.curs + k
      BY <3>1 DEF MBuffers
    <3> QED BY <3>2, <3>3 DEF b
  <2>3. r \in Seq(MBuffers)
    <3>1. \A i \in 1..Len(q) : r[i] \in MBuffers
      BY <2>1, <2>2, <1>1
    <3>2. r = [i \in 1..Len(q) |-> r[i]]
      BY <1>1
    <3> QED BY <3>1, <3>2, <1>1, IsASeq
  <2> HIDE DEF r
  <2>4. r # << >>
    BY <2>1, <2>3, <1>1
  <2>5. DPos(r[1]) = lo + k /\ NBytes(r[1]) > 0
    <3>1. DPos(r[1]) = lo + k
      <4>1. q[1].from \in Nat /\ q[1].curs \in Nat /\ q[1].from + q[1].curs = lo
        BY <1>2 DEF DPos, MBuffers
      <4>2. DPos(r[1]) = q[1].from + (q[1].curs + k)
        BY <2>2, Zenon DEF DPos
      <4>3. \A f, c \in Nat : f + c = lo => f + (c + k) = lo + k
        BY <1>4
      <4>4. q[1].from + (q[1].curs + k) = lo + k
        BY <4>1, <4>3, Zenon
      <4> QED BY <4>2, <4>4, Zenon
    <3>2. k < NBytes(q[1])
      BY <1>2, <1>4, <1>7 DEF NBytes, MBuffers
    <3>3. NBytes(r[1]) > 0
      BY <3>2, <2>2, <1>2, <1>4 DEF NBytes, MBuffers
    <3> QED BY <3>1, <3>3
  <2>6. r[Len(r)].from + r[Len(r)].len = hi
    <3>1. q[Len(q)].from + q[Len(q)].len = hi
      BY DEF QueueOK
    <3>2. Len(q) \in Int /\ Len(q) >= 1
      BY <1>1
    <3>3. CASE Len(q) = 1
      BY <3>1, <3>3, <2>1, <2>2
    <3>4. CASE Len(q) # 1
      <4>1. Len(q) \in 2..Len(q)
        BY <3>2, <3>4
      <4> QED BY <4>1, <3>1, <2>1
    <3> QED BY <3>3, <3>4
  <2>7. \A i \in 1..Len(r) : NBytes(r[i]) > 0 /\ r[i].from + r[i].len <= hi
    <3> SUFFICES ASSUME NEW i \in 1..Len(r)
                 PROVE  NBytes(r[i]) > 0 /\ r[i].from + r[i].len <= hi
      OBVIOUS
    <3>1. CASE i = 1
      BY <3>1, <2>2, <2>5, <1>3
    <3>2. CASE i \in 2..Len(q)
      BY <3>2, <2>1, <1>1 DEF QueueOK
    <3> QED BY <3>1, <3>2, <2>1, <1>1
  <2>8. \A i \in 2..Len(r) :
          r[i].curs = 0 /\ r[i].from = r[i-1].from + r[i-1].len
    <3> SUFFICES ASSUME NEW i \in 2..Len(r)
                 PROVE  r[i].curs = 0 /\ r[i].from = r[i-1].from + r[i-1].len
      OBVIOUS
    <3>1. q[i].curs = 0 /\ q[i].from = q[i-1].from + q[i-1].len /\ r[i] = q[i]
      BY <2>1 DEF QueueOK
    <3>2. r[i-1].from = q[i-1].from /\ r[i-1].len = q[i-1].len
      <4>1. i - 1 = 1 \/ i - 1 \in 2..Len(q)
        BY <2>1, <1>1
      <4> QED BY <4>1, <2>1, <2>2
    <3> QED BY <3>1, <3>2
  <2>9. QueueOK(r, lo + k, hi)
    BY <2>4, <2>5, <2>6, <2>7, <2>8 DEF QueueOK
  <2>10. AfterWrite(q, k) = r
    BY <1>2, <1>7 DEF AfterWrite, r
  <2> QED BY <2>3, <2>9, <2>10, <1>2, <1>5
<1> QED BY <1>6, <1>7

\* What write_cb appends continues a faithful echo.
LEMMA EchoGrows ==
  ASSUME NEW o \in Seq(Nat), \A i \in 1..Len(o) : o[i] = i,
         NEW b \in MBuffers, DPos(b) = Len(o), NEW k \in Nat
  PROVE  /\ o \o Written(b, k) \in Seq(Nat)
         /\ Len(o \o Written(b, k)) = Len(o) + k
         /\ \A i \in 1..Len(o \o Written(b, k)) : (o \o Written(b, k))[i] = i
<1> DEFINE w == Written(b, k)
<1>1. w \in Seq(Nat) /\ Len(w) = k
  BY DEF Written, DPos, MBuffers
<1>2. \A i \in 1..k : w[i] = Len(o) + i
  BY DEF Written
<1> HIDE DEF w
<1>3. o \o w \in Seq(Nat) /\ Len(o \o w) = Len(o) + k
  BY <1>1, ConcatProperties
<1>4. ASSUME NEW i \in 1..Len(o \o w)
      PROVE  (o \o w)[i] = i
  <2>1. CASE i <= Len(o)
    <3>1. (o \o w)[i] = o[i] /\ i \in 1..Len(o)
      BY <2>1, <1>1, <1>3, ConcatProperties
    <3> QED BY <3>1
  <2>2. CASE i > Len(o)
    <3>1. (o \o w)[i] = w[i - Len(o)] /\ i - Len(o) \in 1..k
      BY <2>2, <1>1, <1>3, ConcatProperties
    <3> QED BY <3>1, <1>2
  <2> QED BY <2>1, <2>2, <1>3
<1> QED BY <1>3, <1>4 DEF w

-----------------------------------------------------------------------------
(* The inductive invariant.                                                *)

\* A connection the server has not accepted yet has no instance and no data,
\* and the kernel queues it once: accept() starts from an empty m_wlist.
BacklogFresh ==
  /\ \A c \in Conns : ~Accepted(c) =>
       ~Live(c) /\ rcvd[c] = 0 /\ out[c] = << >> /\ wlist[c] = << >>
  /\ \A i \in 1..Len(backlog) : peer[backlog[i]] # "idle"
  /\ \A i, j \in 1..Len(backlog) : backlog[i] = backlog[j] => i = j

\* The three ends of the stream, written <= received <= sent, and what is
\* written is the stream.
StreamOrder ==
  \A c \in Conns :
    /\ rcvd[c] <= input[c]
    /\ Len(out[c]) <= rcvd[c]
    /\ \A i \in 1..Len(out[c]) : out[c][i] = i

IInv == TypeOK /\ BacklogFresh /\ StreamOrder /\ QueueHoldsGap

\* Every run starts in a state of the invariant.
LEMMA InitIInv == Init => IInv
<1> SUFFICES ASSUME Init PROVE IInv
  OBVIOUS
<1>1. TypeOK
  BY ConstantsOK DEF Init, TypeOK, Live
<1>2. BacklogFresh
  BY DEF Init, BacklogFresh, Accepted, Live
<1>3. StreamOrder /\ QueueHoldsGap
  BY DEF Init, StreamOrder, QueueHoldsGap, Live
<1> QED BY <1>1, <1>2, <1>3 DEF IInv

\* accept() turns the oldest waiting connection into an instance with an
\* empty queue, at an address no other instance has.
LEMMA ListenAcceptIInv == IInv /\ ListenAccept => IInv'
<1> SUFFICES ASSUME IInv, ListenAccept PROVE IInv'
  OBVIOUS
<1> USE DEF IInv
<1> DEFINE h == Head(backlog)
<1>1. /\ backlog \in Seq(Conns) /\ backlog # << >>
      /\ h \in Conns /\ h = backlog[1] /\ Len(backlog) \in Nat \ {0}
      /\ backlog' \in Seq(Conns) /\ Len(backlog') = Len(backlog) - 1
  BY DEF TypeOK, ListenAccept
<1>2. \A i \in 1..Len(backlog') : backlog'[i] = backlog[i + 1] /\ i + 1 \in 1..Len(backlog)
  BY <1>1 DEF ListenAccept
<1>3. ~Accepted(h)
  BY <1>1 DEF Accepted
<1>4. PICK a \in Addrs \ {at[c] : c \in Conns} :
        at' = [at EXCEPT ![h] = a] /\ m_instance' = Listed(a)
  BY DEF ListenAccept
<1>5. TypeOK'
  <2>1. at' \in [Conns -> Addrs \cup {Null}] /\ m_instance' \in Seq(Addrs)
    BY <1>1, <1>4 DEF TypeOK, Listed
  <2>2. \A c, d \in Conns : Live(c)' /\ at'[c] = at'[d] => c = d
    BY <1>1, <1>4, ConstantsOK DEF TypeOK, Live
  <2>3. events' \in [Conns -> SUBSET {"READ", "WRITE"}]
    BY <1>1 DEF TypeOK, ListenAccept
  <2> QED BY <2>1, <2>2, <2>3, <1>1 DEF TypeOK, ListenAccept, ioVars, peerVars
<1>6. BacklogFresh'
  <2>1. ASSUME NEW c \in Conns, ~Accepted(c)'
        PROVE  c # h /\ ~Accepted(c)
    <3>1. peer'[c] = peer[c]
      BY DEF ListenAccept, peerVars
    <3>2. CASE peer[c] = "idle"
      BY <3>2, <1>1 DEF BacklogFresh, Accepted
    <3>3. CASE peer[c] # "idle"
      <4>1. PICK i \in 1..Len(backlog') : backlog'[i] = c
        BY <2>1, <3>1, <3>3 DEF Accepted
      <4>2. backlog[i + 1] = c /\ i + 1 \in 1..Len(backlog) /\ i + 1 # 1
        BY <4>1, <1>1, <1>2
      <4>3. 1 \in 1..Len(backlog)
        BY <1>1
      <4> QED BY <4>2, <4>3, <1>1 DEF BacklogFresh, Accepted
    <3> QED BY <3>2, <3>3
  <2>2. ASSUME NEW c \in Conns, ~Accepted(c)'
        PROVE  (~Live(c) /\ rcvd[c] = 0 /\ out[c] = << >> /\ wlist[c] = << >>)'
    BY <2>1, <2>2, <1>4 DEF BacklogFresh, Live, ListenAccept, TypeOK
  <2>3. \A i \in 1..Len(backlog') : peer'[backlog'[i]] # "idle"
    BY <1>2 DEF BacklogFresh, ListenAccept, peerVars
  <2>4. \A i, j \in 1..Len(backlog') : backlog'[i] = backlog'[j] => i = j
    <3> SUFFICES ASSUME NEW i \in 1..Len(backlog'), NEW j \in 1..Len(backlog'),
                        backlog'[i] = backlog'[j]
                 PROVE  i = j
      OBVIOUS
    <3>1. i + 1 = j + 1
      BY <1>2 DEF BacklogFresh
    <3> QED BY <3>1, <1>1
  <2> QED BY <2>2, <2>3, <2>4 DEF BacklogFresh
<1>7. StreamOrder'
  BY DEF StreamOrder, ListenAccept, peerVars
<1>8. QueueHoldsGap'
  <2> SUFFICES ASSUME NEW c \in Conns, Live(c)'
               PROVE  QueueOK(wlist[c], Len(out[c]), rcvd[c])'
    BY DEF QueueHoldsGap
  <2>1. CASE c = h
    <3>1. rcvd[c] = 0 /\ out[c] = << >> /\ wlist[c] = << >>
      BY <2>1, <1>3, <1>1 DEF BacklogFresh
    <3> QED BY <3>1 DEF QueueOK, ListenAccept
  <2>2. CASE c # h
    <3>1. Live(c)
      BY <2>2, <1>1, <1>4 DEF Live, TypeOK
    <3> QED BY <3>1 DEF QueueHoldsGap, QueueOK, ListenAccept
  <2> QED BY <2>1, <2>2
<1> QED BY <1>5, <1>6, <1>7, <1>8

\* callback() without end of file: read_cb extends the queue, write_cb moves
\* bytes from its front to the stream written.
LEMMA CallbackServeIInv ==
  ASSUME IInv, NEW c \in Conns, CallbackServe(c) PROVE IInv'
<1> USE DEF IInv
<1>0. PICK revents \in Reported(c) :
        \E n \in Received(c, revents) :
          LET q == QueueAfterRead(c, n)
              err == ErrorAfterRead(c, revents, n) IN
          /\ rcvd' = [rcvd EXCEPT ![c] = @ + n]
          /\ \/ WriteNothing(c, q, err)
             \/ q # << >> /\ (WriteToReset(c, q, err) \/ WriteSome(c, q, err))
  BY DEF CallbackServe
<1>1. PICK n \in Received(c, revents) :
        LET q == QueueAfterRead(c, n)
            err == ErrorAfterRead(c, revents, n) IN
        /\ rcvd' = [rcvd EXCEPT ![c] = @ + n]
        /\ \/ WriteNothing(c, q, err)
           \/ q # << >> /\ (WriteToReset(c, q, err) \/ WriteSome(c, q, err))
  BY <1>0
<1> DEFINE q == QueueAfterRead(c, n)
           err == ErrorAfterRead(c, revents, n)
<1>2. /\ UNCHANGED <<m_listen, backlog, m_instance, at, peer, input, taken>>
      /\ Live(c)
  BY DEF CallbackServe
<1>3. n \in Nat /\ rcvd[c] + n <= input[c]
  <2>1. rcvd[c] \in Nat /\ input[c] \in Nat /\ rcvd[c] <= input[c]
    BY DEF TypeOK, StreamOrder
  <2> QED BY <2>1, ConstantsOK DEF Received, Min2
<1>4. Accepted(c)
  BY <1>2 DEF BacklogFresh
<1>5. /\ rcvd[c] \in Nat /\ Len(out[c]) \in Nat
      /\ out[c] \in Seq(Nat) /\ wlist[c] \in Seq(MBuffers)
      /\ QueueOK(wlist[c], Len(out[c]), rcvd[c])
  BY <1>2 DEF TypeOK, QueueHoldsGap
<1>6. q \in Seq(MBuffers) /\ QueueOK(q, Len(out[c]), rcvd[c] + n)
  <2>1. CASE n = 0
    BY <2>1, <1>5 DEF QueueAfterRead
  <2>2. CASE n # 0
    BY <2>2, <1>3, <1>5, QueueAppend DEF QueueAfterRead
  <2> QED BY <2>1, <2>2
<1>7. err \in {"none", "ECONNRESET", "EPIPE"}
  BY DEF ErrorAfterRead, TypeOK
<1>8. rcvd' = [rcvd EXCEPT ![c] = rcvd[c] + n] /\ rcvd' \in [Conns -> Nat]
  BY <1>1, <1>3, <1>5 DEF TypeOK
<1> HIDE DEF q, err
<1>9. ASSUME NEW q2 \in Seq(MBuffers), NEW o2 \in Seq(Nat),
             wlist' = [wlist EXCEPT ![c] = q2],
             out' = [out EXCEPT ![c] = o2],
             QueueOK(q2, Len(o2), rcvd[c] + n),
             Len(o2) <= rcvd[c] + n,
             \A i \in 1..Len(o2) : o2[i] = i,
             proc' \in {proc, "killed"},
             events' \in [Conns -> SUBSET {"READ", "WRITE"}],
             sockerr' \in [Conns -> {"none", "ECONNRESET", "EPIPE"}]
      PROVE  IInv'
  <2>1. /\ wlist' \in [Conns -> Seq(MBuffers)] /\ wlist'[c] = q2
        /\ out' \in [Conns -> Seq(Nat)] /\ out'[c] = o2
        /\ rcvd'[c] = rcvd[c] + n
        /\ \A d \in Conns \ {c} :
             wlist'[d] = wlist[d] /\ out'[d] = out[d] /\ rcvd'[d] = rcvd[d]
    BY <1>8, <1>9 DEF TypeOK
  <2>2. \A d \in Conns : Live(d)' <=> Live(d)
    BY <1>2 DEF Live
  <2>3. \A d \in Conns : Accepted(d)' <=> Accepted(d)
    BY <1>2 DEF Accepted
  <2>4. TypeOK'
    BY <1>2, <1>8, <1>9, <2>1, <2>2 DEF TypeOK
  <2>5. BacklogFresh'
    <3>1. ASSUME NEW d \in Conns, ~Accepted(d)'
          PROVE  (~Live(d) /\ rcvd[d] = 0 /\ out[d] = << >> /\ wlist[d] = << >>)'
      <4>1. ~Accepted(d) /\ d # c
        BY <3>1, <2>3, <1>4
      <4> QED BY <4>1, <2>1, <2>2 DEF BacklogFresh
    <3> QED BY <3>1, <1>2 DEF BacklogFresh
  <2>6. StreamOrder'
    <3>1. ASSUME NEW d \in Conns
          PROVE  (/\ rcvd[d] <= input[d]
                  /\ Len(out[d]) <= rcvd[d]
                  /\ \A i \in 1..Len(out[d]) : out[d][i] = i)'
      <4>1. CASE d = c
        BY <4>1, <2>1, <1>2, <1>3, <1>9
      <4>2. CASE d # c
        BY <4>2, <2>1, <1>2 DEF StreamOrder
      <4> QED BY <4>1, <4>2
    <3> QED BY <3>1 DEF StreamOrder
  <2>7. QueueHoldsGap'
    <3>1. ASSUME NEW d \in Conns, Live(d)'
          PROVE  QueueOK(wlist[d], Len(out[d]), rcvd[d])'
      <4>1. CASE d = c
        BY <4>1, <2>1, <1>9 DEF QueueOK
      <4>2. CASE d # c
        BY <4>2, <3>1, <2>1, <2>2 DEF QueueHoldsGap, QueueOK
      <4> QED BY <4>1, <4>2
    <3> QED BY <3>1 DEF QueueHoldsGap
  <2> QED BY <2>4, <2>5, <2>6, <2>7
<1>10. Len(out[c]) <= rcvd[c] + n /\ \A i \in 1..Len(out[c]) : out[c][i] = i
  BY <1>3, <1>5 DEF StreamOrder
<1>11. out = [out EXCEPT ![c] = out[c]]
  BY DEF TypeOK
<1>12. CASE WriteNothing(c, q, err)
  <2>1. events' \in [Conns -> SUBSET {"READ", "WRITE"}]
    BY <1>12 DEF WriteNothing, Interest, TypeOK
  <2>2. sockerr' \in [Conns -> {"none", "ECONNRESET", "EPIPE"}]
    BY <1>12, <1>7 DEF WriteNothing, TypeOK
  <2>3. /\ wlist' = [wlist EXCEPT ![c] = q]
        /\ out' = [out EXCEPT ![c] = out[c]]
        /\ proc' \in {proc, "killed"}
    BY <1>12, <1>11 DEF WriteNothing
  <2> QED BY <2>1, <2>2, <2>3, <1>5, <1>6, <1>9, <1>10
<1>13. CASE WriteToReset(c, q, err)
  <2>1. CASE err = "ECONNRESET"
    <3>1. WriteNothing(c, q, "none")
      BY <1>13, <2>1 DEF WriteToReset
    <3>2. events' \in [Conns -> SUBSET {"READ", "WRITE"}]
      BY <3>1 DEF WriteNothing, Interest, TypeOK
    <3>3. sockerr' \in [Conns -> {"none", "ECONNRESET", "EPIPE"}]
      BY <3>1 DEF WriteNothing, TypeOK
    <3>4. /\ wlist' = [wlist EXCEPT ![c] = q]
          /\ out' = [out EXCEPT ![c] = out[c]]
          /\ proc' \in {proc, "killed"}
      BY <3>1, <1>11 DEF WriteNothing
    <3> QED BY <3>2, <3>3, <3>4, <1>5, <1>6, <1>9, <1>10
  <2>2. CASE err # "ECONNRESET"
    <3>1. /\ wlist' = [wlist EXCEPT ![c] = q]
          /\ out' = [out EXCEPT ![c] = out[c]]
          /\ proc' \in {proc, "killed"}
          /\ events' \in [Conns -> SUBSET {"READ", "WRITE"}]
          /\ sockerr' \in [Conns -> {"none", "ECONNRESET", "EPIPE"}]
      BY <1>13, <2>2, <1>11 DEF WriteToReset, TypeOK
    <3> QED BY <3>1, <1>5, <1>6, <1>9, <1>10
  <2> QED BY <2>1, <2>2
<1>14. CASE q # << >> /\ WriteSome(c, q, err)
  <2>1. PICK k \in 1 .. Min2(NBytes(Head(q)), Room(c)) :
          /\ out' = [out EXCEPT ![c] = @ \o Written(Head(q), k)]
          /\ wlist' = [wlist EXCEPT ![c] = AfterWrite(q, k)]
          /\ events' = [events EXCEPT ![c] = Interest(AfterWrite(q, k))]
    BY <1>14 DEF WriteSome
  <2>2. Head(q) \in MBuffers /\ NBytes(Head(q)) \in Int
    <3>1. Head(q) \in MBuffers
      BY <1>6, <1>14, HeadTailProperties
    <3> QED BY <3>1 DEF MBuffers, NBytes
  <2>3. Room(c) \in Int
    BY <1>5, ConstantsOK DEF Room, TypeOK
  <2>4. k \in 1..NBytes(Head(q)) /\ k \in Nat
    BY <2>2, <2>3 DEF Min2
  <2>5. /\ AfterWrite(q, k) \in Seq(MBuffers)
        /\ QueueOK(AfterWrite(q, k), Len(out[c]) + k, rcvd[c] + n)
        /\ Len(out[c]) + k <= rcvd[c] + n
        /\ DPos(Head(q)) = Len(out[c])
    <3>1. rcvd[c] + n \in Nat
      BY <1>3, <1>5
    <3> QED BY <3>1, <2>4, <1>5, <1>6, <1>14, QueueWrite
  <2> DEFINE o2 == out[c] \o Written(Head(q), k)
  <2>6. /\ o2 \in Seq(Nat) /\ Len(o2) = Len(out[c]) + k
        /\ \A i \in 1..Len(o2) : o2[i] = i
    BY <2>2, <2>4, <2>5, <1>5, <1>10, EchoGrows
  <2>7. /\ out' = [out EXCEPT ![c] = o2]
        /\ events' \in [Conns -> SUBSET {"READ", "WRITE"}]
    BY <2>1 DEF Interest, TypeOK
  <2>8. /\ proc' \in {proc, "killed"}
        /\ sockerr' \in [Conns -> {"none", "ECONNRESET", "EPIPE"}]
    BY <1>14, <1>7 DEF WriteSome, TypeOK
  <2> HIDE DEF o2
  <2> QED BY <2>1, <2>5, <2>6, <2>7, <2>8, <1>9
<1> QED BY <1>1, <1>12, <1>13, <1>14 DEF q, err

\* read_cb at end of file: the instance and its queue go, the rest stays.
LEMMA CallbackEofIInv ==
  ASSUME IInv, NEW c \in Conns, CallbackEof(c) PROVE IInv'
<1> USE DEF IInv
<1>1. /\ at' = [at EXCEPT ![c] = Null]
      /\ wlist' = [wlist EXCEPT ![c] = << >>]
      /\ UNCHANGED <<backlog, rcvd, out, peer, input>>
  BY DEF CallbackEof, peerVars
<1>2. \A d \in Conns : Live(d)' => Live(d) /\ d # c
  BY <1>1 DEF Live, TypeOK
<1>3. TypeOK'
  <2>1. \A d, e \in Conns : Live(d)' /\ at'[d] = at'[e] => d = e
    BY <1>1, <1>2 DEF Live, TypeOK
  <2> QED BY <2>1 DEF CallbackEof, TypeOK, peerVars
<1>4. BacklogFresh'
  <2>1. \A d \in Conns : Accepted(d)' <=> Accepted(d)
    BY <1>1 DEF Accepted
  <2> QED BY <2>1, <1>1, <1>2 DEF BacklogFresh, TypeOK
<1>5. StreamOrder'
  BY <1>1 DEF StreamOrder
<1>6. QueueHoldsGap'
  BY <1>1, <1>2 DEF QueueHoldsGap, QueueOK, TypeOK
<1> QED BY <1>3, <1>4, <1>5, <1>6

\* ~service: some instances go with their queues, nothing else changes.
LEMMA DestroyIInv == IInv /\ Destroy => IInv'
<1> SUFFICES ASSUME IInv, Destroy PROVE IInv'
  OBVIOUS
<1> USE DEF IInv
<1>1. UNCHANGED <<backlog, rcvd, out, peer, sockerr, input, taken>>
  BY DEF Destroy, peerVars
<1>2. ASSUME NEW d \in Conns
      PROVE  \/ at'[d] = Null /\ wlist'[d] = << >>
             \/ at'[d] = at[d] /\ wlist'[d] = wlist[d]
  BY DEF Destroy
<1>3. \A d \in Conns : Live(d)' => Live(d) /\ at'[d] = at[d] /\ wlist'[d] = wlist[d]
  BY <1>2 DEF Live
<1>4. TypeOK'
  <2>1. at' \in [Conns -> Addrs \cup {Null}] /\ wlist' \in [Conns -> Seq(MBuffers)]
    BY DEF Destroy, TypeOK
  <2>2. \A d, e \in Conns : Live(d)' /\ at'[d] = at'[e] => d = e
    BY <1>3 DEF Live, TypeOK
  <2>3. events' \in [Conns -> SUBSET {"READ", "WRITE"}]
    BY DEF Destroy, TypeOK
  <2>4. m_instance' \in Seq(Addrs) /\ m_listen' \in BOOLEAN
        /\ proc' \in {"exited", "undefined"}
    <3>1. m_instance' = << >> /\ m_listen' = FALSE
      BY DEF Destroy
    <3>2. proc' \in IF DeletesTwice THEN {"exited", "undefined"} ELSE {"exited"}
      BY DEF Destroy
    <3>3. proc' \in {"exited", "undefined"}
      BY <3>2
    <3>4. << >> \in Seq(Addrs) /\ FALSE \in BOOLEAN
      OBVIOUS
    <3>5. m_instance' \in Seq(Addrs)
      BY <3>1, <3>4
    <3> QED BY <3>1, <3>3, <3>4, <3>5
  <2> QED BY <2>1, <2>2, <2>3, <2>4, <1>1 DEF TypeOK
<1>5. BacklogFresh'
  <2>1. \A d \in Conns : Accepted(d)' <=> Accepted(d)
    BY <1>1 DEF Accepted
  <2>2. ASSUME NEW d \in Conns, ~Accepted(d)'
        PROVE  (~Live(d) /\ rcvd[d] = 0 /\ out[d] = << >> /\ wlist[d] = << >>)'
    BY <2>1, <2>2, <1>1, <1>2, <1>3 DEF BacklogFresh
  <2> QED BY <2>2, <1>1 DEF BacklogFresh
<1>6. StreamOrder'
  BY <1>1 DEF StreamOrder
<1>7. QueueHoldsGap'
  BY <1>1, <1>3 DEF QueueHoldsGap, QueueOK
<1> QED BY <1>4, <1>5, <1>6, <1>7

\* The kernel queues a new connection behind the ones that wait.
LEMMA PeerConnectIInv ==
  ASSUME IInv, NEW c \in Conns, PeerConnect(c) PROVE IInv'
<1> USE DEF IInv
<1>1. /\ peer' = [peer EXCEPT ![c] = "open"] /\ peer[c] = "idle"
      /\ backlog' = Append(backlog, c)
      /\ UNCHANGED <<proc, m_listen, m_instance, at, ioVars, sockerr, input, taken>>
  BY DEF PeerConnect
<1>2. /\ backlog' \in Seq(Conns) /\ Len(backlog') = Len(backlog) + 1
      /\ Len(backlog) \in Nat
      /\ backlog'[Len(backlog) + 1] = c
      /\ \A i \in 1..Len(backlog) : backlog'[i] = backlog[i] /\ backlog[i] \in Conns
  BY <1>1 DEF TypeOK
<1>3. TypeOK'
  <2>1. peer' \in [Conns -> {"idle", "open", "fin", "rst"}]
    BY <1>1 DEF TypeOK
  <2> QED BY <1>1, <1>2, <2>1 DEF TypeOK, ioVars, Live
<1>4. BacklogFresh'
  <2>1. ASSUME NEW d \in Conns, ~Accepted(d)'
        PROVE  ~Accepted(d)
    <3>1. CASE d = c
      BY <3>1, <1>1 DEF Accepted
    <3>2. CASE d # c
      <4>1. peer'[d] = peer[d]
        BY <3>2, <1>1 DEF TypeOK
      <4>2. CASE peer[d] = "idle"
        BY <4>2 DEF Accepted
      <4>3. CASE peer[d] # "idle"
        <5>1. PICK i \in 1..Len(backlog') : backlog'[i] = d
          BY <2>1, <4>1, <4>3 DEF Accepted
        <5>2. i \in 1..Len(backlog) /\ backlog[i] = d
          BY <5>1, <1>2, <3>2
        <5> QED BY <5>2 DEF Accepted
      <4> QED BY <4>2, <4>3
    <3> QED BY <3>1, <3>2
  <2>2. \A i \in 1..Len(backlog) : backlog[i] # c
    BY <1>1 DEF BacklogFresh
  <2>3. ASSUME NEW i \in 1..Len(backlog')
        PROVE  peer'[backlog'[i]] # "idle"
    <3>1. CASE i = Len(backlog) + 1
      BY <3>1, <1>1, <1>2 DEF TypeOK
    <3>2. CASE i # Len(backlog) + 1
      <4>1. i \in 1..Len(backlog)
        BY <3>2, <1>2
      <4>2. backlog'[i] = backlog[i] /\ backlog[i] \in Conns /\ backlog[i] # c
        BY <4>1, <1>2, <2>2
      <4>3. peer[backlog[i]] # "idle"
        BY <4>1 DEF BacklogFresh
      <4> QED BY <4>2, <4>3, <1>1 DEF TypeOK
    <3> QED BY <3>1, <3>2
  <2>4. ASSUME NEW i \in 1..Len(backlog'), NEW j \in 1..Len(backlog'),
               backlog'[i] = backlog'[j]
        PROVE  i = j
    <3>1. CASE i \in 1..Len(backlog) /\ j \in 1..Len(backlog)
      BY <3>1, <2>4, <1>2 DEF BacklogFresh
    <3>2. CASE i \notin 1..Len(backlog) \/ j \notin 1..Len(backlog)
      <4>1. i = Len(backlog) + 1 \/ j = Len(backlog) + 1
        BY <3>2, <1>2
      <4>2. backlog'[i] = c /\ backlog'[j] = c
        BY <4>1, <2>4, <1>2
      <4>3. i \notin 1..Len(backlog) /\ j \notin 1..Len(backlog)
        BY <4>2, <2>2, <1>2
      <4> QED BY <4>3, <1>2
    <3> QED BY <3>1, <3>2
  <2>5. \A d \in Conns : ~Accepted(d)' =>
          (~Live(d) /\ rcvd[d] = 0 /\ out[d] = << >> /\ wlist[d] = << >>)'
    BY <2>1, <1>1 DEF BacklogFresh, Live, ioVars
  <2> QED BY <2>3, <2>4, <2>5 DEF BacklogFresh
<1>5. StreamOrder' /\ QueueHoldsGap'
  BY <1>1 DEF StreamOrder, QueueHoldsGap, QueueOK, Live, ioVars
<1> QED BY <1>3, <1>4, <1>5

\* The remaining steps touch neither the instances, their queues and streams,
\* nor the backlog: at most the input grows and a connected peer hangs up.
LEMMA QuietIInv ==
  ASSUME IInv, TypeOK',
         UNCHANGED <<backlog, at, wlist, rcvd, out>>,
         \A c \in Conns : input'[c] >= input[c],
         \A c \in Conns : peer'[c] = "idle" <=> peer[c] = "idle"
  PROVE  IInv'
<1> USE DEF IInv
<1>1. \A c \in Conns : Accepted(c)' <=> Accepted(c)
  BY DEF Accepted
<1>2. \A i \in 1..Len(backlog) : backlog[i] \in Conns
  BY DEF TypeOK
<1>3. BacklogFresh'
  BY <1>1, <1>2 DEF BacklogFresh, Live
<1>4. StreamOrder'
  <2> SUFFICES ASSUME NEW c \in Conns
               PROVE  rcvd[c] <= input'[c]
    BY DEF StreamOrder
  <2>1. rcvd[c] \in Nat /\ input[c] \in Nat /\ input'[c] \in Nat
    BY DEF TypeOK
  <2> QED BY <2>1 DEF StreamOrder
<1>5. QueueHoldsGap'
  BY DEF QueueHoldsGap, QueueOK, Live
<1> QED BY <1>3, <1>4, <1>5

\* What a connected peer does by itself, sending, reading or hanging up,
\* keeps the invariant.
LEMMA PeerStepsIInv ==
  ASSUME IInv, NEW c \in Conns,
         PeerSend(c) \/ PeerRead(c) \/ PeerShutdown(c) \/ PeerReset(c)
  PROVE  IInv'
<1> USE DEF IInv
<1>1. TypeOK'
  <2>1. CASE PeerSend(c)
    BY <2>1 DEF PeerSend, TypeOK, ioVars, Live
  <2>2. CASE PeerRead(c)
    BY <2>2 DEF PeerRead, TypeOK, ioVars, Live
  <2>3. CASE PeerShutdown(c)
    BY <2>3 DEF PeerShutdown, TypeOK, ioVars, Live
  <2>4. CASE PeerReset(c)
    BY <2>4 DEF PeerReset, TypeOK, ioVars, Live
  <2> QED BY <2>1, <2>2, <2>3, <2>4
<1>2. /\ UNCHANGED <<backlog, at, wlist, rcvd, out>>
      /\ \A d \in Conns : input'[d] >= input[d]
      /\ \A d \in Conns : peer'[d] = "idle" <=> peer[d] = "idle"
  <2>1. \A d \in Conns : input[d] \in Nat
    BY DEF TypeOK
  <2>2. CASE PeerSend(c)
    BY <2>1, <2>2 DEF PeerSend, TypeOK, ioVars
  <2>3. CASE PeerRead(c)
    BY <2>1, <2>3 DEF PeerRead, TypeOK, ioVars
  <2>4. CASE PeerShutdown(c)
    BY <2>1, <2>4 DEF PeerShutdown, TypeOK, ioVars
  <2>5. CASE PeerReset(c)
    BY <2>1, <2>5 DEF PeerReset, TypeOK, ioVars
  <2> QED BY <2>2, <2>3, <2>4, <2>5
<1> QED BY <1>1, <1>2, QuietIInv

\* A watcher that libev gives up on, and SIGINT, keep the invariant.
LEMMA ErrorAndSignalIInv ==
  ASSUME IInv, ListenError \/ SignalCb \/ \E c \in Conns : CallbackError(c)
  PROVE  IInv'
<1> USE DEF IInv
<1>1. TypeOK'
  BY DEF ListenError, SignalCb, CallbackError, TypeOK, Live, ioVars, peerVars
<1>2. UNCHANGED <<backlog, at, wlist, rcvd, out, input, peer>>
  BY DEF ListenError, SignalCb, CallbackError, ioVars, peerVars
<1>3. \A c \in Conns : input'[c] >= input[c]
  BY <1>2 DEF TypeOK
<1> QED BY <1>1, <1>2, <1>3, QuietIInv

\* Every step of the server, the kernel and the peers keeps the invariant.
LEMMA NextIInv == IInv /\ [Next]_vars => IInv'
<1> SUFFICES ASSUME IInv, [Next]_vars PROVE IInv'
  OBVIOUS
<1>1. CASE ListenAccept
  BY <1>1, ListenAcceptIInv
<1>2. CASE ListenError \/ SignalCb \/ \E c \in Conns : CallbackError(c)
  BY <1>2, ErrorAndSignalIInv
<1>3. CASE Destroy
  BY <1>3, DestroyIInv
<1>4. CASE \E c \in Conns : Callback(c)
  BY <1>4, CallbackServeIInv, CallbackEofIInv DEF Callback
<1>5. CASE PeerNext
  BY <1>5, PeerConnectIInv, PeerStepsIInv DEF PeerNext
<1>6. CASE UNCHANGED vars
  <2>1. UNCHANGED <<backlog, at, wlist, rcvd, out, input, peer>> /\ TypeOK'
    BY <1>6 DEF vars, ioVars, peerVars, IInv, TypeOK, Live
  <2>2. \A c \in Conns : input'[c] >= input[c]
    BY <2>1 DEF IInv, TypeOK
  <2> QED BY <2>1, <2>2, QuietIInv
<1> QED BY <1>1, <1>2, <1>3, <1>4, <1>5, <1>6 DEF Next, ServerNext

\* The inductive invariant: types, the order of the byte streams, faithful
\* echo and the contiguity of m_wlist hold in every reachable state.
THEOREM Invariance == Spec => []IInv
BY InitIInv, NextIInv, PTL DEF Spec

-----------------------------------------------------------------------------
(* The theorems.                                                           *)

\* The variables of core::service, its instances and their peers keep to
\* their types, and live instances have distinct addresses.
THEOREM TypeCorrect == Spec => []TypeOK
BY Invariance, PTL DEF IInv

\* m_wlist always holds exactly the bytes read_cb has received and write_cb
\* has not written, whatever the chunks and however many connections.
THEOREM QueueCorrect == Spec => []QueueHoldsGap
BY Invariance, PTL DEF IInv

\* The echo is faithful: the i-th byte written to a connection is the i-th
\* byte its peer sent, and nothing is written that was not sent.
THEOREM EchoCorrect == Spec => []EchoFidelity
<1>1. IInv => EchoFidelity
  <2> SUFFICES ASSUME IInv, NEW c \in Conns
               PROVE  Len(out[c]) <= input[c] /\ \A i \in 1..Len(out[c]) : out[c][i] = i
    BY DEF EchoFidelity
  <2>1. Len(out[c]) \in Nat /\ rcvd[c] \in Nat /\ input[c] \in Nat
    BY DEF IInv, TypeOK
  <2> QED BY <2>1 DEF IInv, StreamOrder
<1> QED BY <1>1, Invariance, PTL

-----------------------------------------------------------------------------
(* Service implements Echo.                                                *)

Phases == [c \in Conns |-> Phase(c)]

\* The service starts with nothing accepted, like the echo.
LEMMA InitRefines == Init => EchoService!Init
BY DEF Init, EchoService!Init, Phase, Accepted

\* A connection whose server side does not move keeps its phase.
LEMMA SamePhase ==
  ASSUME NEW c \in Conns, Accepted(c)' <=> Accepted(c), Live(c)' <=> Live(c), Up' <=> Up
  PROVE  Phase(c)' = Phase(c)
BY DEF Phase

\* An accepted connection with an instance is open while the process is up.
LEMMA OpenPhase ==
  ASSUME NEW c \in Conns, Accepted(c)', Live(c)', Up' PROVE Phase(c)' = "open"
BY DEF Phase

\* Going down, or deleting instances, closes some open connections and does
\* nothing else.
LEMMA ClosingRefines ==
  ASSUME UNCHANGED <<input, out, peer, backlog>>,
         \A c \in Conns : Live(c)' => Live(c),
         Up' => Up
  PROVE  EchoService!HangUp({c \in Conns : Phase(c) = "open" /\ Phase(c)' # "open"})
<1> DEFINE S == {c \in Conns : Phase(c) = "open" /\ Phase(c)' # "open"}
<1>1. \A c \in Conns : Accepted(c)' <=> Accepted(c)
  BY DEF Accepted
<1>2. \A c \in Conns : Phase(c)' = IF c \in S THEN "closed" ELSE Phase(c)
  BY <1>1 DEF Phase
<1>3. \A c \in S : Phase(c) = "open"
  OBVIOUS
<1> HIDE DEF S
<1>4. S \subseteq Conns
  BY DEF S
<1>5. \A c \in S : Phases[c] = "open"
  BY <1>3, <1>4 DEF Phases
<1>6. Phases' = [c \in Conns |-> IF c \in S THEN "closed" ELSE Phases[c]]
  BY <1>2 DEF Phases
<1> QED BY <1>5, <1>6 DEF EchoService!HangUp, Phases, S

\* While the server runs, an accepted connection whose peer is connected has
\* its instance.
ConnectedLive ==
  Up => \A c \in Conns : Accepted(c) /\ peer[c] = "open" => Live(c)

\* No step of the service takes the instance of a connected peer away while
\* the server runs: read_cb deletes at end of file only.
LEMMA ConnectedLiveStep ==
  ASSUME IInv, ConnectedLive, [Next]_vars PROVE ConnectedLive'
<1> USE DEF IInv
<1>1. ASSUME Up' => Up,
             \A c \in Conns : Accepted(c)' /\ peer'[c] = "open" /\ ~Live(c)' =>
                              Accepted(c) /\ peer[c] = "open" /\ ~Live(c)
      PROVE  ConnectedLive'
  BY <1>1 DEF ConnectedLive
<1>2. CASE ListenAccept
  <2>0. backlog \in Seq(Conns) /\ backlog # << >> /\ Head(backlog) \in Conns
    BY <1>2 DEF TypeOK, ListenAccept
  <2> PICK h \in Conns : h = Head(backlog)
    BY <2>0
  <2>1. /\ Len(backlog) \in Nat \ {0} /\ h = backlog[1]
        /\ Len(backlog') = Len(backlog) - 1
        /\ \A i \in 1..Len(backlog') : backlog'[i] = backlog[i + 1]
    BY <2>0, <1>2 DEF ListenAccept
  <2>2. /\ UNCHANGED <<proc, peer>>
        /\ \E a \in Addrs : at' = [at EXCEPT ![h] = a]
    BY <1>2 DEF ListenAccept, peerVars
  <2>3. Live(h)'
    BY <2>1, <2>2, ConstantsOK DEF Live, TypeOK
  <2>4. ASSUME NEW c \in Conns, c # h, Accepted(c)'
        PROVE  Accepted(c)
    <3>1. ASSUME NEW i \in 1..Len(backlog), backlog[i] = c
          PROVE  FALSE
      <4>1. i # 1
        BY <3>1, <2>1, <2>4
      <4>2. i - 1 \in 1..Len(backlog') /\ (i - 1) + 1 = i
        BY <4>1, <2>1
      <4>3. backlog'[i - 1] = backlog[(i - 1) + 1]
        BY <4>2, <2>1
      <4> QED BY <4>2, <4>3, <3>1, <2>4 DEF Accepted
    <3> QED BY <3>1, <2>2, <2>4 DEF Accepted
  <2>5. \A c \in Conns : c # h /\ ~Live(c)' => ~Live(c)
    BY <2>2 DEF Live, TypeOK
  <2> QED BY <2>2, <2>3, <2>4, <2>5, <1>1 DEF Up
<1>3. CASE ListenError \/ SignalCb \/ \E c \in Conns : CallbackError(c)
  BY <1>1, <1>3 DEF ListenError, SignalCb, CallbackError, Up, Accepted, Live, peerVars
<1>4. CASE Destroy
  BY <1>4 DEF Destroy, ConnectedLive, Up
<1>5. ASSUME NEW c \in Conns, CallbackServe(c) PROVE ConnectedLive'
  <2>1. UNCHANGED <<backlog, at, peer>> /\ Up
    BY <1>5 DEF CallbackServe
  <2> QED BY <2>1, <1>1 DEF Accepted, Live
<1>6. ASSUME NEW c \in Conns, CallbackEof(c) PROVE ConnectedLive'
  <2>1. /\ UNCHANGED <<backlog, peer>> /\ Up /\ peer[c] # "open"
        /\ at' = [at EXCEPT ![c] = Null]
    BY <1>6 DEF CallbackEof, AtEof, peerVars
  <2>2. \A d \in Conns : d # c => (Live(d)' <=> Live(d))
    BY <2>1 DEF Live, TypeOK
  <2> QED BY <2>1, <2>2, <1>1 DEF Accepted
<1>7. ASSUME NEW c \in Conns, PeerConnect(c) PROVE ConnectedLive'
  <2>1. /\ UNCHANGED <<proc, at>>
        /\ peer' = [peer EXCEPT ![c] = "open"] /\ backlog' = Append(backlog, c)
    BY <1>7 DEF PeerConnect
  <2>2. /\ Len(backlog') = Len(backlog) + 1 /\ Len(backlog) \in Nat
        /\ backlog'[Len(backlog) + 1] = c
        /\ \A i \in 1..Len(backlog) : backlog'[i] = backlog[i] /\ i \in 1..Len(backlog')
    BY <2>1 DEF TypeOK
  <2>3. ~Accepted(c)'
    <3>1. Len(backlog) + 1 \in 1..Len(backlog')
      BY <2>2
    <3> QED BY <3>1, <2>2 DEF Accepted
  <2>4. \A d \in Conns : d # c => peer'[d] = peer[d]
    BY <2>1 DEF TypeOK
  <2>5. \A d \in Conns : d # c /\ Accepted(d)' => Accepted(d)
    BY <2>2, <2>4 DEF Accepted
  <2> QED BY <2>1, <2>3, <2>4, <2>5, <1>1 DEF Up, Live
<1>8. ASSUME NEW c \in Conns,
             PeerSend(c) \/ PeerRead(c) \/ PeerShutdown(c) \/ PeerReset(c)
      PROVE  ConnectedLive'
  <2>1. UNCHANGED <<proc, at, backlog>>
    BY <1>8 DEF PeerSend, PeerRead, PeerShutdown, PeerReset
  <2>2. \A d \in Conns :
          /\ peer'[d] = "open" => peer[d] = "open"
          /\ peer'[d] = "idle" <=> peer[d] = "idle"
    BY <1>8 DEF PeerSend, PeerRead, PeerShutdown, PeerReset, TypeOK
  <2> QED BY <2>1, <2>2, <1>1 DEF Up, Live, Accepted
<1>9. CASE UNCHANGED vars
  BY <1>9, <1>1 DEF vars, peerVars, Up, Live, Accepted
<1> QED
  BY <1>2, <1>3, <1>4, <1>5, <1>6, <1>7, <1>8, <1>9
  DEF Next, ServerNext, PeerNext, Callback

\* Every step of the service is a step of the echo, or changes nothing there.
LEMMA NextRefines ==
  ASSUME IInv, ConnectedLive, [Next]_vars
  PROVE  EchoService!Next \/ UNCHANGED EchoService!vars
<1> USE DEF IInv
<1> DEFINE Same == UNCHANGED EchoService!vars
<1>0. ASSUME \A c \in Conns : Phase(c)' = Phase(c), UNCHANGED <<input, out>>
      PROVE  Same
  BY <1>0 DEF EchoService!vars
<1>1. ASSUME NEW S \in SUBSET Conns, EchoService!HangUp(S)
      PROVE  EchoService!Next
  BY <1>1 DEF EchoService!Next
<1>2. {c \in Conns : Phase(c) = "open" /\ Phase(c)' # "open"} \in SUBSET Conns
  OBVIOUS
<1>3. ASSUME UNCHANGED <<input, out, peer, backlog>>,
             \A c \in Conns : Live(c)' => Live(c), Up' => Up
      PROVE  EchoService!Next
  BY <1>1, <1>2, <1>3, ClosingRefines
<1>4. CASE ListenAccept
  <2>0. backlog \in Seq(Conns) /\ backlog # << >> /\ Head(backlog) \in Conns
    BY <1>4 DEF TypeOK, ListenAccept
  <2> PICK h \in Conns : h = Head(backlog)
    BY <2>0
  <2>1. h = backlog[1] /\ 1 \in 1..Len(backlog)
        /\ Len(backlog) \in Nat \ {0} /\ Len(backlog') = Len(backlog) - 1
    BY <2>0, <1>4 DEF ListenAccept
  <2>2. \A i \in 1..Len(backlog') : backlog'[i] = backlog[i + 1] /\ i + 1 \in 2..Len(backlog)
    BY <1>4, <2>0, <2>1 DEF ListenAccept
  <2>3. /\ UNCHANGED <<proc, out, peer, input>>
        /\ Up /\ \E a \in Addrs : at' = [at EXCEPT ![h] = a]
    BY <1>4 DEF ListenAccept, peerVars
  <2>4. ~Accepted(h)
    BY <2>1 DEF Accepted
  <2>5. Accepted(h)'
    <3>1. \A i \in 1..Len(backlog') : backlog'[i] # h
      <4> SUFFICES ASSUME NEW i \in 1..Len(backlog'), backlog'[i] = h PROVE FALSE
        OBVIOUS
      <4>1. i + 1 \in 1..Len(backlog) /\ backlog[i + 1] = backlog[1] /\ i + 1 # 1
        BY <2>1, <2>2
      <4> QED BY <4>1, <2>1 DEF BacklogFresh
    <3>2. peer'[h] # "idle"
      BY <2>1, <2>3 DEF BacklogFresh
    <3> QED BY <3>1, <3>2 DEF Accepted
  <2>6. Phase(h) = "new" /\ Phase(h)' = "open"
    <3>1. Phase(h) = "new"
      BY <2>4 DEF Phase
    <3>2. Live(h)' /\ Up'
      BY <2>3, ConstantsOK DEF Live, Up, TypeOK
    <3> QED BY <3>1, <3>2, <2>5, OpenPhase
  <2>7. ASSUME NEW c \in Conns \ {h} PROVE Phase(c)' = Phase(c)
    <3>1. Accepted(c)' <=> Accepted(c)
      <4>1. ASSUME NEW i \in 1..Len(backlog), backlog[i] = c
            PROVE  \E j \in 1..Len(backlog') : backlog'[j] = c
        <5>1. i # 1
          BY <4>1, <2>1
        <5>2. i - 1 \in 1..Len(backlog') /\ (i - 1) + 1 = i
          BY <5>1, <2>1
        <5>3. backlog'[i - 1] = backlog[(i - 1) + 1]
          BY <5>2, <2>2
        <5> QED BY <5>2, <5>3, <4>1
      <4>2. ASSUME NEW j \in 1..Len(backlog'), backlog'[j] = c
            PROVE  \E i \in 1..Len(backlog) : backlog[i] = c
        <5>1. j + 1 \in 1..Len(backlog) /\ backlog[j + 1] = c
          BY <4>2, <2>1, <2>2
        <5> QED BY <5>1
      <4> QED BY <4>1, <4>2, <2>3 DEF Accepted
    <3>2. Live(c)' <=> Live(c)
      BY <2>3 DEF Live, TypeOK
    <3> QED BY <3>1, <3>2, <2>3, SamePhase DEF Up
  <2>8. Phases' = [Phases EXCEPT ![h] = "open"] /\ Phases[h] = "new"
    BY <2>1, <2>6, <2>7 DEF Phases
  <2>9. EchoService!Open(h)
    BY <2>1, <2>3, <2>8 DEF EchoService!Open, Phases
  <2> QED BY <2>1, <2>9 DEF EchoService!Next
<1>5. CASE ListenError
  <2>1. \A c \in Conns : Phase(c)' = Phase(c)
    BY <1>5 DEF ListenError, Phase, Accepted, Live, Up, peerVars
  <2> QED BY <2>1, <1>0, <1>5 DEF ListenError, ioVars, peerVars
<1>6. CASE SignalCb
  <2>1. \A c \in Conns : Phase(c)' = Phase(c)
    BY <1>6 DEF SignalCb, Phase, Accepted, Live, Up, peerVars
  <2> QED BY <2>1, <1>0, <1>6 DEF SignalCb, ioVars, peerVars
<1>7. CASE Destroy
  <2>1. UNCHANGED <<input, out, peer, backlog>> /\ Up
    BY <1>7 DEF Destroy, peerVars, Up
  <2>2. \A c \in Conns : Live(c)' => Live(c)
    BY <1>7 DEF Destroy, Live
  <2> QED BY <2>1, <2>2, <1>3
<1>8. ASSUME NEW c \in Conns, CallbackError(c) PROVE Same
  <2>1. \A d \in Conns : Phase(d)' = Phase(d)
    BY <1>8 DEF CallbackError, Phase, Accepted, Live, Up, peerVars
  <2> QED BY <2>1, <1>0, <1>8 DEF CallbackError, peerVars
<1>9. ASSUME NEW c \in Conns, CallbackEof(c) PROVE EchoService!Next
  <2>1. UNCHANGED <<input, out, peer, backlog>> /\ Up
    BY <1>9 DEF CallbackEof, peerVars
  <2>2. \A d \in Conns : Live(d)' => Live(d)
    BY <1>9 DEF CallbackEof, Live, TypeOK
  <2> QED BY <2>1, <2>2, <1>3
<1>11. ASSUME NEW c \in Conns, PeerConnect(c) PROVE Same
  <2>1. /\ UNCHANGED <<proc, at, out, input>> /\ peer[c] = "idle"
        /\ peer' = [peer EXCEPT ![c] = "open"] /\ backlog' = Append(backlog, c)
    BY <1>11 DEF PeerConnect, ioVars
  <2>2. /\ Len(backlog') = Len(backlog) + 1 /\ Len(backlog) \in Nat
        /\ backlog'[Len(backlog) + 1] = c
        /\ \A i \in 1..Len(backlog) : backlog'[i] = backlog[i]
    BY <2>1 DEF TypeOK
  <2>3. ASSUME NEW d \in Conns PROVE Accepted(d)' <=> Accepted(d)
    <3>1. CASE d = c
      <4>1. Len(backlog) + 1 \in 1..Len(backlog')
        BY <2>2
      <4> QED BY <3>1, <4>1, <2>1, <2>2 DEF Accepted
    <3>2. CASE d # c
      <4>1. peer'[d] = peer[d]
        BY <3>2, <2>1 DEF TypeOK
      <4>2. \A i \in 1..Len(backlog') :
              i \in 1..Len(backlog) \/ backlog'[i] = c
        BY <2>2
      <4>3. \A i \in 1..Len(backlog) : i \in 1..Len(backlog')
        BY <2>2
      <4> QED BY <3>2, <4>1, <4>2, <4>3, <2>2 DEF Accepted
    <3> QED BY <3>1, <3>2
  <2>4. \A d \in Conns : Phase(d)' = Phase(d)
    <3>1. \A d \in Conns : (Live(d)' <=> Live(d)) /\ (Up' <=> Up)
      BY <2>1 DEF Live, Up
    <3> QED BY <2>3, <3>1, SamePhase
  <2> QED BY <2>1, <2>4, <1>0
<1>12. ASSUME NEW c \in Conns, PeerSend(c) PROVE EchoService!Next
  <2>1. \A d \in Conns : Phase(d)' = Phase(d)
    BY <1>12 DEF PeerSend, Phase, Accepted, Live, Up
  <2>2. Phase(c) # "closed"
    BY <1>12 DEF PeerSend, ConnectedLive, Phase
  <2>3. EchoService!Feed(c)
    BY <2>1, <2>2, <1>12 DEF PeerSend, EchoService!Feed, ioVars
  <2> QED BY <2>3 DEF EchoService!Next
<1>13. ASSUME NEW c \in Conns, PeerRead(c) PROVE Same
  <2>1. \A d \in Conns : Phase(d)' = Phase(d)
    BY <1>13 DEF PeerRead, Phase, Accepted, Live, Up
  <2> QED BY <2>1, <1>0, <1>13 DEF PeerRead, ioVars
<1>14. ASSUME NEW c \in Conns, PeerShutdown(c) \/ PeerReset(c) PROVE Same
  <2>1. UNCHANGED <<proc, at, backlog, input, out>>
    BY <1>14 DEF PeerShutdown, PeerReset, ioVars
  <2>2. \A d \in Conns : peer'[d] = "idle" <=> peer[d] = "idle"
    BY <1>14 DEF PeerShutdown, PeerReset, TypeOK
  <2>3. \A d \in Conns : Phase(d)' = Phase(d)
    BY <2>1, <2>2 DEF Phase, Accepted, Live, Up
  <2> QED BY <2>1, <2>3, <1>0
<1>15. CASE UNCHANGED vars
  <2>1. \A d \in Conns : Phase(d)' = Phase(d)
    BY <1>15 DEF vars, peerVars, Phase, Accepted, Live, Up
  <2> QED BY <2>1, <1>0, <1>15 DEF vars, ioVars, peerVars
<1>16. ASSUME NEW c \in Conns, CallbackServe(c)
       PROVE  EchoService!Next \/ Same
  <2>1. /\ UNCHANGED <<backlog, at, peer, input>> /\ Up /\ Live(c)
    BY <1>16 DEF CallbackServe
  <2>2. Accepted(c) /\ Phase(c) = "open"
    BY <2>1 DEF BacklogFresh, Phase
  <2>3. CASE UNCHANGED out
    <3>1. CASE Up'
      <4>1. \A d \in Conns : Phase(d)' = Phase(d)
        BY <2>1, <3>1 DEF Phase, Accepted, Live
      <4> QED BY <4>1, <1>0, <2>1, <2>3
    <3>2. CASE ~Up'
      BY <2>1, <2>3, <3>2, <1>3 DEF Live
    <3> QED BY <3>1, <3>2
  <2>4. CASE out' # out
    <3>1. PICK revents \in Reported(c) :
            \E n \in Received(c, revents) :
              LET q == QueueAfterRead(c, n)
                  err == ErrorAfterRead(c, revents, n) IN
              q # << >> /\ WriteSome(c, q, err)
      BY <1>16, <2>4 DEF CallbackServe, WriteNothing, WriteToReset
    <3>2. PICK n \in Received(c, revents) :
            QueueAfterRead(c, n) # << >>
            /\ WriteSome(c, QueueAfterRead(c, n), ErrorAfterRead(c, revents, n))
      BY <3>1
    <3> DEFINE q == QueueAfterRead(c, n)
    <3>3. /\ n \in Nat /\ rcvd[c] + n <= input[c]
          /\ rcvd[c] \in Nat /\ input[c] \in Nat /\ out[c] \in Seq(Nat)
          /\ wlist[c] \in Seq(MBuffers)
          /\ QueueOK(wlist[c], Len(out[c]), rcvd[c])
      <4>1. rcvd[c] \in Nat /\ input[c] \in Nat /\ rcvd[c] <= input[c]
        BY DEF TypeOK, StreamOrder
      <4>2. n \in Nat /\ rcvd[c] + n <= input[c]
        BY <4>1, ConstantsOK DEF Received, Min2
      <4> QED BY <4>1, <4>2, <2>1 DEF TypeOK, QueueHoldsGap
    <3>4. q \in Seq(MBuffers) /\ QueueOK(q, Len(out[c]), rcvd[c] + n)
      <4>1. CASE n = 0
        BY <4>1, <3>3 DEF QueueAfterRead
      <4>2. CASE n # 0
        BY <4>2, <3>3, QueueAppend DEF QueueAfterRead
      <4> QED BY <4>1, <4>2
    <3> HIDE DEF q
    <3>5. q # << >> /\ UNCHANGED proc
          /\ \E k \in 1 .. Min2(NBytes(Head(q)), Room(c)) :
               out' = [out EXCEPT ![c] = @ \o Written(Head(q), k)]
      BY <3>2 DEF WriteSome, q
    <3>6. PICK k \in 1 .. Min2(NBytes(Head(q)), Room(c)) :
               out' = [out EXCEPT ![c] = @ \o Written(Head(q), k)]
      BY <3>5
    <3>7. Head(q) \in MBuffers /\ NBytes(Head(q)) \in Int /\ Room(c) \in Int
      <4>1. Head(q) \in MBuffers
        BY <3>4, <3>5, HeadTailProperties
      <4>2. NBytes(Head(q)) \in Int
        BY <4>1 DEF MBuffers, NBytes
      <4>3. Room(c) \in Int
        BY <3>3, ConstantsOK DEF Room, TypeOK
      <4> QED BY <4>1, <4>2, <4>3
    <3>8. k \in 1..NBytes(Head(q)) /\ k \in Nat
      BY <3>7 DEF Min2
    <3>9. Len(out[c]) + k <= rcvd[c] + n /\ DPos(Head(q)) = Len(out[c])
      <4>1. rcvd[c] + n \in Nat /\ Len(out[c]) \in Nat
        BY <3>3
      <4> QED BY <4>1, <3>4, <3>5, <3>8, QueueWrite
    <3>10. Written(Head(q), k) = EchoService!Bytes(Len(out[c]), k)
      BY <3>9 DEF Written, EchoService!Bytes
    <3>11. k \in 1 .. input[c] - Len(out[c])
      <4>1. Len(out[c]) \in Nat
        BY <3>3
      <4> QED BY <4>1, <3>3, <3>8, <3>9
    <3>12. \A d \in Conns : Phase(d)' = Phase(d)
      BY <2>1, <3>5 DEF Phase, Accepted, Live, Up
    <3>13. out' = [out EXCEPT ![c] = @ \o EchoService!Bytes(Len(@), k)]
      BY <3>6, <3>10
    <3>14. EchoService!Reply(c)
      BY <2>1, <2>2, <3>11, <3>12, <3>13 DEF EchoService!Reply
    <3> QED BY <3>14 DEF EchoService!Next
  <2> QED BY <2>3, <2>4
<1> QED
  BY <1>4, <1>5, <1>6, <1>7, <1>8, <1>9, <1>11, <1>12, <1>13, <1>14, <1>15, <1>16
  DEF Next, ServerNext, PeerNext, Callback

\* Every behaviour of the libev service, seen through the phase of each
\* connection, its input and its output, is a behaviour of module Echo.
THEOREM Refinement == Spec => ImplementsEcho
<1>1. Init => ConnectedLive
  BY DEF Init, ConnectedLive, Accepted
<1> QED
  BY <1>1, Invariance, InitRefines, NextRefines, ConnectedLiveStep, PTL
  DEF Spec, ImplementsEcho, EchoService!Spec

-----------------------------------------------------------------------------
(* Instances.                                                              *)

\* The steps that touch neither an instance nor m_instance.
Quiet ==
  \/ ListenError \/ SignalCb
  \/ \E c \in Conns :
       \/ CallbackError(c) \/ CallbackServe(c)
       \/ PeerConnect(c) \/ PeerSend(c) \/ PeerRead(c) \/ PeerShutdown(c) \/ PeerReset(c)

\* A step accepts, deletes at end of file, destroys the service, or is quiet.
LEMMA StepKinds ==
  ASSUME Next
  PROVE  ListenAccept \/ Destroy \/ Quiet \/ \E c \in Conns : CallbackEof(c)
BY DEF Next, ServerNext, PeerNext, Callback, Quiet

\* A quiet step keeps every instance and m_instance, and happens while the
\* process is up.
LEMMA InstancesKept ==
  ASSUME Quiet
  PROVE  UNCHANGED <<at, m_instance>> /\ Up
BY DEF Quiet, ListenError, SignalCb, CallbackError, CallbackServe, PeerConnect, PeerSend,
       PeerRead, PeerShutdown, PeerReset, Up

\* A quiet step ends the process in no other way than by SIGPIPE.
LEMMA QuietProc ==
  ASSUME Quiet
  PROVE  proc' = proc \/ proc' = "breaking" \/ proc' = "killed"
<1>1. ASSUME NEW c \in Conns, CallbackServe(c)
      PROVE  proc' = proc \/ proc' = "killed"
  <2>1. \E q, err : WriteNothing(c, q, err) \/ WriteToReset(c, q, err) \/ WriteSome(c, q, err)
    BY <1>1, Zenon DEF CallbackServe
  <2>2. PICK q, err : WriteNothing(c, q, err) \/ WriteToReset(c, q, err) \/ WriteSome(c, q, err)
    BY <2>1
  <2> QED BY <2>2, Zenon DEF WriteNothing, WriteToReset, WriteSome
<1>2. CASE ListenError \/ SignalCb
  BY <1>2 DEF ListenError, SignalCb
<1>3. ASSUME NEW c \in Conns, CallbackError(c) PROVE proc' = proc
  BY <1>3 DEF CallbackError
<1>4. ASSUME NEW c \in Conns,
             PeerConnect(c) \/ PeerSend(c) \/ PeerRead(c) \/ PeerShutdown(c) \/ PeerReset(c)
      PROVE  proc' = proc
  BY <1>4 DEF PeerConnect, PeerSend, PeerRead, PeerShutdown, PeerReset
<1> QED BY <1>1, <1>2, <1>3, <1>4, Zenon DEF Quiet

\* read_cb deletes its own instance only, at end of file.
LEMMA EofEffect ==
  ASSUME TypeOK, NEW c \in Conns, CallbackEof(c)
  PROVE  /\ at'[c] = Null
         /\ \A d \in Conns : d # c => at'[d] = at[d]
         /\ Live(c) /\ peer[c] \in {"fin", "rst"} /\ rcvd[c] = input[c]
         /\ UNCHANGED <<m_instance, backlog, peer, rcvd, input>>
         /\ Up /\ proc' \in {proc, "undefined"}
BY DEF CallbackEof, AtEof, TypeOK, peerVars

\* Every step keeps the live instances listed and the end of the process for
\* ~service, which deletes all that are listed.
LEMMA TeardownStep ==
  ASSUME IInv, TeardownReachesAll, [Next]_vars PROVE TeardownReachesAll'
<1>0. TypeOK
  BY DEF IInv
<1>1. CASE ListenAccept
  <2>1. PICK a \in Addrs \ {at[d] : d \in Conns} :
          at' = [at EXCEPT ![Head(backlog)] = a] /\ m_instance' = Append(m_instance, a)
    BY <1>1 DEF ListenAccept, Listed
  <2>2. m_instance \in Seq(Addrs) /\ at \in [Conns -> Addrs \cup {Null}]
    BY <1>0 DEF TypeOK
  <2>3. proc' # "exited"
    BY <1>1 DEF ListenAccept, Up
  <2>4. ASSUME NEW d \in Conns, Live(d)'
        PROVE  \E i \in 1..Len(m_instance') : m_instance'[i] = at'[d]
    <3>1. CASE at'[d] = a
      <4>1. m_instance'[Len(m_instance) + 1] = a
            /\ Len(m_instance') = Len(m_instance) + 1 /\ Len(m_instance) \in Nat
        BY <2>1, <2>2
      <4> QED BY <3>1, <4>1
    <3>2. CASE at'[d] # a
      <4>1. at'[d] = at[d]
        BY <2>1, <2>2, <3>2
      <4>2. PICK i \in 1..Len(m_instance) : m_instance[i] = at[d]
        BY <2>4, <4>1 DEF TeardownReachesAll, Live
      <4>3. i \in 1..Len(m_instance') /\ m_instance'[i] = m_instance[i]
        BY <2>1, <2>2
      <4> QED BY <4>1, <4>2, <4>3
    <3> QED BY <3>1, <3>2
  <2> QED BY <2>3, <2>4 DEF TeardownReachesAll
<1>2. ASSUME NEW c \in Conns, CallbackEof(c) PROVE TeardownReachesAll'
  <2>1. /\ \A d \in Conns : Live(d)' => Live(d) /\ at'[d] = at[d]
        /\ m_instance' = m_instance /\ proc' # "exited"
    BY <1>0, <1>2, EofEffect DEF Live, Up
  <2> QED BY <2>1 DEF TeardownReachesAll
<1>3. CASE Destroy
  <2>1. ASSUME NEW d \in Conns PROVE ~Live(d)'
    <3>1. Live(d) => \E i \in 1..Len(m_instance) : m_instance[i] = at[d]
      BY DEF TeardownReachesAll
    <3>2. at'[d] = IF \E i \in 1..Len(m_instance) : m_instance[i] = at[d] THEN Null ELSE at[d]
      BY <1>3 DEF Destroy
    <3> QED BY <3>1, <3>2 DEF Live
  <2> QED BY <2>1 DEF TeardownReachesAll
<1>4. CASE Quiet
  <2>1. UNCHANGED <<at, m_instance>> /\ proc # "exited"
    BY <1>4, InstancesKept DEF Up
  <2>2. proc' # "exited"
    BY <1>4, <2>1, QuietProc
  <2> QED BY <2>1, <2>2 DEF TeardownReachesAll, Live
<1>5. CASE UNCHANGED vars
  BY <1>5 DEF TeardownReachesAll, Live, vars
<1> QED BY <1>1, <1>2, <1>3, <1>4, <1>5, StepKinds

\* Every live instance is in m_instance, and none is left when the process
\* exits after ~service.
THEOREM TeardownCorrect == Spec => []TeardownReachesAll
<1>1. Init => TeardownReachesAll
  BY DEF Init, TeardownReachesAll, Live
<1> QED BY <1>1, TeardownStep, Invariance, PTL DEF Spec

-----------------------------------------------------------------------------
(* What the watchers wait for.                                             *)

\* The obligation of ArmedIffQueued for one connection.
ArmedOK(c) ==
  Live(c) /\ events[c] # {} =>
    "READ" \in events[c] /\ ("WRITE" \in events[c] <=> wlist[c] # << >>)

\* callback() ends with m_io.set(), except when SIGPIPE ends the process
\* first: then the watcher still waits for the WRITE it was called for.
LEMMA ServeArms ==
  ASSUME TypeOK, NEW c \in Conns, CallbackServe(c), ArmedOK(c)
  PROVE  /\ ArmedOK(c)' /\ UNCHANGED at
         /\ \A d \in Conns : d # c => events'[d] = events[d] /\ wlist'[d] = wlist[d]
<1>1. PICK revents \in Reported(c) : \E q, err :
        \/ WriteNothing(c, q, err)
        \/ "WRITE" \in revents /\ q # << >> /\ (WriteToReset(c, q, err) \/ WriteSome(c, q, err))
  BY Zenon DEF CallbackServe
<1>2. PICK q, err :
        \/ WriteNothing(c, q, err)
        \/ "WRITE" \in revents /\ q # << >> /\ (WriteToReset(c, q, err) \/ WriteSome(c, q, err))
  BY <1>1
<1>3. /\ events \in [Conns -> SUBSET {"READ", "WRITE"}] /\ DOMAIN wlist = Conns
      /\ Live(c) /\ UNCHANGED at
  BY DEF TypeOK, CallbackServe
<1>4. \A r : Interest(r) # {} /\ "READ" \in Interest(r) /\ ("WRITE" \in Interest(r) <=> r # << >>)
  BY DEF Interest
<1>5. ASSUME NEW r, wlist' = [wlist EXCEPT ![c] = r],
             events' = [events EXCEPT ![c] = Interest(r)]
      PROVE  /\ ArmedOK(c)'
             /\ \A d \in Conns : d # c => events'[d] = events[d] /\ wlist'[d] = wlist[d]
  <2>1. events'[c] = Interest(r) /\ wlist'[c] = r
    BY <1>3, <1>5
  <2>2. ArmedOK(c)'
    BY <2>1, <1>4 DEF ArmedOK
  <2> QED BY <2>2, <1>3, <1>5
<1>6. CASE WriteNothing(c, q, err)
  BY <1>3, <1>5, <1>6 DEF WriteNothing
<1>7. CASE WriteSome(c, q, err)
  <2>1. PICK k \in 1 .. Min2(NBytes(Head(q)), Room(c)) :
          /\ wlist' = [wlist EXCEPT ![c] = AfterWrite(q, k)]
          /\ events' = [events EXCEPT ![c] = Interest(AfterWrite(q, k))]
    BY <1>7 DEF WriteSome
  <2> QED BY <2>1, <1>3, <1>5
<1>8. CASE "WRITE" \in revents /\ q # << >> /\ WriteToReset(c, q, err)
  <2>1. CASE err = "ECONNRESET"
    BY <1>3, <1>5, <1>8, <2>1 DEF WriteToReset, WriteNothing
  <2>2. CASE err # "ECONNRESET"
    <3>1. wlist' = [wlist EXCEPT ![c] = q] /\ UNCHANGED events
      BY <1>8, <2>2 DEF WriteToReset
    <3>2. "WRITE" \in events[c]
      BY <1>8 DEF Reported
    <3> QED BY <3>1, <3>2, <1>3, <1>8 DEF ArmedOK, Live
  <2> QED BY <2>1, <2>2
<1> QED BY <1>2, <1>3, <1>6, <1>7, <1>8

\* Every step keeps each watcher armed as the queue requires.
LEMMA ArmedStep ==
  ASSUME IInv, ArmedIffQueued, [Next]_vars PROVE ArmedIffQueued'
<1>0. TypeOK /\ BacklogFresh /\ \A c \in Conns : ArmedOK(c)
  BY DEF IInv, ArmedIffQueued, ArmedOK
<1> SUFFICES ASSUME NEW c \in Conns PROVE ArmedOK(c)'
  BY DEF ArmedIffQueued, ArmedOK
<1>1. CASE ListenAccept
  <2>1. /\ backlog \in Seq(Conns) /\ backlog # << >>
        /\ Head(backlog) = backlog[1] /\ 1 \in 1..Len(backlog)
    BY <1>0, <1>1 DEF TypeOK, ListenAccept
  <2>2. CASE c = Head(backlog)
    <3>1. wlist[c] = << >>
      BY <1>0, <2>1, <2>2 DEF BacklogFresh, Accepted
    <3>2. events'[c] = {"READ"} /\ wlist'[c] = << >>
      BY <1>0, <1>1, <2>2, <3>1 DEF ListenAccept, TypeOK
    <3> QED BY <3>2 DEF ArmedOK
  <2>3. CASE c # Head(backlog)
    <3>1. at'[c] = at[c] /\ events'[c] = events[c] /\ wlist'[c] = wlist[c]
      BY <1>0, <1>1, <2>3 DEF ListenAccept, TypeOK
    <3> QED BY <1>0, <3>1 DEF ArmedOK, Live
  <2> QED BY <2>2, <2>3
<1>2. ASSUME NEW d \in Conns, CallbackEof(d) PROVE ArmedOK(c)'
  <2>1. CASE c = d
    BY <1>0, <1>2, <2>1, EofEffect DEF ArmedOK, Live
  <2>2. CASE c # d
    <3>1. at'[c] = at[c] /\ events'[c] = events[c] /\ wlist'[c] = wlist[c]
      BY <1>0, <1>2, <2>2 DEF CallbackEof, TypeOK
    <3> QED BY <1>0, <3>1 DEF ArmedOK, Live
  <2> QED BY <2>1, <2>2
<1>3. CASE Destroy
  <2>1. Live(c)' => at'[c] = at[c] /\ events'[c] = events[c] /\ wlist'[c] = wlist[c]
    BY <1>3 DEF Destroy, Live
  <2> QED BY <1>0, <2>1 DEF ArmedOK, Live
<1>4. ASSUME NEW d \in Conns, CallbackServe(d) PROVE ArmedOK(c)'
  <2>1. /\ ArmedOK(d)' /\ UNCHANGED at
        /\ c # d => events'[c] = events[c] /\ wlist'[c] = wlist[c]
    BY <1>0, <1>4, ServeArms
  <2> QED BY <1>0, <2>1 DEF ArmedOK, Live
<1>5. ASSUME NEW d \in Conns, CallbackError(d) PROVE ArmedOK(c)'
  <2>1. at' = at /\ wlist' = wlist /\ events'[c] \in {events[c], {}}
    BY <1>0, <1>5 DEF CallbackError, TypeOK
  <2> QED BY <1>0, <2>1 DEF ArmedOK, Live
<1>6. ASSUME \/ ListenError \/ SignalCb
             \/ \E d \in Conns :
                  \/ PeerConnect(d) \/ PeerSend(d) \/ PeerRead(d)
                  \/ PeerShutdown(d) \/ PeerReset(d)
             \/ UNCHANGED vars
      PROVE  ArmedOK(c)'
  <2>1. UNCHANGED <<at, events, wlist>>
    BY <1>6 DEF ListenError, SignalCb, PeerConnect, PeerSend, PeerRead, PeerShutdown,
      PeerReset, vars, ioVars
  <2> QED BY <1>0, <2>1 DEF ArmedOK, Live
<1> QED BY <1>1, <1>2, <1>3, <1>4, <1>5, <1>6 DEF Next, ServerNext, PeerNext, Callback

\* While a watcher runs it waits for READ, and for WRITE exactly while bytes
\* are queued, at every moment of every behaviour.
THEOREM ArmedCorrect == Spec => []ArmedIffQueued
<1>1. Init => ArmedIffQueued
  BY DEF Init, ArmedIffQueued, Live
<1> QED BY <1>1, ArmedStep, Invariance, PTL DEF Spec

-----------------------------------------------------------------------------
(* What brings the process down.                                           *)

\* A connection deleted by its own read_cb.
HungUpGone(c) ==
  Accepted(c) /\ ~Live(c) /\ peer[c] \in {"fin", "rst"} /\ rcvd[c] = input[c]

\* A queue that is not empty holds a byte received and not yet written.
LEMMA QueuedIsOwed ==
  ASSUME NEW q \in Seq(MBuffers), NEW lo \in Nat, NEW hi \in Nat,
         q # << >>, QueueOK(q, lo, hi)
  PROVE  lo < hi
<1>1. 1 \in 1..Len(q) /\ q[1] \in MBuffers
  OBVIOUS
<1>2. DPos(q[1]) = lo /\ NBytes(q[1]) > 0 /\ q[1].from + q[1].len <= hi
  BY <1>1 DEF QueueOK
<1> QED BY <1>1, <1>2 DEF DPos, NBytes, MBuffers

\* The kernel queues a connection once and accept() takes the oldest: an
\* accepted connection stays accepted.
LEMMA AcceptedStays ==
  ASSUME TypeOK, NEW c \in Conns, Accepted(c), Next
  PROVE  Accepted(c)'
<1>1. CASE ListenAccept
  <2>1. backlog \in Seq(Conns) /\ backlog # << >> /\ backlog' = Tail(backlog) /\ peer' = peer
    BY <1>1 DEF ListenAccept, TypeOK, peerVars
  <2>2. \A i \in 1..Len(backlog') : backlog'[i] = backlog[i + 1] /\ i + 1 \in 1..Len(backlog)
    BY <2>1
  <2> QED BY <2>1, <2>2 DEF Accepted
<1>2. ASSUME NEW d \in Conns, PeerConnect(d) PROVE Accepted(c)'
  <2>1. c # d /\ peer'[c] = peer[c] /\ backlog' = Append(backlog, d)
    BY <1>2 DEF PeerConnect, Accepted, TypeOK
  <2>2. \A i \in 1..Len(backlog') :
          backlog'[i] = d \/ (i \in 1..Len(backlog) /\ backlog'[i] = backlog[i])
    BY <2>1 DEF TypeOK
  <2> QED BY <2>1, <2>2 DEF Accepted
<1>3. ASSUME NEW d \in Conns, PeerShutdown(d) \/ PeerReset(d) PROVE Accepted(c)'
  <2>1. backlog' = backlog /\ (peer'[c] = peer[c] \/ peer'[c] \in {"fin", "rst"})
    BY <1>3 DEF PeerShutdown, PeerReset, TypeOK
  <2> QED BY <2>1 DEF Accepted
<1>4. ASSUME \/ ListenError \/ SignalCb \/ Destroy
             \/ \E d \in Conns :
                  \/ Callback(d) \/ CallbackError(d) \/ PeerSend(d) \/ PeerRead(d)
      PROVE  Accepted(c)'
  <2>1. UNCHANGED <<peer, backlog>>
    BY <1>4 DEF ListenError, SignalCb, Destroy, Callback, CallbackServe, CallbackEof,
      CallbackError, PeerSend, PeerRead, peerVars
  <2> QED BY <2>1 DEF Accepted
<1> QED BY <1>1, <1>2, <1>3, <1>4 DEF Next, ServerNext, PeerNext

\* A connection deleted at end of file stays so: its descriptor is not used
\* again and its peer sends nothing more.
LEMMA HungUpStays ==
  ASSUME TypeOK, BacklogFresh, NEW c \in Conns, HungUpGone(c), Next
  PROVE  HungUpGone(c)'
<1>0. Accepted(c)'
  BY AcceptedStays DEF HungUpGone
<1>1. CASE ListenAccept
  <2>1. c # Head(backlog)
    <3>1. backlog # << >> /\ Head(backlog) = backlog[1] /\ 1 \in 1..Len(backlog)
      BY <1>1 DEF ListenAccept, TypeOK
    <3> QED BY <3>1 DEF HungUpGone, Accepted
  <2>2. at'[c] = at[c] /\ UNCHANGED <<peer, rcvd, input>>
    BY <1>1, <2>1 DEF ListenAccept, TypeOK, peerVars
  <2> QED BY <1>0, <2>2 DEF HungUpGone, Live
<1>2. ASSUME NEW d \in Conns, CallbackServe(d) PROVE HungUpGone(c)'
  <2>1. c # d /\ UNCHANGED <<at, peer, input>>
    BY <1>2 DEF CallbackServe, HungUpGone
  <2>2. \E n : rcvd' = [rcvd EXCEPT ![d] = @ + n]
    BY <1>2, Zenon DEF CallbackServe
  <2>3. rcvd'[c] = rcvd[c]
    BY <2>1, <2>2 DEF TypeOK
  <2> QED BY <1>0, <2>1, <2>3 DEF HungUpGone, Live
<1>3. ASSUME NEW d \in Conns, CallbackEof(d) PROVE HungUpGone(c)'
  <2>1. at'[c] \in {at[c], Null} /\ UNCHANGED <<peer, rcvd, input>>
    BY <1>3, EofEffect DEF HungUpGone
  <2> QED BY <1>0, <2>1 DEF HungUpGone, Live
<1>4. CASE Destroy
  <2>1. at'[c] \in {at[c], Null} /\ UNCHANGED <<peer, rcvd, input>>
    BY <1>4 DEF Destroy, peerVars
  <2> QED BY <1>0, <2>1 DEF HungUpGone, Live
<1>5. ASSUME NEW d \in Conns,
             PeerConnect(d) \/ PeerSend(d) \/ PeerShutdown(d) \/ PeerReset(d)
      PROVE  HungUpGone(c)'
  <2>1. /\ UNCHANGED <<at, rcvd>> /\ input'[c] = input[c]
        /\ peer'[c] = peer[c] \/ peer'[c] = "rst"
    BY <1>5 DEF PeerConnect, PeerSend, PeerShutdown, PeerReset, ioVars, HungUpGone, TypeOK,
      Accepted
  <2> QED BY <1>0, <2>1 DEF HungUpGone, Live
<1>6. ASSUME \/ ListenError \/ SignalCb
             \/ \E d \in Conns : CallbackError(d) \/ PeerRead(d)
      PROVE  HungUpGone(c)'
  <2>1. UNCHANGED <<at, peer, rcvd, input>>
    BY <1>6 DEF ListenError, SignalCb, CallbackError, PeerRead, ioVars, peerVars
  <2> QED BY <1>0, <2>1 DEF HungUpGone, Live
<1> QED BY <1>1, <1>2, <1>3, <1>4, <1>5, <1>6 DEF Next, ServerNext, PeerNext, Callback

\* SIGPIPE is raised only when something is queued for a connection its peer
\* has reset.
LEMMA KilledByReset ==
  ASSUME IInv, Next, proc' = "killed"
  PROVE  \E c \in Conns : Live(c)' /\ peer'[c] = "rst" /\ Len(out'[c]) < rcvd'[c]
<1>1. PICK c \in Conns : CallbackServe(c)
  <2>1. ASSUME Destroy \/ ListenAccept \/ ListenError \/ SignalCb
        PROVE  proc' # "killed"
    BY <2>1 DEF Destroy, ListenAccept, ListenError, SignalCb, Up
  <2>2. ASSUME NEW c \in Conns, CallbackEof(c) \/ CallbackError(c)
        PROVE  proc' # "killed"
    BY <2>2 DEF CallbackEof, CallbackError, Up
  <2>3. ASSUME PeerNext PROVE proc' # "killed"
    BY <2>3 DEF PeerNext, PeerConnect, PeerSend, PeerRead, PeerShutdown, PeerReset, Up
  <2> QED BY <2>1, <2>2, <2>3 DEF Next, ServerNext, Callback
<1>2. PICK q, err : /\ q # << >> /\ peer[c] = "rst"
                    /\ wlist' = [wlist EXCEPT ![c] = q] /\ UNCHANGED out
  <2>1. PICK q, err : \/ WriteNothing(c, q, err)
                      \/ q # << >> /\ (WriteToReset(c, q, err) \/ WriteSome(c, q, err))
    BY <1>1, Zenon DEF CallbackServe
  <2>2. Up
    BY <1>1 DEF CallbackServe
  <2>3. ~WriteNothing(c, q, err) /\ ~WriteNothing(c, q, "none") /\ ~WriteSome(c, q, err)
    BY <2>2 DEF Up, WriteNothing, WriteSome
  <2> QED BY <2>1, <2>3 DEF WriteToReset
<1>3. IInv'
  BY <1>1, CallbackServeIInv
<1>4. Live(c)' /\ peer'[c] = "rst"
  BY <1>1, <1>2 DEF CallbackServe, Live
<1>5. wlist'[c] = q
  BY <1>2 DEF IInv, TypeOK
<1>6. /\ q \in Seq(MBuffers) /\ Len(out'[c]) \in Nat /\ rcvd'[c] \in Nat
      /\ QueueOK(q, Len(out'[c]), rcvd'[c])
  <2>1. TypeOK' /\ QueueHoldsGap'
    BY <1>3 DEF IInv
  <2> QED BY <2>1, <1>4, <1>5 DEF TypeOK, QueueHoldsGap, QueueOK
<1> QED BY <1>2, <1>4, <1>6, QueuedIsOwed

\* accept() pushes an address no instance has, so it makes no entry of
\* m_instance dangle and repeats none that is good.
LEMMA AcceptKeepsGood ==
  ASSUME TypeOK, BacklogFresh, ListenAccept, ~DeletesTwice PROVE ~DeletesTwice'
<1>1. /\ backlog # << >> /\ Head(backlog) \in Conns
      /\ Head(backlog) = backlog[1] /\ 1 \in 1..Len(backlog)
  BY DEF ListenAccept, TypeOK
<1> PICK h \in Conns : h = Head(backlog)
  BY <1>1
<1>2. PICK a \in Addrs \ {at[c] : c \in Conns} :
        at' = [at EXCEPT ![h] = a] /\ m_instance' = Append(m_instance, a)
  BY DEF ListenAccept, Listed
<1>3. ~Live(h)
  BY <1>1 DEF BacklogFresh, Accepted
<1>4. /\ Len(m_instance) \in Nat /\ Len(m_instance') = Len(m_instance) + 1
      /\ m_instance'[Len(m_instance) + 1] = a
      /\ \A i \in 1..Len(m_instance) : m_instance'[i] = m_instance[i]
  BY <1>2 DEF TypeOK
<1>5. ASSUME NEW i \in 1..Len(m_instance)
      PROVE  \E c \in Conns : at[c] = m_instance[i] /\ at'[c] = m_instance'[i]
  <2>1. PICK c \in Conns : at[c] = m_instance[i]
    BY DEF DeletesTwice
  <2>2. m_instance[i] # Null
    <3>1. m_instance \in Seq(Addrs)
      BY DEF TypeOK
    <3> QED BY <3>1, ConstantsOK
  <2>3. c # h
    BY <1>3, <2>1, <2>2 DEF Live
  <2> QED BY <1>2, <1>4, <2>1, <2>3 DEF TypeOK
<1>6. ASSUME NEW i \in 1..Len(m_instance') PROVE \E c \in Conns : at'[c] = m_instance'[i]
  <2>1. CASE i \in 1..Len(m_instance)
    BY <1>5, <2>1
  <2>2. CASE i = Len(m_instance) + 1
    <3>1. at'[h] = m_instance'[i]
      BY <1>2, <1>4, <2>2 DEF TypeOK
    <3> QED BY <3>1
  <2> QED BY <1>4, <2>1, <2>2
<1>7. ASSUME NEW i \in 1..Len(m_instance'), NEW j \in 1..i-1
      PROVE  m_instance'[j] # m_instance'[i]
  <2>1. j \in 1..Len(m_instance)
    BY <1>4
  <2>2. CASE i \in 1..Len(m_instance)
    BY <1>4, <2>1, <2>2 DEF DeletesTwice
  <2>3. CASE i = Len(m_instance) + 1
    <3>1. m_instance'[j] \in {at[c] : c \in Conns}
      BY <1>4, <1>5, <2>1
    <3> QED BY <1>4, <2>3, <3>1
  <2> QED BY <1>4, <2>2, <2>3
<1> QED BY <1>6, <1>7 DEF DeletesTwice

\* Every step that leaves the process undefined, or an address in m_instance
\* that must not be deleted, follows a hang-up; and SIGPIPE a reset.
LEMMA DownStep ==
  ASSUME IInv, DownNeedsHangUp, [Next]_vars PROVE DownNeedsHangUp'
<1>0. TypeOK /\ BacklogFresh
  BY DEF IInv
<1>1. CASE UNCHANGED vars
  <2>1. UNCHANGED <<proc, backlog, m_instance, at, peer, rcvd, input, out>>
    BY <1>1 DEF vars, ioVars, peerVars
  <2>2. DeletesTwice' <=> DeletesTwice
    BY <2>1 DEF DeletesTwice
  <2>3. SomeHungUp' <=> SomeHungUp
    BY <2>1 DEF SomeHungUp, Accepted, Live
  <2> QED BY <2>1, <2>2, <2>3 DEF DownNeedsHangUp, Live
<1>2. CASE Next
  <2>1. proc' = "killed" =>
          \E c \in Conns : Live(c)' /\ peer'[c] = "rst" /\ Len(out'[c]) < rcvd'[c]
    BY <1>2, KilledByReset
  <2>2. SomeHungUp => SomeHungUp'
    <3> SUFFICES ASSUME NEW c \in Conns, HungUpGone(c) PROVE SomeHungUp'
      BY DEF SomeHungUp, HungUpGone
    <3>1. HungUpGone(c)'
      BY <1>0, <1>2, HungUpStays
    <3> QED BY <3>1 DEF SomeHungUp, HungUpGone
  <2>3. Up /\ proc # "undefined"
    BY <1>2 DEF Next, ServerNext, PeerNext, ListenAccept, ListenError, SignalCb, Destroy, Callback,
      CallbackServe, CallbackEof, CallbackError, PeerConnect, PeerSend, PeerRead, PeerShutdown,
      PeerReset, Up
  <2>4. ASSUME proc' = "undefined" \/ DeletesTwice' PROVE SomeHungUp'
    <3>1. CASE ListenAccept
      <4>1. proc' # "undefined"
        BY <2>3, <3>1 DEF ListenAccept
      <4>2. DeletesTwice
        BY <1>0, <2>4, <3>1, <4>1, AcceptKeepsGood
      <4> QED BY <2>2, <4>2 DEF DownNeedsHangUp
    <3>2. ASSUME NEW c \in Conns, CallbackEof(c) PROVE SomeHungUp'
      <4>1. Accepted(c)
        BY <1>0, <3>2, EofEffect DEF BacklogFresh
      <4>2. Accepted(c)'
        BY <1>0, <1>2, <4>1, AcceptedStays
      <4> QED BY <1>0, <3>2, <4>2, EofEffect DEF SomeHungUp, Live
    <3>3. CASE Destroy
      <4>1. ~DeletesTwice'
        BY <3>3 DEF Destroy, DeletesTwice
      <4>2. DeletesTwice
        BY <2>4, <3>3, <4>1 DEF Destroy
      <4> QED BY <2>2, <4>2 DEF DownNeedsHangUp
    <3>4. CASE Quiet
      <4>1. proc' # "undefined"
        BY <2>3, <3>4, QuietProc
      <4>2. DeletesTwice
        BY <2>4, <3>4, <4>1, InstancesKept DEF DeletesTwice
      <4> QED BY <2>2, <4>2 DEF DownNeedsHangUp
    <3> QED BY <1>2, <3>1, <3>2, <3>3, <3>4, StepKinds
  <2> QED BY <2>1, <2>4 DEF DownNeedsHangUp
<1> QED BY <1>1, <1>2

\* As long as every peer stays connected nothing brings the server down, and
\* m_instance holds exactly good pointers.
THEOREM DownCorrect == Spec => []DownNeedsHangUp
<1>1. Init => DownNeedsHangUp
  BY DEF Init, DownNeedsHangUp, DeletesTwice
<1> QED BY <1>1, DownStep, Invariance, PTL DEF Spec

-----------------------------------------------------------------------------
(* The load client alone.                                                  *)

\* The batch names each connection at most once, none of them given up, and not
\* the one write_bytes is at work on.
BatchOK ==
  /\ cbatch \subseteq Conns \X {"IN", "OUT"}
  /\ \A e \in cbatch : Connected(e[1]) /\ e[1] # writing
  /\ \A e, f \in cbatch : e[1] = f[1] => e = f

ClientInv ==
  /\ arm \in [Conns -> Armed \cup {"untried", "failed", "closed"}]
  /\ writing \in Conns \cup {"none"}
  /\ writing # "none" => Connected(writing)
  /\ BatchOK

\* Before the first connection there is no batch.
LEMMA ClientInitInv == ClientInit => ClientInv
  BY DEF ClientInit, ClientInv, BatchOK, Connected, Armed

\* What the client is not part of leaves it alone.
LEMMA OthersInv == ASSUME ClientInv, UNCHANGED clientVars PROVE ClientInv'
  BY DEF clientVars, ClientInv, BatchOK, Connected

\* start_conn is over before the first batch of a connection.
LEMMA StartConnInv == ASSUME ClientInv, NEW c \in Conns, StartConn(c) PROVE ClientInv'
<1>1. /\ arm[c] = "untried"
      /\ \E a \in {"both", "failed"} : arm' = [arm EXCEPT ![c] = a]
      /\ UNCHANGED <<cbatch, writing>>
  BY DEF StartConn
<1>2. \A d \in Conns : Connected(d) => Connected(d)'
  BY <1>1 DEF ClientInv, Connected, Armed
<1>3. BatchOK'
  BY <1>1, <1>2 DEF ClientInv, BatchOK
<1>4. writing' # "none" => Connected(writing)'
  BY <1>1, <1>2 DEF ClientInv
<1>. QED  BY <1>1, <1>3, <1>4 DEF ClientInv, Armed

\* epoll_wait reports one event of a connection it is asked about.
LEMMA ClientWaitInv == ASSUME ClientInv, ClientWait PROVE ClientInv'
<1>1. PICK S \in SUBSET Conns :
        cbatch' = {<<c, e>> : c \in S, e \in {"IN", "OUT"}} \cap UNION {{c} \X EventsOf(c) : c \in S}
  BY DEF ClientWait
<1>2. UNCHANGED <<arm, writing>> /\ writing = "none"
  BY DEF ClientWait, Idle
<1>3. ASSUME NEW e \in cbatch'
      PROVE  /\ e \in Conns \X {"IN", "OUT"} /\ e[2] \in EventsOf(e[1])
             /\ e = <<e[1], e[2]>> /\ Connected(e[1])'
  <2>1. PICK c \in S, w \in {"IN", "OUT"} : e = <<c, w>>
    BY <1>1, <1>3
  <2>2. PICK d \in S : e \in {d} \X EventsOf(d)
    BY <1>1, <1>3
  <2>3. d = c /\ w \in EventsOf(c)
    BY <2>1, <2>2
  <2>4. CanRead(c) \/ CanWrite(c)
    BY <2>3 DEF EventsOf
  <2>5. arm[c] \in Armed
    BY <2>4 DEF CanRead, CanWrite, Armed
  <2>. QED  BY <1>2, <2>1, <2>3, <2>5 DEF Connected
<1>4. ASSUME NEW e \in cbatch', NEW f \in cbatch', e[1] = f[1]
      PROVE  e = f
  <2>1. e[2] \in EventsOf(e[1]) /\ f[2] \in EventsOf(e[1])
    BY <1>3, <1>4
  <2>2. e[2] = f[2]
    BY <2>1 DEF EventsOf
  <2>. QED  BY <1>3, <1>4, <2>2
<1>5. BatchOK'
  <2>1. \A e \in cbatch' : e[1] # writing'
    BY <1>2, <1>3, ClientConstantsOK
  <2>. QED  BY <1>3, <1>4, <2>1 DEF BatchOK
<1>. QED  BY <1>2, <1>5 DEF ClientInv

\* After an event of c is taken from the batch, c may be given up.
LEMMA TakenEvent ==
  ASSUME ClientInv, NEW c \in Conns, NEW w \in {"IN", "OUT"}, <<c, w>> \in cbatch, Idle,
         cbatch' = cbatch \ {<<c, w>>},
         \/ \E a \in Armed \cup {"closed"} : arm' = [arm EXCEPT ![c] = a] /\ writing' = "none"
         \/ arm' = arm /\ writing' = c
  PROVE  ClientInv'
<1>1. \A e \in cbatch' : e \in cbatch /\ e[1] # c /\ e[1] \in Conns
  BY DEF ClientInv, BatchOK
<1>2. \A e \in cbatch' : Connected(e[1])'
  BY <1>1 DEF ClientInv, BatchOK, Connected
<1>3. \A e \in cbatch' : e[1] # writing'
  BY <1>1, ClientConstantsOK
<1>4. BatchOK'
  BY <1>1, <1>2, <1>3 DEF ClientInv, BatchOK
<1>5. Connected(c)
  BY DEF ClientInv, BatchOK
<1>6. writing' # "none" => Connected(writing)'
  BY <1>5 DEF Connected
<1>7. arm' \in [Conns -> Armed \cup {"untried", "failed", "closed"}] /\ writing' \in Conns \cup {"none"}
  BY DEF ClientInv
<1>. QED  BY <1>4, <1>6, <1>7 DEF ClientInv

\* write_bytes may give up the connection it is at work on, or go on.
LEMMA WriteStep ==
  ASSUME ClientInv, NEW c \in Conns, writing = c, cbatch' = cbatch,
         \/ \E a \in Armed \cup {"closed"} : arm' = [arm EXCEPT ![c] = a] /\ writing' = "none"
         \/ arm' = arm /\ writing' = c
  PROVE  ClientInv'
<1>1. \A e \in cbatch : e[1] # c /\ e[1] \in Conns
  BY DEF ClientInv, BatchOK
<1>2. \A e \in cbatch : Connected(e[1])' /\ e[1] # writing'
  BY <1>1, ClientConstantsOK DEF ClientInv, BatchOK, Connected
<1>3. BatchOK'
  BY <1>2 DEF ClientInv, BatchOK
<1>4. writing' # "none" => Connected(writing)'
  BY DEF ClientInv, Connected
<1>5. arm' \in [Conns -> Armed \cup {"untried", "failed", "closed"}] /\ writing' \in Conns \cup {"none"}
  BY DEF ClientInv
<1>. QED  BY <1>3, <1>4, <1>5 DEF ClientInv

\* The body of the loop.
LEMMA HandleInv == ASSUME ClientInv, NEW c \in Conns, Handle(c) PROVE ClientInv'
<1>1. CASE ReadOnce(c)
  <2>1. \E a \in Armed \cup {"closed"} : arm' = [arm EXCEPT ![c] = a] /\ writing' = "none"
    BY <1>1 DEF ReadOnce, CloseConn, ArmAfterRead, Idle, Armed
  <2>. QED  BY <1>1, <2>1, TakenEvent DEF ReadOnce
<1>2. CASE WriteBytes(c)
  BY <1>2, TakenEvent DEF WriteBytes
<1>3. CASE SendSome(c)
  <2>1. PICK k \in Int : Advance(c, k)
    BY <1>3 DEF SendSome
  <2>2. writing = c
    BY <1>3 DEF SendSome
  <2>. QED  BY <2>1, <2>2, WriteStep DEF Advance, Armed
<1>4. CASE SendToGone(c)
  <2>1. PICK k \in Int : Advance(c, k)
    BY <1>4 DEF SendToGone
  <2>2. writing = c
    BY <1>4 DEF SendToGone
  <2>. QED  BY <2>1, <2>2, WriteStep DEF Advance, Armed
<1>5. CASE SendFails(c)
  BY <1>5, WriteStep DEF SendFails, CloseConn
<1>6. CASE SigPipe(c)
  BY <1>6, WriteStep DEF SigPipe
<1>. QED  BY <1>1, <1>2, <1>3, <1>4, <1>5, <1>6 DEF Handle

\* Every step, of the client, the service or the kernels, keeps the invariant.
LEMMA ClientNextInv == ClientInv /\ [System \/ ClientNext]_allVars => ClientInv'
<1> SUFFICES ASSUME ClientInv, [System \/ ClientNext]_allVars PROVE ClientInv'
  OBVIOUS
<1>1. CASE System
  BY <1>1, OthersInv DEF System
<1>2. CASE ClientLoop
  BY <1>2, ClientWaitInv, StartConnInv, HandleInv DEF ClientLoop
<1>3. ASSUME NEW c \in Conns, LateEcho(c) \/ ServerGone(c) PROVE ClientInv'
  BY <1>3 DEF LateEcho, ServerGone, clientVars, ClientInv, BatchOK, Connected
<1>4. CASE UNCHANGED allVars
  BY <1>4, OthersInv DEF allVars
<1>. QED  BY <1>1, <1>2, <1>3, <1>4 DEF ClientNext

\* The invariant holds in every reachable state.
THEOREM ClientInvariance == LoadSpec => []ClientInv
  BY ClientInitInv, ClientNextInv, PTL DEF LoadSpec

\* However many connections the client has, none that close_conn closed is read,
\* written or reported again.
THEOREM CloseCorrect == LoadSpec => []NoUseAfterClose
<1>1. ClientInv => NoUseAfterClose
  BY DEF ClientInv, BatchOK, NoUseAfterClose
<1>. QED  BY <1>1, ClientInvariance, PTL

-----------------------------------------------------------------------------
(* The service, with this client as its peers.                             *)

\* What the client does to the service in other strides than a peer of module
\* Service: several bytes are sent or taken at once.
Stride ==
  /\ UNCHANGED <<proc, m_listen, backlog, m_instance, at, ioVars, peer, sockerr>>
  /\ \E c \in Conns, k \in Nat :
       \/ /\ writing = c /\ link[c] = "up"
          /\ input' = [input EXCEPT ![c] = @ + k] /\ UNCHANGED taken
       \/ taken' = [taken EXCEPT ![c] = @ + k] /\ UNCHANGED input

\* close_conn is a hang-up, or nothing when the service is gone.
LEMMA CloseIsHangUp ==
  ASSUME NEW c \in Conns, CloseConn(c)
  PROVE  [Next]_vars
BY DEF CloseConn, Next, PeerNext

\* For the service every step is one of its own, one of a peer, or a stride.
LEMMA ServiceSteps ==
  ASSUME TypeOK, left \in Int, [System \/ ClientNext]_allVars
  PROVE  [Next]_vars \/ Stride
<1>0. /\ Chunk \in Nat /\ PathBuf \in Nat
      /\ \A c \in Conns : Len(out[c]) \in Nat /\ taken[c] \in Nat /\ input[c] \in Nat /\ rcvd[c] \in Nat
  BY ClientConstantsOK DEF TypeOK
<1>1. CASE System
  BY <1>1 DEF System, Next
<1>2. CASE ClientWait
  BY <1>2 DEF ClientWait
<1>3. ASSUME NEW c \in Conns, StartConn(c) PROVE [Next]_vars
  BY <1>3 DEF StartConn, Next, PeerNext
<1>4. ASSUME NEW c \in Conns, ReadOnce(c) PROVE [Next]_vars \/ Stride
  <2>1. CASE CloseConn(c)
    BY <2>1, CloseIsHangUp
  <2>2. CASE ~CloseConn(c)
    <3>1. PICK n \in 1 .. Min2(Chunk, Unread(c)) :
            /\ taken' = [taken EXCEPT ![c] = @ + n]
            /\ UNCHANGED <<proc, m_listen, backlog, m_instance, at, ioVars, peer, sockerr, input>>
      BY <1>4, <2>2 DEF ReadOnce
    <3>2. n \in Nat
      BY <1>0 DEF Min2, Unread
    <3>. QED  BY <3>1, <3>2 DEF Stride
  <2>. QED  BY <2>1, <2>2
<1>5. ASSUME NEW c \in Conns, WriteBytes(c) \/ SendToGone(c) \/ SigPipe(c) PROVE [Next]_vars
  BY <1>5 DEF WriteBytes, SendToGone, SigPipe
<1>6. ASSUME NEW c \in Conns, SendSome(c) PROVE Stride
  <2>1. PICK k \in 1 .. Min2(left, PathRoom(c)) : input' = [input EXCEPT ![c] = @ + k]
    BY <1>6 DEF SendSome
  <2>2. k \in Nat
    BY <1>0 DEF Min2, PathRoom
  <2>. QED  BY <1>6, <2>1, <2>2 DEF SendSome, Stride
<1>7. ASSUME NEW c \in Conns, SendFails(c) PROVE [Next]_vars
  BY <1>7, CloseIsHangUp DEF SendFails
<1>8. ASSUME NEW c \in Conns, LateEcho(c) \/ ServerGone(c) PROVE [Next]_vars
  BY <1>8 DEF LateEcho, ServerGone, Next, PeerNext
<1>9. CASE UNCHANGED allVars
  BY <1>9 DEF allVars
<1>. QED
  BY <1>1, <1>2, <1>3, <1>4, <1>5, <1>6, <1>7, <1>8, <1>9 DEF ClientNext, ClientLoop, Handle

\* The service acts only while it is up, and leaves the peers alone.
LEMMA ServerEffect ==
  ASSUME ServerNext
  PROVE  Up /\ UNCHANGED <<peer, input, taken>>
BY DEF ServerNext, ListenAccept, ListenError, SignalCb, Destroy, Callback, CallbackServe,
       CallbackEof, CallbackError, Up, peerVars

\* A process that has ended does not come back.
LEMMA DownStays ==
  ASSUME TypeOK, left \in Int, [System \/ ClientNext]_allVars, ~Up
  PROVE  ~Up' /\ UNCHANGED proc
<1>1. ASSUME Next PROVE Up
  BY <1>1, ServerEffect DEF Next, PeerNext, PeerConnect, PeerSend, PeerRead, PeerShutdown, PeerReset
<1>2. UNCHANGED proc
  BY <1>1, ServiceSteps DEF Stride, vars
<1>. QED  BY <1>2 DEF Up

\* How the two ends of a connection agree: the client's end is open while it is
\* armed, and the server sees a hang-up only of those close_conn closed; the
\* client learns of the end of the server only when there is one.
EndsAgree ==
  /\ left \in Int
  /\ link \in [Conns -> {"up", "fin", "rst", "epipe"}]
  /\ \A c \in Conns : Connected(c) => peer[c] = "open"
  /\ \A c \in Conns : peer[c] \in {"fin", "rst"} => arm[c] = "closed"
  /\ \A c \in Conns : link[c] # "up" => ~Up
  /\ client = "killed" => ~Up

\* An EPOLLIN of the batch is still true when the loop gets to it.
ReadDue ==
  \A c \in Conns : <<c, "IN">> \in cbatch => Unread(c) > 0 \/ link[c] # "up"

\* What is shown above of the service alone.
LifeInv ==
  IInv /\ TeardownReachesAll /\ DownNeedsHangUp /\ ConnectedLive /\ ArmedIffQueued

LoadInv == ClientInv /\ LifeInv /\ EndsAgree /\ ReadDue

\* A stride is no matter to instances and m_instance, and leaves the
\* connections alone whose peer hung up.
LEMMA StrideLife ==
  ASSUME ClientInv, LifeInv, EndsAgree, Stride
  PROVE  LifeInv'
<1>0. TypeOK /\ UNCHANGED <<proc, m_listen, backlog, m_instance, at, ioVars, peer, sockerr>>
  BY DEF LifeInv, IInv, Stride
<1>1. PICK c \in Conns, k \in Nat :
        \/ /\ writing = c /\ input' = [input EXCEPT ![c] = @ + k] /\ UNCHANGED taken
        \/ taken' = [taken EXCEPT ![c] = @ + k] /\ UNCHANGED input
  BY DEF Stride
<1>2. /\ input' \in [Conns -> Nat] /\ taken' \in [Conns -> Nat]
      /\ \A d \in Conns : input'[d] >= input[d]
  <2>1. /\ input \in [Conns -> Nat] /\ taken \in [Conns -> Nat]
        /\ \A d \in Conns : input[d] \in Nat /\ taken[d] \in Nat
    BY <1>0 DEF TypeOK
  <2>2. CASE input' = [input EXCEPT ![c] = @ + k] /\ UNCHANGED taken
    BY <2>1, <2>2
  <2>3. CASE taken' = [taken EXCEPT ![c] = @ + k] /\ UNCHANGED input
    BY <2>1, <2>3
  <2>. QED  BY <1>1, <2>2, <2>3
<1>3. TypeOK'
  BY <1>0, <1>2 DEF TypeOK, Live, ioVars
<1>4. IInv'
  BY <1>0, <1>2, <1>3, QuietIInv DEF LifeInv, ioVars
<1>5. TeardownReachesAll'
  BY <1>0 DEF LifeInv, TeardownReachesAll, Live
<1>6. SomeHungUp => SomeHungUp'
  <2> SUFFICES ASSUME NEW d \in Conns, HungUpGone(d) PROVE SomeHungUp'
    BY DEF SomeHungUp, HungUpGone
  <2>1. arm[d] = "closed"
    BY DEF HungUpGone, EndsAgree
  <2>2. writing # d
    BY <2>1, ClientConstantsOK DEF ClientInv, Connected, Armed
  <2>3. input'[d] = input[d]
    BY <1>0, <1>1, <2>2 DEF TypeOK
  <2>. QED  BY <1>0, <2>3 DEF HungUpGone, SomeHungUp, Accepted, Live, ioVars
<1>7. DownNeedsHangUp'
  <2>1. DeletesTwice' <=> DeletesTwice
    BY <1>0 DEF DeletesTwice
  <2>. QED  BY <1>0, <1>6, <2>1 DEF LifeInv, DownNeedsHangUp, Live, ioVars
<1>8. ConnectedLive'
  BY <1>0 DEF LifeInv, ConnectedLive, Accepted, Live, Up
<1>9. ArmedIffQueued'
  BY <1>0 DEF LifeInv, ArmedIffQueued, Live, ioVars
<1>. QED  BY <1>4, <1>5, <1>7, <1>8, <1>9 DEF LifeInv

\* Every step keeps what is known of the service.
LEMMA LifeStep ==
  ASSUME LoadInv, [System \/ ClientNext]_allVars
  PROVE  LifeInv'
<1>1. CASE [Next]_vars
  BY <1>1, NextIInv, TeardownStep, DownStep, ConnectedLiveStep, ArmedStep DEF LoadInv, LifeInv
<1>2. CASE Stride
  BY <1>2, StrideLife DEF LoadInv
<1>. QED  BY <1>1, <1>2, ServiceSteps DEF LoadInv, LifeInv, IInv, EndsAgree

\* close_conn closes both ends.
LEMMA CloseEnds ==
  ASSUME TypeOK, ClientInv, EndsAgree, NEW c \in Conns, CloseConn(c),
         UNCHANGED <<client, link>>, left' \in Int
  PROVE  EndsAgree'
<1>1. /\ arm' = [arm EXCEPT ![c] = "closed"] /\ UNCHANGED proc
      /\ \A d \in Conns \ {c} : peer'[d] = peer[d]
  BY DEF CloseConn, PeerShutdown, PeerReset, vars, peerVars, TypeOK
<1>2. /\ arm'[c] = "closed" /\ \A d \in Conns \ {c} : arm'[d] = arm[d]
  BY <1>1 DEF ClientInv
<1>. QED  BY <1>1, <1>2 DEF EndsAgree, Connected, Armed, Up

\* A step that neither opens nor closes an end.
LEMMA SameEnds ==
  ASSUME EndsAgree, UNCHANGED <<proc, peer, client, link>>, left' \in Int,
         \A c \in Conns : Connected(c)' => Connected(c),
         \A c \in Conns : arm[c] = "closed" => arm'[c] = "closed"
  PROVE  EndsAgree'
BY DEF EndsAgree, Up

\* A part of the buffer is sent.
LEMMA AdvanceEnds ==
  ASSUME ClientInv, NEW c \in Conns, writing = c, left \in Int, NEW k \in Int, Advance(c, k)
  PROVE  /\ left' \in Int /\ UNCHANGED client
         /\ \A d \in Conns : Connected(d)' => Connected(d)
         /\ \A d \in Conns : arm[d] = "closed" => arm'[d] = "closed"
<1>1. Connected(c)
  BY ClientConstantsOK DEF ClientInv
<1>2. arm' = arm \/ arm' = [arm EXCEPT ![c] = "in"]
  BY DEF Advance
<1>3. \A d \in Conns \ {c} : arm'[d] = arm[d]
  BY <1>2 DEF ClientInv
<1>4. left' \in Int /\ UNCHANGED client
  BY DEF Advance
<1>. QED  BY <1>1, <1>3, <1>4 DEF Connected, Armed

\* Every step keeps the two ends in agreement.
LEMMA EndsStep ==
  ASSUME LoadInv, [System \/ ClientNext]_allVars
  PROVE  EndsAgree'
<1>0. /\ TypeOK /\ ClientInv /\ EndsAgree
      /\ arm \in [Conns -> Armed \cup {"untried", "failed", "closed"}]
  BY DEF LoadInv, LifeInv, IInv, ClientInv
<1>1. CASE System
  <2>1. Up /\ UNCHANGED <<peer, clientVars>>
    BY <1>1, ServerEffect DEF System
  <2>. QED  BY <1>0, <2>1 DEF EndsAgree, Connected, clientVars
<1>2. CASE ClientWait \/ UNCHANGED allVars
  BY <1>0, <1>2, SameEnds DEF ClientWait, EndsAgree, Connected, allVars, vars, peerVars, clientVars
<1>3. ASSUME NEW c \in Conns, StartConn(c) PROVE EndsAgree'
  <2>1. arm[c] = "untried" /\ UNCHANGED <<client, link, left>>
    BY <1>3 DEF StartConn
  <2>2. CASE PeerConnect(c) /\ arm' = [arm EXCEPT ![c] = "both"]
    <3>1. peer'[c] = "open" /\ UNCHANGED proc /\ \A d \in Conns \ {c} : peer'[d] = peer[d] /\ arm'[d] = arm[d]
      BY <1>0, <2>2 DEF PeerConnect, TypeOK
    <3>. QED  BY <1>0, <2>1, <3>1 DEF EndsAgree, Connected, Up
  <2>3. CASE arm' = [arm EXCEPT ![c] = "failed"] /\ UNCHANGED vars
    BY <1>0, <2>1, <2>3, SameEnds DEF EndsAgree, Connected, Armed, vars, peerVars
  <2>. QED  BY <1>3, <2>2, <2>3 DEF StartConn
<1>4. ASSUME NEW c \in Conns, ReadOnce(c) PROVE EndsAgree'
  <2>1. UNCHANGED <<client, link, left>> /\ Connected(c) /\ left' \in Int
    BY <1>0, <1>4 DEF ReadOnce, ClientInv, BatchOK, EndsAgree
  <2>2. CASE CloseConn(c)
    BY <1>0, <2>1, <2>2, CloseEnds
  <2>3. CASE ~CloseConn(c)
    <3>1. UNCHANGED <<proc, peer>> /\ arm' = [arm EXCEPT ![c] = "out"]
      BY <1>4, <2>3 DEF ReadOnce, ArmAfterRead
    <3>. QED  BY <1>0, <2>1, <3>1, SameEnds DEF Connected, Armed
  <2>. QED  BY <2>2, <2>3
<1>5. ASSUME NEW c \in Conns, WriteBytes(c) PROVE EndsAgree'
  <2>1. UNCHANGED <<vars, client, arm, link>> /\ left' \in Int
    BY <1>5, ClientConstantsOK DEF WriteBytes
  <2>. QED  BY <1>0, <2>1, SameEnds DEF Connected, vars, peerVars
<1>6. ASSUME NEW c \in Conns, SendSome(c) PROVE EndsAgree'
  <2>1. PICK k \in Int : Advance(c, k)
    BY <1>6 DEF SendSome
  <2>2. writing = c /\ UNCHANGED <<proc, peer, link>>
    BY <1>6 DEF SendSome
  <2>. QED  BY <1>0, <2>1, <2>2, AdvanceEnds, SameEnds DEF EndsAgree
<1>7. ASSUME NEW c \in Conns, SendToGone(c) PROVE EndsAgree'
  <2>1. PICK k \in Int : Advance(c, k)
    BY <1>7 DEF SendToGone
  <2>2. /\ writing = c /\ link[c] = "fin" /\ UNCHANGED vars
        /\ \E l \in {"fin", "epipe"} : link' = [link EXCEPT ![c] = l]
    BY <1>7 DEF SendToGone
  <2>3. /\ left' \in Int /\ UNCHANGED <<client, proc, peer>> /\ ~Up
        /\ \A d \in Conns : Connected(d)' => Connected(d)
        /\ \A d \in Conns : arm[d] = "closed" => arm'[d] = "closed"
    BY <1>0, <2>1, <2>2, AdvanceEnds DEF EndsAgree, vars, peerVars
  <2>. QED  BY <1>0, <2>2, <2>3 DEF EndsAgree, Up
<1>8. ASSUME NEW c \in Conns, SendFails(c) PROVE EndsAgree'
  BY <1>0, <1>8, CloseEnds DEF SendFails
<1>9. ASSUME NEW c \in Conns, SigPipe(c) PROVE EndsAgree'
  <2>1. ~Up /\ UNCHANGED <<vars, arm, left, link>>
    BY <1>0, <1>9 DEF SigPipe, EndsAgree
  <2>. QED  BY <1>0, <2>1 DEF EndsAgree, Connected, Up, vars, peerVars
<1>10. ASSUME NEW c \in Conns, LateEcho(c) PROVE EndsAgree'
  <2>1. /\ arm[c] = "closed" /\ UNCHANGED <<proc, clientVars>>
        /\ \A d \in Conns \ {c} : peer'[d] = peer[d]
    BY <1>0, <1>10 DEF LateEcho, PeerReset, TypeOK
  <2>. QED  BY <1>0, <2>1 DEF EndsAgree, Connected, Armed, Up, clientVars
<1>11. ASSUME NEW c \in Conns, ServerGone(c) PROVE EndsAgree'
  <2>1. /\ ~Up /\ UNCHANGED <<vars, client, arm, left>>
        /\ \E l \in {"rst", "fin"} : link' = [link EXCEPT ![c] = l]
    BY <1>11 DEF ServerGone
  <2>. QED  BY <1>0, <2>1 DEF EndsAgree, Connected, Up, vars, peerVars
<1>. QED
  BY <1>1, <1>2, <1>3, <1>4, <1>5, <1>6, <1>7, <1>8, <1>9, <1>10, <1>11
     DEF ClientNext, ClientLoop, Handle

\* The service echoes: what was written stays written.
LEMMA OutGrows ==
  ASSUME IInv, ConnectedLive, [Next]_vars, NEW c \in Conns
  PROVE  Len(out'[c]) >= Len(out[c])
<1>0. /\ out \in [Conns -> Seq(Nat)] /\ Len(out[c]) \in Nat
      /\ \A d \in Conns : out[d] \in Seq(Nat) /\ Len(out[d]) \in Nat /\ input[d] \in Nat
  BY DEF IInv, TypeOK
<1>1. ASSUME NEW d \in Conns, EchoService!Reply(d) PROVE Len(out'[c]) >= Len(out[c])
  <2>1. PICK k \in 1 .. input[d] - Len(out[d]) :
          out' = [out EXCEPT ![d] = @ \o EchoService!Bytes(Len(@), k)]
    BY <1>1 DEF EchoService!Reply
  <2>2. k \in Nat /\ EchoService!Bytes(Len(out[d]), k) \in Seq(Nat)
    BY <1>0 DEF EchoService!Bytes
  <2>3. /\ c = d => out'[c] = out[c] \o EchoService!Bytes(Len(out[d]), k)
        /\ c # d => out'[c] = out[c]
    BY <1>0, <2>1
  <2>. QED  BY <1>0, <2>2, <2>3
<1>2. CASE UNCHANGED out
  BY <1>0, <1>2
<1>. QED
  BY <1>1, <1>2, NextRefines
     DEF EchoService!Next, EchoService!Open, EchoService!Feed, EchoService!HangUp, EchoService!vars

\* An event that stays in the batch stays true: only read_once takes bytes, and
\* it takes its event first.
LEMMA KeptDue ==
  ASSUME TypeOK, TypeOK', ReadDue, cbatch' \subseteq cbatch,
         \A c \in Conns :
           <<c, "IN">> \in cbatch' =>
             /\ taken'[c] = taken[c] /\ Len(out'[c]) >= Len(out[c])
             /\ link[c] # "up" => link'[c] # "up"
  PROVE  ReadDue'
<1> SUFFICES ASSUME NEW c \in Conns, <<c, "IN">> \in cbatch'
             PROVE  Unread(c)' > 0 \/ link'[c] # "up"
  BY DEF ReadDue
<1>1. /\ Len(out[c]) \in Nat /\ Len(out'[c]) \in Nat /\ taken[c] \in Nat /\ taken'[c] \in Nat
      /\ taken'[c] = taken[c] /\ Len(out'[c]) >= Len(out[c])
  BY DEF TypeOK
<1>2. Unread(c) > 0 \/ link[c] # "up"
  BY DEF ReadDue
<1>. QED  BY <1>1, <1>2 DEF Unread

\* Also in the client's strides.
LEMMA OutStays ==
  ASSUME LoadInv, [System \/ ClientNext]_allVars, NEW c \in Conns
  PROVE  Len(out'[c]) >= Len(out[c])
<1>0. TypeOK /\ IInv /\ ConnectedLive /\ left \in Int /\ Len(out[c]) \in Nat
  BY DEF LoadInv, LifeInv, IInv, TypeOK, EndsAgree
<1>1. CASE Stride
  BY <1>0, <1>1 DEF Stride, ioVars
<1>. QED  BY <1>0, <1>1, OutGrows, ServiceSteps

\* Every step keeps the events of the batch true.
LEMMA DueStep ==
  ASSUME LoadInv, [System \/ ClientNext]_allVars
  PROVE  ReadDue'
<1>0. /\ TypeOK /\ TypeOK' /\ IInv /\ ConnectedLive /\ ReadDue
      /\ left \in Int /\ link \in [Conns -> {"up", "fin", "rst", "epipe"}]
      /\ \A c \in Conns : Len(out[c]) \in Nat
  <2>1. LifeInv'
    BY LifeStep
  <2>2. TypeOK /\ TypeOK' /\ IInv /\ ConnectedLive /\ ReadDue
    BY <2>1 DEF LoadInv, LifeInv, IInv
  <2>3. \A c \in Conns : Len(out[c]) \in Nat
    BY <2>2 DEF TypeOK
  <2>. QED  BY <2>2, <2>3 DEF LoadInv, EndsAgree
<1>1. ASSUME NEW c \in Conns PROVE Len(out'[c]) >= Len(out[c])
  BY OutStays
<1>2. CASE ClientWait
  <2>1. UNCHANGED <<vars, link>> /\ \A c \in Conns : <<c, "IN">> \in cbatch' => "IN" \in EventsOf(c)
    BY <1>2 DEF ClientWait
  <2>2. \A c \in Conns : "IN" \in EventsOf(c) => CanRead(c)
    BY DEF EventsOf
  <2>3. UNCHANGED <<out, taken>>
    BY <2>1 DEF vars, ioVars, peerVars
  <2>. QED  BY <2>1, <2>2, <2>3 DEF ReadDue, CanRead, Unread
<1>3. ASSUME NEW c \in Conns, ReadOnce(c) PROVE ReadDue'
  <2>1. /\ cbatch' = cbatch \ {<<c, "IN">>} /\ UNCHANGED link
        /\ \A d \in Conns \ {c} : taken'[d] = taken[d]
    BY <1>0, <1>3 DEF ReadOnce, CloseConn, PeerShutdown, PeerReset, vars, peerVars, TypeOK
  <2>. QED  BY <1>0, <1>1, <2>1, KeptDue
<1>4. ASSUME UNCHANGED taken, cbatch' \subseteq cbatch,
             \A c \in Conns : link[c] # "up" => link'[c] # "up"
      PROVE  ReadDue'
  BY <1>0, <1>1, <1>4, KeptDue
<1>5. CASE System \/ UNCHANGED allVars
  BY <1>4, <1>5, ServerEffect DEF System, clientVars, allVars, vars, peerVars
<1>6. ASSUME NEW c \in Conns, StartConn(c) \/ WriteBytes(c) \/ SendSome(c) \/ SigPipe(c)
      PROVE  UNCHANGED <<taken, link>> /\ cbatch' \subseteq cbatch
  BY <1>6 DEF StartConn, PeerConnect, WriteBytes, SendSome, Advance, SigPipe, vars, peerVars
<1>7. ASSUME NEW c \in Conns, SendFails(c) \/ LateEcho(c)
      PROVE  UNCHANGED <<taken, link>> /\ cbatch' \subseteq cbatch
  BY <1>7 DEF SendFails, LateEcho, CloseConn, PeerShutdown, PeerReset, clientVars, vars, peerVars
<1>8. ASSUME NEW c \in Conns, SendToGone(c) \/ ServerGone(c)
      PROVE  /\ UNCHANGED taken /\ cbatch' \subseteq cbatch
             /\ \A d \in Conns : link[d] # "up" => link'[d] # "up"
  BY <1>0, <1>8 DEF SendToGone, ServerGone, Advance, vars, peerVars
<1>. QED
  BY <1>2, <1>3, <1>4, <1>5, <1>6, <1>7, <1>8 DEF ClientNext, ClientLoop, Handle

\* The client and the service keep the invariant together.
LEMMA LoadStep == LoadInv /\ [System \/ ClientNext]_allVars => LoadInv'
BY ClientNextInv, LifeStep, EndsStep, DueStep DEF LoadInv

\* It holds before anyone is connected.
LEMMA LoadInit == ClientInit => LoadInv
<1> SUFFICES ASSUME ClientInit PROVE LoadInv
  OBVIOUS
<1>1. TeardownReachesAll /\ DownNeedsHangUp /\ ConnectedLive /\ ArmedIffQueued
  BY DEF ClientInit, Init, TeardownReachesAll, DownNeedsHangUp, DeletesTwice, ConnectedLive, Live,
     Accepted, ArmedIffQueued
<1>2. EndsAgree /\ ReadDue
  BY DEF ClientInit, Init, EndsAgree, ReadDue, Connected, Armed
<1>. QED  BY <1>1, <1>2, InitIInv, ClientInitInv DEF LoadInv, LifeInv, ClientInit

\* The invariant of the composed system.
THEOREM LoadInvariance == LoadSpec => []LoadInv
  BY LoadInit, LoadStep, PTL DEF LoadSpec

\* What the service echoes to the client is what the client sent, in the client's
\* own strides.
THEOREM LoadEchoCorrect == LoadSpec => []EchoFidelity
<1>1. LoadInv => EchoFidelity
  <2> SUFFICES ASSUME LoadInv, NEW c \in Conns
               PROVE  Len(out[c]) <= input[c] /\ \A i \in 1..Len(out[c]) : out[c][i] = i
    BY DEF EchoFidelity
  <2>1. Len(out[c]) \in Nat /\ rcvd[c] \in Nat /\ input[c] \in Nat /\ StreamOrder
    BY DEF LoadInv, LifeInv, IInv, TypeOK
  <2>. QED  BY <2>1 DEF StreamOrder
<1>. QED  BY <1>1, LoadInvariance, PTL

\* The service has every connection of the client on its list, and none is left
\* when it is destroyed.
THEOREM LoadTeardownCorrect == LoadSpec => []TeardownReachesAll
  BY LoadInvariance, PTL DEF LoadInv, LifeInv

\* Neither process brings the other down, unless the client gave a connection up
\* or the server is gone.
THEOREM KillsCorrect == LoadSpec => []NeitherKillsTheOther
<1>1. LoadInv => NeitherKillsTheOther
  <2> SUFFICES ASSUME LoadInv PROVE NeitherKillsTheOther
    OBVIOUS
  <2>1. DownNeedsHangUp /\ EndsAgree
    BY DEF LoadInv, LifeInv
  <2>2. ASSUME proc \in {"killed", "undefined"} PROVE \E c \in Conns : arm[c] = "closed"
    BY <2>1, <2>2 DEF DownNeedsHangUp, SomeHungUp, EndsAgree
  <2>. QED  BY <2>1, <2>2 DEF NeitherKillsTheOther, EndsAgree
<1>. QED  BY <1>1, LoadInvariance, PTL

\* Against a server that is up, a connection is given up only when the path to it
\* is full.
THEOREM GiveUpCorrect == LoadSpec => ClosesOnlyWhenStuffed
<1>1. ASSUME LoadInv, System \/ ClientNext, NEW c \in Conns,
             Up, Connected(c), arm'[c] = "closed"
      PROVE  PathRoom(c) = 0
  <2>0. /\ arm \in [Conns -> Armed \cup {"untried", "failed", "closed"}]
        /\ link[c] = "up" /\ arm[c] # "closed"
        /\ Len(out[c]) \in Nat /\ taken[c] \in Nat
    BY <1>1 DEF LoadInv, ClientInv, EndsAgree, Connected, Armed, LifeInv, IInv, TypeOK
  <2>1. ASSUME NEW d \in Conns, ReadOnce(d) PROVE arm'[c] # "closed"
    <3>1. CASE d # c
      BY <2>0, <2>1, <3>1 DEF ReadOnce, CloseConn
    <3>2. CASE d = c
      <4>1. Unread(c) > 0
        BY <1>1, <2>0, <2>1, <3>2 DEF LoadInv, ReadDue, ReadOnce
      <4>2. ReadFails(c) = {}
        BY <2>0, <4>1 DEF ReadFails, Unread
      <4>. QED  BY <2>0, <2>1, <3>2, <4>2 DEF ReadOnce, ArmAfterRead
    <3>. QED  BY <3>1, <3>2
  <2>2. ASSUME NEW d \in Conns, SendFails(d) PROVE PathRoom(c) = 0
    BY <1>1, <2>0, <2>2 DEF SendFails, CloseConn
  <2>3. ASSUME NEW d \in Conns,
               \/ StartConn(d) \/ WriteBytes(d) \/ SendSome(d) \/ SendToGone(d) \/ SigPipe(d)
               \/ LateEcho(d) \/ ServerGone(d)
        PROVE  arm'[c] # "closed"
    BY <2>0, <2>3 DEF StartConn, WriteBytes, SendSome, SendToGone, Advance, SigPipe, LateEcho,
       ServerGone, clientVars
  <2>4. CASE System \/ ClientWait
    BY <1>1, <2>0, <2>4 DEF System, ClientWait, clientVars
  <2>. QED  BY <1>1, <2>1, <2>2, <2>3, <2>4 DEF ClientNext, ClientLoop, Handle
<1>2. ASSUME LoadInv, [System \/ ClientNext]_allVars
      PROVE  [\A c \in Conns :
                Up /\ Connected(c) /\ arm'[c] = "closed" => PathRoom(c) = 0]_allVars
  BY <1>1, <1>2
<1>. QED  BY <1>2, LoadInvariance, PTL DEF LoadSpec, ClosesOnlyWhenStuffed

-----------------------------------------------------------------------------
(* Who waits for whom.                                                     *)

\* The client takes no more than was echoed, and a connection that waits for an
\* answer is owed one.
Owed ==
  \A c \in Conns :
    /\ taken[c] <= Len(out[c])
    /\ arm[c] = "in" /\ link[c] = "up" => taken[c] < input[c]

\* What is owed stays owed while nothing is taken.
LEMMA StillOwed ==
  ASSUME TypeOK, TypeOK', Owed, UNCHANGED taken,
         \A c \in Conns :
           /\ Len(out'[c]) >= Len(out[c]) /\ input'[c] >= input[c]
           /\ arm'[c] = "in" /\ link'[c] = "up" => arm[c] = "in" /\ link[c] = "up"
  PROVE  Owed'
<1> SUFFICES ASSUME NEW c \in Conns
             PROVE  /\ taken'[c] <= Len(out'[c])
                    /\ arm'[c] = "in" /\ link'[c] = "up" => taken'[c] < input'[c]
  BY DEF Owed
<1>1. /\ Len(out[c]) \in Nat /\ Len(out'[c]) \in Nat /\ taken[c] \in Nat /\ taken'[c] = taken[c]
      /\ input[c] \in Nat /\ input'[c] \in Nat
  BY DEF TypeOK
<1>. QED  BY <1>1 DEF Owed

LEMMA OwedStep ==
  ASSUME LoadInv, Owed, [System \/ ClientNext]_allVars
  PROVE  Owed'
<1>0. /\ TypeOK /\ TypeOK' /\ StreamOrder /\ left \in Int
      /\ arm \in [Conns -> Armed \cup {"untried", "failed", "closed"}]
      /\ link \in [Conns -> {"up", "fin", "rst", "epipe"}]
      /\ \A c \in Conns : Len(out'[c]) >= Len(out[c])
  <2>1. LifeInv'
    BY LifeStep
  <2>. QED  BY <2>1, OutStays DEF LoadInv, LifeInv, IInv, ClientInv, EndsAgree
<1>1. \A c \in Conns :
        /\ Len(out[c]) \in Nat /\ Len(out'[c]) \in Nat /\ Len(out'[c]) >= Len(out[c])
        /\ taken[c] \in Nat /\ input[c] \in Nat /\ rcvd[c] \in Nat
        /\ Len(out[c]) <= input[c]
  <2>1. ASSUME NEW c \in Conns
        PROVE  /\ Len(out[c]) \in Nat /\ Len(out'[c]) \in Nat
               /\ taken[c] \in Nat /\ input[c] \in Nat /\ rcvd[c] \in Nat
    BY <1>0 DEF TypeOK
  <2>. QED  BY <1>0, <2>1 DEF StreamOrder
<1>2. ASSUME UNCHANGED <<taken, input>>,
             \A c \in Conns :
               arm'[c] = "in" /\ link'[c] = "up" => arm[c] = "in" /\ link[c] = "up"
      PROVE  Owed'
  <2>1. \A c \in Conns : input'[c] >= input[c]
    BY <1>1, <1>2
  <2>. QED  BY <1>0, <1>2, <2>1, StillOwed
<1>3. CASE System
  <2>1. UNCHANGED <<taken, input, clientVars>>
    BY <1>3, ServerEffect DEF System
  <2>. QED  BY <1>2, <2>1 DEF clientVars
<1>4. CASE ClientWait \/ UNCHANGED allVars
  BY <1>2, <1>4 DEF ClientWait, allVars, vars, peerVars, clientVars
<1>5. ASSUME NEW c \in Conns, StartConn(c) PROVE Owed'
  BY <1>0, <1>2, <1>5 DEF StartConn, PeerConnect, vars, peerVars
<1>6. ASSUME NEW c \in Conns, CloseConn(c), UNCHANGED link PROVE Owed'
  BY <1>0, <1>2, <1>6 DEF CloseConn, PeerShutdown, PeerReset, vars, peerVars
<1>7. ASSUME NEW c \in Conns, ReadOnce(c) PROVE Owed'
  <2>1. CASE CloseConn(c)
    BY <1>6, <1>7, <2>1 DEF ReadOnce
  <2>2. CASE ~CloseConn(c)
    <3>1. PICK n \in 1 .. Min2(Chunk, Unread(c)) :
            /\ taken' = [taken EXCEPT ![c] = @ + n]
            /\ arm' = [arm EXCEPT ![c] = "out"]
            /\ UNCHANGED <<input, out, link>>
      BY <1>7, <2>2 DEF ReadOnce, ArmAfterRead, ioVars
    <3>2. n \in Nat /\ n <= Unread(c)
      BY <1>1, <3>1, ClientConstantsOK DEF Min2, Unread
    <3>3. taken'[c] <= Len(out'[c]) /\ arm'[c] = "out"
      BY <1>0, <1>1, <3>1, <3>2 DEF Unread, TypeOK
    <3>4. \A d \in Conns \ {c} : taken'[d] = taken[d] /\ arm'[d] = arm[d]
      BY <1>0, <3>1 DEF TypeOK
    <3>. QED  BY <3>1, <3>3, <3>4 DEF Owed
  <2>. QED  BY <2>1, <2>2
<1>8. ASSUME NEW c \in Conns, WriteBytes(c) \/ SigPipe(c) PROVE Owed'
  BY <1>2, <1>8 DEF WriteBytes, SigPipe, vars, peerVars
<1>9. ASSUME NEW c \in Conns, SendSome(c) PROVE Owed'
  <2>1. PICK k \in 1 .. Min2(left, PathRoom(c)) :
          input' = [input EXCEPT ![c] = @ + k] /\ Advance(c, k)
    BY <1>9 DEF SendSome
  <2>2. k \in Nat \ {0}
    BY <1>0, <1>1, <2>1, ClientConstantsOK DEF Min2, PathRoom
  <2>3. input'[c] = input[c] + k /\ \A d \in Conns \ {c} : input'[d] = input[d] /\ arm'[d] = arm[d]
    BY <1>0, <2>1 DEF Advance, TypeOK
  <2>4. UNCHANGED <<taken, link, out>>
    BY <1>9 DEF SendSome, ioVars
  <2>5. taken'[c] <= Len(out'[c]) /\ taken'[c] < input'[c]
    BY <1>1, <2>2, <2>3, <2>4 DEF Owed
  <2>. QED  BY <2>3, <2>4, <2>5 DEF Owed
<1>10. ASSUME NEW c \in Conns, SendToGone(c) PROVE Owed'
  <2>1. PICK k \in Int : Advance(c, k)
    BY <1>10 DEF SendToGone
  <2>2. \A d \in Conns \ {c} : arm'[d] = arm[d] /\ link'[d] = link[d]
    BY <1>0, <1>10, <2>1 DEF SendToGone, Advance
  <2>3. link'[c] # "up" /\ UNCHANGED <<taken, input>>
    BY <1>0, <1>10 DEF SendToGone, vars, peerVars
  <2>. QED  BY <1>2, <2>2, <2>3
<1>11. ASSUME NEW c \in Conns, SendFails(c) PROVE Owed'
  BY <1>6, <1>11 DEF SendFails
<1>12. ASSUME NEW c \in Conns, LateEcho(c) PROVE Owed'
  BY <1>2, <1>12 DEF LateEcho, PeerReset, clientVars
<1>13. ASSUME NEW c \in Conns, ServerGone(c) PROVE Owed'
  BY <1>0, <1>2, <1>13 DEF ServerGone, vars, peerVars
<1>. QED
  BY <1>3, <1>4, <1>5, <1>7, <1>8, <1>9, <1>10, <1>11, <1>12, <1>13
     DEF ClientNext, ClientLoop, Handle

\* For every buffer, chunk and path: client and service never both wait for the
\* other.  A byte the client is owed is in front of recv(), in m_wlist or in front
\* of the client, and whoever has it there is armed for it.
THEOREM WaitCorrect == LoadSpec => []NoMutualWait
<1>1. ClientInit => Owed
  BY DEF ClientInit, Init, Owed
<1>2. LoadInv /\ Owed => NoMutualWait
  <2> SUFFICES ASSUME LoadInv, Owed, Up, NEW c \in Conns, Connected(c),
                      Accepted(c), ~(Live(c) /\ events[c] = {})
               PROVE  ClientHasTurn(c) \/ ServerHasTurn(c)
    BY DEF NoMutualWait, ServerHasTurn
  <2>1. /\ Live(c) /\ events[c] # {} /\ link[c] = "up"
        /\ "READ" \in events[c] /\ ("WRITE" \in events[c] <=> wlist[c] # << >>)
    BY DEF LoadInv, LifeInv, ConnectedLive, ArmedIffQueued, EndsAgree
  <2>2. /\ Len(out[c]) \in Nat /\ taken[c] \in Nat /\ input[c] \in Nat /\ rcvd[c] \in Nat
        /\ rcvd[c] <= input[c]
        /\ wlist[c] = << >> => Len(out[c]) = rcvd[c]
    <3>1. TypeOK /\ StreamOrder /\ QueueHoldsGap
      BY DEF LoadInv, LifeInv, IInv
    <3>2. Len(out[c]) \in Nat /\ taken[c] \in Nat /\ input[c] \in Nat /\ rcvd[c] \in Nat
      BY <3>1 DEF TypeOK
    <3>3. rcvd[c] <= input[c]
      BY <3>1 DEF StreamOrder
    <3>4. wlist[c] = << >> => Len(out[c]) = rcvd[c]
      BY <2>1, <3>1 DEF QueueHoldsGap, QueueOK
    <3>. QED  BY <3>2, <3>3, <3>4
  <2>3. CASE rcvd[c] < input[c]
    BY <2>1, <2>3 DEF ServerHasTurn
  <2>4. CASE ~(rcvd[c] < input[c])
    <3>1. rcvd[c] = input[c]
      BY <2>2, <2>4
    <3>2. CASE arm[c] \in {"both", "out"}
      BY <2>2, <3>1, <3>2, ClientConstantsOK DEF ClientHasTurn, PathRoom
    <3>3. CASE arm[c] = "in"
      <4>1. taken[c] < input[c] /\ taken[c] <= Len(out[c])
        BY <2>1, <3>3 DEF Owed
      <4>2. CASE taken[c] < Len(out[c])
        BY <2>2, <3>3, <4>2 DEF ClientHasTurn, Unread
      <4>3. CASE ~(taken[c] < Len(out[c]))
        <5>1. Room(c) > 0
          BY <2>2, <4>1, <4>3, ConstantsOK DEF Room
        <5>2. wlist[c] # << >>
          BY <2>2, <3>1, <4>1, <4>3
        <5>. QED  BY <2>1, <5>1, <5>2 DEF ServerHasTurn
      <4>. QED  BY <4>2, <4>3
    <3>. QED  BY <3>2, <3>3 DEF Connected, Armed
  <2>. QED  BY <2>3, <2>4
<1>. QED  BY <1>1, <1>2, OwedStep, LoadInvariance, PTL DEF LoadSpec
=============================================================================
