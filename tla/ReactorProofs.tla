---------------------------- MODULE ReactorProofs ----------------------------
(***************************************************************************)
(* What holds of Reactor for every set of connections, requests and        *)
(* descriptors and every length of a batch.                                *)
(***************************************************************************)
EXTENDS Reactor, FiniteSetTheorems, TLAPS

-----------------------------------------------------------------------------
(* The inductive invariant.                                                *)

\* The accept queue holds connections nobody has accepted, each once.
BacklogOK ==
  /\ \A i, j \in 1 .. Len(backlog) : backlog[i] = backlog[j] => i = j
  /\ \A i \in 1 .. Len(backlog) :
       LET c == backlog[i] IN peer[c] # "idle" /\ ~Open(c) /\ served[c] = Null

\* How the two ends of a connection agree.
ConnOK(c) ==
  /\ Open(c) => peer[c] # "idle" /\ served[c] = Null
  /\ served[c] # Null => peer[c] # "idle"
  /\ peer[c] = "idle" => sent[c] = "nothing"
  /\ sent[c] = "whole" => request[c] \in Requests
  /\ sockerr[c] # "none" => peer[c] = "rst"
  /\ c \in edge => Open(c) /\ Readable(c)

\* The connection being answered, and where its method came from.
RespondOK ==
  pc = "respond" =>
    /\ current \in Conns /\ Open(current) /\ Readable(current)
    /\ meaning \in Methods
    /\ \/ stale = "mixed"
       \/ peer[current] # "open"
       \/ sent[current] = "whole" /\ meaning = request[current]
    /\ sent[current] = "nothing" => peer[current] # "open"
    /\ sent[current] = "whole" /\ request[current] \in Methods /\ stale # "mixed" =>
         meaning = request[current]

Struct ==
  /\ TypeOK
  /\ BacklogOK
  /\ \A c \in Conns : ConnOK(c)
  /\ NoStaleDispatch
  /\ NoEdgeLost
  /\ RespondOK
  /\ OwnRequestServed

IInv == Struct /\ DownNeedsCause

-----------------------------------------------------------------------------
(* Lemmas about the operators of the model.                                *)

\* The head of a nonempty sequence and what is left without it.
LEMMA TailFacts ==
  ASSUME NEW S, NEW q \in Seq(S), q # << >>
  PROVE  /\ Head(q) \in S /\ Head(q) = q[1] /\ Tail(q) \in Seq(S)
         /\ Len(q) \in Nat \ {0} /\ Len(Tail(q)) = Len(q) - 1
         /\ \A i \in 1 .. Len(Tail(q)) : i + 1 \in 1 .. Len(q) /\ Tail(q)[i] = q[i + 1]
  OBVIOUS

\* Whatever is in a sequence is at its head or in the rest of it.
LEMMA RangeTail ==
  ASSUME NEW S, NEW q \in Seq(S), q # << >>
  PROVE  /\ Range(Tail(q)) \subseteq Range(q)
         /\ Range(q) \subseteq Range(Tail(q)) \cup {Head(q)}
         /\ (\A i, j \in 1 .. Len(q) : q[i] = q[j] => i = j) => Head(q) \notin Range(Tail(q))
<1>1. /\ Len(q) \in Nat \ {0} /\ Len(Tail(q)) = Len(q) - 1
      /\ DOMAIN q = 1 .. Len(q) /\ DOMAIN Tail(q) = 1 .. Len(q) - 1
      /\ Head(q) = q[1]
      /\ \A i \in 1 .. Len(q) - 1 : i + 1 \in 1 .. Len(q) /\ Tail(q)[i] = q[i + 1]
  OBVIOUS
<1>2. \A i \in 1 .. Len(q) : i # 1 => (i - 1 \in 1 .. Len(q) - 1 /\ Tail(q)[i - 1] = q[i])
  BY <1>1
<1>3. Range(Tail(q)) \subseteq Range(q)
  BY <1>1 DEF Range
<1>4. ASSUME NEW x \in Range(q) PROVE x \in Range(Tail(q)) \cup {Head(q)}
  <2>1. PICK i \in 1 .. Len(q) : q[i] = x
    BY <1>1 DEF Range
  <2>2. CASE i = 1
    BY <2>1, <2>2, <1>1
  <2>3. CASE i # 1
    <3>1. i - 1 \in DOMAIN Tail(q) /\ Tail(q)[i - 1] = x
      BY <2>1, <2>3, <1>1, <1>2
    <3>. QED  BY <3>1 DEF Range
  <2>. QED  BY <2>2, <2>3
<1>5. ASSUME \A i, j \in 1 .. Len(q) : q[i] = q[j] => i = j, Head(q) \in Range(Tail(q)) PROVE FALSE
  <2>1. PICK i \in 1 .. Len(q) - 1 : Tail(q)[i] = Head(q)
    BY <1>1, <1>5 DEF Range
  <2>2. q[i + 1] = q[1] /\ i + 1 \in 1 .. Len(q) /\ 1 \in 1 .. Len(q) /\ i + 1 # 1
    BY <2>1, <1>1
  <2>. QED  BY <2>2, <1>5
<1>. QED  BY <1>3, <1>4, <1>5

\* What is left in the array; once it is mixed it stays so, and only a whole
\* plain request, or none at all, keeps it from being mixed.
LEMMA LeftFacts ==
  ASSUME NEW old \in Methods \cup {"garbage", "mixed"},
         NEW extent \in {"nothing", "part", "whole"}, NEW m
  PROVE  /\ Left(old, extent, m) \in Methods \cup {"garbage", "mixed"}
         /\ old = "mixed" => Left(old, extent, m) = "mixed"
         /\ \/ Left(old, extent, m) = "mixed"
            \/ extent = "nothing"
            \/ extent = "whole" /\ m \in Methods /\ old # "mixed"
  BY DEF Left, Methods

\* What http_parse can come to: a method or an end, and the method of a whole
\* plain request that was put over plain ones.
LEMMA ParsedFacts ==
  ASSUME NEW old \in Methods \cup {"garbage", "mixed"},
         NEW extent \in {"nothing", "part", "whole"}, NEW m
  PROVE  /\ Parsed(old, extent, m) \subseteq Methods \cup Ends
         /\ extent = "whole" /\ m \in Methods /\ old # "mixed" => Parsed(old, extent, m) = {m}
  BY DEF Parsed, Methods, Ends

\* The event of a descriptor is that of the one connection that has it.
LEMMA OwnerFacts ==
  ASSUME Struct, pc = "dispatch", Head(batch) # LISTEN
  PROVE  /\ Owner(Head(batch)) \in Conns
         /\ fd[Owner(Head(batch))] = Head(batch)
         /\ Open(Owner(Head(batch))) /\ Readable(Owner(Head(batch)))
<1>1. batch \in Seq(Fds \cup {LISTEN}) /\ batch # << >>
  BY DEF Struct, TypeOK
<1>2. Head(batch) \in Range(batch)
  BY <1>1, TailFacts DEF Range
<1>3. PICK c \in Conns : fd[c] = Head(batch) /\ Readable(c)
  BY <1>2 DEF Struct, NoStaleDispatch
<1>4. \E d \in Conns : fd[d] = Head(batch)
  BY <1>3
<1>5. Owner(Head(batch)) \in Conns /\ fd[Owner(Head(batch))] = Head(batch)
  BY <1>4 DEF Owner
<1>6. Open(c) /\ Open(Owner(Head(batch)))
  BY <1>3, <1>5 DEF Open, LISTEN
<1>7. Owner(Head(batch)) = c
  BY <1>3, <1>5, <1>6 DEF Struct, TypeOK
<1>. QED  BY <1>3, <1>5, <1>6, <1>7

-----------------------------------------------------------------------------
(* Steps that bring the server down.                                       *)

Procs == {"running", "hung", "exited", "exit_failure", "aborted", "killed", "undefined"}
DownState == UNCHANGED <<pc, loopVars, backlog, fd, edge, served, config, peerVars>>

\* They change nothing but proc, so that everything else stays as it is.
LEMMA DownStruct ==
  ASSUME Struct, proc' \in Procs \ {"running"}, DownState
  PROVE  Struct'
<1>. USE DEF DownState, loopVars, peerVars
<1>1. TypeOK'
  BY DEF Struct, TypeOK, Procs, Open
<1>2. BacklogOK'
  BY DEF Struct, BacklogOK, Open
<1>3. \A c \in Conns : ConnOK(c)'
  BY DEF Struct, ConnOK, Open, Readable
<1>4. NoStaleDispatch'
  BY DEF Struct, NoStaleDispatch, Readable
<1>5. NoEdgeLost'
  BY DEF NoEdgeLost
<1>6. RespondOK'
  BY DEF Struct, RespondOK, Culprit, Open, Readable
<1>7. OwnRequestServed'
  BY DEF Struct, OwnRequestServed
<1>. QED  BY <1>1, <1>2, <1>3, <1>4, <1>5, <1>6, <1>7 DEF Struct

\* The cause of a step down is still there after it.
LEMMA DownCause ==
  ASSUME DownState,
         config # "ok" \/ FreeFds = {} \/ stale = "mixed" \/ \E c \in Conns : Culprit(c)
  PROVE  DownNeedsCause'
  BY DEF DownState, loopVars, peerVars, DownNeedsCause, FreeFds, Culprit, Open

-----------------------------------------------------------------------------
(* The loop.                                                               *)

\* What is left of a batch without its first event.
LEMMA RestFacts ==
  ASSUME Struct, batch # << >>
  PROVE  /\ Tail(batch) \in Seq(Fds \cup {LISTEN})
         /\ Range(Tail(batch)) \subseteq Range(batch)
         /\ Range(batch) \subseteq Range(Tail(batch)) \cup {Head(batch)}
         /\ Head(batch) \notin Range(Tail(batch))
         /\ \A i, j \in 1 .. Len(Tail(batch)) : Tail(batch)[i] = Tail(batch)[j] => i = j
         /\ Continue(Tail(batch)) \in {"wait", "dispatch"}
         /\ Tail(batch) = << >> <=> Continue(Tail(batch)) = "wait"
<1>1. batch \in Seq(Fds \cup {LISTEN})
  BY DEF Struct, TypeOK
<1>2. \A i, j \in 1 .. Len(batch) : batch[i] = batch[j] => i = j
  BY DEF Struct, NoStaleDispatch
<1>3. /\ Tail(batch) \in Seq(Fds \cup {LISTEN}) /\ Len(batch) \in Nat \ {0}
      /\ \A i \in 1 .. Len(Tail(batch)) : i + 1 \in 1 .. Len(batch) /\ Tail(batch)[i] = batch[i + 1]
  BY <1>1, TailFacts
<1>4. \A i, j \in 1 .. Len(Tail(batch)) : Tail(batch)[i] = Tail(batch)[j] => i = j
  <2>. SUFFICES ASSUME NEW i \in 1 .. Len(Tail(batch)), NEW j \in 1 .. Len(Tail(batch)),
                       Tail(batch)[i] = Tail(batch)[j]
                PROVE  i = j
    OBVIOUS
  <2>1. i + 1 = j + 1
    BY <1>2, <1>3
  <2>. QED  BY <2>1
<1>5. /\ Continue(Tail(batch)) \in {"wait", "dispatch"}
      /\ Tail(batch) = << >> <=> Continue(Tail(batch)) = "wait"
  BY DEF Continue
<1>. QED  BY <1>1, <1>2, <1>3, <1>4, <1>5, RangeTail

\* epoll_wait has something to report: between one event and a full array.
LEMMA ReadyFacts ==
  ASSUME Struct, Ready # {}
  PROVE  /\ Ready \subseteq Fds \cup {LISTEN}
         /\ (IF Cardinality(Ready) < MaxEvent THEN Cardinality(Ready) ELSE MaxEvent) \in Nat \ {0}
         /\ LISTEN \in Ready => backlog # << >>
         /\ \A f \in Ready : f # LISTEN => \E c \in Conns : fd[c] = f /\ Readable(c)
<1>1. \A c \in edge : c \in Conns /\ Open(c) /\ Readable(c) /\ fd[c] \in Fds
  BY DEF Struct, TypeOK, ConnOK, Open
<1>2. Ready \subseteq Fds \cup {LISTEN}
  BY <1>1 DEF Ready
<1>3. IsFiniteSet(Ready)
  <2>1. IsFiniteSet(Fds \cup {LISTEN})
    BY ConstantsOK, FS_AddElement
  <2>. QED  BY <2>1, <1>2, FS_Subset
<1>4. Cardinality(Ready) \in Nat \ {0}
  BY <1>3, FS_CardinalityType, FS_EmptySet
<1>5. MaxEvent \in Nat \ {0}
  BY ConstantsOK
<1>6. LISTEN \in Ready => backlog # << >>
  BY <1>1 DEF Ready, Open, LISTEN
<1>7. \A f \in Ready : f # LISTEN => \E c \in Conns : fd[c] = f /\ Readable(c)
  BY <1>1 DEF Ready
<1>. QED  BY <1>2, <1>4, <1>5, <1>6, <1>7

LEMMA EpollWaitStep ==
  ASSUME Struct, EpollWait
  PROVE  Struct'
<1>. DEFINE n == IF Cardinality(Ready) < MaxEvent THEN Cardinality(Ready) ELSE MaxEvent
<1>1. PICK q \in Batches(n) : batch' = q /\ edge' = {c \in edge : fd[c] \notin Range(q)}
  BY DEF EpollWait
<1>2. /\ pc = "wait" /\ pc' = "dispatch" /\ Ready # {} /\ proc' = proc
      /\ UNCHANGED <<connfd, stale, meaning, current, backlog, fd, served, config>>
      /\ UNCHANGED <<peer, sent, request, sockerr>>
  BY DEF EpollWait, peerVars
<1>3. /\ Ready \subseteq Fds \cup {LISTEN} /\ n \in Nat \ {0}
      /\ LISTEN \in Ready => backlog # << >>
      /\ \A f \in Ready : f # LISTEN => \E c \in Conns : fd[c] = f /\ Readable(c)
  BY <1>2, ReadyFacts
<1>. HIDE DEF n
<1>4. q \in [1 .. n -> Ready] /\ \A i, j \in 1 .. n : q[i] = q[j] => i = j
  BY DEF Batches
<1>5. q \in Seq(Fds \cup {LISTEN}) /\ q # << >> /\ Len(q) = n /\ Range(q) \subseteq Ready
  BY <1>3, <1>4 DEF Range
<1>6. TypeOK'
  BY <1>1, <1>2, <1>5 DEF Struct, TypeOK, Open
<1>7. BacklogOK'
  BY <1>2 DEF Struct, BacklogOK, Open
<1>8. \A c \in Conns : ConnOK(c)'
  BY <1>1, <1>2 DEF Struct, ConnOK, Open, Readable
<1>9. NoStaleDispatch'
  <2>1. \A f \in Range(q) : IF f = LISTEN THEN backlog # << >>
                             ELSE \E c \in Conns : fd[c] = f /\ Readable(c)
    BY <1>3, <1>5
  <2>. QED  BY <2>1, <1>1, <1>2, <1>4, <1>5 DEF NoStaleDispatch, Readable, LISTEN
<1>10. NoEdgeLost'
  <2>1. batch = << >>
    BY <1>2 DEF Struct, TypeOK
  <2>2. \A x : x \notin Range(batch)
    BY <2>1 DEF Range
  <2>3. \A c \in Conns : proc = "running" /\ Open(c) /\ Readable(c) => c \in edge
    BY <2>2 DEF Struct, NoEdgeLost
  <2>. QED  BY <2>3, <1>1, <1>2 DEF NoEdgeLost, Open, Readable
<1>11. RespondOK'
  BY <1>2 DEF RespondOK
<1>12. OwnRequestServed'
  BY <1>2 DEF Struct, OwnRequestServed
<1>. QED  BY <1>6, <1>7, <1>8, <1>9, <1>10, <1>11, <1>12 DEF Struct

\* accept() takes the connection that waited longest.
LEMMA AcceptStep ==
  ASSUME Struct, AcceptOne, proc' = "running"
  PROVE  Struct'
<1>. DEFINE b == Head(backlog)
<1>1. PICK f \in FreeFds :
        /\ fd' = [fd EXCEPT ![b] = f]
        /\ edge' = IF Readable(b) THEN edge \cup {b} ELSE edge
        /\ connfd' = f
        /\ backlog' = Tail(backlog)
        /\ batch' = Tail(batch)
        /\ pc' = Continue(Tail(batch))
        /\ UNCHANGED <<proc, stale, meaning, current, served, config, peer, sent, request, sockerr>>
  BY DEF AcceptOne, Exit, RestOfBatch, peerVars
<1>2. pc = "dispatch" /\ Head(batch) = LISTEN /\ backlog # << >> /\ proc = "running"
  BY DEF AcceptOne
<1>3. batch # << >> /\ backlog \in Seq(Conns) /\ fd \in [Conns -> Fds \cup {0}] /\ edge \subseteq Conns
  BY <1>2 DEF Struct, TypeOK
<1>4. /\ b \in Conns /\ b = backlog[1] /\ Tail(backlog) \in Seq(Conns) /\ Len(backlog) \in Nat \ {0}
      /\ \A i \in 1 .. Len(Tail(backlog)) : i + 1 \in 1 .. Len(backlog) /\ Tail(backlog)[i] = backlog[i + 1]
  BY <1>2, <1>3, TailFacts
<1>5. peer[b] # "idle" /\ fd[b] = 0 /\ served[b] = Null
  BY <1>4 DEF Struct, BacklogOK, Open
<1>6. f \in Fds /\ f # 0 /\ \A c \in Conns : fd[c] # f
  BY ConstantsOK DEF FreeFds
<1>7. fd'[b] = f /\ \A c \in Conns : c # b => fd'[c] = fd[c]
  BY <1>1, <1>3, <1>4
<1>8. \A c \in Conns : ConnOK(c)
  BY DEF Struct
<1>. HIDE DEF b
<1>9. TypeOK'
  <2>1. \A c, d \in Conns : fd'[c] # 0 /\ fd'[c] = fd'[d] => c = d
    BY <1>6, <1>7 DEF Struct, TypeOK, Open
  <2>2. fd' \in [Conns -> Fds \cup {0}] /\ edge' \subseteq Conns /\ connfd' \in Fds \cup {0}
    BY <1>1, <1>3, <1>4, <1>6
  <2>3. /\ batch' \in Seq(Fds \cup {LISTEN}) /\ (batch' = << >> <=> pc' = "wait")
        /\ pc' \in {"wait", "dispatch"} /\ (pc' = "respond" <=> current' # Null)
    BY <1>1, <1>2, <1>3, RestFacts DEF Struct, TypeOK
  <2>. QED  BY <2>1, <2>2, <2>3, <1>1, <1>4 DEF Struct, TypeOK, Open
<1>10. BacklogOK'
  <2>1. \A i, j \in 1 .. Len(backlog) : backlog[i] = backlog[j] => i = j
    BY DEF Struct, BacklogOK
  <2>2. ASSUME NEW i \in 1 .. Len(Tail(backlog))
        PROVE  /\ Tail(backlog)[i] # b /\ Tail(backlog)[i] \in Conns
               /\ \A j \in 1 .. Len(Tail(backlog)) : Tail(backlog)[i] = Tail(backlog)[j] => i = j
               /\ peer[Tail(backlog)[i]] # "idle" /\ fd[Tail(backlog)[i]] = 0 /\ served[Tail(backlog)[i]] = Null
    <3>1. i + 1 \in 1 .. Len(backlog) /\ 1 \in 1 .. Len(backlog) /\ i + 1 # 1 /\ Tail(backlog)[i] = backlog[i + 1]
      BY <1>4
    <3>2. Tail(backlog)[i] # b /\ Tail(backlog)[i] \in Conns
      BY <3>1, <2>1, <1>3, <1>4
    <3>3. \A j \in 1 .. Len(Tail(backlog)) : Tail(backlog)[i] = Tail(backlog)[j] => i = j
      <4>. SUFFICES ASSUME NEW j \in 1 .. Len(Tail(backlog)), Tail(backlog)[i] = Tail(backlog)[j]
                    PROVE  i = j
        OBVIOUS
      <4>1. i + 1 = j + 1
        BY <3>1, <2>1, <1>4
      <4>. QED  BY <4>1
    <3>4. peer[Tail(backlog)[i]] # "idle" /\ fd[Tail(backlog)[i]] = 0 /\ served[Tail(backlog)[i]] = Null
      BY <3>1 DEF Struct, BacklogOK, Open
    <3>. QED  BY <3>2, <3>3, <3>4
  <2>. QED  BY <2>2, <1>1, <1>7 DEF BacklogOK, Open
<1>11. \A c \in Conns : ConnOK(c)'
  BY <1>1, <1>5, <1>6, <1>7, <1>8 DEF ConnOK, Open, Readable
<1>12. NoStaleDispatch'
  <2>1. \A g \in Range(Tail(batch)) : g # LISTEN /\ \E c \in Conns : fd[c] = g /\ Readable(c)
    BY <1>2, <1>3, RestFacts DEF Struct, NoStaleDispatch
  <2>2. \A g \in Range(Tail(batch)) : g # LISTEN /\ \E c \in Conns : fd'[c] = g /\ Readable(c)
    BY <2>1, <1>5, <1>7 DEF LISTEN
  <2>3. \A i, j \in 1 .. Len(Tail(batch)) : Tail(batch)[i] = Tail(batch)[j] => i = j
    BY <1>3, RestFacts
  <2>4. pc' # "respond"
    BY <1>1, <1>3, RestFacts
  <2>. QED  BY <2>2, <2>3, <2>4, <1>1 DEF NoStaleDispatch, Readable, LISTEN
<1>13. NoEdgeLost'
  <2>1. \A c \in Conns : c # b /\ fd[c] # 0 /\ Readable(c) => c \in edge \/ fd[c] \in Range(Tail(batch))
    BY <1>2, <1>3, RestFacts DEF Struct, NoEdgeLost, Open, LISTEN
  <2>. QED  BY <2>1, <1>1, <1>7 DEF NoEdgeLost, Open, Readable
<1>14. RespondOK' /\ OwnRequestServed'
  <2>1. pc' # "respond"
    BY <1>1, <1>3, RestFacts
  <2>. QED  BY <2>1, <1>1 DEF Struct, RespondOK, OwnRequestServed
<1>. QED  BY <1>9, <1>10, <1>11, <1>12, <1>13, <1>14 DEF Struct

\* A read() that returns leaves the handler with a method.
LEMMA ReadStep ==
  ASSUME Struct, Read, proc' = "running"
  PROVE  Struct'
<1>. DEFINE c == Owner(Head(batch))
<1>1. pc = "dispatch" /\ Head(batch) # LISTEN /\ proc = "running"
  BY DEF Read
<1>2. c \in Conns /\ fd[c] = Head(batch) /\ Open(c) /\ Readable(c) /\ ConnOK(c)
  BY <1>1, OwnerFacts DEF Struct
<1>3. PICK m \in Parsed(stale, sent[c], request[c]) : m \in Methods /\ meaning' = m
  <2>. "running" \notin Ends
    BY DEF Ends
  <2>. QED  BY DEF Read, Exit
<1>4. /\ stale' = Left(stale, sent[c], request[c]) /\ current' = c /\ pc' = "respond" /\ proc' = proc
      /\ UNCHANGED <<batch, connfd, backlog, fd, edge, served, config, peer, sent, request, sockerr>>
  <2>. "running" \notin Ends
    BY DEF Ends
  <2>. QED  BY DEF Read, Exit, peerVars
<1>5. /\ sent[c] \in {"nothing", "part", "whole"}
      /\ stale \in Methods \cup {"garbage", "mixed"}
  BY <1>2 DEF Struct, TypeOK
<1>6. sent[c] = "whole" /\ request[c] \in Methods /\ stale # "mixed" => m = request[c]
  <2>. DEFINE e == sent[c]
              k == request[c]
  <2>. HIDE DEF e, k
  <2>1. e = "whole" /\ k \in Methods /\ stale # "mixed" => Parsed(stale, e, k) = {k}
    BY <1>5, ParsedFacts DEF e
  <2>. QED  BY <1>3, <2>1 DEF e, k
<1>7. /\ stale' \in Methods \cup {"garbage", "mixed"}
      /\ stale = "mixed" => stale' = "mixed"
      /\ \/ stale' = "mixed"
         \/ sent[c] = "nothing"
         \/ sent[c] = "whole" /\ request[c] \in Methods /\ stale # "mixed"
  BY <1>4, <1>5, LeftFacts
<1>. HIDE DEF c
<1>8. TypeOK'
  <2>1. c # Null
    BY <1>2, ConstantsOK
  <2>. QED  BY <2>1, <1>1, <1>2, <1>3, <1>4, <1>6, <1>7 DEF Struct, TypeOK, Open
<1>9. BacklogOK' /\ (\A d \in Conns : ConnOK(d)') /\ NoEdgeLost'
  BY <1>4 DEF Struct, BacklogOK, ConnOK, NoEdgeLost, Open, Readable
<1>10. NoStaleDispatch'
  BY <1>2, <1>4 DEF Struct, NoStaleDispatch, Readable
<1>11. RespondOK'
  <2>1. sent[c] = "nothing" => peer[c] # "open"
    BY <1>2 DEF Readable
  <2>2. \/ stale' = "mixed"
        \/ peer[c] # "open"
        \/ sent[c] = "whole" /\ m = request[c]
    BY <1>6, <1>7, <2>1
  <2>. QED  BY <2>1, <2>2, <1>2, <1>3, <1>4, <1>6, <1>7 DEF RespondOK, Open, Readable
<1>12. OwnRequestServed'
  BY <1>4, <1>7 DEF Struct, OwnRequestServed
<1>. QED  BY <1>8, <1>9, <1>10, <1>11, <1>12 DEF Struct

-----------------------------------------------------------------------------
(* The handlers.                                                           *)

\* The connection being answered is the one whose event heads the batch.
LEMMA RespondFacts ==
  ASSUME Struct, Responding
  PROVE  /\ batch # << >> /\ pc = "respond"
         /\ current \in Conns /\ fd[current] = Head(batch) /\ Open(current)
         /\ meaning \in Methods
  BY DEF Struct, TypeOK, NoStaleDispatch, RespondOK, Responding

\* Its closing disturbs no other connection.
LEMMA FinishStep ==
  ASSUME Struct, Responding, NEW x \in {"full", "cut", "lost", "none"}, Finish(x)
  PROVE  Struct'
<1>1. /\ batch # << >> /\ pc = "respond"
      /\ current \in Conns /\ fd[current] = Head(batch) /\ Open(current)
      /\ meaning \in Methods
  BY RespondFacts
<1>2. /\ served' = [served EXCEPT ![current] = [by |-> meaning, extent |-> x]]
      /\ fd' = [fd EXCEPT ![current] = 0]
      /\ edge' = edge \ {current}
      /\ batch' = Tail(batch) /\ pc' = Continue(Tail(batch))
      /\ meaning' = "none" /\ current' = Null
      /\ UNCHANGED <<proc, connfd, stale, backlog, config, peer, sent, request, sockerr>>
  BY DEF Finish, CloseFd, peerVars
<1>3. /\ served \in [Conns -> Answers \cup {Null}] /\ fd \in [Conns -> Fds \cup {0}]
      /\ \A c, d \in Conns : fd[c] # 0 /\ fd[c] = fd[d] => c = d
  BY DEF Struct, TypeOK, Open
<1>4. [by |-> meaning, extent |-> x] \in Answers /\ [by |-> meaning, extent |-> x] # Null
  BY <1>1, ConstantsOK DEF Answers
<1>5. /\ served'[current] = [by |-> meaning, extent |-> x] /\ fd'[current] = 0
      /\ \A c \in Conns : c # current => served'[c] = served[c] /\ fd'[c] = fd[c]
  BY <1>1, <1>2, <1>3
<1>6. pc' # "respond"
  BY <1>1, <1>2, RestFacts
<1>7. TypeOK'
  <2>1. \A c, d \in Conns : fd'[c] # 0 /\ fd'[c] = fd'[d] => c = d
    BY <1>3, <1>5
  <2>2. served' \in [Conns -> Answers \cup {Null}] /\ fd' \in [Conns -> Fds \cup {0}]
    BY <1>1, <1>2, <1>3, <1>4
  <2>3. batch' \in Seq(Fds \cup {LISTEN}) /\ (batch' = << >> <=> pc' = "wait") /\ pc' \in {"wait", "dispatch"}
    BY <1>1, <1>2, RestFacts
  <2>. QED  BY <2>1, <2>2, <2>3, <1>2, <1>6 DEF Struct, TypeOK, Open
<1>8. BacklogOK'
  <2>1. \A i \in 1 .. Len(backlog) : backlog[i] \in Conns /\ backlog[i] # current
    BY <1>1 DEF Struct, TypeOK, BacklogOK
  <2>. QED  BY <2>1, <1>2, <1>5 DEF Struct, BacklogOK, Open
<1>9. \A c \in Conns : ConnOK(c)'
  BY <1>1, <1>2, <1>4, <1>5 DEF Struct, ConnOK, Open, Readable
<1>10. NoStaleDispatch'
  <2>1. \A f \in Range(Tail(batch)) : f # fd[current] /\ (IF f = LISTEN THEN backlog # << >>
            ELSE \E c \in Conns : fd[c] = f /\ Readable(c))
    BY <1>1, RestFacts DEF Struct, NoStaleDispatch
  <2>2. \A f \in Range(Tail(batch)) : IF f = LISTEN THEN backlog # << >>
            ELSE \E c \in Conns : fd'[c] = f /\ Readable(c)
    BY <2>1, <1>5
  <2>3. \A i, j \in 1 .. Len(Tail(batch)) : Tail(batch)[i] = Tail(batch)[j] => i = j
    BY <1>1, RestFacts
  <2>. QED  BY <2>2, <2>3, <1>2, <1>6 DEF NoStaleDispatch, Readable, LISTEN
<1>11. NoEdgeLost'
  <2>1. \A c \in Conns : proc = "running" /\ c # current /\ fd[c] # 0 /\ Readable(c) =>
          c \in edge \/ fd[c] \in Range(Tail(batch))
    BY <1>1, <1>3, RestFacts DEF Struct, NoEdgeLost, Open
  <2>. QED  BY <2>1, <1>2, <1>5 DEF NoEdgeLost, Open, Readable
<1>12. RespondOK'
  BY <1>6 DEF RespondOK
<1>13. OwnRequestServed'
  <2>1. sent[current] = "whole" /\ request[current] \in Methods /\ stale # "mixed" => meaning = request[current]
    BY <1>1 DEF Struct, RespondOK
  <2>. QED  BY <2>1, <1>2, <1>5 DEF Struct, OwnRequestServed
<1>. QED  BY <1>7, <1>8, <1>9, <1>10, <1>11, <1>12, <1>13 DEF Struct

\* A handler closes its connection, or ends the process for a cause.
LEMMA RespondCases ==
  ASSUME Struct, Respond
  PROVE  \/ \E x \in {"full", "cut", "lost", "none"} : Finish(x)
         \/ Down("hung")
         \/ /\ Down("aborted") \/ Down("killed") \/ Down("undefined")
            /\ config # "ok" \/ stale = "mixed" \/ \E c \in Conns : Culprit(c)
<1>1. Responding
  BY DEF Respond, RespondConfig, RespondGet, RespondPut, RespondHead, RespondDefault, RespondPost
<1>2. current \in Conns /\ Open(current)
  BY <1>1, RespondFacts
<1>3. meaning # "GET" => stale = "mixed" \/ Culprit(current)
  BY <1>1, <1>2 DEF Struct, RespondOK, Responding, Culprit, Kinds
<1>4. ASSUME WriteAndClose
      PROVE  \/ \E x \in {"full", "cut", "lost", "none"} : Finish(x)
             \/ Down("killed") /\ Culprit(current)
  BY <1>2, <1>4 DEF WriteAndClose, Culprit
<1>5. CASE RespondConfig
  BY <1>5 DEF RespondConfig
<1>6. CASE RespondGet
  BY <1>2, <1>4, <1>6 DEF RespondGet
<1>7. CASE RespondPut
  BY <1>2, <1>3, <1>7 DEF RespondPut
<1>8. CASE RespondHead
  BY <1>2, <1>3, <1>4, <1>8 DEF RespondHead
<1>9. CASE RespondDefault
  BY <1>2, <1>3, <1>4, <1>9 DEF RespondDefault
<1>10. CASE RespondPost
  BY <1>2, <1>3, <1>10 DEF RespondPost
<1>. QED  BY <1>5, <1>6, <1>7, <1>8, <1>9, <1>10 DEF Respond

-----------------------------------------------------------------------------
(* The peers.                                                              *)

LEMMA PeerConnectStep ==
  ASSUME Struct, NEW c \in Conns, PeerConnect(c)
  PROVE  Struct'
<1>1. /\ peer[c] = "idle" /\ peer' = [peer EXCEPT ![c] = "open"] /\ backlog' = Append(backlog, c)
      /\ UNCHANGED <<proc, pc, batch, connfd, stale, meaning, current, fd, edge, served, config>>
      /\ UNCHANGED <<sent, request, sockerr>>
  BY DEF PeerConnect, loopVars
<1>2. /\ ~Open(c) /\ ~Readable(c) /\ served[c] = Null /\ sockerr[c] = "none" /\ c \notin edge
  BY <1>1 DEF Struct, TypeOK, ConnOK, Readable
<1>3. backlog \in Seq(Conns) /\ peer \in [Conns -> {"idle", "open", "fin", "rst"}]
  BY DEF Struct, TypeOK
<1>4. /\ Len(backlog) \in Nat /\ Len(backlog') = Len(backlog) + 1 /\ backlog' \in Seq(Conns) /\ backlog' # << >>
      /\ backlog'[Len(backlog) + 1] = c
      /\ \A i \in 1 .. Len(backlog) : backlog'[i] = backlog[i]
  BY <1>1, <1>3
<1>5. peer'[c] = "open" /\ \A d \in Conns : d # c => peer'[d] = peer[d]
  BY <1>1, <1>3
<1>6. /\ ~Readable(c)' /\ \A d \in Conns : Readable(d) => Readable(d)' /\ d # c
      /\ \A d \in Conns : Readable(d)' => Readable(d)
  BY <1>1, <1>2, <1>5 DEF Readable
<1>7. TypeOK'
  BY <1>1, <1>4, <1>3 DEF Struct, TypeOK, Open
<1>8. BacklogOK'
  <2>1. \A i \in 1 .. Len(backlog) : backlog[i] \in Conns /\ backlog[i] # c
    BY <1>1, <1>3 DEF Struct, BacklogOK
  <2>2. \A i, j \in 1 .. Len(backlog') : backlog'[i] = backlog'[j] => i = j
    <3>. SUFFICES ASSUME NEW i \in 1 .. Len(backlog'), NEW j \in 1 .. Len(backlog'),
                         backlog'[i] = backlog'[j]
                  PROVE  i = j
      OBVIOUS
    <3>1. \A k \in 1 .. Len(backlog') : k # Len(backlog) + 1 =>
            k \in 1 .. Len(backlog) /\ backlog'[k] = backlog[k] /\ backlog'[k] # c
      BY <2>1, <1>4
    <3>2. CASE i = Len(backlog) + 1
      BY <3>1, <3>2, <1>4
    <3>3. CASE i # Len(backlog) + 1
      BY <3>1, <3>3, <1>4 DEF Struct, BacklogOK
    <3>. QED  BY <3>2, <3>3
  <2>3. ASSUME NEW i \in 1 .. Len(backlog')
        PROVE  peer'[backlog'[i]] # "idle" /\ fd'[backlog'[i]] = 0 /\ served'[backlog'[i]] = Null
    <3>1. CASE i = Len(backlog) + 1
      BY <3>1, <1>1, <1>2, <1>4, <1>5 DEF Open
    <3>2. CASE i # Len(backlog) + 1
      <4>1. i \in 1 .. Len(backlog) /\ backlog'[i] = backlog[i]
        BY <3>2, <1>4
      <4>. QED  BY <4>1, <2>1, <1>1, <1>5 DEF Struct, BacklogOK, Open
    <3>. QED  BY <3>1, <3>2
  <2>. QED  BY <2>2, <2>3 DEF BacklogOK, Open
<1>9. \A d \in Conns : ConnOK(d)'
  <2>. SUFFICES ASSUME NEW d \in Conns PROVE ConnOK(d)'
    OBVIOUS
  <2>1. ConnOK(d)
    BY DEF Struct
  <2>. QED  BY <2>1, <1>1, <1>2, <1>5, <1>6 DEF ConnOK, Open
<1>10. NoStaleDispatch'
  BY <1>1, <1>4, <1>6 DEF Struct, NoStaleDispatch
<1>11. NoEdgeLost'
  BY <1>1, <1>6 DEF Struct, NoEdgeLost, Open
<1>12. RespondOK' /\ OwnRequestServed'
  BY <1>1, <1>2, <1>5, <1>6 DEF Struct, RespondOK, OwnRequestServed, Culprit, Open
<1>. QED  BY <1>7, <1>8, <1>9, <1>10, <1>11, <1>12 DEF Struct

\* What arrives on a connection that is registered is to be reported.
LEMMA ArrivalStep ==
  ASSUME Struct, NEW c \in Conns, served[c] = Null, peer[c] # "idle",
         UNCHANGED <<proc, pc, batch, connfd, stale, meaning, current, backlog, fd, served, config>>,
         edge' = Notified(c),
         Readable(c)',
         \A d \in Conns : d # c =>
           peer'[d] = peer[d] /\ sent'[d] = sent[d] /\ request'[d] = request[d] /\ sockerr'[d] = sockerr[d],
         peer'[c] # "idle",
         peer[c] # "open" => peer'[c] # "open",
         sent[c] # "nothing" => sent'[c] # "nothing",
         sent'[c] # sent[c] => peer[c] = "open" /\ sent[c] \in {"nothing", "part"},
         sent'[c] = sent[c] => request'[c] = request[c],
         sent'[c] = "whole" /\ sent'[c] # sent[c] => request'[c] \in Requests,
         sockerr'[c] # "none" => peer'[c] = "rst",
         peer' \in [Conns -> {"idle", "open", "fin", "rst"}],
         sent' \in [Conns -> {"nothing", "part", "whole"}],
         request' \in [Conns -> Requests \cup {"none"}],
         sockerr' \in [Conns -> {"none", "ECONNRESET", "EPIPE"}]
  PROVE  Struct'
<1>1. \A d \in Conns : Readable(d) => Readable(d)'
  BY DEF Readable
<1>2. edge \subseteq edge' /\ edge' \subseteq edge \cup {c} /\ (c \in edge' => Open(c)) /\ (Open(c) => c \in edge')
  BY DEF Notified, Struct, ConnOK
<1>3. TypeOK'
  BY <1>2 DEF Struct, TypeOK, Open
<1>4. BacklogOK'
  <2>1. \A d \in Conns : peer[d] # "idle" => peer'[d] # "idle"
    OBVIOUS
  <2>2. \A i \in 1 .. Len(backlog) : backlog[i] \in Conns
    BY DEF Struct, TypeOK
  <2>. QED  BY <2>1, <2>2 DEF Struct, BacklogOK, Open
<1>5. \A d \in Conns : ConnOK(d)'
  <2>. SUFFICES ASSUME NEW d \in Conns PROVE ConnOK(d)'
    OBVIOUS
  <2>1. ConnOK(d)
    BY DEF Struct
  <2>2. CASE d = c
    BY <2>1, <2>2, <1>2 DEF ConnOK, Open, Struct, TypeOK
  <2>3. CASE d # c
    BY <2>1, <2>3, <1>1, <1>2 DEF ConnOK, Open
  <2>. QED  BY <2>2, <2>3
<1>6. NoStaleDispatch'
  BY <1>1 DEF Struct, NoStaleDispatch
<1>7. NoEdgeLost'
  <2>. SUFFICES ASSUME NEW d \in Conns, proc = "running", Open(d), Readable(d)'
                PROVE  d \in edge' \/ fd[d] \in Range(batch)
    BY DEF NoEdgeLost, Open
  <2>1. CASE d = c
    BY <2>1, <1>2
  <2>2. CASE d # c
    BY <2>2, <1>2 DEF Struct, NoEdgeLost, Readable
  <2>. QED  BY <2>1, <2>2
<1>8. RespondOK'
  <2>. SUFFICES ASSUME pc = "respond"
                PROVE  RespondOK'
    BY DEF RespondOK
  <2>1. CASE current = c
    BY <2>1, <1>1 DEF Struct, TypeOK, RespondOK, Culprit, Open
  <2>2. CASE current # c
    BY <2>2, <1>1 DEF Struct, RespondOK, Culprit, Open
  <2>. QED  BY <2>1, <2>2
<1>9. OwnRequestServed'
  BY DEF Struct, OwnRequestServed
<1>. QED  BY <1>3, <1>4, <1>5, <1>6, <1>7, <1>8, <1>9 DEF Struct

LEMMA PeerSendStep ==
  ASSUME Struct, NEW c \in Conns, PeerSend(c)
  PROVE  Struct'
<1>1. /\ peer[c] = "open" /\ served[c] = Null /\ edge' = Notified(c)
      /\ UNCHANGED <<proc, pc, batch, connfd, stale, meaning, current, backlog, fd, served, config>>
      /\ UNCHANGED <<peer, sockerr>>
  BY DEF PeerSend, loopVars
<1>2. /\ peer \in [Conns -> {"idle", "open", "fin", "rst"}]
      /\ sent \in [Conns -> {"nothing", "part", "whole"}]
      /\ request \in [Conns -> Requests \cup {"none"}]
      /\ sockerr \in [Conns -> {"none", "ECONNRESET", "EPIPE"}]
      /\ sockerr[c] = "none"
  BY <1>1 DEF Struct, TypeOK, ConnOK
<1>3. \/ /\ sent[c] = "nothing" /\ sent' = [sent EXCEPT ![c] = "part"] /\ request' = request
      \/ /\ sent[c] \in {"nothing", "part"}
         /\ sent' = [sent EXCEPT ![c] = "whole"]
         /\ \E m \in Requests : request' = [request EXCEPT ![c] = m]
  BY <1>2 DEF PeerSend
<1>4. CASE sent[c] = "nothing" /\ sent' = [sent EXCEPT ![c] = "part"] /\ request' = request
  <2>1. sent'[c] = "part" /\ \A d \in Conns : d # c => sent'[d] = sent[d]
    BY <1>2, <1>4
  <2>. QED  BY <2>1, <1>1, <1>2, <1>4, ArrivalStep DEF Readable
<1>5. ASSUME sent[c] \in {"nothing", "part"},
             sent' = [sent EXCEPT ![c] = "whole"],
             NEW m \in Requests, request' = [request EXCEPT ![c] = m]
      PROVE  Struct'
  <2>1. /\ sent'[c] = "whole" /\ request'[c] = m
        /\ \A d \in Conns : d # c => sent'[d] = sent[d] /\ request'[d] = request[d]
        /\ sent' \in [Conns -> {"nothing", "part", "whole"}]
        /\ request' \in [Conns -> Requests \cup {"none"}]
    BY <1>2, <1>5
  <2>. QED  BY <2>1, <1>1, <1>2, <1>5, ArrivalStep DEF Readable
<1>. QED  BY <1>3, <1>4, <1>5

LEMMA PeerShutdownStep ==
  ASSUME Struct, NEW c \in Conns, PeerShutdown(c)
  PROVE  Struct'
<1>1. /\ peer[c] = "open" /\ served[c] = Null /\ edge' = Notified(c)
      /\ peer' = [peer EXCEPT ![c] = "fin"]
      /\ UNCHANGED <<proc, pc, batch, connfd, stale, meaning, current, backlog, fd, served, config>>
      /\ UNCHANGED <<sent, request, sockerr>>
  BY DEF PeerShutdown, loopVars
<1>2. /\ peer \in [Conns -> {"idle", "open", "fin", "rst"}]
      /\ sent \in [Conns -> {"nothing", "part", "whole"}]
      /\ request \in [Conns -> Requests \cup {"none"}]
      /\ sockerr \in [Conns -> {"none", "ECONNRESET", "EPIPE"}]
      /\ sockerr[c] = "none"
  BY <1>1 DEF Struct, TypeOK, ConnOK
<1>3. peer'[c] = "fin" /\ \A d \in Conns : d # c => peer'[d] = peer[d]
  BY <1>1, <1>2
<1>. QED  BY <1>1, <1>2, <1>3, ArrivalStep DEF Readable

LEMMA PeerResetStep ==
  ASSUME Struct, NEW c \in Conns, PeerReset(c)
  PROVE  Struct'
<1>1. /\ peer[c] \in {"open", "fin"} /\ served[c] = Null /\ edge' = Notified(c)
      /\ peer' = [peer EXCEPT ![c] = "rst"]
      /\ sockerr' = [sockerr EXCEPT ![c] = IF peer[c] = "open" THEN "ECONNRESET" ELSE "EPIPE"]
      /\ UNCHANGED <<proc, pc, batch, connfd, stale, meaning, current, backlog, fd, served, config>>
      /\ UNCHANGED <<sent, request>>
  BY DEF PeerReset, loopVars
<1>2. /\ peer \in [Conns -> {"idle", "open", "fin", "rst"}]
      /\ sent \in [Conns -> {"nothing", "part", "whole"}]
      /\ request \in [Conns -> Requests \cup {"none"}]
      /\ sockerr \in [Conns -> {"none", "ECONNRESET", "EPIPE"}]
  BY DEF Struct, TypeOK
<1>3. /\ peer'[c] = "rst" /\ \A d \in Conns : d # c => peer'[d] = peer[d] /\ sockerr'[d] = sockerr[d]
      /\ peer' \in [Conns -> {"idle", "open", "fin", "rst"}]
      /\ sockerr' \in [Conns -> {"none", "ECONNRESET", "EPIPE"}]
  BY <1>1, <1>2
<1>. QED  BY <1>1, <1>2, <1>3, ArrivalStep DEF Readable

-----------------------------------------------------------------------------
(* The inductive invariant holds.                                          *)

LEMMA InitInv == Init => IInv
<1>. SUFFICES ASSUME Init PROVE IInv
  OBVIOUS
<1>. USE DEF Init
<1>1. TypeOK
  BY ConstantsOK DEF TypeOK, Open, Methods
<1>2. BacklogOK
  BY DEF BacklogOK
<1>3. \A c \in Conns : ConnOK(c)
  BY DEF ConnOK, Open
<1>4. NoStaleDispatch
  BY DEF NoStaleDispatch, Range
<1>5. NoEdgeLost /\ RespondOK /\ OwnRequestServed /\ DownNeedsCause
  BY DEF NoEdgeLost, RespondOK, OwnRequestServed, DownNeedsCause, Open
<1>. QED  BY <1>1, <1>2, <1>3, <1>4, <1>5 DEF IInv, Struct

\* A read() that ends the process does so for the connection it reads from, or
\* for what requests before it left.
LEMMA ReadDown ==
  ASSUME Struct, Read, proc' # "running"
  PROVE  /\ DownState /\ proc' \in Procs \ {"running"}
         /\ stale = "mixed" \/ \E c \in Conns : Culprit(c)
<1>. DEFINE c == Owner(Head(batch))
<1>1. pc = "dispatch" /\ Head(batch) # LISTEN /\ proc = "running"
  BY DEF Read
<1>2. c \in Conns /\ Open(c) /\ Readable(c) /\ ConnOK(c)
  BY <1>1, OwnerFacts DEF Struct
<1>3. DownState /\ proc' \in Procs \ {"running"}
  BY <1>1 DEF Read, Exit, DownState, loopVars, Procs, Ends
<1>4. \/ sockerr[c] = "ECONNRESET"
      \/ \E m \in Ends : m \in Parsed(stale, sent[c], request[c])
  BY <1>1 DEF Read, Exit
<1>5. /\ sent[c] \in {"nothing", "part", "whole"} /\ stale \in Methods \cup {"garbage", "mixed"}
      /\ sent[c] = "whole" => request[c] \in Kinds
  BY <1>2, ConstantsOK DEF Struct, TypeOK, ConnOK
<1>. HIDE DEF c
<1>6. CASE sockerr[c] = "ECONNRESET"
  BY <1>2, <1>3, <1>6 DEF ConnOK, Culprit
<1>7. CASE sent[c] = "nothing"
  BY <1>2, <1>3, <1>7 DEF Readable, Culprit
<1>8. CASE sent[c] = "part"
  BY <1>2, <1>3, <1>8 DEF Culprit
<1>9. CASE sent[c] = "whole" /\ sockerr[c] # "ECONNRESET"
  <2>1. request[c] \notin Methods \/ stale = "mixed"
    BY <1>4, <1>5, <1>9, ParsedFacts DEF Ends, Methods
  <2>. QED  BY <2>1, <1>2, <1>3, <1>5, <1>9 DEF Culprit, Kinds, Methods
<1>. QED  BY <1>5, <1>6, <1>7, <1>8, <1>9

LEMMA StepInv == IInv /\ [Next]_vars => IInv'
<1>. SUFFICES ASSUME IInv, [Next]_vars PROVE IInv'
  OBVIOUS
<1>0. Struct
  BY DEF IInv
<1>. DEFINE Cause == config # "ok" \/ FreeFds = {} \/ stale = "mixed" \/ \E c \in Conns : Culprit(c)
<1>. DEFINE Calm == proc' \in {"hung", "exited"} \/ (proc' = "exit_failure" /\ pc = "wait")
<1>1. ASSUME DownState, proc' \in Procs \ {"running"}, Calm \/ Cause
      PROVE  IInv'
  <2>1. Struct'
    BY <1>0, <1>1, DownStruct
  <2>2. DownNeedsCause'
    <3>1. CASE Calm
      BY <3>1, <1>1 DEF DownNeedsCause, DownState
    <3>2. CASE Cause
      BY <3>2, <1>1, DownCause
    <3>. QED  BY <3>1, <3>2, <1>1
  <2>. QED  BY <2>1, <2>2 DEF IInv
<1>2. ASSUME NEW how \in Procs \ {"running"}, Down(how), how \in {"hung", "exited"} \/ Cause
      PROVE  IInv'
  <2>1. DownState /\ proc' = how
    BY <1>2 DEF Down, DownState
  <2>. QED  BY <2>1, <1>1, <1>2
<1>12. CASE EpollWaitFails
  BY <1>1, <1>12 DEF EpollWaitFails, DownState, Procs
<1>3. ASSUME Struct', proc' \in {"running", "hung"} PROVE IInv'
  BY <1>3 DEF IInv, DownNeedsCause
<1>4. CASE EpollWait
  BY <1>0, <1>3, <1>4, EpollWaitStep DEF EpollWait
<1>5. CASE AcceptOne
  <2>1. CASE proc' = "running"
    BY <2>1, <1>0, <1>3, <1>5, AcceptStep
  <2>2. CASE proc' # "running"
    <3>1. FreeFds = {} /\ Exit
      BY <1>5, <2>2 DEF AcceptOne
    <3>. QED  BY <3>1, <1>1 DEF Exit, DownState, Procs
  <2>. QED  BY <2>1, <2>2
<1>6. CASE Read
  <2>1. CASE proc' = "running"
    BY <2>1, <1>0, <1>3, <1>6, ReadStep
  <2>2. CASE proc' # "running"
    BY <2>2, <1>0, <1>1, <1>6, ReadDown
  <2>. QED  BY <2>1, <2>2
<1>7. CASE Respond
  <2>1. Responding /\ proc = "running"
    BY <1>7 DEF Respond, RespondConfig, RespondGet, RespondPut, RespondHead, RespondDefault, RespondPost,
                Responding
  <2>2. CASE \E x \in {"full", "cut", "lost", "none"} : Finish(x)
    BY <2>1, <2>2, <1>0, <1>3, FinishStep DEF Finish
  <2>3. CASE Down("hung")
    BY <2>3, <1>2 DEF Procs
  <2>4. CASE (Down("aborted") \/ Down("killed") \/ Down("undefined")) /\ Cause
    BY <2>4, <1>2 DEF Procs
  <2>. QED  BY <2>2, <2>3, <2>4, <1>0, <1>7, RespondCases
<1>8. CASE SigInt
  BY <1>2, <1>8 DEF SigInt, Procs
<1>9. ASSUME NEW c \in Conns, PeerConnect(c) \/ PeerSend(c) \/ PeerShutdown(c) \/ PeerReset(c)
      PROVE  IInv'
  <2>1. proc' \in {"running", "hung"}
    BY <1>9 DEF PeerConnect, PeerSend, PeerShutdown, PeerReset, Up
  <2>2. Struct'
    BY <1>0, <1>9, PeerConnectStep, PeerSendStep, PeerShutdownStep, PeerResetStep
  <2>. QED  BY <2>1, <2>2, <1>3
<1>10. CASE EditConfig
  <2>1. /\ proc' \in {"running", "hung"} /\ config' \in {"ok", "missing", "bad"}
        /\ UNCHANGED <<proc, pc, loopVars, backlog, fd, edge, served, peerVars>>
    BY <1>10 DEF EditConfig, Up
  <2>2. TypeOK'
    BY <2>1, <1>0 DEF Struct, TypeOK, Open, loopVars, peerVars
  <2>3. BacklogOK' /\ (\A c \in Conns : ConnOK(c)') /\ NoStaleDispatch' /\ NoEdgeLost'
    BY <2>1, <1>0 DEF Struct, BacklogOK, ConnOK, NoStaleDispatch, NoEdgeLost, Open, Readable, loopVars, peerVars
  <2>4. RespondOK' /\ OwnRequestServed'
    BY <2>1, <1>0 DEF Struct, RespondOK, OwnRequestServed, Culprit, Open, Readable, loopVars, peerVars
  <2>. QED  BY <2>1, <2>2, <2>3, <2>4, <1>3 DEF Struct
<1>11. CASE UNCHANGED vars
  <2>1. CASE proc = "running"
    <3>1. Struct'
      <4>1. TypeOK'
        BY <1>0, <1>11 DEF Struct, TypeOK, Open, vars, loopVars, peerVars
      <4>2. BacklogOK' /\ (\A c \in Conns : ConnOK(c)') /\ NoStaleDispatch' /\ NoEdgeLost'
        BY <1>0, <1>11 DEF Struct, BacklogOK, ConnOK, NoStaleDispatch, NoEdgeLost, Open, Readable,
                           vars, loopVars, peerVars
      <4>3. RespondOK' /\ OwnRequestServed'
        BY <1>0, <1>11 DEF Struct, RespondOK, OwnRequestServed, Culprit, Open, Readable, vars, loopVars, peerVars
      <4>. QED  BY <4>1, <4>2, <4>3 DEF Struct
    <3>. QED  BY <3>1, <2>1, <1>3, <1>11 DEF vars
  <2>2. CASE proc # "running"
    <3>1. DownState /\ proc' \in Procs \ {"running"}
      BY <2>2, <1>0, <1>11 DEF vars, DownState, Struct, TypeOK, Procs
    <3>2. proc \in {"hung", "exited"} \/ (proc = "exit_failure" /\ pc = "wait") \/ Cause
      BY <2>2, <1>0 DEF IInv, DownNeedsCause, Struct, TypeOK
    <3>. QED  BY <3>1, <3>2, <1>1, <1>11 DEF vars
  <2>. QED  BY <2>1, <2>2
<1>. QED  BY <1>4, <1>5, <1>6, <1>7, <1>8, <1>9, <1>10, <1>11, <1>12 DEF Next, Loop, PeerNext

\* The invariant the other theorems rest on.
THEOREM Invariance == Spec => []IInv
  BY InitInv, StepInv, PTL DEF Spec

\* Every variable keeps to its type; no two connections share a descriptor.
THEOREM TypeCorrect == Spec => []TypeOK
<1>1. IInv => TypeOK
  BY DEF IInv, Struct
<1>. QED  BY <1>1, Invariance, PTL

\* The events of a batch are still true when the loop gets to them.
THEOREM DispatchCorrect == Spec => []NoStaleDispatch
<1>1. IInv => NoStaleDispatch
  BY DEF IInv, Struct
<1>. QED  BY <1>1, Invariance, PTL

\* No edge-triggered readiness is lost between accept(), epoll and the batch.
THEOREM EdgesCorrect == Spec => []NoEdgeLost
<1>1. IInv => NoEdgeLost
  BY DEF IInv, Struct
<1>. QED  BY <1>1, Invariance, PTL

\* A plain request that came whole is answered by the handler of the method it
\* names, whatever plain requests of whatever lengths came before it.
THEOREM AnswerCorrect == Spec => []OwnRequestServed
<1>1. IInv => OwnRequestServed
  BY DEF IInv, Struct
<1>. QED  BY <1>1, Invariance, PTL

\* No peer but the culprits DownNeedsCause lists brings the server down: whole
\* plain GETs never do, of any number of connections.
THEOREM DownCorrect == Spec => []DownNeedsCause
<1>1. IInv => DownNeedsCause
  BY DEF IInv
<1>. QED  BY <1>1, Invariance, PTL

-----------------------------------------------------------------------------
(* What steps do to connections: the descriptors, and the refinement.      *)

\* Descriptors change when a queued connection is accepted, and when the
\* connection being answered is closed.
ClosesCurrent ==
  \E x \in {"full", "cut", "lost", "none"} : Responding /\ Finish(x)
Accepts ==
  LET c == Head(backlog) IN
  /\ c \in Conns /\ ~Open(c) /\ served[c] = Null
  /\ \E f \in Fds : f # 0 /\ fd' = [fd EXCEPT ![c] = f]
  /\ served' = served /\ proc = "running" /\ proc' = proc
GoesDown == proc \in {"running", "hung"} /\ proc' # "running" /\ UNCHANGED <<fd, served>>

LEMMA StepCases ==
  ASSUME IInv, [Next]_vars
  PROVE  ClosesCurrent \/ Accepts \/ GoesDown \/ UNCHANGED <<fd, served, proc>>
<1>0. Struct
  BY DEF IInv
<1>1. CASE AcceptOne
  <2>1. CASE FreeFds = {} /\ Exit
    BY <1>1, <2>1 DEF AcceptOne, Exit, GoesDown
  <2>2. ASSUME NEW f \in FreeFds, fd' = [fd EXCEPT ![Head(backlog)] = f], UNCHANGED <<proc, served>>
        PROVE  Accepts
    <3>1. backlog \in Seq(Conns) /\ backlog # << >>
      BY <1>0, <1>1 DEF AcceptOne, Struct, TypeOK
    <3>2. Head(backlog) \in Conns /\ Head(backlog) = backlog[1] /\ 1 \in 1 .. Len(backlog)
      BY <3>1, TailFacts
    <3>3. ~Open(Head(backlog)) /\ served[Head(backlog)] = Null
      BY <3>2, <1>0 DEF Struct, BacklogOK
    <3>4. f \in Fds /\ f # 0
      BY ConstantsOK DEF FreeFds
    <3>. QED  BY <3>2, <3>3, <3>4, <2>2, <1>1 DEF Accepts, AcceptOne
  <2>. QED  BY <2>1, <2>2, <1>1 DEF AcceptOne
<1>2. CASE Read
  BY <1>2 DEF Read, Exit, GoesDown, Ends
<1>3. CASE Respond
  <2>1. Responding /\ proc = "running"
    BY <1>3 DEF Respond, RespondConfig, RespondGet, RespondPut, RespondHead, RespondDefault, RespondPost,
                Responding
  <2>. QED  BY <2>1, <1>0, <1>3, RespondCases DEF Down, GoesDown, ClosesCurrent
<1>. QED
  BY <1>1, <1>2, <1>3 DEF Next, Loop, EpollWait, EpollWaitFails, SigInt, Down, GoesDown, PeerNext, EditConfig, PeerConnect,
                          PeerSend, PeerShutdown, PeerReset, vars

\* Of what StepCases says, what the fields of a closed connection are.
LEMMA CloseFacts ==
  ASSUME Struct, ClosesCurrent
  PROVE  /\ current \in Conns /\ Open(current) /\ fd[current] = Head(batch) /\ proc = "running" /\ proc' = proc
         /\ fd' = [fd EXCEPT ![current] = 0] /\ Head(batch) \notin Range(batch')
         /\ \E a \in Answers : served' = [served EXCEPT ![current] = a]
<1>1. PICK x \in {"full", "cut", "lost", "none"} : Responding /\ Finish(x)
  BY DEF ClosesCurrent
<1>2. batch # << >> /\ current \in Conns /\ fd[current] = Head(batch) /\ Open(current) /\ meaning \in Methods
  BY <1>1, RespondFacts
<1>3. batch' = Tail(batch) /\ Head(batch) \notin Range(Tail(batch))
  BY <1>1, <1>2, RestFacts DEF Finish
<1>4. [by |-> meaning, extent |-> x] \in Answers
  BY <1>2 DEF Answers
<1>. QED  BY <1>1, <1>2, <1>3, <1>4 DEF Finish, CloseFd, Responding

\* A descriptor in a batch is not closed, and its number not given to another
\* connection, before its own event is handled.
THEOREM EventCorrect == Spec => EventKeepsItsConnection
<1>1. IInv /\ [Next]_vars =>
        [\A c \in Conns :
           Open(c) /\ fd[c] \in Range(batch) /\ fd'[c] # fd[c] =>
             fd[c] = Head(batch) /\ fd'[c] = 0 /\ fd[c] \notin Range(batch')]_vars
  <2>. SUFFICES ASSUME IInv, [Next]_vars, NEW c \in Conns,
                       Open(c), fd[c] \in Range(batch), fd'[c] # fd[c]
                PROVE  fd[c] = Head(batch) /\ fd'[c] = 0 /\ fd[c] \notin Range(batch')
    OBVIOUS
  <2>1. Struct /\ fd \in [Conns -> Fds \cup {0}]
    BY DEF IInv, Struct, TypeOK
  <2>2. CASE ClosesCurrent
    <3>1. /\ current \in Conns /\ fd[current] = Head(batch) /\ Head(batch) \notin Range(batch')
          /\ fd' = [fd EXCEPT ![current] = 0]
      BY <2>1, <2>2, CloseFacts
    <3>2. c = current
      BY <2>1, <3>1
    <3>. QED  BY <2>1, <3>1, <3>2
  <2>3. CASE Accepts
    BY <2>1, <2>3 DEF Accepts, Open
  <2>4. CASE GoesDown \/ UNCHANGED <<fd, served, proc>>
    BY <2>4 DEF GoesDown
  <2>. QED  BY <2>2, <2>3, <2>4, StepCases
<1>. QED  BY <1>1, Invariance, PTL DEF Spec, EventKeepsItsConnection

\* The loop implements the one-shot server: a connection is accepted once and
\* answered at most once, by being closed.
THEOREM Refinement == Spec => ImplementsOneShot
<1>. DEFINE Opened == {c \in Conns : Open(c)}
<1>1. Init => OneShotServer!Init
  BY DEF Init, OneShotServer!Init, Open
<1>2. IInv /\ [Next]_vars => [OneShotServer!Next]_OneShotServer!vars
  <2>. SUFFICES ASSUME IInv, [Next]_vars
                PROVE  [OneShotServer!Next]_OneShotServer!vars
    OBVIOUS
  <2>1. Struct /\ fd \in [Conns -> Fds \cup {0}]
    BY DEF IInv, Struct, TypeOK
  <2>2. CASE ClosesCurrent
    <3>1. /\ current \in Conns /\ Open(current) /\ proc = "running" /\ proc' = proc
          /\ fd' = [fd EXCEPT ![current] = 0]
          /\ \E a \in Answers : served' = [served EXCEPT ![current] = a]
      BY <2>1, <2>2, CloseFacts
    <3>2. Opened' = Opened \ {current}
      BY <2>1, <3>1 DEF Open
    <3>3. OneShotServer!Close(current)
      BY <3>1, <3>2 DEF OneShotServer!Close
    <3>. QED  BY <3>1, <3>3 DEF OneShotServer!Next
  <2>3. CASE Accepts
    <3>. DEFINE b == Head(backlog)
    <3>1. PICK f \in Fds : f # 0 /\ fd' = [fd EXCEPT ![b] = f]
      BY <2>3 DEF Accepts
    <3>2. b \in Conns /\ ~Open(b) /\ served[b] = Null /\ served' = served /\ proc = "running" /\ proc' = proc
      BY <2>3 DEF Accepts
    <3>. HIDE DEF b
    <3>3. Opened' = Opened \cup {b}
      BY <2>1, <3>1, <3>2 DEF Open
    <3>4. OneShotServer!Accept(b)
      BY <3>2, <3>3 DEF OneShotServer!Accept
    <3>. QED  BY <3>2, <3>4 DEF OneShotServer!Next
  <2>4. CASE GoesDown
    <3>1. Opened' = Opened /\ served' = served /\ (proc' = "running") = FALSE
      BY <2>4 DEF GoesDown, Open
    <3>2. CASE proc = "running"
      BY <3>1, <3>2 DEF OneShotServer!Next, OneShotServer!GoDown
    <3>3. CASE proc = "hung"
      BY <3>1, <3>3 DEF OneShotServer!vars
    <3>. QED  BY <3>2, <3>3, <2>4 DEF GoesDown
  <2>5. CASE UNCHANGED <<fd, served, proc>>
    BY <2>5 DEF OneShotServer!vars, Open
  <2>. QED  BY <2>2, <2>3, <2>4, <2>5, StepCases
<1>. QED  BY <1>1, <1>2, Invariance, PTL DEF Spec, ImplementsOneShot, OneShotServer!Spec
=============================================================================
