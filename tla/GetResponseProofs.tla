-------------------------- MODULE GetResponseProofs --------------------------
(***************************************************************************)
(* What holds of GetResponse for every size of the buffer, every length of *)
(* a page and every number of edits.                                       *)
(***************************************************************************)
EXTENDS GetResponse, SequenceTheorems, TLAPS

\* The contents of the site, and of the page that is open.
PagesOK ==
  /\ refusal \in Refusals \cup {"none"}
  /\ version \in 1 .. MaxVersion
  /\ page \in Seq(1 .. version) /\ opened \in Seq(1 .. version)
  /\ linked \in BOOLEAN /\ steady \in BOOLEAN
  /\ linked => opened = page

\* The status tells which file was opened, and what is in buff_ is that file's.
AnswerOK ==
  /\ pc \in {"idle", "read", "write", "undefined"}
  /\ response_status \in {200, 403, 404, 500, 503}
  /\ fileno \in {"none", "page", "404.html", "500.html"}
  /\ pc = "idle" => fileno = "none"
  /\ pc # "idle" => (fileno = "page" <=> response_status = 200)
  /\ fileno = "404.html" => response_status = 404
  /\ fileno = "500.html" => response_status = 500
  /\ body \in Seq(Int) /\ offset = Len(body)
  /\ BodyOfStatus

\* How far the loop is through buff_, and through a page nobody edits: it has
\* read nothing or all of it, or buff_ is full.
ProgressOK ==
  /\ pc = "read" => offset < MAXLINE
  /\ pc = "undefined" => ~steady
  /\ pc \in {"read", "write"} /\ response_status = 200 /\ steady =>
       /\ offset <= Len(opened) /\ offset <= MAXLINE
       /\ body = SubSeq(opened, 1, offset)
       /\ \/ pc = "read" /\ offset = 0
          \/ offset = Len(opened)
          \/ pc = "write" /\ offset = MAXLINE

IInv == PagesOK /\ AnswerOK /\ ProgressOK

-----------------------------------------------------------------------------
(* Facts about pages.                                                      *)

\* A page written by edits up to v is one written by edits up to v + 1.
LEMMA LaterVersion ==
  ASSUME NEW v \in Nat, NEW p \in Seq(1 .. v)
  PROVE  p \in Seq(1 .. v + 1)
<1>1. \A i \in 1 .. Len(p) : p[i] \in 1 .. v + 1
  OBVIOUS
<1>. QED  BY <1>1

\* New contents are a page of the edit that makes them.
LEMMA NewContents ==
  ASSUME NEW v \in Nat \ {0}, NEW p \in Contents(v)
  PROVE  p \in Seq(1 .. v)
<1>1. PICK n \in 0 .. MaxLen : p = [i \in 1 .. n |-> v]
  BY DEF Contents
<1>2. p \in [1 .. n -> 1 .. v] /\ n \in Nat
  BY <1>1
<1>. QED  BY <1>2

\* What is left of a page, at most MAXLINE bytes of it.
LEMMA PageChunk ==
  ASSUME IInv, fileno = "page", NEW chunk \in Chunks
  PROVE  /\ chunk \in Seq(Int)
         /\ \A i \in 1 .. Len(chunk) : chunk[i] > 0
         /\ Len(chunk) <= MAXLINE
         /\ offset <= Len(opened) =>
              Len(chunk) = IF offset + MAXLINE < Len(opened) THEN MAXLINE ELSE Len(opened) - offset
         /\ offset = 0 => chunk = SubSeq(opened, 1, Len(chunk))
         /\ offset >= Len(opened) => chunk = << >>
<1> DEFINE end == IF offset + MAXLINE < Len(opened) THEN offset + MAXLINE ELSE Len(opened)
<1>1. chunk = SubSeq(opened, offset + 1, end)
  BY DEF Chunks, ErrorByte
<1>2. /\ opened \in Seq(1 .. version) /\ offset \in Nat /\ MAXLINE \in Nat \ {0}
      /\ version \in Nat
  BY ConstantsOK DEF IInv, PagesOK, AnswerOK
<1>3. end \in Nat /\ end <= Len(opened)
  BY <1>2
<1>4. Len(chunk) = IF offset + 1 <= end THEN end - offset ELSE 0
  BY <1>1, <1>2, <1>3
<1>5. \A i \in 1 .. Len(chunk) : chunk[i] = opened[offset + i]
  BY <1>1, <1>2, <1>3, <1>4
<1>6. ASSUME NEW i \in 1 .. Len(chunk) PROVE chunk[i] \in 1 .. version
  <2>1. offset + i \in 1 .. Len(opened)
    BY <1>2, <1>3, <1>4
  <2>2. opened[offset + i] \in 1 .. version
    BY <1>2, <2>1, ElementOfSeq
  <2>. QED  BY <1>5, <2>2
<1>7. chunk \in Seq(Int)
  BY <1>1, <1>2, <1>3
<1>8. offset = 0 => chunk = SubSeq(opened, 1, Len(chunk))
  BY <1>1, <1>2, <1>3, <1>4
<1>9. \A i \in 1 .. Len(chunk) : chunk[i] > 0
  BY <1>2, <1>6
<1>10. Len(chunk) <= MAXLINE
  BY <1>2, <1>3, <1>4
<1>11. offset <= Len(opened) =>
         Len(chunk) = IF offset + MAXLINE < Len(opened) THEN MAXLINE ELSE Len(opened) - offset
  BY <1>2, <1>4
<1>12. ASSUME offset >= Len(opened) PROVE chunk = << >>
  <2>1. ~(offset + 1 <= end)
    BY <1>2, <1>3, <1>12
  <2>2. Len(chunk) = 0
    BY <1>4, <2>1
  <2>. QED  BY <1>7, <2>2
<1> HIDE DEF end
<1>. QED  BY <1>7, <1>8, <1>9, <1>10, <1>11, <1>12

\* A read() of an error page, or of none.
LEMMA ErrorChunk ==
  ASSUME IInv, fileno # "page", NEW chunk \in Chunks
  PROVE  /\ chunk \in Seq(Int)
         /\ Len(chunk) <= MAXLINE
         /\ offset > 0 => chunk = << >>
         /\ fileno = "none" => chunk = << >>
         /\ fileno = "404.html" => \A i \in 1 .. Len(chunk) : chunk[i] = -404
         /\ fileno = "500.html" => \A i \in 1 .. Len(chunk) : chunk[i] = -500
<1>1. CASE fileno \in {"404.html", "500.html"} /\ offset = 0
  <2>1. PICK n \in 0 .. MAXLINE : chunk = [i \in 1 .. n |-> ErrorByte[fileno]]
    BY <1>1 DEF Chunks, ErrorByte
  <2>2. ErrorByte[fileno] = IF fileno = "404.html" THEN -404 ELSE -500
    BY <1>1 DEF ErrorByte
  <2>. QED  BY <1>1, <2>1, <2>2, ConstantsOK
<1>2. CASE fileno = "none" \/ offset # 0
  <2>1. chunk = << >>
    BY <1>2 DEF Chunks, ErrorByte
  <2>. QED  BY <2>1, ConstantsOK
<1>. QED  BY <1>1, <1>2 DEF IInv, AnswerOK

-----------------------------------------------------------------------------
(* The invariant.                                                          *)

\* Before the first response nothing is open.
LEMMA InitInv == Init => IInv
<1> SUFFICES ASSUME Init PROVE IInv
  OBVIOUS
<1>1. page \in Seq(1 .. 1)
  BY NewContents DEF Init
<1>2. << >> \in Seq(1 .. 1) /\ << >> \in Seq(Int) /\ Len(<< >>) = 0
  BY EmptySeq
<1>3. PagesOK
  <2>1. version = 1 /\ version \in 1 .. MaxVersion
    BY ConstantsOK DEF Init
  <2>2. page \in Seq(1 .. version) /\ opened \in Seq(1 .. version)
    BY <1>1, <1>2, <2>1 DEF Init
  <2>. QED  BY <2>1, <2>2 DEF Init, PagesOK
<1>4. AnswerOK
  BY <1>2 DEF Init, AnswerOK, BodyOfStatus
<1>. QED
  BY <1>3, <1>4 DEF Init, IInv, ProgressOK

\* try_open starts a response with an empty buff_.
LEMMA TryOpenInv == ASSUME IInv, TryOpen PROVE IInv'
<1>0. << >> \in Seq(1 .. version) /\ << >> \in Seq(Int) /\ Len(<< >>) = 0
  BY EmptySeq
<1>1. PagesOK'
  BY <1>0 DEF IInv, PagesOK, TryOpen, site
<1>2. AnswerOK'
  <2>1. /\ response_status' \in {200, 403, 404, 500, 503}
        /\ fileno' \in {"none", "page", "404.html", "500.html"}
        /\ fileno' = "page" <=> response_status' = 200
        /\ fileno' = "404.html" => response_status' = 404
        /\ fileno' = "500.html" => response_status' = 500
    BY DEF TryOpen, Fallback
  <2>. QED  BY <1>0, <2>1 DEF AnswerOK, BodyOfStatus, TryOpen
<1>3. ProgressOK'
  <2>1. SubSeq(opened', 1, 0) = << >>
    BY SubSeqEmpty
  <2>2. Len(opened') \in Nat
    BY <1>1 DEF PagesOK
  <2>. QED  BY <2>1, <2>2, ConstantsOK DEF ProgressOK, TryOpen
<1>. QED  BY <1>1, <1>2, <1>3 DEF IInv

\* A round of the loop that reads a page, or the default branch.
LEMMA ReadChunkInv == ASSUME IInv, ReadChunk PROVE IInv'
<1>1. PagesOK'
  BY DEF IInv, PagesOK, ReadChunk, site, file
<1>2. CASE response_status \in Sends
  <2>1. PICK chunk \in Chunks :
          /\ body' = body \o chunk /\ offset' = offset + Len(chunk)
          /\ pc' = IF Len(body') > MAXLINE THEN "undefined"
                   ELSE IF chunk = << >> \/ Len(body') >= MAXLINE THEN "write" ELSE "read"
    BY <1>2 DEF ReadChunk, Gathered, Full
  <2>2. pc = "read" /\ UNCHANGED <<opened, steady, fileno, response_status>>
    BY DEF ReadChunk, file
  <2>3. body \in Seq(Int) /\ offset = Len(body) /\ offset < MAXLINE /\ MAXLINE \in Nat
    BY <2>2, ConstantsOK DEF IInv, AnswerOK, ProgressOK
  <2>4. /\ chunk \in Seq(Int) /\ Len(chunk) <= MAXLINE
        /\ \A i \in 1 .. Len(chunk) :
             \/ response_status = 200 /\ chunk[i] > 0
             \/ response_status \in {404, 500} /\ chunk[i] = -response_status
        /\ fileno # "page" => offset = 0 \/ chunk = << >>
    BY <2>2, <2>3, PageChunk, ErrorChunk DEF IInv, AnswerOK
  <2>5. /\ body' \in Seq(Int) /\ Len(body') = Len(body) + Len(chunk)
        /\ \A i \in 1 .. Len(body') :
             \/ i \in 1 .. Len(body) /\ body'[i] = body[i]
             \/ i - Len(body) \in 1 .. Len(chunk) /\ body'[i] = chunk[i - Len(body)]
    BY <2>1, <2>3, <2>4
  <2>6. BodyOfStatus'
    <3>1. \A i \in 1 .. Len(body) :
             \/ response_status = 200 /\ body[i] > 0
             \/ response_status \in {404, 500} /\ body[i] = -response_status
      BY <2>3 DEF IInv, AnswerOK, BodyOfStatus
    <3>2. ASSUME NEW i \in 1 .. Len(body')
          PROVE  \/ response_status = 200 /\ body'[i] > 0
                 \/ response_status \in {404, 500} /\ body'[i] = -response_status
      <4>1. CASE i \in 1 .. Len(body) /\ body'[i] = body[i]
        BY <3>1, <4>1
      <4>2. CASE i - Len(body) \in 1 .. Len(chunk) /\ body'[i] = chunk[i - Len(body)]
        BY <2>4, <4>2
      <4>. QED  BY <2>5, <3>2, <4>1, <4>2
    <3>3. DOMAIN body' = 1 .. Len(body')
      BY <2>5
    <3>. QED  BY <2>2, <3>2, <3>3 DEF BodyOfStatus
  <2>7. AnswerOK'
    BY <2>1, <2>2, <2>3, <2>4, <2>5, <2>6 DEF IInv, AnswerOK
  <2>8. ProgressOK'
    <3>1. CASE fileno = "page" /\ steady
      <4>1. /\ opened \in Seq(1 .. version) /\ response_status = 200
            /\ offset <= Len(opened) /\ body = SubSeq(opened, 1, offset)
            /\ offset = 0 \/ offset = Len(opened)
        BY <2>2, <3>1 DEF IInv, PagesOK, AnswerOK, ProgressOK
      <4>2. CASE offset = 0
        <5>1. /\ chunk = SubSeq(opened, 1, Len(chunk))
              /\ Len(chunk) = IF MAXLINE < Len(opened) THEN MAXLINE ELSE Len(opened)
          BY <2>3, <3>1, <4>1, <4>2, PageChunk
        <5>2. body = << >> /\ << >> \o chunk = chunk
          BY <2>3, <2>4, <4>2, EmptySeq, ConcatEmptySeq
        <5>3. body' = chunk /\ offset' = Len(chunk)
          BY <2>1, <2>4, <4>2, <5>2
        <5>4. Len(chunk) \in Nat /\ Len(opened) \in Nat
          BY <2>4, <4>1
        <5>5. CASE Len(chunk) = MAXLINE
          <6>1. pc' = "write"
            BY <2>1, <2>3, <5>2, <5>3, <5>5
          <6>. QED  BY <2>2, <2>3, <4>1, <5>1, <5>3, <5>4, <5>5, <6>1 DEF ProgressOK
        <5>6. CASE Len(chunk) = Len(opened) /\ Len(chunk) < MAXLINE
          <6>1. pc' \in {"read", "write"}
            BY <2>1, <2>3, <5>3, <5>4, <5>6
          <6>2. /\ offset' = Len(opened') /\ offset' <= MAXLINE /\ offset' < MAXLINE
                /\ body' = SubSeq(opened', 1, offset')
            BY <2>2, <2>3, <5>1, <5>3, <5>4, <5>6
          <6>. QED  BY <5>4, <6>1, <6>2 DEF ProgressOK
        <5>. QED  BY <2>3, <5>1, <5>4, <5>5, <5>6
      <4>3. CASE offset = Len(opened)
        <5>1. chunk = << >>
          BY <2>3, <3>1, <4>3, PageChunk
        <5>2. body' = body /\ offset' = offset
          BY <2>1, <2>3, <5>1, EmptySeq, ConcatEmptySeq
        <5>3. pc' = "write"
          BY <2>1, <2>3, <5>1, <5>2
        <5>4. /\ offset' = Len(opened') /\ offset' <= Len(opened') /\ offset' <= MAXLINE
              /\ body' = SubSeq(opened', 1, offset')
          <6>1. opened' = opened
            BY <2>2
          <6>2. body' = SubSeq(opened', 1, offset')
            BY <4>1, <5>2, <6>1, Zenon
          <6>3. offset \in Nat /\ offset <= MAXLINE
            BY <2>3
          <6>. QED  BY <4>3, <5>2, <6>1, <6>2, <6>3
        <5>. QED  BY <5>3, <5>4 DEF ProgressOK
      <4>. QED  BY <4>1, <4>2, <4>3
    <3>2. CASE fileno = "page" /\ ~steady
      BY <2>1, <2>2, <2>3, <2>4, <2>5, <3>2 DEF ProgressOK
    <3>3. CASE fileno # "page"
      <4>1. response_status # 200
        BY <2>2, <3>3 DEF IInv, AnswerOK
      <4>2. Len(body') <= MAXLINE
        BY <2>3, <2>4, <2>5, <3>3, EmptySeq
      <4>. QED  BY <2>1, <2>2, <2>3, <2>4, <2>5, <4>1, <4>2 DEF ProgressOK
    <3>. QED  BY <3>1, <3>2, <3>3
  <2>. QED  BY <1>1, <2>7, <2>8 DEF IInv
<1>3. CASE response_status \notin Sends
  BY <1>1, <1>3 DEF IInv, AnswerOK, BodyOfStatus, ProgressOK, ReadChunk, file, Sends
<1>. QED  BY <1>2, <1>3

\* write() and the destructor leave nothing open.
LEMMA WriteAndCloseInv == ASSUME IInv, WriteAndClose PROVE IInv'
  BY DEF IInv, PagesOK, AnswerOK, BodyOfStatus, ProgressOK, WriteAndClose, AfterClose, site, file

\* An edit in place of the page that is open is the end of its being steady.
LEMMA EditInv == ASSUME IInv, Edit PROVE IInv'
<1>1. /\ version \in Nat \ {0} /\ version' = version + 1 /\ version' \in 1 .. MaxVersion
      /\ page \in Seq(1 .. version) /\ opened \in Seq(1 .. version)
  BY ConstantsOK DEF IInv, PagesOK, Edit
<1>2. page \in Seq(1 .. version') /\ opened \in Seq(1 .. version')
  BY <1>1, LaterVersion
<1>3. page' \in Seq(1 .. version')
  <2>1. CASE page' = << >>
    BY <2>1, EmptySeq
  <2>2. CASE page' = Append(page, version')
    BY <1>1, <1>2, <2>2
  <2>. QED  BY <2>1, <2>2 DEF Edit
<1>4. PagesOK'
  BY <1>1, <1>2, <1>3 DEF IInv, PagesOK, Edit
<1>5. AnswerOK'
  BY DEF IInv, AnswerOK, BodyOfStatus, Edit
<1>6. ProgressOK'
  BY DEF IInv, PagesOK, ProgressOK, Edit
<1>. QED  BY <1>4, <1>5, <1>6 DEF IInv

\* Another file at the route leaves the one that is open as it is.
LEMMA ReplaceInv == ASSUME IInv, Replace PROVE IInv'
<1>1. /\ version \in Nat \ {0} /\ version' = version + 1 /\ version' \in 1 .. MaxVersion
      /\ opened \in Seq(1 .. version)
  BY ConstantsOK DEF IInv, PagesOK, Replace
<1>2. opened \in Seq(1 .. version') /\ page' \in Seq(1 .. version')
  BY <1>1, LaterVersion, NewContents DEF Replace
<1>3. PagesOK'
  BY <1>1, <1>2 DEF IInv, PagesOK, Replace
<1>4. AnswerOK' /\ ProgressOK'
  BY DEF IInv, AnswerOK, BodyOfStatus, ProgressOK, Replace
<1>. QED  BY <1>3, <1>4 DEF IInv

\* Every step keeps the invariant.
LEMMA NextInv == IInv /\ [Next]_vars => IInv'
<1> SUFFICES ASSUME IInv, [Next]_vars PROVE IInv'
  OBVIOUS
<1>1. CASE Next
  BY <1>1, TryOpenInv, ReadChunkInv, WriteAndCloseInv, EditInv, ReplaceInv DEF Next, Respond
<1>2. CASE UNCHANGED vars
  BY <1>2 DEF vars, site, file, IInv, PagesOK, AnswerOK, BodyOfStatus, ProgressOK
<1>. QED  BY <1>1, <1>2

\* The invariant holds in every reachable state.
THEOREM Invariance == Spec => []IInv
  BY InitInv, NextInv, PTL DEF Spec

-----------------------------------------------------------------------------
(* The properties.                                                         *)

\* The state keeps to its types, and nothing stays open behind a response.
THEOREM TypeCorrect == Spec => []TypeOK
<1>1. IInv => TypeOK
  BY DEF IInv, PagesOK, AnswerOK, TypeOK
<1>. QED  BY <1>1, Invariance, PTL

\* However large the buffer and however many edits: it is overrun only by a
\* page that someone edits in place while it is read.
THEOREM OverrunCorrect == Spec => []OverrunNeedsEdit
<1>1. IInv => OverrunNeedsEdit
  BY DEF IInv, ProgressOK, OverrunNeedsEdit
<1>. QED  BY <1>1, Invariance, PTL

\* What is sent with a status is of the file of that status.
THEOREM StatusCorrect == Spec => []BodyOfStatus
<1>1. IInv => BodyOfStatus
  BY DEF IInv, AnswerOK
<1>. QED  BY <1>1, Invariance, PTL

\* A page nobody edits in place is sent whole, or cut at MAXLINE bytes.
THEOREM PageCorrect == Spec => []WholePageSent
<1>1. ASSUME IInv, pc = "write", response_status = 200, steady
      PROVE  body = SubSeq(opened, 1, IF Len(opened) < MAXLINE THEN Len(opened) ELSE MAXLINE)
  <2>1. /\ opened \in Seq(1 .. version) /\ MAXLINE \in Nat
        /\ offset <= Len(opened) /\ offset <= MAXLINE
        /\ body = SubSeq(opened, 1, offset)
        /\ offset = Len(opened) \/ offset = MAXLINE
    BY <1>1, ConstantsOK DEF IInv, PagesOK, ProgressOK
  <2>2. Len(opened) \in Nat
    BY <2>1
  <2>. QED  BY <2>1, <2>2
<1>2. IInv => WholePageSent
  BY <1>1 DEF WholePageSent
<1>. QED  BY <1>2, Invariance, PTL
=============================================================================
