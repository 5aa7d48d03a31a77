----------------------------- MODULE GetResponse -----------------------------
(***************************************************************************)
(* GET_Response: try_open and the loop that reads the page, while others   *)
(* edit the page in place, remove it or put a new one there.  A byte is    *)
(* the number of the edit that wrote it.  The header is left out, and the  *)
(* connection is module Reactor's.                                         *)
(***************************************************************************)
EXTENDS Integers, Sequences

CONSTANTS
  MAXLINE,    \* bytes of buff_, and of every read() into it
  MaxLen,     \* bound: bytes of a page
  MaxVersion  \* bound: edits

ASSUME ConstantsOK == MAXLINE \in Nat \ {0} /\ MaxLen \in Nat /\ MaxVersion \in Nat \ {0}

VARIABLES
  refusal,  \* why the file at the route does not open, or "none"
  page,     \* its bytes
  opened,   \* the bytes of the page that is open
  linked,   \* is that the file at the route?
  steady,   \* history: it has not been edited since it was opened
  version,  \* the last edit
  pc,       \* where response() is
  fileno,   \* the file the member is open on
  response_status,
  offset,   \* of fileno
  body      \* the first sum_n bytes of buff_

site == <<refusal, page, version>>
file == <<opened, linked, steady>>
vars == <<site, file, pc, fileno, response_status, offset, body>>

Refusals == {"ENOENT", "EACCES", "ELOOP", "ENXIO"}

\* Bytes of the error pages; those of pages are positive.
ErrorByte == [f \in {"404.html", "500.html"} |-> IF f = "404.html" THEN -404 ELSE -500]

Contents(v) == {[i \in 1 .. n |-> v] : n \in 0 .. MaxLen}

Init ==
  /\ refusal \in Refusals \cup {"none"}
  /\ page \in Contents(1) /\ version = 1
  /\ opened = << >> /\ linked = FALSE /\ steady = TRUE
  /\ pc = "idle" /\ fileno = "none" /\ response_status = 200 /\ offset = 0 /\ body = << >>

\* Fault: an open() that the default branch answers leaves the old status.
OldStatus(why) == {[status |-> 200, file |-> f] : f \in {"404.html", "none"}}

\* The switch of try_open.  The page of an error may be missing too.
Fallback(why) ==
  CASE why = "EACCES" -> {[status |-> 403, file |-> "none"]}
    [] why = "ELOOP" -> {[status |-> 503, file |-> "none"]}
    [] why = "ENXIO" -> {[status |-> 500, file |-> f] : f \in {"500.html", "none"}}
    [] OTHER -> {[status |-> 404, file |-> f] : f \in {"404.html", "none"}}

\* The page opens, or is refused: also for want of a descriptor, which try_open
\* takes for a missing page.
TryOpen ==
  /\ pc = "idle"
  /\ \/ /\ refusal = "none"
        /\ fileno' = "page" /\ response_status' = 200
        /\ opened' = page /\ linked' = TRUE
     \/ /\ \E why \in {IF refusal = "none" THEN "EMFILE" ELSE refusal} : \E f \in Fallback(why) :
             fileno' = f.file /\ response_status' = f.status
        /\ opened' = << >> /\ linked' = FALSE
  /\ pc' = "read" /\ offset' = 0 /\ body' = << >> /\ steady' = TRUE
  /\ UNCHANGED site

\* What a read() of MAXLINE bytes can give.  Error pages are of any length, and
\* nobody edits them here.  A directory opens too, and read() fails on it as at
\* the end of an empty page.
Chunks ==
  LET end == IF offset + MAXLINE < Len(opened) THEN offset + MAXLINE ELSE Len(opened)
  IN CASE fileno = "page" -> {SubSeq(opened, offset + 1, end)}
       [] fileno \in DOMAIN ErrorByte /\ offset = 0 ->
            {[i \in 1 .. n |-> ErrorByte[fileno]] : n \in 0 .. MAXLINE}
       [] OTHER -> {<< >>}

\* Fault: the loop ends only at the end of the file.
NeverFull(n) == FALSE

\* sum_n has come to the end of buff_.
Full(n) == n >= MAXLINE

\* Fault: every read() starts at the beginning of buff_.
Overwritten(chunk) == chunk

Gathered(chunk) == body \o chunk

\* Statuses whose page is read.
Sends == {200, 404, 500}

\* One round of the loop, or the default branch.  read() is given room for
\* MAXLINE bytes wherever in buff_ it starts.
ReadChunk ==
  /\ pc = "read"
  /\ \/ /\ response_status \in Sends
        /\ \E chunk \in Chunks :
             /\ body' = Gathered(chunk) /\ offset' = offset + Len(chunk)
             /\ pc' = IF Len(body') > MAXLINE THEN "undefined"
                      ELSE IF chunk = << >> \/ Full(Len(body')) THEN "write" ELSE "read"
     \/ /\ response_status \notin Sends
        /\ pc' = "write"
        /\ UNCHANGED <<offset, body>>
  /\ UNCHANGED <<site, file, fileno, response_status>>

AfterClose == "none"

\* write(), and ~GET_Response.
WriteAndClose ==
  /\ pc = "write"
  /\ pc' = "idle" /\ fileno' = AfterClose
  /\ UNCHANGED <<site, file, response_status, offset, body>>

\* Someone writes the page in place: cuts it to nothing, or adds a byte.
Edit ==
  /\ version < MaxVersion /\ version' = version + 1
  /\ page' \in {<< >>} \cup {p \in {Append(page, version')} : Len(p) <= MaxLen}
  /\ opened' = IF linked THEN page' ELSE opened
  /\ steady' = (steady /\ ~linked)
  /\ UNCHANGED <<refusal, linked, pc, fileno, response_status, offset, body>>

\* The route is given another file, or loses it.
Replace ==
  /\ version < MaxVersion /\ version' = version + 1
  /\ page' \in Contents(version')
  /\ refusal' \in Refusals \cup {"none"}
  /\ linked' = FALSE
  /\ UNCHANGED <<opened, steady, pc, fileno, response_status, offset, body>>

Respond == TryOpen \/ ReadChunk \/ WriteAndClose
Next == Respond \/ Edit \/ Replace

Spec == Init /\ [][Next]_vars

-----------------------------------------------------------------------------
(* Properties.                                                             *)

\* Every variable keeps to its type, and nothing stays open behind a response.
TypeOK ==
  /\ refusal \in Refusals \cup {"none"}
  /\ \A i \in DOMAIN page : page[i] \in 1 .. version
  /\ \A i \in DOMAIN opened : opened[i] \in 1 .. version
  /\ linked \in BOOLEAN /\ steady \in BOOLEAN /\ version \in 1 .. MaxVersion
  /\ pc \in {"idle", "read", "write", "undefined"}
  /\ fileno \in {"none", "page", "404.html", "500.html"}
  /\ response_status \in {200, 403, 404, 500, 503}
  /\ offset = Len(body)
  /\ pc = "idle" => fileno = "none"

\* buff_ is overrun only by a page that someone edits while it is read: it must
\* have grown after a read() that came to its end.
OverrunNeedsEdit == pc = "undefined" => ~steady

\* A response is one file's: the page's with 200, otherwise the error page of
\* the status, and none for the other statuses.
BodyOfStatus ==
  \A i \in DOMAIN body :
    \/ response_status = 200 /\ body[i] > 0
    \/ response_status \in {404, 500} /\ body[i] = -response_status

\* Unless someone edits it meanwhile, the page that is sent is all of what was
\* opened, also when the route has another file by now; a page of MAXLINE bytes
\* and more is cut there.
WholePageSent ==
  pc = "write" /\ response_status = 200 /\ steady =>
    body = SubSeq(opened, 1, IF Len(opened) < MAXLINE THEN Len(opened) ELSE MAXLINE)
=============================================================================
