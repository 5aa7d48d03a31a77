----------------------------- MODULE LineParser -----------------------------
(***************************************************************************)
(* core::parse::http_parse of src/lib: an incremental parser.  Its caller  *)
(* hands it the whole buffer each time more of the request has arrived; it *)
(* resumes at m_check_cur and cuts the buffer into lines.                  *)
(*                                                                         *)
(* A character is "CR", "LF" or "x", any other.  Offsets count from 0.     *)
(***************************************************************************)
EXTENDS Integers, Sequences, FiniteSetsExt

CONSTANTS
  Chars,      \* the characters of requests
  MaxLen,     \* bound: length of the buffer
  Newline     \* the code of '\n', which check_line compares an offset with

ASSUME ConstantsOK ==
  /\ Chars \subseteq {"CR", "LF", "x"}
  /\ MaxLen \in Nat /\ Newline \in Nat

VARIABLES
  buff,         \* what has arrived of the request
  m_check_cur,  \* the next character to look at
  m_start_line, \* where the current line starts
  status,       \* the CHECK_STATUS parse_request was called with
  inLoop,       \* parse_request is running
  retcode       \* what it returned last

vars == <<buff, m_check_cur, m_start_line, status, inLoop, retcode>>

HTTP_CODE == {"NO_REQUEST", "GET_REQUEST", "BAD_REQUEST", "CLOSED_CONNECTION", "INTERNAL_ERROR"}

At(b, i) == b[i + 1]      \* buff[i]

\* Where the loop of check_line stops: at the first CR or LF, or at the end.
Stop(b, cur) ==
  Min({i \in cur .. Len(b) - 1 : At(b, i) \in {"CR", "LF"}} \cup {Max({cur, Len(b)})})

\* At offset i check_line needs more input: the end, or a CR in last place.
Open(b, i) == i >= Len(b) \/ (i = Len(b) - 1 /\ At(b, i) = "CR")

\* At offset i it sees the end of a line.  A CR is followed up by comparing the
\* next offset, not the next character, with '\n'.
Ends(b, i) ==
  \/ At(b, i) = "CR" /\ i + 1 = Newline
  \/ At(b, i) = "LF" /\ i > 1 /\ At(b, i - 1) = "CR"

\* What check_line returns at offset i and the cursor it leaves: two further
\* at the end of a line, after an LF as well.
AtLineEnd(b, i) ==
  IF Open(b, i) THEN [line |-> "LINE_OPEN", cur |-> i]
  ELSE IF Ends(b, i) THEN [line |-> "LINE_OK", cur |-> i + 2]
  ELSE [line |-> "LINE_BAD", cur |-> i]

\* Fault: the CR of an unfinished line end is stepped over.
SkipCr(b, cur) ==
  LET l == AtLineEnd(b, Stop(b, cur)) IN
  IF l.line = "LINE_OPEN" THEN [l EXCEPT !.cur = Max({cur, Len(b)})] ELSE l

\* Fault: an LF that ends a line goes through the increment of the loop too.
SkipOneMore(b, cur) ==
  LET l == AtLineEnd(b, Stop(b, cur)) IN
  IF l.line = "LINE_OK" /\ At(b, l.cur - 2) = "LF"
  THEN [l EXCEPT !.cur = l.cur + 1] ELSE l

check_line(b, cur) == AtLineEnd(b, Stop(b, cur))

\* parse_requestline on the buffer from offset start: BAD_REQUEST without a
\* " \t", which any two other characters in a row may be or not be; with one
\* it ends without a return, so any code can come back.
parse_requestline(b, start) ==
  IF \E i \in start .. Len(b) - 2 : At(b, i) = "x" /\ At(b, i + 1) = "x"
  THEN HTTP_CODE
  ELSE {"BAD_REQUEST"}

\* parse_header has no body, and no return either.
parse_header == HTTP_CODE

Init ==
  /\ buff = << >>
  /\ m_check_cur = 0 /\ m_start_line = 0
  /\ status \in {"CHKS_HEADER", "CHKS_REQUEST_LINE"}
  /\ inLoop = FALSE
  /\ retcode = "NO_REQUEST"

\* The caller receives more and calls parse_request, unless it was told that
\* the request is complete or bad.
Arrive ==
  /\ ~inLoop /\ retcode = "NO_REQUEST"
  /\ Len(buff) < MaxLen
  /\ \E c \in Chars : buff' = Append(buff, c)
  /\ inLoop' \in BOOLEAN
  /\ UNCHANGED <<m_check_cur, m_start_line, status, retcode>>

\* A round of the loop in parse_request with LINE_OK: the line is handed to
\* the parser of the status, which the function never changes.
RoundOk ==
  LET l == check_line(buff, m_check_cur) IN
  /\ inLoop /\ l.line = "LINE_OK"
  /\ m_check_cur' = l.cur
  /\ m_start_line' = l.cur
  /\ \/ /\ status = "CHKS_HEADER"
        /\ \E code \in parse_requestline(buff, m_start_line) :
             IF code = "BAD_REQUEST" THEN retcode' = code /\ inLoop' = FALSE
             ELSE UNCHANGED <<retcode, inLoop>>
     \/ /\ status = "CHKS_REQUEST_LINE"
        /\ \E code \in parse_header :
             IF code \in {"BAD_REQUEST", "GET_REQUEST"}
             THEN retcode' = code /\ inLoop' = FALSE
             ELSE UNCHANGED <<retcode, inLoop>>
  /\ UNCHANGED <<buff, status>>

\* The loop ends without a complete line, or at a bad one.
RoundEnd ==
  LET l == check_line(buff, m_check_cur) IN
  /\ inLoop /\ l.line # "LINE_OK"
  /\ m_check_cur' = l.cur
  /\ inLoop' = FALSE
  /\ retcode' = IF l.line = "LINE_OPEN" THEN "NO_REQUEST" ELSE "BAD_REQUEST"
  /\ UNCHANGED <<buff, m_start_line, status>>

Next == Arrive \/ RoundOk \/ RoundEnd

Spec == Init /\ [][Next]_vars

-----------------------------------------------------------------------------
(* Properties.                                                             *)

\* The cursors keep their order and stay in the buffer.  A line end at the
\* end of the buffer may leave m_check_cur one past it, at a character that
\* has not arrived; never further, so no read goes beyond the terminator.
CursorsInBounds ==
  /\ buff \in Seq(Chars)
  /\ 0 <= m_start_line /\ m_start_line <= m_check_cur
  /\ m_check_cur <= Len(buff) + 1
  /\ m_check_cur = Len(buff) + 1 => m_start_line = m_check_cur

\* The line starts a single call on the whole buffer can find: the first, and
\* from each the next.
WithNext(b, found) ==
  found \cup {check_line(b, t).cur : t \in {u \in found : check_line(b, u).line = "LINE_OK"}}

LineStarts(b) ==
  LET starts[n \in 0 .. Len(b) + 1] == IF n = 0 THEN {0} ELSE WithNext(b, starts[n - 1])
  IN starts[Len(b) + 1]

\* How the request was cut into arrivals does not matter: the parser starts a
\* line only where a single call on the whole buffer starts one.
ChunkInsensitive == m_start_line = 0 \/ m_start_line \in LineStarts(buff)

\* Between calls the parser has not looked past an unfinished line end: what
\* it skipped since m_start_line holds neither CR nor LF.
NothingMissed ==
  ~inLoop /\ retcode = "NO_REQUEST" =>
    \A i \in m_start_line .. m_check_cur - 1 :
      i < Len(buff) => At(buff, i) \notin {"CR", "LF"}
=============================================================================
