----------------------------- MODULE HttpRequest -----------------------------
(***************************************************************************)
(* rewrite_tool::http_parse (tool_util.cpp): one constructor call per      *)
(* do_somthing, each over the same stack array.  Text is a sequence of     *)
(* cells: words, single separators "SP" and line ends "CRLF".  Nothing     *)
(* terminates what read() puts into the array, so the text goes on with    *)
(* whatever older requests left behind its last byte.                      *)
(*                                                                         *)
(* setting_attrib looks for names anywhere in a line: a word that names a  *)
(* method, wherever in it, is written as that method.                      *)
(***************************************************************************)
EXTENDS Integers, Sequences, FiniteSetsExt, RequestReading

CONSTANTS
  FirstWords, \* first words of request lines: methods, or any other word
  Routes,     \* second words of request lines: "/", a "page", a method for a
              \* page that names it, "?" for one with a "?" or "%", or "none"
  Headers,    \* header lines: a method for one that names it; "Content: x" and
              \* "Content:" for Content-length: or -type: with and without value
  MaxHeaders, \* bound: header lines of a request
  MaxParts,   \* bound: reads of a part of a request
  MaxCells    \* MAXLINE: cells the array holds

\* What setting_attrib tells apart.  Its branches of HTTP/1.1 and Host: change
\* nothing that is kept here, and no word here leads to them.
Telling == Methods \cup {"Content: x", "Content:"}

ASSUME ConstantsOK ==
  /\ FirstWords \subseteq Methods \cup {"word"}
  /\ Routes \subseteq Methods \cup {"/", "page", "?", "none"}
  /\ Headers \subseteq Telling \cup {"word"}
  /\ MaxHeaders \in Nat /\ MaxParts \in Nat /\ MaxCells \in Nat

VARIABLES
  buff,       \* the array of do_somthing
  request,    \* the kind of the last request, and the route of its first line
  extent,     \* how much of it had come when read() returned
  outcome,    \* what the constructor and set_path made of the array
  old,        \* history: what module Reactor keeps of the array
  parts       \* reads of a part so far

vars == <<buff, request, extent, outcome, old, parts>>

Init ==
  /\ buff = << >> /\ request = [kind |-> "none", route |-> "unread"] /\ extent = "nothing"
  /\ outcome = [method |-> "none", route |-> "none"]
  /\ old = "garbage" /\ parts = 0

-----------------------------------------------------------------------------
(* What peers send.                                                        *)

\* The version, behind the second space, plays no part.
RequestLine(m, r) ==
  <<m, "SP">> \o (IF r = "none" THEN << >> ELSE <<r>>) \o <<"SP", "CRLF">>

HeaderText(hs) == [i \in 1 .. 2 * Len(hs) |-> IF i % 2 = 0 THEN "CRLF" ELSE hs[(i + 1) \div 2]]

HeaderLists == UNION {[1 .. n -> Headers] : n \in 0 .. MaxHeaders}

Texts ==
  {RequestLine(m, r) \o HeaderText(hs) \o <<"CRLF">> :
     m \in FirstWords, r \in Routes, hs \in HeaderLists}

LineEnds(t) == {i \in 1 .. Len(t) : t[i] = "CRLF"}

-----------------------------------------------------------------------------
(* split_ and the constructor.                                             *)

\* The lines split_ finds, by the places of their separators: what follows the
\* last one is dropped.
Split(t) == LineEnds(t)

LineStart(t, e) == 1 + Max({0} \cup {i \in Split(t) : i < e})
WordsOf(t, e) == {t[i] : i \in LineStart(t, e) .. e - 1}

\* The spaces of the first line; what follows the last is dropped.
Spaces(t) == {i \in 1 .. Min(Split(t)) - 1 : t[i] = "SP"}

\* splited_str[0] and route_str[1] exist.
HasRoute(t) == Split(t) # {} /\ Cardinality(Spaces(t)) > 1

RouteOf(t) ==
  LET s1 == Min(Spaces(t))
      s2 == Min(Spaces(t) \ {s1})
  IN IF s2 = s1 + 1 THEN "none" ELSE t[s1 + 1]

\* setting_attrib on one line: the first test that matches decides.
Names(t, e) == WordsOf(t, e) \cap Methods
FirstOf(ms) ==
  CASE "GET" \in ms -> "GET"
    [] "GET" \notin ms /\ "POST" \in ms -> "POST"
    [] ms \cap {"GET", "POST"} = {} /\ "PUT" \in ms -> "PUT"
    [] ms \cap {"GET", "POST", "PUT"} = {} /\ "DELETE" \in ms -> "DELETE"
    [] ms = {"HEAD"} -> "HEAD"

\* Fault: the request line is taken for its route only.
BehindFirstLine(t) ==
  LET naming == {e \in Split(t) : LineStart(t, e) > 1 /\ Names(t, e) # {}}
  IN IF naming = {} THEN Methods ELSE {FirstOf(Names(t, Max(naming)))}

\* request_method: the last line that names a method decides; without one it
\* stays uninitialized.
MethodsOf(t) ==
  LET naming == {e \in Split(t) : Names(t, e) # {}}
  IN IF naming = {} THEN Methods ELSE {FirstOf(Names(t, Max(naming)))}

\* Lines that reach the branches of Content-length: and Content-type:.
Described(t) ==
  {e \in Split(t) : Names(t, e) = {} /\ WordsOf(t, e) \cap {"Content: x", "Content:"} # {}}

\* substr() from behind the blank that is not there.
Throws(t) == \E e \in Described(t) : t[e - 1] = "Content:"

\* set_path: a route without its first character, or substr(1) of nothing.
\* The pages' directory, which goes in front, is module Config's.
SetPath(m, r) ==
  IF m \notin {"GET", "PUT"} THEN [method |-> m, route |-> r]
  ELSE CASE r = "/" -> [method |-> m, route |-> "index.html"]
         [] r = "none" -> [method |-> "aborted", route |-> "none"]
         [] OTHER -> [method |-> m, route |-> r]

Undefined == [method |-> "undefined", route |-> "none"]

\* All the constructor and set_path can come to.  The undefined cases, after
\* which the process may go on as if nothing was: the strings of vectors that
\* are not there, check_post_use_get, and a std::string, or too few arguments,
\* given to logging's "...".
Outcomes(t) ==
  IF ~HasRoute(t) THEN {Undefined}
  ELSE (IF Throws(t) THEN {[method |-> "aborted", route |-> "none"]}
        ELSE {SetPath(m, RouteOf(t)) : m \in MethodsOf(t)})
       \cup (IF RouteOf(t) = "?" \/ Described(t) # {} THEN {Undefined} ELSE {})

-----------------------------------------------------------------------------
(* do_somthing.                                                            *)

Suffixes(t) == {SubSeq(t, i, Len(t)) : i \in 1 .. Len(t) + 1}

\* The words of what peers send; a part of one that says nothing is a "word".
Words == FirstWords \cup (Routes \ {"none"}) \cup Headers \cup {"word"}

\* The end of a word or a line end.  What is left of a word that says something
\* may say so still, or something else.
EndOf(w) == IF w \in Telling THEN Words ELSE {"word"}

\* The old text from a separator, a line end or a word on, or from within one.
Remainders(t) ==
  Suffixes(t) \cup
  UNION {{<<w>> \o SubSeq(t, i + 1, Len(t)) : w \in EndOf(t[i])} : i \in {j \in 1 .. Len(t) : t[j] # "SP"}}

\* Fault: read() appends to what is in the array.
BehindOld(new, part) == {buff \o new}

\* Where a part ends and the old text goes on, the end of the one and the rest
\* of a word of the other make any word.  (A CR that meets an old LF makes the
\* array of a part with that line end.)
Joined(new) == {<<w>> : w \in Words} \cup (IF new = << >> THEN {} ELSE {<< >>})

\* The array after read() has put new at its start.  The first word of the old
\* text is always covered, or in the word that is joined; how far the rest is
\* depends on the lengths of words.  A whole request ends in a line end.
Overlaid(new, part) ==
  LET back == IF buff = << >> THEN << >> ELSE Tail(buff)
      over ==
        CASE part = "nothing" -> {buff}
          [] part = "part" -> {new \o j \o r : j \in Joined(new), r \in Suffixes(back)}
          [] part = "whole" -> {new \o r : r \in Remainders(back)}
  IN {t \in over : Len(t) <= MaxCells}

\* The kind a whole request is of: see RequestReading.
KindOf(t) ==
  IF RouteOf(t) \notin {"?", "none"} /\ \A i \in 1 .. Len(t) : t[i] \in Telling <=> i = 1
    THEN t[1] ELSE "OTHER"

\* One call: new has arrived, nothing, a part of a request or a whole one.
DoSomthing(new, part) ==
  /\ outcome.method \notin Ends
  /\ parts' = (IF part = "part" THEN parts + 1 ELSE parts) /\ parts' <= MaxParts
  /\ buff' \in Overlaid(new, part)
  /\ outcome' \in Outcomes(buff')
  /\ request' = [kind |-> IF part = "whole" THEN KindOf(new) ELSE "none",
                 route |-> IF LineEnds(new) # {} THEN RouteOf(new) ELSE "unread"]
  /\ old' = Left(old, part, request'.kind)
  /\ extent' = part

\* What can have arrived of a request, up to a part of the word behind it.
Arrivals == UNION {{SubSeq(t, 1, n) : n \in 0 .. Len(t)} : t \in Texts}

Next ==
  \/ DoSomthing(<< >>, "nothing")
  \/ \E new \in Arrivals : DoSomthing(new, IF new \in Texts THEN "whole" ELSE "part")

Spec == Init /\ [][Next]_vars

-----------------------------------------------------------------------------
(* Properties.                                                             *)

\* As long as plain requests only have been read, and whole, the last call came
\* to the method of the last of them, and nothing behind the first word of the
\* array says anything, however many requests of whatever lengths have been
\* read over each other.
LeftoverAccounted ==
  old \in Methods =>
    /\ outcome.method = old
    /\ \A i \in 2 .. Len(buff) : buff[i] \notin Telling

\* Reading the requests line by line never comes to a method, an exception or
\* undefined behaviour that module Reactor does not reckon with.
WithinReactorReading ==
  [][outcome'.method \in Parsed(old, extent', request'.kind)]_vars

\* A request whose first line has come is answered for its own route, whatever
\* older requests left behind it, and whatever method is taken for its own.
OwnRouteTaken ==
  [][request'.route # "unread" /\ outcome'.method \in Methods =>
       outcome' = SetPath(outcome'.method, request'.route)]_vars
=============================================================================
