--------------------------- MODULE RequestReading ---------------------------
(***************************************************************************)
(* What http_parse and the set_path behind it can come to, given how much  *)
(* of a request came in one read() and what earlier calls left in the      *)
(* stack array of do_somthing, which is neither cleared nor terminated.    *)
(* Module Reactor answers requests by it; module HttpRequest reads them    *)
(* line by line and is shown to stay within it.                            *)
(*                                                                         *)
(* A request is plain when setting_attrib can find nothing in it but the   *)
(* method it begins with: neither its route nor a header names one, no     *)
(* header is a Content-length: or Content-type:, it holds no NUL, and it   *)
(* has a route, without "?" (check_post_use_get ends without a return) and *)
(* "%" (logging takes it for a conversion).  The kind of a plain request   *)
(* is its method; every other request is of the kind "OTHER".              *)
(*                                                                         *)
(* old is the method of the last request as long as plain ones only, and   *)
(* whole, have been read: the array then names that method in its first    *)
(* word, which every request covers, and none behind it.  It is "mixed"    *)
(* from the first other request on, and "garbage" before any.              *)
(*                                                                         *)
(* Assumed: what is in the array before the first call names no method and *)
(* ends in a NUL.                                                          *)
(***************************************************************************)
Methods == {"GET", "HEAD", "POST", "PUT", "DELETE"}
Kinds == Methods \cup {"OTHER"}

\* Instead of a method: an exception nothing catches, or undefined behaviour,
\* after which the process may also go on.
Ends == {"aborted", "undefined"}

\* Fault: the parser reads on into what an earlier request left.
ParsedOver(old, extent, m) == {m, old} \cap Methods

\* The last line that names a method decides.  A read of nothing parses the old
\* contents again.  A part of a request goes on with them, and so does a request
\* over contents that may name methods anywhere.
Parsed(old, extent, m) ==
  CASE extent = "whole" /\ m \in Methods /\ old # "mixed" -> {m}
    [] extent = "nothing" /\ old \in Methods -> {old}
    [] extent = "nothing" /\ old = "garbage" -> {"undefined"}
    [] OTHER -> Methods \cup Ends

\* What is in the array afterwards.
Left(old, extent, m) ==
  CASE extent = "nothing" -> old
    [] extent = "whole" /\ m \in Methods /\ old # "mixed" -> m
    [] OTHER -> "mixed"
=============================================================================
