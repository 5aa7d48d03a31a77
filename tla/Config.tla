------------------------------- MODULE Config -------------------------------
(***************************************************************************)
(* config_parse::config_file_parse: the object a handler makes to learn    *)
(* where the site's pages are.  The constructor reads default.conf line by *)
(* line into pairs of key and value; each getter then goes through all the *)
(* pairs again, on top of what earlier getters left in the object.         *)
(*                                                                         *)
(* A path is a sequence of "/" and names.  A key is the set of the words   *)
(* regex_search finds in it.  Of a line only its shape, key, value and     *)
(* whether a comment follows are kept.  (A file that cannot be opened is   *)
(* in module Reactor: the constructor never returns.)                      *)
(***************************************************************************)
EXTENDS Integers, Sequences, SequencesExt

CONSTANTS
  Names,      \* the names in paths
  Lines,      \* the lines a file may have
  MaxLines,   \* bound: lines of a file
  MaxCalls    \* bound: calls of getters on one object

\* A path.
Path == Seq(Names \cup {"/", "."})

Words == {"listen_port", "location", "html_pages", "static_path"}

ASSUME ConstantsOK ==
  /\ \A l \in Lines :
       /\ l.text \in {"none", "spaces", "junk", "setting"}
       /\ l.key \subseteq Words /\ l.comment \in BOOLEAN
       /\ l.val \in Path
       /\ l.text # "setting" => l.key = {}
  /\ MaxLines \in Nat /\ MaxCalls \in Nat

VARIABLES
  file,          \* the lines of default.conf
  pos,           \* the line the constructor is at
  phase,         \* "loading", "ready", or "threw": std::out_of_range
  path_KV_data,  \* the pairs loaded so far
  settings,      \* root_dir, pages_path, static_path, config_file_listen_port
  answers        \* what the getters returned so far

vars == <<file, pos, phase, path_KV_data, settings, answers>>

NoSettings ==
  [root_dir |-> << >>, pages_path |-> << >>, static_path |-> << >>,
   listen_port |-> "uninitialized"]

Init ==
  /\ file \in SeqOf(Lines, MaxLines)
  /\ pos = 1 /\ phase = "loading"
  /\ path_KV_data = << >>
  /\ settings = NoSettings
  /\ answers = << >>

-----------------------------------------------------------------------------
(* The constructor: load_file_to.                                          *)

\* With its spaces removed nothing is left of the line, yet the part behind
\* the colon it lacks is taken: substr(1) of an empty string throws.
Throws(l) == l.text = "spaces"

\* The pairs of a line: none when it is empty or starts with a comment; the
\* empty key when there is no colon.
PairsOf(l) ==
  IF l.text = "none" THEN << >> ELSE <<[key |-> l.key, val |-> l.val]>>

LoadLine ==
  /\ phase = "loading" /\ pos <= Len(file)
  /\ \/ /\ Throws(file[pos])
        /\ phase' = "threw"
        /\ UNCHANGED <<pos, path_KV_data>>
     \/ /\ ~Throws(file[pos])
        /\ path_KV_data' = path_KV_data \o PairsOf(file[pos])
        /\ pos' = pos + 1
        /\ UNCHANGED phase
  /\ UNCHANGED <<file, settings, answers>>

LoadEnd ==
  /\ phase = "loading" /\ pos > Len(file)
  /\ phase' = "ready"
  /\ UNCHANGED <<file, pos, path_KV_data, settings, answers>>

-----------------------------------------------------------------------------
(* The getters.                                                            *)

\* A round of the loop of check_dir: of two slashes in a row at offset i one is
\* removed, and the loop goes on behind the other.
Squeeze(p, i) ==
  IF i < Len(p) /\ p[i] = "/" /\ p[i + 1] = "/" THEN RemoveAt(p, i) ELSE p

\* Fault: check_dir does nothing.
KeepDir(p) == p

\* check_dir.  What follows its loop keeps the path as it is.
check_dir(p) ==
  LET loop[i \in 0..Len(p)] == IF i = 0 THEN p ELSE Squeeze(loop[i - 1], i)
  IN loop[Len(p)]

\* "/" is put behind a path that does not end with one.  Of an empty path the
\* byte before the buffer is read, which is 0 in the strings of this build.
WithSlash(p) == IF p # << >> /\ Last(p) = "/" THEN p ELSE Append(p, "/")

\* Fault: root_dir is extended where it should be replaced.
MoreRoot(s, val) == s.root_dir \o WithSlash(check_dir(val))

\* The root_dir a location gives.
RootOf(s, val) == IF val = << >> THEN <<".", "/">> ELSE WithSlash(check_dir(val))

\* Fault: the root directory is left out.
NoRoot(s, val) == check_dir(val)

\* A directory below root_dir.
Below(s, val) == check_dir(s.root_dir \o val)

\* The word that decides about a key: the first that regex_search finds.
Word(key) ==
  LET inTurn == <<"listen_port", "location", "html_pages", "static_path">>
      found == {i \in 1..4 : inTurn[i] \in key}
  IN IF found = {} THEN "none" ELSE inTurn[Min(found)]

\* One round of the loop of parse_setting.
ParseOne(s, kv) ==
  LET word == Word(kv.key) IN
  CASE word = "listen_port" -> [s EXCEPT !.listen_port = "set"]
    [] word = "location"    -> [s EXCEPT !.root_dir = RootOf(s, kv.val)]
    [] word = "html_pages"  -> [s EXCEPT !.pages_path = Below(s, kv.val)]
    [] word = "static_path" -> [s EXCEPT !.static_path = Below(s, kv.val)]
    [] word = "none"        -> s

\* parse_setting on the object's present settings.
parse_setting(s) ==
  LET after[i \in 0..Len(path_KV_data)] ==
        IF i = 0 THEN s ELSE ParseOne(after[i - 1], path_KV_data[i])
  IN after[Len(path_KV_data)]

MayCall == phase = "ready" /\ Len(answers) < MaxCalls

Answer(getter, value) ==
  /\ answers' = Append(answers, [getter |-> getter, value |-> value])
  /\ UNCHANGED <<file, pos, phase, path_KV_data>>

get_pages_path ==
  /\ MayCall
  /\ LET s == parse_setting(settings) IN
     /\ settings' = [s EXCEPT !.pages_path = WithSlash(@)]
     /\ Answer("pages", WithSlash(s.pages_path))

get_static_path ==
  /\ MayCall
  /\ LET s == parse_setting(settings) IN
     /\ settings' = [s EXCEPT !.static_path = WithSlash(@)]
     /\ Answer("static", WithSlash(s.static_path))

get_listen_port ==
  /\ MayCall
  /\ settings' = parse_setting(settings)
  /\ Answer("port", parse_setting(settings).listen_port)

Next == LoadLine \/ LoadEnd \/ get_pages_path \/ get_static_path \/ get_listen_port

Spec == Init /\ [][Next]_vars

-----------------------------------------------------------------------------
(* Properties.                                                             *)

\* A path with one slash for every run of slashes: the same place.
Normal(p) ==
  LET kept == {i \in 1..Len(p) : ~(i > 1 /\ p[i] = "/" /\ p[i - 1] = "/")}
  IN [k \in 1..Cardinality(kept) |->
        p[CHOOSE i \in kept : Cardinality({j \in kept : j <= i}) = k]]

\* The lines that set the root directory, and those that set the pages' one.
Locations == {i \in 1..Len(file) : Word(file[i].key) = "location"}
Pages == {i \in 1..Len(file) : Word(file[i].key) = "html_pages"}

\* The file says where the site is before it says where in it the pages are.
SiteFirst == Locations # {} /\ Pages # {} /\ Max(Locations) < Max(Pages)

\* Where the file puts the pages, read without regard to the order of lines.
PlaceOfPages ==
  LET site == file[Max(Locations)].val
      root == IF site = << >> THEN <<".">> ELSE site
  IN Normal(root \o <<"/">> \o file[Max(Pages)].val \o <<"/">>)

PagesAnswers == {i \in 1..Len(answers) : answers[i].getter = "pages"}

\* get_pages_path returns the place the file gives, at every call and whatever
\* getters were called before, when the location comes first.
PagesWhereTheFileSays ==
  SiteFirst => \A i \in PagesAnswers : Normal(answers[i].value) = PlaceOfPages

\* A run of n slashes in p.
HasRun(p, n) == \E i \in 0 .. Len(p) - n : \A k \in 1..n : p[i + k] = "/"

\* No setting has three slashes in a row, and none below the root two.
Tidy ==
  \A i \in 1..Len(file) :
    ~HasRun(file[i].val, IF "location" \in file[i].key THEN 3 ELSE 2)

\* What check_dir is for: from a tidy file the getter makes a path without
\* doubled slashes, though both sides of the join may bring one.
NoDoubledSlash == Tidy => \A i \in PagesAnswers : ~HasRun(answers[i].value, 2)

\* The settings a getter leaves in the object change what the next one returns
\* at most once: from the second call on get_pages_path repeats itself.
AnswersSettle ==
  \A i, j \in PagesAnswers :
    i > 1 /\ j > 1 => answers[i].value = answers[j].value

\* default.conf:1 introduces comments by "#": a line that holds only a comment
\* does not stop the server.
CommentsHarmless == phase = "threw" => ~file[pos].comment
=============================================================================
