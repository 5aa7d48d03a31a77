--------------------------- MODULE ToolUtilProofs ---------------------------
(***************************************************************************)
(* Proofs about the two parts of rewrite_tool.                             *)
(* SearchDir, for every tree of directories, every set of names and any    *)
(* number of searches: a search that comes back has read the whole tree,   *)
(* and release_dir closes what the search has pushed.                      *)
(* Md5Buffer, for every length of a block and every sequence of calls: the *)
(* digest of a file is that of its own bytes, and asking again repeats it. *)
(***************************************************************************)
EXTENDS SearchDir, Md5Buffer, FiniteSetTheorems, SequenceTheorems, WellFoundedInduction,
        TLAPS

-----------------------------------------------------------------------------
(* The search of directories.                                              *)

-----------------------------------------------------------------------------
(* The invariant.                                                          *)

Handles == (1 .. MaxSearches) \X Dirs

Call == [dir : Dirs, dirs : SUBSET Dirs, files : SUBSET Names]

TypeOK ==
  /\ parent \in [Dirs -> Dirs]
  /\ \A d \in Dirs \ {Root} : parent[d] < d
  /\ file \in [Dirs -> Names \cup {NoFile}]
  /\ searches \in 0 .. MaxSearches
  /\ calls \in Seq(Call)
  /\ storage_root \in Seq(Handles)
  /\ handle \in [Handles -> {"none", "open", "closed"}]
  /\ file_found \in BOOLEAN
  /\ outcome \in {"none", "listing", "releasing", "done", "threw", "undefined"}
  /\ outcome # "none" => searches # 0
  /\ outcome = "listing" <=> calls # << >>
  /\ outcome = "done" => storage_root = << >>

\* No later search has opened anything.
LaterFresh == \A h \in Handles : h[1] > searches => handle[h] = "none"

\* The search in progress, or the last one if it came back.
Searched == outcome \in {"listing", "releasing", "done"}

Entered(d) == handle[<<searches, d>>] # "none"

Wanted(d) == file[d] # NoFile /\ Matches(file[d])

\* A call of list_them is in a directory of its own that this search has
\* opened, and what it has not read yet is in that directory and not opened.
CallsOK ==
  \A i \in DOMAIN calls :
    /\ Entered(calls[i].dir)
    /\ calls[i].dirs \subseteq Subdirs(calls[i].dir)
    /\ \A e \in calls[i].dirs : ~Entered(e)
    /\ calls[i].files \subseteq {file[calls[i].dir]} \ {NoFile}
    /\ \A j \in DOMAIN calls : calls[i].dir = calls[j].dir => i = j

\* A directory is opened after the one it is in.  Of one that was opened, every
\* subdirectory was opened too or is yet to be read, and so is the file if it
\* counts.
Walked ==
  Searched =>
    /\ Entered(Root)
    /\ \A d \in Dirs : Entered(d) =>
         /\ d # Root => Entered(parent[d])
         /\ \A e \in Subdirs(d) :
              Entered(e) \/ \E i \in DOMAIN calls : calls[i].dir = d /\ e \in calls[i].dirs
         /\ Wanted(d) =>
              file_found \/ \E i \in DOMAIN calls : calls[i].dir = d /\ file[d] \in calls[i].files

NoFalseAnswer == file_found => \E d \in Dirs : Wanted(d)

WalkInv == TypeOK /\ LaterFresh /\ CallsOK /\ Walked /\ NoFalseAnswer

On(s, h) == \E i \in DOMAIN s : s[i] = h

TwiceOn(s, h) == \E i, j \in DOMAIN s : i # j /\ s[i] = h /\ s[j] = h

Stacked(h) == On(storage_root, h)

StackedTwice(h) == TwiceOn(storage_root, h)

Leaf(d) == Subdirs(d) = {}

TwoSubdirs(d) == \E e, f \in Subdirs(d) : e # f

\* What is on the stack has a subdirectory and was opened.  To be there twice,
\* or closed, it takes two subdirectories.
StackOK ==
  \A h \in Handles : Stacked(h) =>
    /\ handle[h] # "none"
    /\ ~Leaf(h[2])
    /\ StackedTwice(h) \/ handle[h] = "closed" => TwoSubdirs(h[2])

\* What is open is a leaf, on the stack, or being listed.
OpenOK ==
  \A h \in Handles : handle[h] = "open" =>
    \/ Leaf(h[2])
    \/ Stacked(h)
    \/ h[1] = searches /\ \E i \in DOMAIN calls : calls[i].dir = h[2]

ClosedOK ==
  \A h \in Handles : handle[h] = "closed" =>
    ~Leaf(h[2]) /\ ~(outcome = "listing" /\ h[1] = searches)

\* A directory that is being listed is on the stack from its first subdirectory
\* on, and every caller has met one.
ListedOK ==
  \A i \in DOMAIN calls :
    /\ Stacked(<<searches, calls[i].dir>>) <=> calls[i].dirs # Subdirs(calls[i].dir)
    /\ i # Len(calls) => calls[i].dirs # Subdirs(calls[i].dir)

\* A subdirectory that was opened has put its directory onto the stack, and two
\* of them have put it there twice; the first closedir() leaves one of the two.
PushedOK ==
  /\ outcome = "listing" =>
       \A e \in Dirs \ {Root} : Entered(e) => Stacked(<<searches, parent[e]>>)
  /\ Searched =>
       \A d \in Dirs : \A e, f \in Subdirs(d) : e # f /\ Entered(e) /\ Entered(f) =>
         \/ StackedTwice(<<searches, d>>)
         \/ handle[<<searches, d>>] = "closed" /\ Stacked(<<searches, d>>)

UndefinedOK == outcome = "undefined" => \E d \in Dirs : TwoSubdirs(d)

StackInv == StackOK /\ OpenOK /\ ClosedOK /\ ListedOK /\ PushedOK /\ UndefinedOK

IInv == WalkInv /\ StackInv

-----------------------------------------------------------------------------
(* The calls of list_them.                                                 *)

\* Subdirectories are directories, and the root is not one.
LEMMA SubdirsType == \A d : Subdirs(d) \subseteq Dirs \ {Root}
  BY DEF Subdirs

\* The call list_them makes when it enters a directory.
NewCall(d) == [dir |-> d, dirs |-> Subdirs(d), files |-> {file[d]} \ {NoFile}]

LEMMA NewCallType ==
  ASSUME TypeOK, NEW d \in Dirs
  PROVE  NewCall(d) \in Call
<1>1. Subdirs(d) \in SUBSET Dirs
  BY SubdirsType
<1>2. {file[d]} \ {NoFile} \in SUBSET Names
  BY DEF TypeOK
<1>. QED  BY <1>1, <1>2 DEF NewCall, Call

\* The call on top.
LEMMA TopCall ==
  ASSUME TypeOK, outcome = "listing"
  PROVE  /\ Len(calls) \in Nat \ {0} /\ DOMAIN calls = 1 .. Len(calls)
         /\ Top = calls[Len(calls)] /\ Top \in Call
         /\ Len(calls) \in DOMAIN calls
         /\ searches \in 1 .. MaxSearches
<1>1. calls \in Seq(Call) /\ calls # << >> /\ searches \in 0 .. MaxSearches /\ searches # 0
  BY DEF TypeOK
<1>2. Len(calls) \in Nat \ {0} /\ DOMAIN calls = 1 .. Len(calls)
  BY <1>1
<1>. QED  BY <1>1, <1>2, ConstantsOK DEF Top

\* The stack of calls with another call on top.
LEMMA ReplacedTop ==
  ASSUME TypeOK, outcome = "listing", NEW c \in Call,
         NEW s, s = [calls EXCEPT ![Len(calls)] = c]
  PROVE  /\ s \in Seq(Call) /\ Len(s) = Len(calls) /\ DOMAIN s = DOMAIN calls
         /\ \A i \in DOMAIN calls : s[i] = IF i = Len(calls) THEN c ELSE calls[i]
<1>1. calls \in Seq(Call)
  BY DEF TypeOK
<1>2. Len(calls) \in 1 .. Len(calls) /\ DOMAIN calls = 1 .. Len(calls)
  BY TopCall
<1>3. s \in Seq(Call) /\ Len(s) = Len(calls)
  BY <1>1, <1>2, ExceptSeq
<1>. QED  BY <1>1, <1>2, <1>3

\* What Enter does to the calls and to the handles.
LEMMA Entering ==
  ASSUME TypeOK, NEW n \in 1 .. MaxSearches, NEW d \in Dirs,
         NEW callers \in Seq(Call), Enter(callers, d, n)
  PROVE  \/ /\ outcome' = "listing"
            /\ calls' \in Seq(Call) /\ calls' # << >>
            /\ Len(calls') = Len(callers) + 1 /\ DOMAIN calls' = 1 .. Len(callers) + 1
            /\ \A i \in 1 .. Len(callers) : calls'[i] = callers[i]
            /\ calls'[Len(callers) + 1] = NewCall(d)
            /\ handle' \in [Handles -> {"none", "open", "closed"}]
            /\ \A h \in Handles : handle'[h] = IF h = <<n, d>> THEN "open" ELSE handle[h]
         \/ outcome' = "threw" /\ calls' = << >> /\ handle' = handle
<1> DEFINE c == NewCall(d)
           h == <<n, d>>
<1>1. c \in Call /\ h \in Handles
  BY NewCallType DEF Handles
<1>2. CASE calls' = Append(callers, c) /\ handle' = [handle EXCEPT ![h] = "open"]
           /\ outcome' = "listing"
  <2> HIDE DEF c, h
  <2>1. /\ calls' \in Seq(Call) /\ Len(calls') = Len(callers) + 1
        /\ DOMAIN calls' = 1 .. Len(callers) + 1
        /\ \A i \in 1 .. Len(callers) : calls'[i] = callers[i]
        /\ calls'[Len(callers) + 1] = c
    BY <1>1, <1>2
  <2>2. calls' # << >>
    BY <2>1
  <2>3. /\ handle' \in [Handles -> {"none", "open", "closed"}]
        /\ \A g \in Handles : handle'[g] = IF g = h THEN "open" ELSE handle[g]
    BY <1>1, <1>2 DEF TypeOK
  <2>. QED  BY <1>2, <2>1, <2>2, <2>3 DEF c, h
<1>. QED  BY <1>2, Zenon DEF Enter, NewCall
-----------------------------------------------------------------------------
(* A search reads the whole tree.                                          *)

LEMMA InitWalk == Init => WalkInv
<1> SUFFICES ASSUME Init PROVE WalkInv
  OBVIOUS
<1>1. calls \in Seq(Call) /\ storage_root \in Seq(Handles) /\ DOMAIN calls = {}
  BY DEF Init
<1>2. /\ parent \in [Dirs -> Dirs] /\ \A d \in Dirs \ {Root} : parent[d] < d
      /\ handle \in [Handles -> {"none", "open", "closed"}]
      /\ \A h \in Handles : handle[h] = "none"
  BY DEF Init, Handles
<1>3. TypeOK
  <2>1. searches \in 0 .. MaxSearches /\ file \in [Dirs -> Names \cup {NoFile}]
    BY ConstantsOK DEF Init
  <2>2. /\ file_found \in BOOLEAN
        /\ outcome \in {"none", "listing", "releasing", "done", "threw", "undefined"}
        /\ outcome = "none" /\ calls = << >>
    BY DEF Init
  <2>3. outcome = "listing" <=> calls # << >>
    BY <2>2
  <2>. QED  BY <1>1, <1>2, <2>1, <2>2, <2>3 DEF TypeOK
<1>4. LaterFresh /\ CallsOK /\ NoFalseAnswer /\ Walked
  BY <1>1, <1>2 DEF Init, LaterFresh, CallsOK, NoFalseAnswer, Walked, Searched
<1>. QED  BY <1>3, <1>4 DEF WalkInv

\* A new search starts at the root, with nothing found and nothing open.
LEMMA SearchWalk ==
  ASSUME WalkInv, NEW b \in BOOLEAN, Search(b)
  PROVE  WalkInv'
<1> DEFINE n == searches + 1
<1>1. /\ searches' = n /\ file_found' = FALSE /\ UNCHANGED <<parent, file, storage_root>>
      /\ outcome \in {"none", "done", "threw"} /\ searches < MaxSearches
      /\ Enter(<< >>, Root, n)
  BY DEF Search, FoundAtFirst, tree
<1>2. n \in 1 .. MaxSearches /\ searches \in Nat /\ Root \in Dirs /\ << >> \in Seq(Call)
  BY <1>1, ConstantsOK DEF WalkInv, TypeOK, Dirs, Root
<1>3. \A d : Subdirs(d)' = Subdirs(d)
  BY <1>1 DEF Subdirs
<1>4. NoFalseAnswer'
  BY <1>1 DEF NoFalseAnswer
<1>5. CASE outcome' = "threw" /\ calls' = << >> /\ handle' = handle
  <2>1. TypeOK'
    <3>1. searches' \in 0 .. MaxSearches /\ searches' # 0
      BY <1>1, <1>2
    <3>2. /\ parent' \in [Dirs -> Dirs] /\ \A d \in Dirs \ {Root} : parent'[d] < d
          /\ file' \in [Dirs -> Names \cup {NoFile}]
          /\ storage_root' \in Seq(Handles) /\ file_found' \in BOOLEAN
          /\ handle' \in [Handles -> {"none", "open", "closed"}]
      BY <1>1, <1>5 DEF WalkInv, TypeOK
    <3>3. /\ calls' \in Seq(Call) /\ outcome' # "listing" /\ calls' = << >>
          /\ outcome' \in {"none", "listing", "releasing", "done", "threw", "undefined"}
          /\ outcome' # "done"
      BY <1>5
    <3>. QED  BY <3>1, <3>2, <3>3 DEF TypeOK
  <2>2. LaterFresh' /\ CallsOK' /\ Walked'
    BY <1>1, <1>2, <1>5 DEF WalkInv, LaterFresh, CallsOK, Walked, Searched, Handles
  <2>. QED  BY <1>4, <2>1, <2>2 DEF WalkInv
<1>6. CASE /\ outcome' = "listing"
           /\ calls' \in Seq(Call) /\ calls' # << >>
           /\ Len(calls') = 1 /\ DOMAIN calls' = 1 .. 1
           /\ calls'[1] = NewCall(Root)
           /\ handle' \in [Handles -> {"none", "open", "closed"}]
           /\ \A h \in Handles : handle'[h] = IF h = <<n, Root>> THEN "open" ELSE handle[h]
  <2>1. TypeOK'
    <3>1. searches' \in 0 .. MaxSearches /\ searches' # 0
      BY <1>1, <1>2
    <3>2. /\ parent' \in [Dirs -> Dirs] /\ \A d \in Dirs \ {Root} : parent'[d] < d
          /\ file' \in [Dirs -> Names \cup {NoFile}]
          /\ storage_root' \in Seq(Handles) /\ file_found' \in BOOLEAN
      BY <1>1 DEF WalkInv, TypeOK
    <3>3. /\ outcome' # "done"
          /\ outcome' \in {"none", "listing", "releasing", "done", "threw", "undefined"}
      BY <1>6
    <3>. QED  BY <1>6, <3>1, <3>2, <3>3 DEF TypeOK
  <2>2. \A d \in Dirs : Entered(d)' <=> d = Root
    <3>1. SUFFICES ASSUME NEW d \in Dirs PROVE handle'[<<n, d>>] # "none" <=> d = Root
      BY <1>1 DEF Entered
    <3>2. <<n, d>> \in Handles /\ <<n, d>>[1] = n
      BY <1>2 DEF Handles
    <3>3. handle[<<n, d>>] = "none"
      BY <1>2, <3>2 DEF WalkInv, LaterFresh
    <3>. QED  BY <1>6, <3>2, <3>3
  <2>3. LaterFresh'
    <3>1. SUFFICES ASSUME NEW h \in Handles, h[1] > n PROVE handle'[h] = "none"
      BY <1>1 DEF LaterFresh
    <3>2. h # <<n, Root>> /\ h[1] > searches
      BY <1>2, <3>1 DEF Handles
    <3>. QED  BY <1>6, <3>2 DEF WalkInv, LaterFresh
  <2>4. /\ DOMAIN calls' = {1}
        /\ calls'[1].dir = Root /\ calls'[1].dirs = Subdirs(Root)
        /\ calls'[1].files = {file[Root]} \ {NoFile}
    BY <1>6 DEF NewCall
  <2>5. CallsOK'
    BY <1>1, <1>2, <1>3, <2>2, <2>4, SubdirsType DEF CallsOK
  <2>6. Walked'
    BY <1>1, <1>2, <1>3, <2>2, <2>4 DEF Walked, Wanted
  <2>. QED  BY <1>4, <2>1, <2>3, <2>5, <2>6 DEF WalkInv
<1>7. Len(<< >>) = 0
  OBVIOUS
<1>. QED
  <2>1. TypeOK
    BY DEF WalkInv
  <2> HIDE DEF n
  <2>2. \/ /\ outcome' = "listing"
           /\ calls' \in Seq(Call) /\ calls' # << >>
           /\ Len(calls') = 0 + 1 /\ DOMAIN calls' = 1 .. 0 + 1
           /\ calls'[0 + 1] = NewCall(Root)
           /\ handle' \in [Handles -> {"none", "open", "closed"}]
           /\ \A h \in Handles : handle'[h] = IF h = <<n, Root>> THEN "open" ELSE handle[h]
        \/ outcome' = "threw" /\ calls' = << >> /\ handle' = handle
    BY <1>1, <1>2, <1>7, <2>1, Entering
  <2>. QED  BY <1>5, <1>6, <2>2

\* A file leaves the call on top, and counts if it matches.
LEMMA ReadFileWalk == ASSUME WalkInv, ReadFile PROVE WalkInv'
<1> DEFINE L == Len(calls)
<1>1. PICK f \in Top.files :
        /\ calls' = [calls EXCEPT ![L].files = @ \ {f}]
        /\ file_found' = (file_found \/ Matches(f))
  BY DEF ReadFile
<1>2. /\ outcome = "listing" /\ outcome' = outcome /\ handle' = handle
      /\ UNCHANGED <<parent, file, ignore, searches, storage_root>>
  BY DEF ReadFile, tree
<1>3. /\ L \in Nat \ {0} /\ DOMAIN calls = 1 .. L /\ Top = calls[L] /\ Top \in Call
      /\ L \in DOMAIN calls /\ TypeOK
  BY <1>2, TopCall DEF WalkInv
<1> DEFINE c == [Top EXCEPT !.files = Top.files \ {f}]
<1>4. /\ c \in Call /\ c.dir = Top.dir /\ c.dirs = Top.dirs /\ c.files = Top.files \ {f}
  BY <1>3 DEF Call
<1>5. calls' = [calls EXCEPT ![L] = c]
  BY <1>1, <1>3
<1> HIDE DEF c
<1>6. /\ calls' \in Seq(Call) /\ Len(calls') = L /\ DOMAIN calls' = DOMAIN calls
      /\ \A i \in DOMAIN calls : calls'[i] = IF i = L THEN c ELSE calls[i]
  BY <1>2, <1>3, <1>4, <1>5, ReplacedTop
<1>7. \A i \in DOMAIN calls :
        /\ calls'[i].dir = calls[i].dir /\ calls'[i].dirs = calls[i].dirs
        /\ calls'[i].files \subseteq calls[i].files
        /\ \A g \in calls[i].files : g # f => g \in calls'[i].files
  BY <1>3, <1>4, <1>6
<1> HIDE DEF L
<1>8. TypeOK'
  <2>1. calls' # << >>
    BY <1>3, <1>6 DEF L
  <2>2. file_found' \in BOOLEAN
    BY <1>1, <1>3 DEF TypeOK, Matches
  <2>. QED  BY <1>2, <1>3, <1>6, <2>1, <2>2 DEF TypeOK
<1>9. \A d : Subdirs(d)' = Subdirs(d) /\ (Entered(d)' <=> Entered(d)) /\ (Wanted(d)' <=> Wanted(d))
  BY <1>2 DEF Subdirs, Entered, Wanted, Matches
<1>10. LaterFresh'
  BY <1>2 DEF WalkInv, LaterFresh
<1>11. CallsOK'
  <2>1. SUFFICES ASSUME NEW i \in DOMAIN calls
        PROVE  /\ Entered(calls'[i].dir)
               /\ calls'[i].dirs \subseteq Subdirs(calls'[i].dir)
               /\ \A e \in calls'[i].dirs : ~Entered(e)
               /\ calls'[i].files \subseteq {file[calls'[i].dir]} \ {NoFile}
               /\ \A j \in DOMAIN calls : calls'[i].dir = calls'[j].dir => i = j
    BY <1>2, <1>6, Zenon DEF CallsOK, Entered, Subdirs
  <2>2. /\ Entered(calls[i].dir)
        /\ calls[i].dirs \subseteq Subdirs(calls[i].dir)
        /\ \A e \in calls[i].dirs : ~Entered(e)
        /\ calls[i].files \subseteq {file[calls[i].dir]} \ {NoFile}
        /\ \A j \in DOMAIN calls : calls[i].dir = calls[j].dir => i = j
    BY DEF WalkInv, CallsOK
  <2>3. calls'[i].files \subseteq {file[calls'[i].dir]} \ {NoFile}
    BY <1>7, <2>2
  <2>4. \A j \in DOMAIN calls : calls'[i].dir = calls'[j].dir => i = j
    BY <1>7, <2>2
  <2>. QED  BY <1>7, <2>2, <2>3, <2>4, Zenon
<1>12. /\ Top.dir \in Dirs /\ f = file[Top.dir] /\ f # NoFile
  BY <1>1, <1>3 DEF WalkInv, CallsOK, Call
<1>13. NoFalseAnswer'
  <2>1. CASE file_found
    BY <1>9, <2>1 DEF WalkInv, NoFalseAnswer
  <2>2. CASE Matches(f)
    BY <1>9, <1>12, <2>2 DEF NoFalseAnswer, Wanted
  <2>. QED  BY <1>1, <2>1, <2>2 DEF NoFalseAnswer
<1>14. Walked'
  <2>1. Searched
    BY <1>2 DEF Searched
  <2>2. Entered(Root)'
    BY <1>9, <2>1 DEF WalkInv, Walked
  <2>3. ASSUME NEW d \in Dirs, Entered(d)
        PROVE  /\ d # Root => Entered(parent[d])
               /\ \A e \in Subdirs(d) :
                    Entered(e) \/ \E i \in DOMAIN calls' : calls'[i].dir = d /\ e \in calls'[i].dirs
               /\ Wanted(d) => \/ file_found'
                               \/ \E i \in DOMAIN calls' :
                                    calls'[i].dir = d /\ file[d] \in calls'[i].files
    <3>1. /\ d # Root => Entered(parent[d])
          /\ \A e \in Subdirs(d) :
               Entered(e) \/ \E i \in DOMAIN calls : calls[i].dir = d /\ e \in calls[i].dirs
      BY <2>1, <2>3 DEF WalkInv, Walked
    <3>2. ASSUME Wanted(d), ~file_found'
          PROVE  \E i \in DOMAIN calls' : calls'[i].dir = d /\ file[d] \in calls'[i].files
      <4>1. ~file_found /\ ~Matches(f)
        BY <1>1, <3>2
      <4>2. PICK i \in DOMAIN calls : calls[i].dir = d /\ file[d] \in calls[i].files
        BY <2>1, <2>3, <3>2, <4>1 DEF WalkInv, Walked
      <4>3. file[d] # f
        BY <3>2, <4>1 DEF Wanted
      <4>. QED  BY <1>6, <1>7, <4>2, <4>3
    <3>3. ASSUME NEW e \in Subdirs(d), ~Entered(e)
          PROVE  \E i \in DOMAIN calls' : calls'[i].dir = d /\ e \in calls'[i].dirs
      BY <1>6, <1>7, <3>1, <3>3
    <3>. QED  BY <3>1, <3>2, <3>3
  <2>. QED  BY <1>2, <1>9, <2>2, <2>3 DEF Walked, Entered
<1>. QED  BY <1>8, <1>10, <1>11, <1>13, <1>14 DEF WalkInv
\* What ReadSubdir does, with e the subdirectory it has met.
LEMMA ReadingSubdir ==
  ASSUME WalkInv, ReadSubdir
  PROVE  \E e \in Top.dirs :
    /\ storage_root' = Append(storage_root, <<searches, Top.dir>>)
    /\ e \in Subdirs(Top.dir) /\ ~Entered(e)
    /\ \/ /\ outcome' = "listing"
          /\ calls' \in Seq(Call) /\ calls' # << >>
          /\ Len(calls') = Len(calls) + 1 /\ DOMAIN calls' = 1 .. Len(calls) + 1
          /\ \A i \in 1 .. Len(calls) :
               /\ calls'[i].dir = calls[i].dir /\ calls'[i].files = calls[i].files
               /\ calls'[i].dirs = IF i = Len(calls) THEN calls[i].dirs \ {e} ELSE calls[i].dirs
          /\ calls'[Len(calls) + 1] = NewCall(e)
          /\ handle' \in [Handles -> {"none", "open", "closed"}]
          /\ \A h \in Handles : handle'[h] = IF h = <<searches, e>> THEN "open" ELSE handle[h]
       \/ outcome' = "threw" /\ calls' = << >> /\ handle' = handle
<1> DEFINE L == Len(calls)
           cut(e) == [calls EXCEPT ![L].dirs = @ \ {e}]
<1>1. outcome = "listing" /\ storage_root' = Append(storage_root, <<searches, Top.dir>>)
  BY DEF ReadSubdir, Pushed
<1>2. PICK e \in Top.dirs : Enter(cut(e), e, searches)
  BY Zenon DEF ReadSubdir
<1>3. /\ L \in Nat \ {0} /\ DOMAIN calls = 1 .. L /\ Top = calls[L] /\ Top \in Call
      /\ L \in DOMAIN calls /\ TypeOK /\ searches \in 1 .. MaxSearches
  BY <1>1, TopCall DEF WalkInv
<1>4. e \in Subdirs(Top.dir) /\ ~Entered(e) /\ e \in Dirs
  BY <1>2, <1>3, SubdirsType DEF WalkInv, CallsOK
<1> DEFINE c == [Top EXCEPT !.dirs = Top.dirs \ {e}]
<1>5. /\ c \in Call /\ c.dir = Top.dir /\ c.dirs = Top.dirs \ {e} /\ c.files = Top.files
  BY <1>3 DEF Call
<1>6. cut(e) = [calls EXCEPT ![L] = c]
  BY <1>3
<1> HIDE DEF c, cut
<1>7. /\ cut(e) \in Seq(Call) /\ Len(cut(e)) = L
      /\ \A i \in DOMAIN calls : cut(e)[i] = IF i = L THEN c ELSE calls[i]
  BY <1>1, <1>3, <1>5, <1>6, ReplacedTop
<1> HIDE DEF L
<1>8. \A i \in 1 .. L :
        /\ cut(e)[i].dir = calls[i].dir /\ cut(e)[i].files = calls[i].files
        /\ cut(e)[i].dirs = IF i = L THEN calls[i].dirs \ {e} ELSE calls[i].dirs
  BY <1>3, <1>5, <1>7
<1>9. \/ /\ outcome' = "listing"
         /\ calls' \in Seq(Call) /\ calls' # << >>
         /\ Len(calls') = L + 1 /\ DOMAIN calls' = 1 .. L + 1
         /\ \A i \in 1 .. L : calls'[i] = cut(e)[i]
         /\ calls'[L + 1] = NewCall(e)
         /\ handle' \in [Handles -> {"none", "open", "closed"}]
         /\ \A h \in Handles : handle'[h] = IF h = <<searches, e>> THEN "open" ELSE handle[h]
      \/ outcome' = "threw" /\ calls' = << >> /\ handle' = handle
  <2> DEFINE k == cut(e)
  <2>1. k \in Seq(Call) /\ Enter(k, e, searches) /\ Len(k) = L
    BY <1>2, <1>7
  <2> HIDE DEF k
  <2>2. \/ /\ outcome' = "listing"
           /\ calls' \in Seq(Call) /\ calls' # << >>
           /\ Len(calls') = Len(k) + 1 /\ DOMAIN calls' = 1 .. Len(k) + 1
           /\ \A i \in 1 .. Len(k) : calls'[i] = k[i]
           /\ calls'[Len(k) + 1] = NewCall(e)
           /\ handle' \in [Handles -> {"none", "open", "closed"}]
           /\ \A h \in Handles : handle'[h] = IF h = <<searches, e>> THEN "open" ELSE handle[h]
        \/ outcome' = "threw" /\ calls' = << >> /\ handle' = handle
    BY <1>3, <1>4, <2>1, Entering
  <2>. QED  BY <2>1, <2>2 DEF k
<1>10. CASE outcome' = "threw" /\ calls' = << >> /\ handle' = handle
  BY <1>1, <1>2, <1>4, <1>10, Zenon
<1>11. CASE outcome' = "listing"
  <2>1. \A i \in 1 .. L :
          /\ calls'[i].dir = calls[i].dir /\ calls'[i].files = calls[i].files
          /\ calls'[i].dirs = IF i = L THEN calls[i].dirs \ {e} ELSE calls[i].dirs
    BY <1>8, <1>9, <1>11
  <2>. QED  BY <1>1, <1>2, <1>4, <1>9, <1>11, <2>1 DEF L
<1>. QED  BY <1>9, <1>10, <1>11

LEMMA ReadSubdirWalk == ASSUME WalkInv, ReadSubdir PROVE WalkInv'
<1> DEFINE L == Len(calls)
<1>1. /\ outcome = "listing"
      /\ UNCHANGED <<parent, file, ignore, searches, file_found>>
  BY DEF ReadSubdir, tree
<1>2. PICK e \in Top.dirs :
        /\ storage_root' = Append(storage_root, <<searches, Top.dir>>)
        /\ e \in Subdirs(Top.dir) /\ ~Entered(e)
        /\ \/ /\ outcome' = "listing"
              /\ calls' \in Seq(Call) /\ calls' # << >>
              /\ Len(calls') = L + 1 /\ DOMAIN calls' = 1 .. L + 1
              /\ \A i \in 1 .. L :
                   /\ calls'[i].dir = calls[i].dir /\ calls'[i].files = calls[i].files
                   /\ calls'[i].dirs = IF i = L THEN calls[i].dirs \ {e} ELSE calls[i].dirs
              /\ calls'[L + 1] = NewCall(e)
              /\ handle' \in [Handles -> {"none", "open", "closed"}]
              /\ \A h \in Handles : handle'[h] = IF h = <<searches, e>> THEN "open" ELSE handle[h]
           \/ outcome' = "threw" /\ calls' = << >> /\ handle' = handle
  BY ReadingSubdir
<1>3. /\ L \in Nat \ {0} /\ DOMAIN calls = 1 .. L /\ Top = calls[L] /\ Top \in Call
      /\ L \in DOMAIN calls /\ TypeOK /\ searches \in 1 .. MaxSearches
  BY <1>1, TopCall DEF WalkInv
<1>4. e \in Dirs \ {Root} /\ Top.dir \in Dirs /\ parent[e] = Top.dir /\ Entered(Top.dir)
  BY <1>2, <1>3, SubdirsType DEF Call, Subdirs, WalkInv, CallsOK
<1> HIDE DEF L
<1>5. storage_root' \in Seq(Handles)
  <2> DEFINE h == <<searches, Top.dir>>
  <2>1. h \in Handles
    BY <1>3, <1>4 DEF Handles
  <2>2. storage_root' = Append(storage_root, h) /\ storage_root \in Seq(Handles)
    BY <1>2, <1>3, Zenon DEF TypeOK
  <2> HIDE DEF h
  <2>. QED  BY <2>1, <2>2
<1>6. /\ parent' \in [Dirs -> Dirs] /\ \A d \in Dirs \ {Root} : parent'[d] < d
      /\ file' \in [Dirs -> Names \cup {NoFile}]
      /\ file_found' \in BOOLEAN
      /\ searches' \in 0 .. MaxSearches /\ searches' # 0
  BY <1>1, <1>3 DEF TypeOK
<1>7. \A d : Subdirs(d)' = Subdirs(d)
  BY <1>1 DEF Subdirs
<1>8. NoFalseAnswer'
  BY <1>1 DEF WalkInv, NoFalseAnswer, Wanted, Matches
<1>9. CASE outcome' = "threw" /\ calls' = << >> /\ handle' = handle
  <2>1. TypeOK'
    <3>1. /\ calls' \in Seq(Call) /\ outcome' # "listing" /\ outcome' # "done"
          /\ outcome' \in {"none", "listing", "releasing", "done", "threw", "undefined"}
          /\ handle' \in [Handles -> {"none", "open", "closed"}]
      BY <1>3, <1>9 DEF TypeOK
    <3>. QED  BY <1>5, <1>6, <1>9, <3>1 DEF TypeOK
  <2>2. LaterFresh' /\ CallsOK' /\ Walked'
    BY <1>1, <1>9 DEF WalkInv, LaterFresh, CallsOK, Walked, Searched
  <2>. QED  BY <1>8, <2>1, <2>2 DEF WalkInv
<1>10. \A i \in 1 .. L + 1 : i \in 1 .. L \/ i = L + 1
  BY <1>3
<1>11. \A i \in 1 .. L : i \in 1 .. L + 1 /\ i # L + 1 /\ i \in DOMAIN calls
  BY <1>3
<1>12. CASE outcome' = "listing"
  <2>1. TypeOK'
    <3>1. outcome' # "done"
      BY <1>12
    <3>. QED  BY <1>2, <1>5, <1>6, <1>12, <3>1 DEF TypeOK
  <2>2. /\ \A i \in 1 .. L :
             /\ calls'[i].dir = calls[i].dir /\ calls'[i].files = calls[i].files
             /\ calls'[i].dirs = IF i = L THEN calls[i].dirs \ {e} ELSE calls[i].dirs
        /\ calls'[L + 1].dir = e /\ calls'[L + 1].dirs = Subdirs(e)
        /\ calls'[L + 1].files = {file[e]} \ {NoFile}
        /\ DOMAIN calls' = 1 .. L + 1
        /\ \A h \in Handles : handle'[h] = IF h = <<searches, e>> THEN "open" ELSE handle[h]
    <3>1. calls'[L + 1] = NewCall(e)
      BY <1>2, <1>12
    <3>2. /\ calls'[L + 1].dir = e /\ calls'[L + 1].dirs = Subdirs(e)
          /\ calls'[L + 1].files = {file[e]} \ {NoFile}
      BY <3>1 DEF NewCall
    <3>. QED  BY <1>2, <1>12, <3>2, Zenon
  <2>3. \A d \in Dirs : (handle'[<<searches, d>>] # "none") <=> (d = e \/ Entered(d))
    <3>1. SUFFICES ASSUME NEW d \in Dirs
                   PROVE  (handle'[<<searches, d>>] # "none") <=> (d = e \/ Entered(d))
      OBVIOUS
    <3>2. <<searches, d>> \in Handles /\ <<searches, e>> \in Handles
      BY <1>3, <1>4 DEF Handles
    <3>. QED  BY <2>2, <3>2 DEF Entered
  <2>4. LaterFresh'
    <3>1. SUFFICES ASSUME NEW h \in Handles, h[1] > searches PROVE handle'[h] = "none"
      BY <1>1 DEF LaterFresh
    <3>2. h # <<searches, e>>
      BY <1>3, <3>1 DEF Handles
    <3>. QED  BY <2>2, <3>1, <3>2 DEF WalkInv, LaterFresh
  <2>5. \A i \in 1 .. L :
          /\ Entered(calls[i].dir) /\ calls[i].dir \in Dirs /\ calls[i].dir # e
          /\ calls[i].dirs \subseteq Subdirs(calls[i].dir)
          /\ \A x \in calls[i].dirs : ~Entered(x)
          /\ calls[i].files \subseteq {file[calls[i].dir]} \ {NoFile}
          /\ \A j \in 1 .. L : calls[i].dir = calls[j].dir => i = j
    <3>1. \A i \in 1 .. L : calls[i] \in Call
      BY <1>3 DEF TypeOK
    <3>. QED  BY <1>2, <1>3, <3>1 DEF WalkInv, CallsOK, Call
  <2>6. \A x \in Subdirs(e) : x \in Dirs /\ x # e /\ ~Entered(x)
    <3>1. SUFFICES ASSUME NEW x \in Subdirs(e) PROVE x \in Dirs /\ x # e /\ ~Entered(x)
      OBVIOUS
    <3>2. x \in Dirs \ {Root} /\ parent[x] = e /\ parent[x] < x
      BY <1>3 DEF Subdirs, TypeOK
    <3>3. x # e
      BY <3>2 DEF Dirs
    <3>4. Entered(x) => Entered(e)
      BY <1>1, <3>2 DEF WalkInv, Walked, Searched
    <3>. QED  BY <1>2, <3>2, <3>3, <3>4
  <2>7. ASSUME NEW i \in 1 .. L, NEW x \in calls'[i].dirs
        PROVE  x \in Dirs /\ x # e /\ ~Entered(x) /\ x \in calls[i].dirs
    <3>1. x \in calls[i].dirs /\ (i = L => x # e)
      BY <2>2
    <3>2. x \in Subdirs(calls[i].dir) /\ ~Entered(x)
      BY <2>5, <3>1
    <3>3. x \in Dirs /\ parent[x] = calls[i].dir
      BY <3>2 DEF Subdirs
    <3>4. x # e
      BY <1>3, <1>4, <2>5, <3>1, <3>3
    <3>. QED  BY <3>1, <3>2, <3>3, <3>4
  <2>8. CallsOK'
    <3>1. SUFFICES ASSUME NEW i \in 1 .. L + 1
          PROVE  /\ handle'[<<searches, calls'[i].dir>>] # "none"
                 /\ calls'[i].dirs \subseteq Subdirs(calls'[i].dir)
                 /\ \A x \in calls'[i].dirs : handle'[<<searches, x>>] = "none"
                 /\ calls'[i].files \subseteq {file[calls'[i].dir]} \ {NoFile}
                 /\ \A j \in 1 .. L + 1 : calls'[i].dir = calls'[j].dir => i = j
      BY <1>1, <2>2 DEF CallsOK, Entered, Subdirs
    <3>2. CASE i = L + 1
      <4>1. handle'[<<searches, calls'[i].dir>>] # "none"
        BY <1>4, <2>2, <2>3, <3>2
      <4>2. \A x \in calls'[i].dirs : handle'[<<searches, x>>] = "none"
        BY <2>2, <2>3, <2>6, <3>2
      <4>3. ASSUME NEW j \in 1 .. L + 1, calls'[i].dir = calls'[j].dir PROVE i = j
        <5>1. j \notin 1 .. L
          BY <2>2, <2>5, <3>2, <4>3
        <5>. QED  BY <1>10, <3>2, <5>1
      <4>. QED  BY <2>2, <3>2, <4>1, <4>2, <4>3
    <3>3. CASE i \in 1 .. L
      <4>1. handle'[<<searches, calls'[i].dir>>] # "none"
        BY <2>2, <2>3, <2>5, <3>3
      <4>2. \A x \in calls'[i].dirs : handle'[<<searches, x>>] = "none"
        BY <2>3, <2>7, <3>3
      <4>3. ASSUME NEW j \in 1 .. L + 1, calls'[i].dir = calls'[j].dir PROVE i = j
        <5>1. j \in 1 .. L
          BY <1>10, <2>2, <2>5, <3>3, <4>3
        <5>. QED  BY <2>2, <2>5, <3>3, <4>3, <5>1
      <4>4. calls'[i].dirs \subseteq Subdirs(calls'[i].dir)
        BY <2>2, <2>5, <2>7, <3>3
      <4>5. calls'[i].files \subseteq {file[calls'[i].dir]} \ {NoFile}
        BY <2>2, <2>5, <3>3
      <4>. QED  BY <4>1, <4>2, <4>3, <4>4, <4>5
    <3>. QED  BY <1>3, <3>2, <3>3
  <2>9. Walked'
    <3>1. Searched
      BY <1>1 DEF Searched
    <3>2. handle'[<<searches, Root>>] # "none" /\ Root \in Dirs
      BY <1>3, <2>3, <3>1, ConstantsOK DEF WalkInv, Walked, Dirs, Root
    <3>3. ASSUME NEW d \in Dirs, d = e \/ Entered(d)
          PROVE  /\ d # Root => handle'[<<searches, parent[d]>>] # "none"
                 /\ \A x \in Subdirs(d) :
                      \/ handle'[<<searches, x>>] # "none"
                      \/ \E i \in DOMAIN calls' : calls'[i].dir = d /\ x \in calls'[i].dirs
                 /\ Wanted(d) => \/ file_found
                                 \/ \E i \in DOMAIN calls' :
                                      calls'[i].dir = d /\ file[d] \in calls'[i].files
      <4>1. CASE d = e
        <5>1. L + 1 \in DOMAIN calls'
          BY <1>3, <2>2
        <5>. QED  BY <1>4, <2>2, <2>3, <4>1, <5>1 DEF Wanted
      <4>2. CASE Entered(d)
        <5>1. /\ d # Root => Entered(parent[d])
              /\ \A x \in Subdirs(d) :
                   Entered(x) \/ \E i \in DOMAIN calls : calls[i].dir = d /\ x \in calls[i].dirs
              /\ Wanted(d) =>
                   file_found \/ \E i \in DOMAIN calls : calls[i].dir = d /\ file[d] \in calls[i].files
          BY <3>1, <4>2 DEF WalkInv, Walked
        <5>2. d # Root => handle'[<<searches, parent[d]>>] # "none"
          BY <1>3, <2>3, <5>1 DEF TypeOK
        <5>3. ASSUME NEW x \in Subdirs(d), handle'[<<searches, x>>] = "none"
              PROVE  \E i \in DOMAIN calls' : calls'[i].dir = d /\ x \in calls'[i].dirs
          <6>1. x \in Dirs /\ x # e /\ ~Entered(x)
            BY <2>3, <5>3, SubdirsType
          <6>2. PICK i \in DOMAIN calls : calls[i].dir = d /\ x \in calls[i].dirs
            BY <5>1, <6>1
          <6>3. i \in DOMAIN calls' /\ calls'[i].dir = d /\ x \in calls'[i].dirs
            BY <1>3, <1>11, <2>2, <6>1, <6>2
          <6>. QED  BY <6>3
        <5>4. ASSUME Wanted(d), ~file_found
              PROVE  \E i \in DOMAIN calls' : calls'[i].dir = d /\ file[d] \in calls'[i].files
          <6>1. PICK i \in DOMAIN calls : calls[i].dir = d /\ file[d] \in calls[i].files
            BY <5>1, <5>4
          <6>2. i \in DOMAIN calls' /\ calls'[i].dir = d /\ file[d] \in calls'[i].files
            BY <1>3, <1>11, <2>2, <6>1
          <6>. QED  BY <6>2
        <5>. QED  BY <5>2, <5>3, <5>4
      <4>. QED  BY <3>3, <4>1, <4>2
    <3>4. \A d : Wanted(d)' <=> Wanted(d)
      BY <1>1 DEF Wanted, Matches
    <3>. QED  BY <1>1, <2>3, <3>2, <3>3, <3>4 DEF Walked, Entered, Subdirs
  <2>. QED  BY <1>8, <2>1, <2>4, <2>8, <2>9 DEF WalkInv
<1>. QED  BY <1>2, <1>9, <1>12
\* What Return leaves of the calls.
LEMMA Returning ==
  ASSUME TypeOK, Return
  PROVE  /\ calls' \in Seq(Call) /\ Len(calls') = Len(calls) - 1
         /\ DOMAIN calls' = 1 .. Len(calls) - 1
         /\ \A i \in 1 .. Len(calls) - 1 : calls'[i] = calls[i]
         /\ outcome' = IF calls' = << >> THEN "releasing" ELSE "listing"
         /\ UNCHANGED <<parent, file, ignore, searches, handle, file_found, storage_root>>
         /\ Top.dirs = {} /\ Top.files = {} /\ outcome = "listing"
<1> DEFINE L == Len(calls)
<1>1. /\ outcome = "listing" /\ Top.dirs = {} /\ Top.files = {}
      /\ calls' = SubSeq(calls, 1, L - 1)
      /\ outcome' = IF L = 1 THEN "releasing" ELSE "listing"
      /\ UNCHANGED <<parent, file, ignore, searches, handle, file_found, storage_root>>
  BY DEF Return, Pushed, tree
<1>2. L \in Nat \ {0} /\ calls \in Seq(Call) /\ DOMAIN calls = 1 .. L
  BY <1>1, TopCall DEF TypeOK
<1> HIDE DEF L
<1>3. /\ calls' \in Seq(Call) /\ Len(calls') = L - 1 /\ DOMAIN calls' = 1 .. L - 1
      /\ \A i \in 1 .. L - 1 : calls'[i] = calls[i]
  <2>1. 1 \in Int /\ L - 1 \in Int /\ \A i \in 1 .. L - 1 : i \in 1 .. L
    BY <1>2
  <2>2. /\ calls' \in Seq(Call) /\ Len(calls') = L - 1
        /\ \A i \in 1 .. L - 1 : calls'[i] = calls[i]
    BY <1>1, <1>2, <2>1
  <2>. QED  BY <1>2, <2>2
<1>4. calls' = << >> <=> L = 1
  BY <1>2, <1>3
<1>. QED  BY <1>1, <1>3, <1>4 DEF L

LEMMA ReturnWalk == ASSUME WalkInv, Return PROVE WalkInv'
<1> DEFINE L == Len(calls)
<1>1. /\ calls' \in Seq(Call) /\ Len(calls') = L - 1 /\ DOMAIN calls' = 1 .. L - 1
      /\ \A i \in 1 .. L - 1 : calls'[i] = calls[i]
      /\ outcome' = IF calls' = << >> THEN "releasing" ELSE "listing"
      /\ UNCHANGED <<parent, file, ignore, searches, handle, file_found, storage_root>>
      /\ Top.dirs = {} /\ Top.files = {} /\ outcome = "listing"
  BY Returning DEF WalkInv
<1>2. /\ L \in Nat \ {0} /\ DOMAIN calls = 1 .. L /\ Top = calls[L] /\ TypeOK
  BY <1>1, TopCall DEF WalkInv
<1> HIDE DEF L
<1>3. TypeOK'
  <2>1. /\ outcome' \in {"none", "listing", "releasing", "done", "threw", "undefined"}
        /\ outcome' = "listing" <=> calls' # << >>
        /\ outcome' # "done" /\ searches' # 0
    BY <1>1, <1>2 DEF TypeOK
  <2>2. /\ parent' \in [Dirs -> Dirs] /\ \A d \in Dirs \ {Root} : parent'[d] < d
        /\ file' \in [Dirs -> Names \cup {NoFile}]
        /\ searches' \in 0 .. MaxSearches
        /\ storage_root' \in Seq(Handles) /\ file_found' \in BOOLEAN
        /\ handle' \in [Handles -> {"none", "open", "closed"}]
    BY <1>1, <1>2 DEF TypeOK
  <2>. QED  BY <1>1, <2>1, <2>2 DEF TypeOK
<1>4. LaterFresh' /\ NoFalseAnswer'
  BY <1>1 DEF WalkInv, LaterFresh, NoFalseAnswer, Wanted, Matches
<1>5. \A i \in 1 .. L - 1 : i \in DOMAIN calls
  BY <1>2
<1>6. CallsOK'
  <2>1. SUFFICES ASSUME NEW i \in 1 .. L - 1
        PROVE  /\ Entered(calls'[i].dir)
               /\ calls'[i].dirs \subseteq Subdirs(calls'[i].dir)
               /\ \A e \in calls'[i].dirs : ~Entered(e)
               /\ calls'[i].files \subseteq {file[calls'[i].dir]} \ {NoFile}
               /\ \A j \in 1 .. L - 1 : calls'[i].dir = calls'[j].dir => i = j
    BY <1>1, Zenon DEF CallsOK, Entered, Subdirs
  <2>2. /\ Entered(calls[i].dir)
        /\ calls[i].dirs \subseteq Subdirs(calls[i].dir)
        /\ \A e \in calls[i].dirs : ~Entered(e)
        /\ calls[i].files \subseteq {file[calls[i].dir]} \ {NoFile}
        /\ \A j \in 1 .. L - 1 : calls[i].dir = calls[j].dir => i = j
    BY <1>5, Zenon DEF WalkInv, CallsOK
  <2>. QED  BY <1>1, <2>2, Zenon
<1>7. Walked'
  <2>1. Searched
    BY <1>1 DEF Searched
  <2>2. Entered(Root)
    BY <2>1 DEF WalkInv, Walked
  <2>3. ASSUME NEW i \in DOMAIN calls, calls[i].dirs # {} \/ calls[i].files # {}
        PROVE  i \in 1 .. L - 1
    BY <1>1, <1>2, <2>3
  <2>4. ASSUME NEW d \in Dirs, Entered(d)
        PROVE  /\ d # Root => Entered(parent[d])
               /\ \A e \in Subdirs(d) :
                    \/ Entered(e)
                    \/ \E i \in DOMAIN calls' : calls'[i].dir = d /\ e \in calls'[i].dirs
               /\ Wanted(d) => \/ file_found
                               \/ \E i \in DOMAIN calls' :
                                    calls'[i].dir = d /\ file[d] \in calls'[i].files
    <3>1. /\ d # Root => Entered(parent[d])
          /\ \A e \in Subdirs(d) :
               Entered(e) \/ \E i \in DOMAIN calls : calls[i].dir = d /\ e \in calls[i].dirs
          /\ Wanted(d) =>
               file_found \/ \E i \in DOMAIN calls : calls[i].dir = d /\ file[d] \in calls[i].files
      BY <2>1, <2>4 DEF WalkInv, Walked
    <3>2. ASSUME NEW e \in Subdirs(d), ~Entered(e)
          PROVE  \E i \in DOMAIN calls' : calls'[i].dir = d /\ e \in calls'[i].dirs
      <4>1. PICK i \in DOMAIN calls : calls[i].dir = d /\ e \in calls[i].dirs
        BY <3>1, <3>2
      <4>2. i \in 1 .. L - 1
        BY <2>3, <4>1
      <4>. QED  BY <1>1, <4>1, <4>2
    <3>3. ASSUME Wanted(d), ~file_found
          PROVE  \E i \in DOMAIN calls' : calls'[i].dir = d /\ file[d] \in calls'[i].files
      <4>1. PICK i \in DOMAIN calls : calls[i].dir = d /\ file[d] \in calls[i].files
        BY <3>1, <3>3
      <4>2. i \in 1 .. L - 1
        BY <2>3, <4>1
      <4>. QED  BY <1>1, <4>1, <4>2
    <3>. QED  BY <3>1, <3>2, <3>3
  <2>. QED  BY <1>1, <2>2, <2>4 DEF Walked, Entered, Subdirs, Wanted, Matches
<1>. QED  BY <1>3, <1>4, <1>6, <1>7 DEF WalkInv

\* What ReleaseDir does: it is done, or it closes what is on top of the stack.
LEMMA Releasing ==
  ASSUME TypeOK, ReleaseDir
  PROVE  /\ outcome = "releasing" /\ calls = << >>
         /\ UNCHANGED <<parent, file, ignore, searches, calls, file_found>>
         /\ \/ /\ storage_root = << >> /\ outcome' = "done"
               /\ UNCHANGED <<storage_root, handle>>
            \/ \E h \in Handles :
                 /\ Len(storage_root) \in Nat \ {0} /\ DOMAIN storage_root = 1 .. Len(storage_root)
                 /\ storage_root[Len(storage_root)] = h
                 /\ outcome' = IF handle[h] = "open" THEN "releasing" ELSE "undefined"
                 /\ handle' \in [Handles -> {"none", "open", "closed"}]
                 /\ \A g \in Handles : handle'[g] = IF g = h THEN "closed" ELSE handle[g]
                 /\ storage_root' \in Seq(Handles)
                 /\ DOMAIN storage_root' = 1 .. Len(storage_root) - 1
                 /\ \A i \in 1 .. Len(storage_root) - 1 : storage_root'[i] = storage_root[i]
<1> DEFINE S == Len(storage_root)
           h == storage_root[S]
<1>1. /\ outcome = "releasing"
      /\ UNCHANGED <<parent, file, ignore, searches, calls, file_found>>
      /\ \/ /\ storage_root = << >> /\ outcome' = "done"
            /\ UNCHANGED <<storage_root, handle>>
         \/ /\ storage_root # << >>
            /\ handle' = [handle EXCEPT ![h] = "closed"]
            /\ outcome' = IF handle[h] = "open" THEN outcome ELSE "undefined"
            /\ storage_root' = SubSeq(storage_root, 1, S - 1)
  BY DEF ReleaseDir, Released, tree
<1>2. calls = << >> /\ storage_root \in Seq(Handles)
  BY <1>1 DEF TypeOK
<1>3. CASE storage_root # << >>
  <2>1. S \in Nat \ {0} /\ DOMAIN storage_root = 1 .. S /\ h \in Handles
    BY <1>2, <1>3
  <2>2. /\ handle' = [handle EXCEPT ![h] = "closed"]
        /\ outcome' = IF handle[h] = "open" THEN "releasing" ELSE "undefined"
        /\ storage_root' = SubSeq(storage_root, 1, S - 1)
    BY <1>1, <1>3
  <2>3. /\ handle' \in [Handles -> {"none", "open", "closed"}]
        /\ \A g \in Handles : handle'[g] = IF g = h THEN "closed" ELSE handle[g]
    BY <2>1, <2>2 DEF TypeOK
  <2>4. /\ storage_root' \in Seq(Handles) /\ DOMAIN storage_root' = 1 .. S - 1
        /\ \A i \in 1 .. S - 1 : storage_root'[i] = storage_root[i]
    <3> HIDE DEF S
    <3>1. 1 \in Int /\ S - 1 \in Int /\ \A i \in 1 .. S - 1 : i \in 1 .. S
      BY <2>1
    <3>2. /\ storage_root' \in Seq(Handles) /\ Len(storage_root') = S - 1
          /\ \A i \in 1 .. S - 1 : storage_root'[i] = storage_root[i]
      BY <1>2, <2>1, <2>2, <3>1
    <3>. QED  BY <2>1, <3>2
  <2> HIDE DEF h, S
  <2>5. h = storage_root[S]
    BY DEF h
  <2>. QED  BY <1>1, <1>2, <2>1, <2>2, <2>3, <2>4, <2>5 DEF S
<1>4. CASE storage_root = << >>
  BY <1>1, <1>2, <1>4, Zenon
<1>. QED  BY <1>3, <1>4

LEMMA ReleaseDirWalk == ASSUME WalkInv, StackOK, ReleaseDir PROVE WalkInv'
<1>1. /\ outcome = "releasing" /\ calls = << >>
      /\ UNCHANGED <<parent, file, ignore, searches, calls, file_found>>
      /\ \/ /\ storage_root = << >> /\ outcome' = "done"
            /\ UNCHANGED <<storage_root, handle>>
         \/ \E h \in Handles :
              /\ Len(storage_root) \in Nat \ {0} /\ DOMAIN storage_root = 1 .. Len(storage_root)
              /\ storage_root[Len(storage_root)] = h
              /\ outcome' = IF handle[h] = "open" THEN "releasing" ELSE "undefined"
              /\ handle' \in [Handles -> {"none", "open", "closed"}]
              /\ \A g \in Handles : handle'[g] = IF g = h THEN "closed" ELSE handle[g]
              /\ storage_root' \in Seq(Handles)
              /\ DOMAIN storage_root' = 1 .. Len(storage_root) - 1
              /\ \A i \in 1 .. Len(storage_root) - 1 : storage_root'[i] = storage_root[i]
  BY Releasing DEF WalkInv
<1>2. TypeOK /\ searches \in 1 .. MaxSearches
  BY <1>1, ConstantsOK DEF WalkInv, TypeOK
<1>3. /\ handle' \in [Handles -> {"none", "open", "closed"}]
      /\ \A g \in Handles : handle'[g] = "none" <=> handle[g] = "none"
  <2>1. CASE UNCHANGED handle
    BY <1>2, <2>1 DEF TypeOK
  <2>2. ASSUME NEW h \in Handles,
               Len(storage_root) \in Nat \ {0}, DOMAIN storage_root = 1 .. Len(storage_root),
               storage_root[Len(storage_root)] = h,
               handle' \in [Handles -> {"none", "open", "closed"}],
               \A g \in Handles : handle'[g] = IF g = h THEN "closed" ELSE handle[g]
        PROVE  \A g \in Handles : handle'[g] = "none" <=> handle[g] = "none"
    <3>1. Len(storage_root) \in DOMAIN storage_root
      BY <2>2
    <3>2. handle[h] # "none"
      BY <2>2, <3>1 DEF StackOK, Stacked, On
    <3>. QED  BY <2>2, <3>2
  <2>. QED  BY <1>1, <2>1, <2>2
<1>4. TypeOK'
  <2>1. /\ outcome' \in {"none", "listing", "releasing", "done", "threw", "undefined"}
        /\ outcome' # "listing" /\ calls' = << >>
        /\ outcome' = "done" => storage_root' = << >>
        /\ storage_root' \in Seq(Handles)
    BY <1>1, <1>2 DEF TypeOK
  <2>2. /\ parent' \in [Dirs -> Dirs] /\ \A d \in Dirs \ {Root} : parent'[d] < d
        /\ file' \in [Dirs -> Names \cup {NoFile}]
        /\ searches' \in 0 .. MaxSearches /\ searches' # 0
        /\ calls' \in Seq(Call) /\ file_found' \in BOOLEAN
    BY <1>1, <1>2 DEF TypeOK
  <2>. QED  BY <1>3, <2>1, <2>2 DEF TypeOK
<1>5. LaterFresh' /\ NoFalseAnswer' /\ CallsOK'
  BY <1>1, <1>3 DEF WalkInv, LaterFresh, NoFalseAnswer, Wanted, Matches, CallsOK
<1>6. Walked'
  <2>1. Searched
    BY <1>1 DEF Searched
  <2>2. \A d \in Dirs : Entered(d)' <=> Entered(d)
    <3>1. SUFFICES ASSUME NEW d \in Dirs PROVE handle'[<<searches, d>>] = "none" <=> handle[<<searches, d>>] = "none"
      BY <1>1 DEF Entered
    <3>2. <<searches, d>> \in Handles
      BY <1>2 DEF Handles
    <3>. QED  BY <1>3, <3>2
  <2>3. Root \in Dirs /\ \A d \in Dirs : parent[d] \in Dirs /\ Subdirs(d) \subseteq Dirs
    BY <1>2, ConstantsOK, SubdirsType DEF TypeOK, Dirs, Root
  <2>4. /\ Entered(Root)
        /\ \A d \in Dirs : Entered(d) =>
             /\ d # Root => Entered(parent[d])
             /\ \A e \in Subdirs(d) : Entered(e)
             /\ Wanted(d) => file_found
    BY <1>1, <2>1 DEF WalkInv, Walked
  <2>5. /\ Entered(Root)'
        /\ \A d \in Dirs : Entered(d)' =>
             /\ d # Root => Entered(parent[d])'
             /\ \A e \in Subdirs(d)' : Entered(e)'
             /\ Wanted(d)' => file_found'
    <3>1. \A d : Subdirs(d)' = Subdirs(d) /\ (Wanted(d)' <=> Wanted(d))
      BY <1>1 DEF Subdirs, Wanted, Matches
    <3>2. Entered(Root)'
      BY <2>2, <2>3, <2>4
    <3>3. SUFFICES ASSUME NEW d \in Dirs, Entered(d)
          PROVE  /\ d # Root => handle'[<<searches', parent'[d]>>] # "none"
                 /\ \A e \in Subdirs(d) : Entered(e)'
                 /\ Wanted(d) => file_found'
      BY <2>2, <3>1, <3>2 DEF Entered
    <3>4. d # Root => handle'[<<searches', parent'[d]>>] # "none"
      BY <1>1, <2>2, <2>3, <2>4, <3>3 DEF Entered
    <3>. QED  BY <1>1, <2>2, <2>3, <2>4, <3>3, <3>4
  <2>. QED  BY <2>5 DEF Walked
<1>. QED  BY <1>4, <1>5, <1>6 DEF WalkInv
-----------------------------------------------------------------------------
(* What is on the stack.                                                   *)

\* A handle is named by its search and its directory.
LEMMA HandlePairs ==
  /\ \A h \in Handles : h = <<h[1], h[2]>> /\ h[1] \in 1 .. MaxSearches /\ h[2] \in Dirs
  /\ \A n \in 1 .. MaxSearches, d \in Dirs :
       <<n, d>> \in Handles /\ <<n, d>>[1] = n /\ <<n, d>>[2] = d
  BY DEF Handles

\* A push adds its handle to the stack, a second time if it is there.
LEMMA Pushing ==
  ASSUME NEW s \in Seq(Handles), NEW h \in Handles, NEW t, t = Append(s, h)
  PROVE  \A g : /\ On(t, g) <=> On(s, g) \/ g = h
                /\ TwiceOn(t, g) <=> TwiceOn(s, g) \/ (g = h /\ On(s, h))
<1> DEFINE S == Len(s)
<1>1. /\ S \in Nat /\ DOMAIN s = 1 .. S /\ DOMAIN t = 1 .. S + 1
      /\ t[S + 1] = h
      /\ \A i \in 1 .. S : t[i] = s[i]
  OBVIOUS
<1> HIDE DEF S
<1>2. /\ \A i \in 1 .. S + 1 : i \in 1 .. S \/ i = S + 1
      /\ \A i \in 1 .. S : i \in 1 .. S + 1 /\ i # S + 1
      /\ S + 1 \in 1 .. S + 1
  BY <1>1
<1>3. TAKE g
<1>4. On(t, g) <=> On(s, g) \/ g = h
  BY <1>1, <1>2 DEF On
<1>5. ASSUME TwiceOn(t, g) PROVE TwiceOn(s, g) \/ (g = h /\ On(s, h))
  <2>1. PICK i \in 1 .. S + 1, j \in 1 .. S + 1 : i # j /\ t[i] = g /\ t[j] = g
    BY <1>1, <1>5 DEF TwiceOn
  <2>2. CASE i \in 1 .. S /\ j \in 1 .. S
    BY <1>1, <2>1, <2>2 DEF TwiceOn
  <2>3. CASE i = S + 1 /\ j \in 1 .. S
    BY <1>1, <2>1, <2>3 DEF On
  <2>4. CASE j = S + 1 /\ i \in 1 .. S
    BY <1>1, <2>1, <2>4 DEF On
  <2>. QED  BY <1>2, <2>1, <2>2, <2>3, <2>4
<1>6. ASSUME TwiceOn(s, g) PROVE TwiceOn(t, g)
  BY <1>1, <1>2, <1>6 DEF TwiceOn
<1>7. ASSUME g = h, On(s, h) PROVE TwiceOn(t, g)
  BY <1>1, <1>2, <1>7 DEF On, TwiceOn
<1>. QED  BY <1>4, <1>5, <1>6, <1>7

\* A pop takes one of its handle off the stack.
LEMMA Popping ==
  ASSUME NEW s, NEW t, NEW S \in Nat \ {0}, DOMAIN s = 1 .. S, DOMAIN t = 1 .. S - 1,
         \A i \in 1 .. S - 1 : t[i] = s[i]
  PROVE  \A g : /\ On(s, g) <=> On(t, g) \/ g = s[S]
                /\ TwiceOn(s, g) <=> TwiceOn(t, g) \/ (g = s[S] /\ On(t, g))
<1>1. /\ \A i \in 1 .. S : i \in 1 .. S - 1 \/ i = S
      /\ \A i \in 1 .. S - 1 : i \in 1 .. S /\ i # S
      /\ S \in 1 .. S
  OBVIOUS
<1>2. TAKE g
<1>3. On(s, g) <=> On(t, g) \/ g = s[S]
  BY <1>1 DEF On
<1>4. ASSUME TwiceOn(s, g) PROVE TwiceOn(t, g) \/ (g = s[S] /\ On(t, g))
  <2>1. PICK i \in 1 .. S, j \in 1 .. S : i # j /\ s[i] = g /\ s[j] = g
    BY <1>4 DEF TwiceOn
  <2>2. CASE i \in 1 .. S - 1 /\ j \in 1 .. S - 1
    BY <2>1, <2>2 DEF TwiceOn
  <2>3. CASE i = S /\ j \in 1 .. S - 1
    BY <2>1, <2>3 DEF On
  <2>4. CASE j = S /\ i \in 1 .. S - 1
    BY <2>1, <2>4 DEF On
  <2>. QED  BY <1>1, <2>1, <2>2, <2>3, <2>4
<1>5. ASSUME TwiceOn(t, g) PROVE TwiceOn(s, g)
  BY <1>1, <1>5 DEF TwiceOn
<1>6. ASSUME g = s[S], On(t, g) PROVE TwiceOn(s, g)
  BY <1>1, <1>6 DEF On, TwiceOn
<1>. QED  BY <1>3, <1>4, <1>5, <1>6

LEMMA InitStack == Init => StackInv
<1> SUFFICES ASSUME Init PROVE StackInv
  OBVIOUS
<1>1. DOMAIN calls = {} /\ DOMAIN storage_root = {} /\ outcome = "none"
  BY DEF Init
<1>2. \A h \in Handles : handle[h] = "none"
  BY DEF Init, Handles
<1>3. StackOK /\ OpenOK /\ ClosedOK
  BY <1>1, <1>2 DEF StackOK, Stacked, On, OpenOK, ClosedOK
<1>4. ListedOK /\ PushedOK /\ UndefinedOK
  BY <1>1 DEF ListedOK, PushedOK, UndefinedOK, Searched
<1>. QED  BY <1>3, <1>4 DEF StackInv

\* Nothing of the new search is on the stack, and what is there stays.
LEMMA SearchStack ==
  ASSUME IInv, NEW b \in BOOLEAN, Search(b)
  PROVE  StackInv'
<1> DEFINE n == searches + 1
<1>1. /\ searches' = n /\ UNCHANGED <<parent, storage_root>>
      /\ outcome \in {"none", "done", "threw"} /\ searches < MaxSearches
      /\ Enter(<< >>, Root, n)
  BY DEF Search, tree
<1>2. /\ n \in 1 .. MaxSearches /\ searches \in Nat /\ Root \in Dirs /\ << >> \in Seq(Call)
      /\ TypeOK /\ calls = << >>
  <2>1. TypeOK
    BY DEF IInv, WalkInv
  <2>2. searches \in Nat /\ calls = << >> /\ << >> \in Seq(Call)
    BY <1>1, <2>1 DEF TypeOK
  <2>3. Root \in Dirs
    BY ConstantsOK DEF Dirs, Root
  <2>. QED  BY <1>1, <2>1, <2>2, <2>3, ConstantsOK
<1>3. \A h : Subdirs(h)' = Subdirs(h) /\ (Stacked(h)' <=> Stacked(h))
             /\ (StackedTwice(h)' <=> StackedTwice(h))
  BY <1>1 DEF Subdirs, Stacked, StackedTwice
<1>4. \A h \in Handles : h[1] = n => handle[h] = "none" /\ ~Stacked(h)
  BY <1>2, HandlePairs DEF IInv, WalkInv, LaterFresh, StackInv, StackOK
<1>5. \/ /\ outcome' = "listing" /\ Len(calls') = 1
         /\ DOMAIN calls' = 1 .. 1 /\ calls'[1] = NewCall(Root)
         /\ \A h \in Handles : handle'[h] = IF h = <<n, Root>> THEN "open" ELSE handle[h]
      \/ outcome' = "threw" /\ calls' = << >> /\ handle' = handle
  <2> HIDE DEF n
  <2>1. Len(<< >>) = 0
    OBVIOUS
  <2>2. \/ /\ outcome' = "listing" /\ Len(calls') = 0 + 1
           /\ DOMAIN calls' = 1 .. 0 + 1 /\ calls'[0 + 1] = NewCall(Root)
           /\ \A h \in Handles : handle'[h] = IF h = <<n, Root>> THEN "open" ELSE handle[h]
        \/ outcome' = "threw" /\ calls' = << >> /\ handle' = handle
    BY <1>1, <1>2, <2>1, Entering
  <2>. QED  BY <2>2
<1> HIDE DEF n
<1>6. /\ outcome' \in {"listing", "threw"}
      /\ \A h \in Handles :
           handle'[h] = handle[h] \/ (h = <<n, Root>> /\ handle'[h] = "open" /\ outcome' = "listing")
  BY <1>5
<1>7. <<n, Root>> \in Handles /\ <<n, Root>>[1] = n /\ <<n, Root>>[2] = Root
  BY <1>2, HandlePairs
<1>8. StackOK'
  <2>1. SUFFICES ASSUME NEW h \in Handles, Stacked(h)
        PROVE  /\ handle'[h] # "none"
               /\ ~Leaf(h[2])
               /\ StackedTwice(h) \/ handle'[h] = "closed" => TwoSubdirs(h[2])
    BY <1>3 DEF StackOK, Leaf, TwoSubdirs
  <2>2. handle'[h] = handle[h]
    BY <1>4, <1>6, <1>7, <2>1
  <2>. QED  BY <2>1, <2>2 DEF IInv, StackInv, StackOK
<1>9. OpenOK'
  <2>1. SUFFICES ASSUME NEW h \in Handles, handle'[h] = "open"
        PROVE  \/ Leaf(h[2])
               \/ Stacked(h)
               \/ h[1] = n /\ \E i \in DOMAIN calls' : calls'[i].dir = h[2]
    BY <1>1, <1>3 DEF OpenOK, Leaf
  <2>2. CASE handle'[h] = handle[h]
    BY <1>2, <2>1, <2>2 DEF IInv, StackInv, OpenOK
  <2>3. CASE h = <<n, Root>> /\ outcome' = "listing"
    BY <1>5, <1>7, <2>3 DEF NewCall
  <2>. QED  BY <1>6, <2>2, <2>3
<1>10. ClosedOK'
  <2>1. SUFFICES ASSUME NEW h \in Handles, handle'[h] = "closed"
        PROVE  ~Leaf(h[2]) /\ h[1] # n
    BY <1>1, <1>3 DEF ClosedOK, Leaf
  <2>2. handle[h] = "closed"
    BY <1>6, <2>1
  <2>. QED  BY <1>4, <2>2 DEF IInv, StackInv, ClosedOK
<1>11. ListedOK'
  <2>1. CASE outcome' = "threw" /\ calls' = << >>
    BY <2>1 DEF ListedOK
  <2>2. CASE outcome' = "listing"
    <3>1. /\ DOMAIN calls' = {1} /\ Len(calls') = 1
          /\ calls'[1].dir = Root /\ calls'[1].dirs = Subdirs(Root)
      BY <1>5, <2>2 DEF NewCall
    <3>2. ~Stacked(<<n, Root>>)
      BY <1>4, <1>7
    <3>. QED  BY <1>1, <1>3, <3>1, <3>2 DEF ListedOK, Stacked
  <2>. QED  BY <1>5, <2>1, <2>2
<1>12. PushedOK'
  <2>1. SUFFICES ASSUME NEW e \in Dirs \ {Root} PROVE ~Entered(e)'
    BY <1>3, SubdirsType DEF PushedOK
  <2>2. <<n, e>> \in Handles /\ <<n, e>>[1] = n /\ <<n, e>> # <<n, Root>>
    BY <1>2, HandlePairs
  <2>. QED  BY <1>1, <1>4, <1>6, <2>2 DEF Entered
<1>13. UndefinedOK'
  BY <1>6 DEF UndefinedOK
<1>. QED  BY <1>8, <1>9, <1>10, <1>11, <1>12, <1>13 DEF StackInv

LEMMA ReadFileStack == ASSUME IInv, ReadFile PROVE StackInv'
<1> DEFINE L == Len(calls)
<1>1. PICK f \in Top.files : calls' = [calls EXCEPT ![L].files = @ \ {f}]
  BY DEF ReadFile
<1>2. /\ outcome = "listing" /\ outcome' = outcome /\ handle' = handle
      /\ UNCHANGED <<parent, searches, storage_root>>
  BY DEF ReadFile, tree
<1>3. /\ L \in Nat \ {0} /\ Top = calls[L] /\ Top \in Call /\ L \in DOMAIN calls /\ TypeOK
  BY <1>2, TopCall DEF IInv, WalkInv
<1> DEFINE c == [Top EXCEPT !.files = Top.files \ {f}]
<1>4. /\ c \in Call /\ c.dir = Top.dir /\ c.dirs = Top.dirs
  BY <1>3 DEF Call
<1>5. calls' = [calls EXCEPT ![L] = c]
  BY <1>1, <1>3
<1> HIDE DEF c
<1>6. /\ Len(calls') = Len(calls) /\ DOMAIN calls' = DOMAIN calls
      /\ \A i \in DOMAIN calls : calls'[i] = IF i = L THEN c ELSE calls[i]
  BY <1>2, <1>3, <1>4, <1>5, ReplacedTop
<1>7. \A i \in DOMAIN calls : calls'[i].dir = calls[i].dir /\ calls'[i].dirs = calls[i].dirs
  BY <1>3, <1>4, <1>6
<1> HIDE DEF L
<1>8. \A h : Subdirs(h)' = Subdirs(h) /\ (Stacked(h)' <=> Stacked(h))
             /\ (StackedTwice(h)' <=> StackedTwice(h)) /\ (TwoSubdirs(h)' <=> TwoSubdirs(h))
             /\ (Leaf(h)' <=> Leaf(h)) /\ (Entered(h)' <=> Entered(h))
  BY <1>2 DEF Subdirs, Stacked, StackedTwice, TwoSubdirs, Leaf, Entered
<1>9. StackOK' /\ ClosedOK'
  BY <1>2, <1>8 DEF IInv, StackInv, StackOK, ClosedOK
<1>10. OpenOK'
  BY <1>2, <1>6, <1>7, <1>8 DEF IInv, StackInv, OpenOK
<1>11. ListedOK'
  BY <1>2, <1>6, <1>7, <1>8 DEF IInv, StackInv, ListedOK, Stacked, Subdirs
<1>12. PushedOK'
  <2>1. PushedOK
    BY DEF IInv, StackInv
  <2>. QED
    BY <1>2, <2>1 DEF PushedOK, Searched, Entered, Subdirs, Stacked, StackedTwice
<1>13. UndefinedOK'
  BY <1>2 DEF UndefinedOK
<1>. QED  BY <1>9, <1>10, <1>11, <1>12, <1>13 DEF StackInv
\* A directory goes onto the stack a second time only at a second subdirectory.
LEMMA ReadSubdirStack == ASSUME IInv, ReadSubdir PROVE StackInv'
<1> DEFINE L == Len(calls)
           D == Top.dir
           p == <<searches, D>>
           now(g) == On(storage_root', g)
           nowTwice(g) == TwiceOn(storage_root', g)
<1>1. outcome = "listing" /\ UNCHANGED <<parent, searches>>
  BY DEF ReadSubdir, tree
<1>2. PICK e \in Top.dirs :
        /\ storage_root' = Append(storage_root, p)
        /\ e \in Subdirs(D) /\ ~Entered(e)
        /\ \/ /\ outcome' = "listing"
              /\ Len(calls') = L + 1 /\ DOMAIN calls' = 1 .. L + 1
              /\ \A i \in 1 .. L :
                   /\ calls'[i].dir = calls[i].dir
                   /\ calls'[i].dirs = IF i = L THEN calls[i].dirs \ {e} ELSE calls[i].dirs
              /\ calls'[L + 1] = NewCall(e)
              /\ \A h \in Handles : handle'[h] = IF h = <<searches, e>> THEN "open" ELSE handle[h]
           \/ outcome' = "threw" /\ calls' = << >> /\ handle' = handle
  <2>1. WalkInv
    BY DEF IInv
  <2>. QED  BY <2>1, ReadingSubdir
<1>3. /\ L \in Nat \ {0} /\ DOMAIN calls = 1 .. L /\ Top = calls[L] /\ Top \in Call
      /\ L \in DOMAIN calls /\ TypeOK /\ searches \in 1 .. MaxSearches
  BY <1>1, TopCall DEF IInv, WalkInv
<1>4. /\ e \in Dirs \ {Root} /\ D \in Dirs /\ parent[e] = D /\ D # e /\ D = calls[L].dir
      /\ Entered(D) /\ Top.dirs \subseteq Subdirs(D)
  <2>1. e \in Dirs \ {Root} /\ D \in Dirs /\ parent[e] = D
    BY <1>2, <1>3 DEF Call, Subdirs
  <2>2. Entered(D) /\ Top.dirs \subseteq Subdirs(D)
    BY <1>3 DEF IInv, WalkInv, CallsOK
  <2>. QED  BY <1>2, <1>3, <2>1, <2>2
<1> HIDE DEF L, D
<1>5. /\ p \in Handles /\ p[1] = searches /\ p[2] = D
      /\ <<searches, e>> \in Handles /\ <<searches, e>>[1] = searches /\ <<searches, e>>[2] = e
      /\ p # <<searches, e>>
  BY <1>3, <1>4, HandlePairs
<1>6. handle[p] = "open" /\ handle[<<searches, e>>] = "none" /\ ~Stacked(<<searches, e>>)
  <2>1. handle[p] # "none" /\ handle[<<searches, e>>] = "none"
    BY <1>2, <1>4 DEF Entered
  <2>2. handle[p] # "closed"
    BY <1>1, <1>5 DEF IInv, StackInv, ClosedOK
  <2>3. handle[p] \in {"none", "open", "closed"}
    BY <1>3, <1>5 DEF TypeOK
  <2>4. ~Stacked(<<searches, e>>)
    BY <1>5, <2>1 DEF IInv, StackInv, StackOK
  <2>. QED  BY <2>1, <2>2, <2>3, <2>4
<1>7. ASSUME NEW i \in 1 .. L
      PROVE  /\ calls[i].dir \in Dirs
             /\ calls[i].dir = D => i = L
             /\ Stacked(<<searches, calls[i].dir>>) <=> calls[i].dirs # Subdirs(calls[i].dir)
             /\ i # L => Stacked(<<searches, calls[i].dir>>)
  <2>1. calls[i] \in Call /\ i \in DOMAIN calls
    BY <1>3 DEF TypeOK
  <2>2. calls[i].dir \in Dirs
    BY <2>1 DEF Call
  <2>3. calls[i].dir = D => i = L
    BY <1>3, <1>4, <2>1 DEF IInv, WalkInv, CallsOK
  <2>4. /\ Stacked(<<searches, calls[i].dir>>) <=> calls[i].dirs # Subdirs(calls[i].dir)
        /\ i # L => calls[i].dirs # Subdirs(calls[i].dir)
    BY <2>1 DEF IInv, StackInv, ListedOK, L
  <2>. QED  BY <2>2, <2>3, <2>4
<1>8. /\ outcome' \in {"listing", "threw"}
      /\ \A h \in Handles :
           \/ handle'[h] = handle[h]
           \/ h = <<searches, e>> /\ handle'[h] = "open" /\ outcome' = "listing"
  BY <1>2
<1>9. \A g : /\ now(g) <=> Stacked(g) \/ g = p
             /\ nowTwice(g) <=> StackedTwice(g) \/ (g = p /\ Stacked(p))
  <2> HIDE DEF p
  <2>1. storage_root \in Seq(Handles)
    BY <1>3 DEF TypeOK
  <2>2. PICK h \in Handles : h = p
    BY <1>5
  <2>3. PICK t : t = storage_root'
    OBVIOUS
  <2>4. t = Append(storage_root, h)
    BY <1>2, <2>2, <2>3
  <2>5. \A g : /\ On(t, g) <=> On(storage_root, g) \/ g = h
               /\ TwiceOn(t, g) <=> TwiceOn(storage_root, g) \/ (g = h /\ On(storage_root, h))
    BY <2>1, <2>4, Pushing
  <2>. QED  BY <2>2, <2>3, <2>5 DEF Stacked, StackedTwice
<1> HIDE DEF p, now, nowTwice
<1>10. \A d : /\ Subdirs(d)' = Subdirs(d) /\ (Leaf(d)' <=> Leaf(d))
              /\ TwoSubdirs(d)' <=> TwoSubdirs(d)
  BY <1>1 DEF Subdirs, Leaf, TwoSubdirs
<1>11. ~Leaf(D)
  BY <1>2 DEF Leaf
<1>12. Stacked(p) => TwoSubdirs(D)
  <2>1. SUFFICES ASSUME Stacked(p) PROVE TwoSubdirs(D)
    OBVIOUS
  <2>2. L \in 1 .. L
    BY <1>3
  <2>3. Top.dirs # Subdirs(D)
    BY <1>3, <1>4, <1>7, <2>1, <2>2 DEF p
  <2>4. PICK x \in Subdirs(D) : x \notin Top.dirs
    BY <1>4, <2>3
  <2>. QED  BY <1>2, <2>4 DEF TwoSubdirs
<1>13. StackOK'
  <2>1. SUFFICES ASSUME NEW h \in Handles, now(h)
        PROVE  /\ handle'[h] # "none"
               /\ ~Leaf(h[2])
               /\ nowTwice(h) \/ handle'[h] = "closed" => TwoSubdirs(h[2])
    BY <1>10 DEF StackOK, now, nowTwice, Stacked, StackedTwice
  <2>2. CASE h = p
    <3>1. handle'[h] = "open" /\ ~Leaf(h[2])
      BY <1>5, <1>6, <1>8, <1>11, <2>2
    <3>2. StackedTwice(p) => TwoSubdirs(D)
      BY <1>5 DEF IInv, StackInv, StackOK, StackedTwice, Stacked, TwiceOn, On
    <3>. QED  BY <1>5, <1>9, <1>12, <2>2, <3>1, <3>2
  <2>3. CASE h # p
    <3>1. Stacked(h) /\ handle'[h] = handle[h] /\ (nowTwice(h) => StackedTwice(h))
      BY <1>6, <1>8, <1>9, <2>1, <2>3
    <3>. QED  BY <3>1 DEF IInv, StackInv, StackOK
  <2>. QED  BY <2>2, <2>3
<1>14. OpenOK'
  <2>1. SUFFICES ASSUME NEW h \in Handles, handle'[h] = "open"
        PROVE  \/ Leaf(h[2])
               \/ now(h)
               \/ h[1] = searches /\ \E i \in DOMAIN calls' : calls'[i].dir = h[2]
    BY <1>1, <1>10 DEF OpenOK, now, Stacked
  <2>2. CASE h = <<searches, e>> /\ outcome' = "listing"
    <3>1. calls'[L + 1].dir = e /\ L + 1 \in DOMAIN calls'
      BY <1>2, <1>3, <2>2 DEF NewCall
    <3>. QED  BY <1>5, <2>2, <3>1
  <2>3. CASE handle[h] = "open" /\ ~Leaf(h[2]) /\ ~Stacked(h)
    <3>1. h[1] = searches /\ h = <<h[1], h[2]>>
      BY <2>3, HandlePairs DEF IInv, StackInv, OpenOK
    <3>2. PICK i \in DOMAIN calls : calls[i].dir = h[2]
      BY <2>3 DEF IInv, StackInv, OpenOK
    <3>3. i = L
      BY <1>3, <1>7, <2>3, <3>1, <3>2
    <3>4. h = p
      BY <1>4, <3>1, <3>2, <3>3 DEF p
    <3>. QED  BY <1>9, <3>4
  <2>. QED  BY <1>8, <1>9, <2>1, <2>2, <2>3
<1>15. ClosedOK'
  <2>1. SUFFICES ASSUME NEW h \in Handles, handle'[h] = "closed"
        PROVE  ~Leaf(h[2]) /\ ~(outcome' = "listing" /\ h[1] = searches)
    BY <1>1, <1>10 DEF ClosedOK
  <2>2. handle[h] = "closed"
    BY <1>8, <2>1
  <2>. QED  BY <1>1, <2>2 DEF IInv, StackInv, ClosedOK
<1>16. ListedOK'
  <2>1. CASE outcome' = "threw"
    BY <1>2, <2>1 DEF ListedOK
  <2>2. CASE outcome' = "listing"
    <3>1. SUFFICES ASSUME NEW i \in 1 .. L + 1
          PROVE  /\ now(<<searches, calls'[i].dir>>) <=> calls'[i].dirs # Subdirs(calls'[i].dir)
                 /\ i # L + 1 => calls'[i].dirs # Subdirs(calls'[i].dir)
      BY <1>1, <1>2, <1>10, <2>2 DEF ListedOK, Stacked, Subdirs, now
    <3>2. CASE i = L + 1
      <4>1. calls'[i].dir = e /\ calls'[i].dirs = Subdirs(e)
        BY <1>2, <2>2, <3>2 DEF NewCall
      <4>2. ~now(<<searches, e>>)
        BY <1>5, <1>6, <1>9
      <4>. QED  BY <1>1, <3>2, <4>1, <4>2
    <3>3. CASE i = L
      <4>1. calls'[i].dir = D /\ e \notin calls'[i].dirs
        BY <1>2, <1>3, <1>4, <2>2, <3>3
      <4>2. now(p)
        BY <1>9
      <4>. QED  BY <1>1, <1>2, <4>1, <4>2 DEF p
    <3>4. CASE i \in 1 .. L /\ i # L
      <4>1. calls'[i].dir = calls[i].dir /\ calls'[i].dirs = calls[i].dirs
        BY <1>2, <2>2, <3>4
      <4>2. now(<<searches, calls[i].dir>>) /\ calls[i].dirs # Subdirs(calls[i].dir)
        BY <1>7, <1>9, <3>4
      <4>. QED  BY <1>1, <4>1, <4>2
    <3>5. i \in 1 .. L \/ i = L + 1
      BY <1>3
    <3>. QED  BY <3>2, <3>3, <3>4, <3>5
  <2>. QED  BY <1>8, <2>1, <2>2
<1>17. PushedOK'
  <2>1. CASE outcome' = "threw"
    BY <2>1 DEF PushedOK, Searched
  <2>2. CASE outcome' = "listing"
    <3>1. \A d \in Dirs : handle'[<<searches, d>>] # "none" => d = e \/ Entered(d)
      <4>1. SUFFICES ASSUME NEW d \in Dirs PROVE handle'[<<searches, d>>] # "none" => d = e \/ Entered(d)
        OBVIOUS
      <4>2. <<searches, d>> \in Handles /\ <<searches, d>>[2] = d
        BY <1>3, HandlePairs
      <4>. QED  BY <1>5, <1>8, <4>2 DEF Entered
    <3>2. ASSUME NEW x \in Dirs \ {Root}, x = e \/ Entered(x)
          PROVE  now(<<searches, parent[x]>>)
      <4>1. Entered(x) => Stacked(<<searches, parent[x]>>)
        BY <1>1 DEF IInv, StackInv, PushedOK
      <4>. QED  BY <1>4, <1>9, <3>2, <4>1 DEF p
    <3>3. ASSUME NEW d \in Dirs, NEW x \in Subdirs(d), NEW y \in Subdirs(d), x # y,
                 x = e \/ Entered(x), y = e \/ Entered(y)
          PROVE  nowTwice(<<searches, d>>)
      <4>1. x \in Dirs \ {Root} /\ y \in Dirs \ {Root} /\ parent[x] = d /\ parent[y] = d
        BY DEF Subdirs
      <4>2. CASE Entered(x) /\ Entered(y)
        <5>1. \/ StackedTwice(<<searches, d>>)
              \/ handle[<<searches, d>>] = "closed"
          BY <1>1, <3>3, <4>2 DEF IInv, StackInv, PushedOK, Searched
        <5>2. <<searches, d>> \in Handles /\ <<searches, d>>[1] = searches
          BY <1>3, HandlePairs
        <5>3. handle[<<searches, d>>] # "closed"
          BY <1>1, <5>2 DEF IInv, StackInv, ClosedOK
        <5>. QED  BY <1>9, <5>1, <5>3
      <4>3. CASE x = e /\ Entered(y)
        <5>1. d = D /\ Stacked(<<searches, parent[y]>>)
          BY <1>1, <1>4, <4>1, <4>3 DEF IInv, StackInv, PushedOK
        <5>. QED  BY <1>9, <4>1, <5>1 DEF p
      <4>4. CASE y = e /\ Entered(x)
        <5>1. d = D /\ Stacked(<<searches, parent[x]>>)
          BY <1>1, <1>4, <4>1, <4>4 DEF IInv, StackInv, PushedOK
        <5>. QED  BY <1>9, <4>1, <5>1 DEF p
      <4>. QED  BY <3>3, <4>2, <4>3, <4>4
    <3>4. \A d : Subdirs(d) \subseteq Dirs
      BY SubdirsType
    <3>. QED  BY <1>1, <1>10, <3>1, <3>2, <3>3, <3>4 DEF PushedOK, Entered, Stacked, StackedTwice, now, nowTwice
  <2>. QED  BY <1>8, <2>1, <2>2
<1>18. UndefinedOK'
  BY <1>8 DEF UndefinedOK
<1>. QED  BY <1>13, <1>14, <1>15, <1>16, <1>17, <1>18 DEF StackInv

\* A directory that was read to its end is a leaf or on the stack.
LEMMA ReturnStack == ASSUME IInv, Return PROVE StackInv'
<1> DEFINE L == Len(calls)
<1>1. /\ Len(calls') = L - 1
      /\ DOMAIN calls' = 1 .. L - 1
      /\ \A i \in 1 .. L - 1 : calls'[i] = calls[i]
      /\ outcome' = IF calls' = << >> THEN "releasing" ELSE "listing"
      /\ UNCHANGED <<parent, searches, handle, storage_root>>
      /\ Top.dirs = {} /\ outcome = "listing"
  BY Returning DEF IInv, WalkInv
<1>2. L \in Nat \ {0} /\ DOMAIN calls = 1 .. L /\ Top = calls[L]
  BY <1>1, TopCall DEF IInv, WalkInv
<1>3. ASSUME NEW i \in DOMAIN calls
      PROVE  /\ Stacked(<<searches, calls[i].dir>>) <=> calls[i].dirs # Subdirs(calls[i].dir)
             /\ i # L => calls[i].dirs # Subdirs(calls[i].dir)
  BY DEF IInv, StackInv, ListedOK
<1> HIDE DEF L
<1>4. StackOK' /\ UndefinedOK'
  BY <1>1 DEF IInv, StackInv, StackOK, UndefinedOK, Leaf, TwoSubdirs, Subdirs, Stacked, StackedTwice
<1>5. ClosedOK'
  BY <1>1 DEF IInv, StackInv, ClosedOK, Leaf, Subdirs
<1>6. OpenOK'
  <2>1. SUFFICES ASSUME NEW h \in Handles, handle[h] = "open", ~Leaf(h[2]), ~Stacked(h)
        PROVE  h[1] = searches /\ \E i \in DOMAIN calls' : calls'[i].dir = h[2]
    BY <1>1 DEF OpenOK, Leaf, Subdirs, Stacked
  <2>2. h[1] = searches /\ h = <<h[1], h[2]>>
    BY <2>1, HandlePairs DEF IInv, StackInv, OpenOK
  <2>3. PICK i \in DOMAIN calls : calls[i].dir = h[2]
    BY <2>1 DEF IInv, StackInv, OpenOK
  <2>4. calls[i].dirs = Subdirs(calls[i].dir)
    BY <1>3, <2>1, <2>2, <2>3
  <2>5. i # L
    BY <1>1, <1>2, <2>1, <2>3, <2>4 DEF Leaf
  <2>6. i \in 1 .. L - 1
    BY <1>2, <2>5
  <2>. QED  BY <1>1, <2>2, <2>3, <2>6
<1>7. ListedOK'
  <2>1. SUFFICES ASSUME NEW i \in 1 .. L - 1
        PROVE  Stacked(<<searches, calls[i].dir>>) /\ calls[i].dirs # Subdirs(calls[i].dir)
    BY <1>1 DEF ListedOK, Stacked, Subdirs
  <2>2. i \in DOMAIN calls /\ i # L
    BY <1>2
  <2>. QED  BY <1>3, <2>2
<1>8. PushedOK'
  <2>1. PushedOK
    BY DEF IInv, StackInv
  <2>. QED
    BY <1>1, <2>1 DEF PushedOK, Searched, Entered, Subdirs, Stacked, StackedTwice
<1>. QED  BY <1>4, <1>5, <1>6, <1>7, <1>8 DEF StackInv
\* What is closed is on the stack once less; a second closedir() takes two
\* subdirectories.
LEMMA ReleaseDirStack == ASSUME IInv, ReleaseDir PROVE StackInv'
<1>1. /\ outcome = "releasing" /\ calls' = << >>
      /\ UNCHANGED <<parent, searches>>
      /\ \/ /\ storage_root = << >> /\ outcome' = "done"
            /\ UNCHANGED <<storage_root, handle>>
         \/ \E h \in Handles :
              /\ Len(storage_root) \in Nat \ {0} /\ DOMAIN storage_root = 1 .. Len(storage_root)
              /\ storage_root[Len(storage_root)] = h
              /\ outcome' = IF handle[h] = "open" THEN "releasing" ELSE "undefined"
              /\ \A g \in Handles : handle'[g] = IF g = h THEN "closed" ELSE handle[g]
              /\ DOMAIN storage_root' = 1 .. Len(storage_root) - 1
              /\ \A i \in 1 .. Len(storage_root) - 1 : storage_root'[i] = storage_root[i]
  BY Releasing DEF IInv, WalkInv
<1>2. TypeOK /\ calls = << >> /\ searches \in 1 .. MaxSearches
  BY <1>1, ConstantsOK DEF IInv, WalkInv, TypeOK
<1>3. ListedOK'
  BY <1>1 DEF ListedOK
<1>4. CASE UNCHANGED <<storage_root, handle>> /\ outcome' = "done"
  <2>1. StackOK' /\ ClosedOK' /\ UndefinedOK'
    BY <1>1, <1>4 DEF IInv, StackInv, StackOK, ClosedOK, UndefinedOK, Leaf, TwoSubdirs, Subdirs,
                      Stacked, StackedTwice
  <2>2. OpenOK'
    BY <1>1, <1>2, <1>4 DEF IInv, StackInv, OpenOK, Leaf, Subdirs, Stacked
  <2>3. PushedOK'
    <3>1. PushedOK
      BY DEF IInv, StackInv
    <3>. QED
      BY <1>1, <1>4, <3>1 DEF PushedOK, Searched, Entered, Subdirs, Stacked, StackedTwice
  <2>. QED  BY <1>3, <2>1, <2>2, <2>3 DEF StackInv
<1>5. ASSUME NEW h \in Handles,
             Len(storage_root) \in Nat \ {0}, DOMAIN storage_root = 1 .. Len(storage_root),
             storage_root[Len(storage_root)] = h,
             outcome' = IF handle[h] = "open" THEN "releasing" ELSE "undefined",
             \A g \in Handles : handle'[g] = IF g = h THEN "closed" ELSE handle[g],
             DOMAIN storage_root' = 1 .. Len(storage_root) - 1,
             \A i \in 1 .. Len(storage_root) - 1 : storage_root'[i] = storage_root[i]
      PROVE  StackInv'
  <2> DEFINE now(g) == On(storage_root', g)
             nowTwice(g) == TwiceOn(storage_root', g)
  <2>1. \A g : /\ Stacked(g) <=> now(g) \/ g = h
               /\ StackedTwice(g) <=> nowTwice(g) \/ (g = h /\ now(g))
    BY <1>5, Popping DEF Stacked, StackedTwice
  <2> HIDE DEF now, nowTwice
  <2>2. \A d : /\ Subdirs(d)' = Subdirs(d) /\ (Leaf(d)' <=> Leaf(d))
               /\ TwoSubdirs(d)' <=> TwoSubdirs(d)
    BY <1>1 DEF Subdirs, Leaf, TwoSubdirs
  <2>3. \A g \in Handles : Stacked(g) =>
          /\ handle[g] # "none"
          /\ ~Leaf(g[2])
          /\ StackedTwice(g) \/ handle[g] = "closed" => TwoSubdirs(g[2])
    BY DEF IInv, StackInv, StackOK
  <2>4. StackOK'
    <3>1. SUFFICES ASSUME NEW g \in Handles, now(g)
          PROVE  /\ handle'[g] # "none"
                 /\ ~Leaf(g[2])
                 /\ nowTwice(g) \/ handle'[g] = "closed" => TwoSubdirs(g[2])
      BY <2>2 DEF StackOK, now, nowTwice, Stacked, StackedTwice
    <3>2. CASE g = h
      BY <1>5, <2>1, <2>3, <3>1, <3>2
    <3>3. CASE g # h
      BY <1>5, <2>1, <2>3, <3>1, <3>3
    <3>. QED  BY <3>2, <3>3
  <2>5. OpenOK'
    <3>1. SUFFICES ASSUME NEW g \in Handles, handle'[g] = "open"
          PROVE  Leaf(g[2]) \/ now(g)
      BY <2>2 DEF OpenOK, now, Stacked
    <3>2. g # h /\ handle[g] = "open"
      BY <1>5, <3>1
    <3>. QED  BY <1>2, <2>1, <3>2 DEF IInv, StackInv, OpenOK
  <2>6. ClosedOK'
    <3>1. SUFFICES ASSUME NEW g \in Handles, handle'[g] = "closed" PROVE ~Leaf(g[2])
      BY <1>1, <1>5, <2>2 DEF ClosedOK
    <3>2. CASE g = h
      BY <2>1, <2>3, <3>2
    <3>3. CASE handle[g] = "closed"
      BY <3>3 DEF IInv, StackInv, ClosedOK
    <3>. QED  BY <1>5, <3>1, <3>2, <3>3
  <2>7. PushedOK'
    <3>1. CASE handle[h] # "open"
      BY <1>5, <3>1 DEF PushedOK, Searched
    <3>2. CASE handle[h] = "open"
      <4>1. outcome' = "releasing" /\ Searched
        BY <1>1, <1>5, <3>2 DEF Searched
      <4>2. \A d \in Dirs : Entered(d)' => Entered(d)
        <5>1. SUFFICES ASSUME NEW d \in Dirs, handle'[<<searches, d>>] # "none"
                       PROVE  handle[<<searches, d>>] # "none"
          BY <1>1 DEF Entered
        <5>2. <<searches, d>> \in Handles
          BY <1>2, HandlePairs
        <5>. QED  BY <1>5, <3>2, <5>1, <5>2
      <4>3. ASSUME NEW d \in Dirs, NEW e \in Subdirs(d), NEW f \in Subdirs(d), e # f,
                   Entered(e), Entered(f)
            PROVE  nowTwice(<<searches, d>>)
                     \/ (handle'[<<searches, d>>] = "closed" /\ now(<<searches, d>>))
        <5>1. \/ StackedTwice(<<searches, d>>)
              \/ handle[<<searches, d>>] = "closed" /\ Stacked(<<searches, d>>)
          BY <4>1, <4>3 DEF IInv, StackInv, PushedOK
        <5>2. <<searches, d>> \in Handles
          BY <1>2, HandlePairs
        <5>. QED  BY <1>5, <2>1, <3>2, <5>1, <5>2
      <4>4. \A d : Subdirs(d) \subseteq Dirs
        BY SubdirsType
      <4>. QED
        BY <1>1, <2>2, <4>1, <4>2, <4>3, <4>4 DEF PushedOK, Stacked, StackedTwice, now, nowTwice
    <3>. QED  BY <3>1, <3>2
  <2>8. UndefinedOK'
    <3>1. CASE handle[h] = "open"
      BY <1>5, <3>1 DEF UndefinedOK
    <3>2. CASE handle[h] # "open"
      <4>1. handle[h] \in {"none", "open", "closed"} /\ h[2] \in Dirs
        BY <1>2, HandlePairs DEF TypeOK
      <4>2. TwoSubdirs(h[2])
        BY <2>1, <2>3, <3>2, <4>1
      <4>. QED  BY <2>2, <4>1, <4>2 DEF UndefinedOK
    <3>. QED  BY <3>1, <3>2
  <2>. QED  BY <1>3, <2>4, <2>5, <2>6, <2>7, <2>8 DEF StackInv
<1>. QED  BY <1>1, <1>4, <1>5

-----------------------------------------------------------------------------
(* The properties.                                                         *)

\* Every step keeps the invariant.
LEMMA NextIInv == IInv /\ [Next]_vars => IInv'
<1> SUFFICES ASSUME IInv, [Next]_vars PROVE IInv'
  OBVIOUS
<1>1. WalkInv /\ StackOK
  BY DEF IInv, StackInv
<1>2. ASSUME NEW b \in BOOLEAN, Search(b) PROVE IInv'
  BY <1>1, <1>2, SearchWalk, SearchStack DEF IInv
<1>3. CASE ReadFile
  BY <1>1, <1>3, ReadFileWalk, ReadFileStack DEF IInv
<1>4. CASE ReadSubdir
  BY <1>1, <1>4, ReadSubdirWalk, ReadSubdirStack DEF IInv
<1>5. CASE Return
  BY <1>1, <1>5, ReturnWalk, ReturnStack DEF IInv
<1>6. CASE ReleaseDir
  BY <1>1, <1>6, ReleaseDirWalk, ReleaseDirStack DEF IInv
<1>7. CASE UNCHANGED vars
  <2>1. UNCHANGED <<parent, file, ignore, searches, calls, storage_root, handle, file_found, outcome>>
    BY <1>7 DEF vars
  <2>2. TypeOK' /\ LaterFresh' /\ NoFalseAnswer'
    BY <1>1, <2>1 DEF WalkInv, TypeOK, LaterFresh, NoFalseAnswer, Wanted, Matches
  <2>3. CallsOK' /\ Walked'
    BY <1>1, <2>1 DEF WalkInv, CallsOK, Walked, Searched, Entered, Subdirs, Wanted, Matches
  <2>4. StackOK' /\ OpenOK' /\ ClosedOK'
    BY <2>1 DEF IInv, StackInv, StackOK, OpenOK, ClosedOK, Stacked, StackedTwice, Leaf, TwoSubdirs,
                Subdirs
  <2>5. ListedOK' /\ PushedOK' /\ UndefinedOK'
    BY <2>1 DEF IInv, StackInv, ListedOK, PushedOK, UndefinedOK, Searched, Entered, Subdirs,
                Stacked, StackedTwice, TwoSubdirs
  <2>. QED  BY <2>2, <2>3, <2>4, <2>5 DEF IInv, WalkInv, StackInv
<1>. QED  BY <1>2, <1>3, <1>4, <1>5, <1>6, <1>7 DEF Next

\* The invariant holds in every reachable state.
THEOREM Invariance == Spec => []IInv
<1>1. Init => IInv
  BY InitWalk, InitStack DEF IInv
<1>. QED  BY <1>1, NextIInv, PTL DEF Spec

\* The types of the variables, whatever the tree is.
THEOREM TypeCorrect == Spec => []TypeOK
<1>1. IInv => TypeOK
  BY DEF IInv, WalkInv
<1>. QED  BY <1>1, Invariance, PTL

\* With no call left every directory was entered: the first that was not would
\* be in one that was.
LEMMA AllEntered ==
  ASSUME WalkInv, Searched, calls = << >>
  PROVE  \A d \in Dirs : Entered(d)
<1> DEFINE R == OpToRel(<, Nat)
           missed == {d \in Dirs : ~Entered(d)}
<1>1. IsWellFoundedOn(R, Nat)
  BY NatLessThanWellFounded
<1>2. \A m, n \in Nat : m < n => <<m, n>> \in R
  BY DEF OpToRel
<1> HIDE DEF R
<1>3. SUFFICES ASSUME missed # {} PROVE FALSE
  OBVIOUS
<1>4. missed \subseteq Nat
  BY DEF Dirs
<1>5. PICK d \in missed : \A e \in missed : ~ (<<e, d>> \in R)
  BY <1>1, <1>3, <1>4, WFMin
<1>6. /\ Entered(Root)
      /\ \A e \in Dirs : Entered(e) => \A f \in Subdirs(e) : Entered(f)
  BY DEF WalkInv, Walked
<1>7. d \in Dirs \ {Root}
  BY <1>5, <1>6
<1>8. parent[d] \in Dirs /\ parent[d] < d
  BY <1>7 DEF WalkInv, TypeOK
<1>9. Entered(parent[d])
  <2>1. parent[d] \in Nat /\ d \in Nat
    BY <1>7, <1>8 DEF Dirs
  <2>2. <<parent[d], d>> \in R
    BY <1>2, <1>8, <2>1
  <2>. QED  BY <1>5, <1>8, <2>2
<1>10. d \in Subdirs(parent[d])
  BY <1>7 DEF Subdirs
<1>. QED  BY <1>5, <1>6, <1>8, <1>9, <1>10

\* A search that comes back gives the right answer, for every tree and after
\* any searches before it.
THEOREM FoundCorrect == Spec => []FoundIffThere
<1>1. IInv => FoundIffThere
  <2> SUFFICES ASSUME IInv, outcome = "done"
               PROVE  file_found <=> \E d \in Dirs : file[d] # NoFile /\ Matches(file[d])
    BY DEF FoundIffThere
  <2>1. WalkInv /\ Searched /\ calls = << >>
    BY DEF IInv, WalkInv, TypeOK, Searched
  <2>2. file_found => \E d \in Dirs : Wanted(d)
    BY <2>1 DEF WalkInv, NoFalseAnswer
  <2>3. \A d \in Dirs : Wanted(d) => file_found
    BY <2>1, AllEntered DEF WalkInv, Walked
  <2>. QED  BY <2>2, <2>3 DEF Wanted
<1>. QED  BY <1>1, Invariance, PTL

\* More than one subdirectory is two different ones.
LEMMA Siblings ==
  ASSUME NEW d \in Dirs
  PROVE  Cardinality(Subdirs(d)) > 1 <=> TwoSubdirs(d)
<1>1. IsFiniteSet(Dirs) /\ Subdirs(d) \subseteq Dirs
  BY FS_Interval, ConstantsOK, SubdirsType DEF Dirs
<1>2. IsFiniteSet(Subdirs(d)) /\ Cardinality(Subdirs(d)) \in Nat
  BY <1>1, FS_Subset, FS_CardinalityType
<1>3. ASSUME TwoSubdirs(d) PROVE Cardinality(Subdirs(d)) > 1
  <2>1. PICK e \in Subdirs(d), f \in Subdirs(d) : e # f
    BY <1>3 DEF TwoSubdirs
  <2>2. Subdirs(d) # {} /\ \A x : Subdirs(d) # {x}
    BY <2>1
  <2>3. Cardinality(Subdirs(d)) # 0
    BY <1>2, <2>2, FS_EmptySet
  <2>4. Cardinality(Subdirs(d)) # 1
    BY <1>2, <2>2, FS_Singleton
  <2>. QED  BY <1>2, <2>3, <2>4
<1>4. ASSUME ~TwoSubdirs(d) PROVE ~(Cardinality(Subdirs(d)) > 1)
  <2>1. CASE Subdirs(d) = {}
    BY <2>1, FS_EmptySet
  <2>2. ASSUME NEW e \in Subdirs(d) PROVE Cardinality(Subdirs(d)) = 1
    <3>1. Subdirs(d) = {e}
      BY <1>4, <2>2 DEF TwoSubdirs
    <3>. QED  BY <3>1, FS_Singleton
  <2>. QED  BY <2>1, <2>2
<1>. QED  BY <1>3, <1>4

\* release_dir closes a directory once for every subdirectory of it: closedir()
\* is undefined only where some directory has two, and no search of such a tree
\* comes back.
THEOREM ClosedCorrect == Spec => []ClosedPerSubdirectory
<1>1. IInv => ClosedPerSubdirectory
  <2> SUFFICES ASSUME IInv PROVE ClosedPerSubdirectory
    OBVIOUS
  <2>1. outcome = "undefined" => \E d \in Dirs : Cardinality(Subdirs(d)) > 1
    BY Siblings DEF IInv, StackInv, UndefinedOK
  <2>2. DOMAIN handle = Handles
    BY DEF IInv, WalkInv, TypeOK
  <2>3. ASSUME outcome \in {"done", "threw"}, NEW h \in Handles, handle[h] = "open"
        PROVE  Subdirs(h[2]) = {} \/ \E i \in DOMAIN storage_root : storage_root[i] = h
    <3>1. calls = << >>
      BY <2>3 DEF IInv, WalkInv, TypeOK
    <3>. QED  BY <2>3, <3>1 DEF IInv, StackInv, OpenOK, Leaf, Stacked, On
  <2>4. ASSUME outcome = "done"
        PROVE  /\ ~ \E d \in Dirs : Cardinality(Subdirs(d)) > 1
               /\ \A d \in Dirs : Subdirs(d) = {} => handle[<<searches, d>>] = "open"
    <3>1. /\ WalkInv /\ Searched /\ calls = << >> /\ storage_root = << >>
          /\ searches \in 1 .. MaxSearches
      BY <2>4, ConstantsOK DEF IInv, WalkInv, TypeOK, Searched
    <3>2. \A d \in Dirs : Entered(d)
      BY <3>1, AllEntered
    <3>3. ASSUME NEW d \in Dirs PROVE ~TwoSubdirs(d)
      <4>1. ~Stacked(<<searches, d>>) /\ ~StackedTwice(<<searches, d>>)
        BY <3>1 DEF Stacked, StackedTwice, On, TwiceOn
      <4>. QED  BY <3>1, <3>2, <4>1, SubdirsType DEF IInv, StackInv, PushedOK, TwoSubdirs
    <3>4. ASSUME NEW d \in Dirs, Subdirs(d) = {} PROVE handle[<<searches, d>>] = "open"
      <4>1. <<searches, d>> \in Handles /\ <<searches, d>>[2] = d
        BY <3>1, HandlePairs
      <4>2. handle[<<searches, d>>] \in {"none", "open", "closed"}
        BY <3>1, <4>1 DEF WalkInv, TypeOK
      <4>3. handle[<<searches, d>>] # "closed"
        BY <3>4, <4>1 DEF IInv, StackInv, ClosedOK, Leaf
      <4>. QED  BY <3>2, <4>2, <4>3 DEF Entered
    <3>. QED  BY <3>3, <3>4, Siblings
  <2>. QED  BY <2>1, <2>2, <2>3, <2>4 DEF ClosedPerSubdirectory
<1>. QED  BY <1>1, Invariance, PTL

-----------------------------------------------------------------------------
(* MD5.                                                                    *)

-----------------------------------------------------------------------------
(* Division.                                                               *)

\* Quotient and remainder, and that there are no others.
LEMMA Division ==
  ASSUME NEW B \in Nat \ {0}, NEW a \in Nat
  PROVE  /\ a \div B \in Nat /\ a % B \in 0 .. B - 1
         /\ a = B * (a \div B) + (a % B)
OBVIOUS

LEMMA Quotient ==
  ASSUME NEW B \in Nat \ {0}, NEW q \in Nat, NEW r \in 0 .. B - 1, NEW a, a = B * q + r
  PROVE  a \div B = q /\ a % B = r
<1> DEFINE p == a \div B
           s == a % B
<1>1. a \in Nat
  <2>1. B * q \in Nat
    OBVIOUS
  <2>. QED  BY <2>1
<1>2. p \in Nat /\ s \in 0 .. B - 1 /\ a = B * p + s
  BY <1>1, Division
<1> HIDE DEF p, s
<1>3. ASSUME NEW x \in Nat, NEW y \in Nat, NEW t \in 0 .. B - 1, NEW u \in 0 .. B - 1,
             x < y, B * x + t = B * y + u
      PROVE  FALSE
  <2>1. PICK d \in Nat : y = x + 1 + d
    <3>1. y - x - 1 \in Nat /\ y = x + 1 + (y - x - 1)
      BY <1>3
    <3>. QED  BY <3>1
  <2>2. B * y = B * x + B + B * d
    BY <2>1
  <2>3. B * d \in Nat /\ B * x \in Nat
    OBVIOUS
  <2>. QED  BY <1>3, <2>2, <2>3
<1>4. ~(p < q) /\ ~(q < p)
  BY <1>2, <1>3, Zenon
<1>5. p = q
  BY <1>2, <1>4
<1>6. s = r
  <2>1. B * q \in Nat
    OBVIOUS
  <2>. QED  BY <1>2, <1>5, <2>1
<1>. QED  BY <1>5, <1>6 DEF p, s

LEMMA Less ==
  ASSUME NEW B \in Nat \ {0}, NEW a \in 0 .. B - 1
  PROVE  a \div B = 0
<1>1. 0 \in Nat /\ a = B * 0 + a
  OBVIOUS
<1>. QED  BY <1>1, Quotient

\* A whole number of blocks more, and what is left behind them.
LEMMA MoreBlocks ==
  ASSUME NEW B \in Nat \ {0}, NEW a \in Nat, NEW n \in Nat, a % B = 0
  PROVE  /\ n < B => (a + n) \div B = a \div B /\ (a + n) % B = n
         /\ n >= B => /\ (n - B) \div B \in Nat
                      /\ (a + n) \div B = a \div B + 1 + (n - B) \div B
                      /\ B * ((n - B) \div B) <= n - B
<1> DEFINE q == a \div B
<1>1. q \in Nat /\ a = B * q
  BY Division
<1> HIDE DEF q
<1>2. ASSUME n < B
      PROVE  (a + n) \div B = q /\ (a + n) % B = n
  <2>1. n \in 0 .. B - 1 /\ a + n = B * q + n
    BY <1>1, <1>2
  <2>. QED  BY <1>1, <2>1, Quotient
<1>3. ASSUME n >= B
      PROVE  /\ (n - B) \div B \in Nat
             /\ (a + n) \div B = q + 1 + (n - B) \div B
             /\ B * ((n - B) \div B) <= n - B
  <2> DEFINE m == n - B
             p == m \div B
             r == m % B
  <2>1. m \in Nat
    BY <1>3
  <2>2. p \in Nat /\ r \in 0 .. B - 1 /\ m = B * p + r
    BY <2>1, Division
  <2> HIDE DEF p, r
  <2>3. B * (q + 1 + p) = B * q + B + B * p
    BY <1>1, <2>2
  <2>4. B * q \in Nat /\ B * p \in Nat
    BY <1>1, <2>2
  <2>5. a + n = B * (q + 1 + p) + r /\ q + 1 + p \in Nat
    BY <1>1, <1>3, <2>2, <2>3, <2>4
  <2>6. (a + n) \div B = q + 1 + p
    <3>1. PICK x \in Nat : x = q + 1 + p
      BY <2>5
    <3>2. PICK c : c = a + n
      OBVIOUS
    <3>3. c = B * x + r
      BY <2>5, <3>1, <3>2, Zenon
    <3>4. c \div B = x
      BY <2>2, <3>3, Quotient
    <3>. QED  BY <3>1, <3>2, <3>4, Zenon
  <2>7. B * p <= m
    BY <2>1, <2>2, <2>4
  <2>. QED  BY <2>2, <2>6, <2>7 DEF p
<1>. QED  BY <1>2, <1>3 DEF q

\* Smaller factors, smaller products.
LEMMA Products ==
  ASSUME NEW B \in Nat, NEW k \in Nat, NEW q \in Nat, k <= q
  PROVE  k * B <= q * B /\ k * B \in Nat /\ q * B \in Nat
<1>1. PICK d \in Nat : q = k + d
  <2>1. q - k \in Nat /\ q = k + (q - k)
    OBVIOUS
  <2>. QED  BY <2>1
<1>2. q * B = k * B + d * B /\ d * B \in Nat /\ k * B \in Nat
  BY <1>1
<1>. QED  BY <1>2

-----------------------------------------------------------------------------
(* Types.                                                                  *)

Cell == Int \X Int
Block == [Offsets -> Cell]
Object == [buff : Block, count : Nat, blocks : Seq(Block)]

Md5TypeOK ==
  /\ md5 \in Object /\ digest \in Seq(Block)
  /\ message \in Nat \ {0} /\ regular \in BOOLEAN /\ digested \in BOOLEAN

LEMMA Sizes ==
  /\ BlockLen \in Nat \ {0} /\ LenLen \in Nat \ {0} /\ LenLen < BlockLen
  /\ MaxBytes \in Nat /\ MaxMessages \in Nat
BY Md5ConstantsOK DEF Md5ConstantsOK

LEMMA IndexType ==
  ASSUME NEW m \in Object
  PROVE  Index(m) \in 0 .. BlockLen - 1
<1>1. m.count \in Nat
  BY DEF Object
<1>. QED  BY <1>1, Sizes, Division DEF Index

\* The whole blocks behind the first part cells.
LEMMA DirectBlocks ==
  ASSUME NEW in \in Seq(Cell), NEW part \in Nat, part <= Len(in)
  PROVE  /\ Direct(in, part) \in Seq(Block)
         /\ Len(Direct(in, part)) = (Len(in) - part) \div BlockLen
         /\ (Len(in) - part) \div BlockLen \in Nat
         /\ \A k \in 1 .. (Len(in) - part) \div BlockLen : \A o \in Offsets :
              Direct(in, part)[k][o] = in[part + (k - 1) * BlockLen + o]
<1> DEFINE B == BlockLen
           L == Len(in)
           q == (L - part) \div B
           d == Direct(in, part)
<1>1. B \in Nat \ {0}
  BY Sizes
<1>2. L \in Nat /\ L - part \in Nat
  OBVIOUS
<1>3. q \in Nat /\ q * B <= L - part
  <2>1. PICK a \in Nat : a = L - part
    BY <1>2
  <2>2. /\ a \div B \in Nat /\ a % B \in 0 .. B - 1
        /\ a = B * (a \div B) + (a % B)
    BY <1>1, <2>1, Division
  <2> HIDE DEF B
  <2>3. (a \div B) * B <= a
    BY <1>1, <2>2
  <2>. QED  BY <2>1, <2>2, <2>3
<1>4. d = [k \in 1 .. q |-> SubSeq(in, part + (k - 1) * B + 1, part + k * B)]
  BY DEF Direct
<1>5. Offsets = 1 .. B
  BY DEF Offsets
<1> HIDE DEF B, L, q, d
<1>6. ASSUME NEW k \in 1 .. q
      PROVE  /\ d[k] \in Block
             /\ \A o \in Offsets : d[k][o] = in[part + (k - 1) * B + o]
  <2>1. PICK a \in Nat : a = part + (k - 1) * B
    <3>1. (k - 1) * B \in Nat
      BY <1>1, <1>3
    <3>. QED  BY <3>1
  <2>2. part + k * B = a + B
    BY <1>1, <1>3, <2>1
  <2>3. a + B <= L
    <3>1. k * B <= q * B /\ k * B \in Nat /\ q * B \in Nat
      BY <1>1, <1>3, Products
    <3>. QED  BY <1>2, <1>3, <2>2, <3>1
  <2>4. d[k] = SubSeq(in, a + 1, a + B)
    <3>1. d[k] = SubSeq(in, part + (k - 1) * B + 1, part + k * B)
      BY <1>4
    <3>. QED  BY <2>1, <2>2, <3>1
  <2> DEFINE s == SubSeq(in, a + 1, a + B)
  <2>5. /\ s \in Seq(Cell) /\ Len(s) = B
        /\ \A o \in 1 .. B : s[o] = in[a + o]
    <3>1. a + 1 \in 1 .. L + 1 /\ a + B \in a .. L
      BY <1>1, <1>2, <2>3
    <3>. QED  BY <1>1, <3>1 DEF L
  <2> HIDE DEF s
  <2>6. s \in Block
    BY <1>1, <1>5, <2>5 DEF Block
  <2>. QED  BY <1>5, <2>1, <2>4, <2>5, <2>6 DEF s
<1>7. d \in Seq(Block) /\ Len(d) = q
  BY <1>3, <1>4, <1>6
<1>. QED  BY <1>3, <1>6, <1>7 DEF B, L, q, d

-----------------------------------------------------------------------------
(* What update() and final() leave.                                        *)

\* The part of __buff that stays, and the input behind it.
LEMMA Fill ==
  ASSUME NEW buff \in Block, NEW in \in Seq(Cell), NEW i \in 0 .. BlockLen - 1,
         Len(in) >= BlockLen - i
  PROVE  LET filled == SubSeq(buff, 1, i) \o SubSeq(in, 1, BlockLen - i)
         IN /\ filled \in Block
            /\ \A o \in Offsets : filled[o] = IF o <= i THEN buff[o] ELSE in[o - i]
<1> DEFINE B == BlockLen
           s == SubSeq(buff, 1, i)
           t == SubSeq(in, 1, B - i)
<1>1. B \in Nat \ {0} /\ Offsets = 1 .. B
  BY Sizes DEF Offsets
<1>2. buff \in Seq(Cell) /\ Len(buff) = B
  BY <1>1 DEF Block
<1> HIDE DEF B
<1>3. s \in Seq(Cell) /\ Len(s) = i /\ \A o \in 1 .. i : s[o] = buff[o]
  BY <1>1, <1>2 DEF B
<1>4. t \in Seq(Cell) /\ Len(t) = B - i /\ \A o \in 1 .. B - i : t[o] = in[o]
  BY <1>1 DEF B
<1> HIDE DEF s, t
<1> DEFINE c == s \o t
<1>5. /\ c \in Seq(Cell) /\ Len(c) = Len(s) + Len(t)
      /\ \A o \in 1 .. Len(s) + Len(t) : c[o] = IF o <= Len(s) THEN s[o] ELSE t[o - Len(s)]
  <2>1. s \in Seq(Cell) /\ t \in Seq(Cell)
    BY <1>3, <1>4, Zenon
  <2>. QED  BY <2>1, ConcatProperties DEF c
<1> HIDE DEF c
<1>6. B - i \in Nat /\ i \in Nat /\ i + (B - i) = B
  BY <1>1 DEF B
<1>7. Len(c) = B /\ \A o \in 1 .. B : c[o] = IF o <= i THEN s[o] ELSE t[o - i]
  BY <1>3, <1>4, <1>5, <1>6
<1>8. c \in Block
  <2>1. c \in [1 .. Len(c) -> Cell]
    BY <1>5
  <2>2. c \in [1 .. B -> Cell]
    BY <1>7, <2>1, Zenon
  <2>. QED  BY <1>1, <2>2, Zenon DEF Block
<1>9. \A o \in Offsets : c[o] = IF o <= i THEN buff[o] ELSE in[o - i]
  <2> TAKE o \in Offsets
  <2>1. CASE o <= i
    BY <1>1, <1>3, <1>6, <1>7, <2>1
  <2>2. CASE ~(o <= i)
    <3>1. o - i \in 1 .. B - i
      BY <1>1, <1>6, <2>2
    <3>. QED  BY <1>1, <1>4, <1>7, <2>2, <3>1
  <2>. QED  BY <2>1, <2>2
<1>. QED  BY <1>8, <1>9, Zenon DEF B, s, t, c

\* Input that does not fill __buff is counted.
LEMMA FedShort ==
  ASSUME NEW m \in Object, NEW in \in Seq(Cell), Len(in) < BlockLen - Index(m)
  PROVE  /\ Fed(m, in) \in Object
         /\ Fed(m, in).buff = m.buff /\ Fed(m, in).blocks = m.blocks
         /\ Fed(m, in).count = m.count + Len(in)
<1>1. Fed(m, in) = [m EXCEPT !.count = @ + Len(in)]
  BY DEF Fed
<1>2. Len(in) \in Nat
  OBVIOUS
<1>. QED  BY <1>1, <1>2 DEF Object

\* Other input fills it, and its whole blocks go to the compression.
LEMMA FedFull ==
  ASSUME NEW m \in Object, NEW in \in Seq(Cell), Len(in) >= BlockLen - Index(m)
  PROVE  /\ Fed(m, in) \in Object
         /\ Fed(m, in).count = m.count + Len(in)
         /\ Fed(m, in).blocks =
              Append(m.blocks, Fed(m, in).buff) \o Direct(in, BlockLen - Index(m))
         /\ \A o \in Offsets :
              Fed(m, in).buff[o] = IF o <= Index(m) THEN m.buff[o] ELSE in[o - Index(m)]
<1> DEFINE i == Index(m)
           filled == SubSeq(m.buff, 1, i) \o SubSeq(in, 1, BlockLen - i)
           blocks == Append(m.blocks, filled) \o Direct(in, BlockLen - i)
<1>1. i \in 0 .. BlockLen - 1 /\ BlockLen \in Nat \ {0}
  BY IndexType, Sizes
<1>2. m.buff \in Block /\ m.count \in Nat /\ m.blocks \in Seq(Block)
  BY DEF Object
<1>3. Len(in) \in Nat /\ ~(Len(in) < BlockLen - i) /\ BlockLen - i \in Nat
  BY <1>1
<1>4. Fed(m, in) = [buff |-> filled, count |-> m.count + Len(in), blocks |-> blocks]
  BY <1>3 DEF Fed
<1>5. /\ filled \in Block
      /\ \A o \in Offsets : filled[o] = IF o <= i THEN m.buff[o] ELSE in[o - i]
  <2> HIDE DEF i
  <2>1. Len(in) >= BlockLen - i
    BY DEF i
  <2>. QED  BY <1>1, <1>2, <2>1, Fill, Zenon DEF filled
<1>6. Direct(in, BlockLen - i) \in Seq(Block)
  BY <1>3, DirectBlocks
<1> HIDE DEF i, filled
<1>7. blocks \in Seq(Block)
  <2>1. Append(m.blocks, filled) \in Seq(Block)
    BY <1>2, <1>5
  <2>. QED  BY <1>6, <2>1
<1> HIDE DEF blocks
<1>8. Fed(m, in).buff = filled /\ Fed(m, in).blocks = blocks /\ Fed(m, in).count = m.count + Len(in)
  BY <1>4
<1>9. Fed(m, in) \in Object
  BY <1>2, <1>3, <1>4, <1>5, <1>7 DEF Object
<1>10. blocks = Append(m.blocks, Fed(m, in).buff) \o Direct(in, BlockLen - Index(m))
  BY <1>8, Zenon DEF blocks, i
<1>. QED  BY <1>5, <1>8, <1>9, <1>10 DEF i

\* Where the padding ends, and whether it fills a block.
LEMMA PadSize ==
  ASSUME NEW m \in Object
  PROVE  /\ PadLen(m) \in Nat
         /\ Index(m) < BlockLen - LenLen =>
              PadLen(m) = (BlockLen - LenLen) - Index(m) /\ PadLen(m) < BlockLen - Index(m)
         /\ ~(Index(m) < BlockLen - LenLen) =>
              /\ PadLen(m) = (BlockLen - LenLen) + BlockLen - Index(m)
              /\ PadLen(m) >= BlockLen - Index(m)
              /\ (PadLen(m) - (BlockLen - Index(m))) \div BlockLen = 0
<1> DEFINE i == Index(m)
           last == BlockLen - LenLen
<1>1. i \in 0 .. BlockLen - 1 /\ BlockLen \in Nat \ {0} /\ LenLen \in Nat \ {0} /\ last \in 1 .. BlockLen - 1
  BY IndexType, Sizes
<1>2. PadLen(m) = IF i < last THEN last - i ELSE last + BlockLen - i
  BY DEF PadLen
<1>3. last \div BlockLen = 0
  <2>1. PICK a \in 0 .. BlockLen - 1 : a = last
    BY <1>1
  <2>2. a \div BlockLen = 0
    BY <1>1, <2>1, Less
  <2>. QED  BY <2>1, <2>2, Zenon
<1>4. ASSUME ~(i < last)
      PROVE  (PadLen(m) - (BlockLen - i)) \div BlockLen = 0
  <2>1. PadLen(m) - (BlockLen - i) = last
    BY <1>1, <1>2, <1>4
  <2>. QED  BY <1>3, <2>1
<1> HIDE DEF i
<1>5. PadLen(m) \in Nat
  BY <1>1, <1>2
<1>6. i < last => PadLen(m) = last - i /\ PadLen(m) < BlockLen - i
  BY <1>1, <1>2
<1>7. ~(i < last) => PadLen(m) = last + BlockLen - i /\ PadLen(m) >= BlockLen - i
  BY <1>1, <1>2
<1>. QED  BY <1>4, <1>5, <1>6, <1>7, Zenon DEF i, last

LEMMA PadIndex ==
  ASSUME NEW m \in Object, NEW p \in Object, p.count = m.count + PadLen(m)
  PROVE  Index(p) = BlockLen - LenLen
<1> DEFINE i == Index(m)
           last == BlockLen - LenLen
           q == m.count \div BlockLen
<1>1. i \in 0 .. BlockLen - 1 /\ BlockLen \in Nat \ {0} /\ LenLen \in Nat \ {0} /\ last \in 0 .. BlockLen - 1
  BY IndexType, Sizes
<1>2. m.count \in Nat /\ p.count \in Nat
  BY DEF Object
<1>3. q \in Nat /\ m.count = BlockLen * q + i
  BY <1>1, <1>2, Division DEF Index
<1>4. Index(p) = p.count % BlockLen
  BY DEF Index
<1>5. /\ i < last => PadLen(m) = last - i
      /\ ~(i < last) => PadLen(m) = last + BlockLen - i
  BY PadSize
<1> HIDE DEF i, last, q
<1>6. BlockLen * q \in Nat /\ BlockLen * (q + 1) = BlockLen * q + BlockLen
  BY <1>1, <1>3
<1>7. \E x \in Nat : p.count = BlockLen * x + last
  <2>1. CASE i < last
    <3>1. p.count = BlockLen * q + last
      BY <1>1, <1>2, <1>3, <1>5, <1>6, <2>1
    <3>. QED  BY <1>3, <3>1
  <2>2. CASE ~(i < last)
    <3>1. p.count = BlockLen * (q + 1) + last
      BY <1>1, <1>2, <1>3, <1>5, <1>6, <2>2
    <3>2. q + 1 \in Nat
      BY <1>3
    <3>. QED  BY <3>1, <3>2
  <2>. QED  BY <2>1, <2>2
<1>8. p.count % BlockLen = last
  BY <1>1, <1>7, Quotient
<1>. QED  BY <1>4, <1>8 DEF last

\* final() gives the compression one block more, or two: __buff with the
\* length of the message in its end, and before it, if the padding fills a
\* block, __buff with the padding in its end.  The start of __buff stays.
Last(m, block) ==
  \A o \in Offsets :
    block[o] = IF o <= BlockLen - LenLen THEN m.buff[o] ELSE Bits(m.count)

Middle(m, block) ==
  \A o \in Offsets :
    block[o] = IF o <= Index(m) THEN m.buff[o] ELSE Padding(o - Index(m))

LEMMA FinishedBlocks ==
  ASSUME NEW m \in Object
  PROVE  /\ Finished(m) \in Object
         /\ Index(m) < BlockLen - LenLen =>
              /\ Last(m, Finished(m).buff)
              /\ Finished(m).blocks = Append(m.blocks, Finished(m).buff)
         /\ ~(Index(m) < BlockLen - LenLen) =>
              \E block \in Block :
                /\ Middle(m, block)
                /\ \A o \in Offsets : Finished(m).buff[o] =
                     IF o <= BlockLen - LenLen THEN block[o] ELSE Bits(m.count)
                /\ Finished(m).blocks = Append(Append(m.blocks, block), Finished(m).buff)
<1> DEFINE i == Index(m)
           last == BlockLen - LenLen
           pad == [k \in 1 .. PadLen(m) |-> Padding(k)]
           padded == Fed(m, pad)
           bits == [k \in 1 .. LenLen |-> Bits(m.count)]
           done == Fed(padded, bits)
<1>1. i \in 0 .. BlockLen - 1 /\ BlockLen \in Nat \ {0} /\ LenLen \in Nat \ {0} /\ last \in 0 .. BlockLen - 1
      /\ LenLen = BlockLen - last
  BY IndexType, Sizes
<1>2. m.count \in Nat /\ m.blocks \in Seq(Block) /\ m.buff \in Block
  BY DEF Object
<1>3. pad \in Seq(Cell) /\ Len(pad) = PadLen(m) /\ \A k \in 1 .. PadLen(m) : pad[k] = Padding(k)
  <2>1. \A k \in Nat : Padding(k) \in Cell
    BY DEF Padding, Cell
  <2>2. PadLen(m) \in Nat
    BY PadSize
  <2>. QED  BY <2>1, <2>2
<1>4. bits \in Seq(Cell) /\ Len(bits) = LenLen /\ \A k \in 1 .. LenLen : bits[k] = Bits(m.count)
  <2>1. Bits(m.count) \in Cell
    BY <1>2 DEF Bits, Cell
  <2>. QED  BY <1>1, <2>1
<1>5. Finished(m) = done
  BY Zenon DEF Finished
<1> HIDE DEF pad, bits
<1>6. padded \in Object /\ padded.count = m.count + PadLen(m)
  BY <1>3, FedShort, FedFull, IndexType, PadSize, Sizes
<1>7. Index(padded) = last
  BY <1>6, PadIndex
<1>8. padded.buff \in Block /\ padded.blocks \in Seq(Block)
  BY <1>6 DEF Object
<1> HIDE DEF padded
<1>9. /\ done \in Object
      /\ done.blocks = Append(padded.blocks, done.buff) \o Direct(bits, LenLen)
      /\ \A o \in Offsets : done.buff[o] = IF o <= last THEN padded.buff[o] ELSE bits[o - last]
  <2>1. Len(bits) >= BlockLen - Index(padded) /\ BlockLen - Index(padded) = LenLen
    BY <1>1, <1>4, <1>7
  <2>2. /\ done \in Object
        /\ done.blocks = Append(padded.blocks, done.buff) \o Direct(bits, BlockLen - Index(padded))
        /\ \A o \in Offsets : done.buff[o] =
             IF o <= Index(padded) THEN padded.buff[o] ELSE bits[o - Index(padded)]
    BY <1>4, <1>6, <2>1, FedFull
  <2> HIDE DEF done, last
  <2>. QED  BY <1>7, <2>1, <2>2
<1>10. done.buff \in Block
  BY <1>9 DEF Object
<1>11. \A o \in Offsets : done.buff[o] = IF o <= last THEN padded.buff[o] ELSE Bits(m.count)
  <2>1. \A o \in Offsets : ~(o <= last) => o - last \in 1 .. LenLen
    BY <1>1 DEF Offsets
  <2>. QED  BY <1>4, <1>9, <2>1
<1>12. done.blocks = Append(padded.blocks, done.buff)
  <2>1. Direct(bits, LenLen) = << >>
    <3>1. (Len(bits) - LenLen) \div BlockLen = 0
      <4>1. Len(bits) - LenLen = 0
        BY <1>1, <1>4
      <4>2. 0 \div BlockLen = 0
        BY <1>1, Less
      <4>. QED  BY <4>1, <4>2, Zenon
    <3>2. LenLen \in Nat /\ LenLen <= Len(bits)
      BY <1>1, <1>4
    <3>3. Direct(bits, LenLen) \in Seq(Block) /\ Len(Direct(bits, LenLen)) = 0
      BY <1>4, <3>1, <3>2, DirectBlocks
    <3>. QED  BY <3>3, EmptySeq
  <2>2. Append(padded.blocks, done.buff) \in Seq(Block)
    BY <1>8, <1>10
  <2>. QED  BY <1>9, <2>1, <2>2, ConcatEmptySeq
<1> HIDE DEF done
<1>13. ASSUME i < last
       PROVE  Last(m, done.buff) /\ done.blocks = Append(m.blocks, done.buff)
  <2>1. padded.buff = m.buff /\ padded.blocks = m.blocks
    BY <1>3, <1>13, FedShort, PadSize DEF padded
  <2>. QED  BY <1>11, <1>12, <2>1 DEF Last
<1>14. ASSUME ~(i < last)
       PROVE  /\ Middle(m, padded.buff)
              /\ padded.blocks = Append(m.blocks, padded.buff)
  <2>1. /\ PadLen(m) = last + BlockLen - i /\ PadLen(m) >= BlockLen - i
        /\ (PadLen(m) - (BlockLen - i)) \div BlockLen = 0
    BY <1>14, PadSize
  <2>2. /\ padded.blocks = Append(m.blocks, padded.buff) \o Direct(pad, BlockLen - i)
        /\ \A o \in Offsets : padded.buff[o] = IF o <= i THEN m.buff[o] ELSE pad[o - i]
    BY <1>3, <2>1, FedFull DEF padded
  <2>3. Direct(pad, BlockLen - i) = << >>
    <3>1. BlockLen - i \in Nat /\ BlockLen - i <= Len(pad)
      BY <1>1, <1>3, <2>1
    <3>2. Direct(pad, BlockLen - i) \in Seq(Block) /\ Len(Direct(pad, BlockLen - i)) = 0
      BY <1>3, <2>1, <3>1, DirectBlocks
    <3>. QED  BY <3>2, EmptySeq
  <2>4. Append(m.blocks, padded.buff) \in Seq(Block)
    BY <1>2, <1>8
  <2>5. padded.blocks = Append(m.blocks, padded.buff)
    BY <2>2, <2>3, <2>4, ConcatEmptySeq
  <2>6. \A o \in Offsets : ~(o <= i) => o - i \in 1 .. PadLen(m)
    BY <1>1, <2>1 DEF Offsets
  <2>7. Middle(m, padded.buff)
    BY <1>3, <2>2, <2>6 DEF Middle
  <2>. QED  BY <2>5, <2>7
<1>. QED  BY <1>5, <1>8, <1>9, <1>11, <1>12, <1>13, <1>14

-----------------------------------------------------------------------------
(* The inductive invariant.                                                *)

\* The compression was given the whole blocks of message n, in order.
InPlace(m, n) ==
  /\ Len(m.blocks) = m.count \div BlockLen
  /\ \A k \in 1 .. m.count \div BlockLen : \A o \in Offsets :
       m.blocks[k][o] = Byte(n, (k - 1) * BlockLen + o)

\* __buff holds bytes of message n, or what final() put there.
Own(m, n) == \A o \in Offsets : m.buff[o][1] \in {n, 0, -1}

BlocksInPlace == regular => InPlace(md5, message)

BuffOwn == regular /\ WholeBlocks > 0 => Own(md5, message)

SameAgain ==
  digested /\ Index(md5) <= BlockLen - LenLen => digest = Finished(md5).blocks

Md5IInv == Md5TypeOK /\ BlocksInPlace /\ BuffOwn /\ DigestOfOwnBytes /\ SameAgain

\* An update() that begins a block keeps both.
LEMMA FedInPlace ==
  ASSUME NEW m \in Object, NEW n \in Nat, NEW x \in Nat, Index(m) = 0, InPlace(m, n),
         m.count \div BlockLen > 0 => Own(m, n)
  PROVE  LET f == Fed(m, [i \in 1 .. x |-> Byte(n, m.count + i)])
         IN InPlace(f, n) /\ (f.count \div BlockLen > 0 => Own(f, n))
<1> DEFINE B == BlockLen
           in == [i \in 1 .. x |-> Byte(n, m.count + i)]
           f == Fed(m, in)
           w == m.count \div B
           q == (x - B) \div B
<1>1. B \in Nat \ {0} /\ Offsets = 1 .. B
  BY Sizes DEF Offsets
<1>2. m.count \in Nat /\ m.blocks \in Seq(Block) /\ m.buff \in Block
  BY DEF Object
<1>3. in \in Seq(Cell) /\ Len(in) = x /\ \A i \in 1 .. x : in[i] = Byte(n, m.count + i)
  <2>1. \A i \in 1 .. x : Byte(n, m.count + i) \in Cell
    BY <1>2 DEF Byte, Cell
  <2>. QED  BY <2>1
<1>4. w \in Nat /\ m.count = B * w /\ m.count % B = 0
  <2>1. m.count % B = 0
    BY DEF Index
  <2>2. w \in Nat /\ m.count = B * w + (m.count % B)
    BY <1>1, <1>2, Division
  <2> HIDE DEF w
  <2>3. B * w \in Nat
    BY <1>1, <2>2
  <2>. QED  BY <2>1, <2>2, <2>3
<1>5. Len(m.blocks) = w /\ \A k \in 1 .. w : \A o \in Offsets : m.blocks[k][o] = Byte(n, (k - 1) * B + o)
  BY DEF InPlace
<1>6. /\ x < B => (m.count + x) \div B = w
      /\ x >= B => /\ q \in Nat
                   /\ (m.count + x) \div B = w + 1 + q
                   /\ B * q <= x - B
  BY <1>1, <1>2, <1>4, MoreBlocks
<1> HIDE DEF in
<1>7. CASE x < B
  <2>1. f.buff = m.buff /\ f.blocks = m.blocks /\ f.count = m.count + x
    BY <1>1, <1>3, <1>7, FedShort
  <2>2. f.count \div B = w
    BY <1>6, <1>7, <2>1
  <2> HIDE DEF f
  <2>3. InPlace(f, n)
    BY <1>5, <2>1, <2>2, Zenon DEF InPlace
  <2>4. Own(m, n) => Own(f, n)
    BY <2>1, Zenon DEF Own
  <2>. QED  BY <2>2, <2>3, <2>4 DEF f, in
<1>8. CASE ~(x < B)
  <2>1. /\ f \in Object
        /\ f.count = m.count + x
        /\ f.blocks = Append(m.blocks, f.buff) \o Direct(in, B)
        /\ \A o \in Offsets : f.buff[o] = IF o <= 0 THEN m.buff[o] ELSE in[o - 0]
    <3>1. Len(in) >= BlockLen - Index(m) /\ BlockLen - Index(m) = B
      BY <1>1, <1>2, <1>3, <1>8
    <3>. QED  BY <1>3, <3>1, FedFull
  <2>2. f.buff \in Block
    BY <2>1 DEF Object
  <2>3. q \in Nat /\ f.count \div B = w + 1 + q /\ B * q <= x - B
    BY <1>1, <1>6, <1>8, <2>1
  <2>4. /\ Direct(in, B) \in Seq(Block) /\ Len(Direct(in, B)) = q
        /\ \A k \in 1 .. q : \A o \in Offsets : Direct(in, B)[k][o] = in[B + (k - 1) * B + o]
    BY <1>1, <1>3, <1>8, DirectBlocks
  <2> DEFINE a == Append(m.blocks, f.buff)
             d == Direct(in, B)
  <2>5. /\ a \in Seq(Block) /\ Len(a) = w + 1 /\ a[w + 1] = f.buff
        /\ \A k \in 1 .. w : a[k] = m.blocks[k]
    <3>. HIDE DEF f
    <3>. QED  BY <1>2, <1>4, <1>5, <2>2
  <2> HIDE DEF a, d, f, q, w
  <2>6. /\ Len(f.blocks) = w + 1 + q
        /\ \A k \in 1 .. w + 1 + q : f.blocks[k] = IF k <= w + 1 THEN a[k] ELSE d[k - (w + 1)]
    <3>1. f.blocks = a \o d
      BY <2>1 DEF a, d
    <3>2. d \in Seq(Block) /\ Len(d) = q
      BY <2>4, Zenon DEF d
    <3>3. /\ Len(a \o d) = Len(a) + Len(d)
          /\ \A k \in 1 .. Len(a) + Len(d) : (a \o d)[k] = IF k <= Len(a) THEN a[k] ELSE d[k - Len(a)]
      BY <2>5, <3>2, ConcatProperties
    <3>. QED  BY <2>5, <3>1, <3>2, <3>3, Zenon
  <2>7. ASSUME NEW o \in Offsets
        PROVE  f.buff[o] = Byte(n, m.count + o)
    <3>1. o \in 1 .. x /\ ~(o <= 0) /\ o - 0 = o
      BY <1>1, <1>8
    <3>. QED  BY <1>3, <2>1, <3>1
  <2>8. ASSUME NEW k \in 1 .. w + 1 + q, NEW o \in Offsets
        PROVE  f.blocks[k][o] = Byte(n, (k - 1) * B + o)
    <3>1. CASE k \in 1 .. w
      <4>1. k <= w + 1
        BY <1>4, <3>1
      <4>2. f.blocks[k] = m.blocks[k]
        BY <2>5, <2>6, <3>1, <4>1, Zenon
      <4>. QED  BY <1>5, <3>1, <4>2, Zenon
    <3>2. CASE k = w + 1
      <4>1. f.blocks[k] = f.buff
        BY <1>4, <2>3, <2>5, <2>6, <3>2
      <4>2. m.count + o = (k - 1) * B + o
        BY <1>1, <1>4, <3>2
      <4>. QED  BY <2>7, <4>1, <4>2
    <3>3. CASE k > w + 1
      <4>1. PICK j \in 1 .. q : k = w + 1 + j
        <5>1. k - (w + 1) \in 1 .. q /\ k = w + 1 + (k - (w + 1))
          BY <1>4, <2>3, <3>3
        <5>. QED  BY <5>1
      <4>2. f.blocks[k] = d[j]
        <5>1. ~(k <= w + 1) /\ k - (w + 1) = j
          BY <1>4, <2>3, <3>3, <4>1
        <5>. QED  BY <2>6, <5>1, Zenon
      <4>3. d[j][o] = in[B + (j - 1) * B + o]
        BY <2>4 DEF d
      <4>4. PICK p \in Nat : p = B + (j - 1) * B + o
        <5>1. (j - 1) * B \in Nat
          BY <1>1, <2>3
        <5>. QED  BY <1>1, <5>1
      <4>5. j * B <= q * B /\ j * B \in Nat /\ q * B \in Nat
        BY <1>1, <2>3, Products
      <4>6. p = j * B + o
        BY <1>1, <2>3, <4>4
      <4>7. p \in 1 .. x
        BY <1>1, <1>8, <2>3, <4>5, <4>6
      <4>8. m.count + p = (k - 1) * B + o
        <5>1. (k - 1) * B = B * w + j * B
          BY <1>1, <1>4, <2>3, <4>1
        <5>. QED  BY <1>1, <1>4, <4>5, <4>6, <5>1
      <4>. QED  BY <1>3, <4>2, <4>3, <4>4, <4>7, <4>8
    <3>. QED  BY <1>4, <2>3, <3>1, <3>2, <3>3
  <2>9. InPlace(f, n)
    BY <2>3, <2>6, <2>8 DEF InPlace
  <2>10. Own(f, n)
    BY <2>7 DEF Own, Byte
  <2>. QED  BY <2>9, <2>10, Zenon DEF f, in
<1>. QED  BY <1>1, <1>7, <1>8

\* digest() leaves the object as it was, but for __buff.
LEMMA RestoredObject ==
  ASSUME NEW m \in Object
  PROVE  /\ Restored(m, Finished(m)) \in Object
         /\ Restored(m, Finished(m)).buff = Finished(m).buff
         /\ Restored(m, Finished(m)).count = m.count
         /\ Restored(m, Finished(m)).blocks = m.blocks
         /\ Index(Restored(m, Finished(m))) = Index(m)
<1>1. Finished(m).buff \in Block
  BY FinishedBlocks DEF Object
<1> DEFINE r == Restored(m, Finished(m))
<1>2. r = [m EXCEPT !.buff = Finished(m).buff]
  BY DEF Restored
<1> HIDE DEF r
<1>3. r \in Object /\ r.buff = Finished(m).buff /\ r.count = m.count /\ r.blocks = m.blocks
  BY <1>1, <1>2 DEF Object
<1>4. Index(r) = Index(m)
  BY <1>3, Zenon DEF Index
<1>. QED  BY <1>3, <1>4, Zenon DEF r

\* What final() adds is of the message, of the padding or the length.
LEMMA FinishedOwn ==
  ASSUME NEW m \in Object, NEW n \in Nat, InPlace(m, n), Own(m, n)
  PROVE  /\ Own(Finished(m), n)
         /\ \A k \in 1 .. Len(Finished(m).blocks), o \in Offsets :
              IF k <= m.count \div BlockLen
                THEN Finished(m).blocks[k][o] = Byte(n, (k - 1) * BlockLen + o)
                ELSE Finished(m).blocks[k][o][1] \in {n, 0, -1}
<1> DEFINE i == Index(m)
           last == BlockLen - LenLen
           w == m.count \div BlockLen
           F == Finished(m)
<1>1. /\ w \in Nat /\ Len(m.blocks) = w /\ m.blocks \in Seq(Block)
      /\ \A k \in 1 .. w : \A o \in Offsets : m.blocks[k][o] = Byte(n, (k - 1) * BlockLen + o)
      /\ \A o \in Offsets : m.buff[o][1] \in {n, 0, -1}
  <2>1. m.count \in Nat /\ m.blocks \in Seq(Block)
    BY DEF Object
  <2>2. w \in Nat
    BY <2>1, Sizes, Division
  <2>. QED  BY <2>1, <2>2 DEF InPlace, Own
<1>2. F \in Object /\ F.buff \in Block
  BY FinishedBlocks DEF Object
<1>3. \A j : Padding(j)[1] = 0 /\ Bits(j)[1] = -1
  BY DEF Padding, Bits
<1>4. CASE i < last
  <2>1. F.blocks = Append(m.blocks, F.buff) /\ Last(m, F.buff)
    BY <1>4, FinishedBlocks
  <2> HIDE DEF F, w, i, last
  <2>2. \A o \in Offsets : F.buff[o][1] \in {n, 0, -1}
    BY <1>1, <1>3, <2>1 DEF Last
  <2>3. /\ Len(F.blocks) = w + 1 /\ F.blocks[w + 1] = F.buff
        /\ \A k \in 1 .. w : F.blocks[k] = m.blocks[k]
    BY <1>1, <1>2, <2>1
  <2>4. ASSUME NEW k \in 1 .. Len(F.blocks), NEW o \in Offsets
        PROVE  IF k <= w THEN F.blocks[k][o] = Byte(n, (k - 1) * BlockLen + o)
                         ELSE F.blocks[k][o][1] \in {n, 0, -1}
    <3>1. CASE k <= w
      <4>1. k \in 1 .. w
        BY <1>1, <3>1
      <4>. QED  BY <1>1, <2>3, <3>1, <4>1, Zenon
    <3>2. CASE ~(k <= w)
      <4>1. k = w + 1
        BY <1>1, <2>3, <3>2
      <4>. QED  BY <2>2, <2>3, <3>2, <4>1, Zenon
    <3>. QED  BY <3>1, <3>2, Zenon
  <2>. QED  BY <2>2, <2>4, Zenon DEF Own, F, w
<1>5. CASE ~(i < last)
  <2>1. PICK b \in Block :
          /\ Middle(m, b)
          /\ \A o \in Offsets : F.buff[o] = IF o <= last THEN b[o] ELSE Bits(m.count)
          /\ F.blocks = Append(Append(m.blocks, b), F.buff)
    BY <1>5, FinishedBlocks
  <2> HIDE DEF F, w, i, last
  <2>2. \A o \in Offsets : b[o][1] \in {n, 0, -1}
    BY <1>1, <1>3, <2>1 DEF Middle
  <2>3. \A o \in Offsets : F.buff[o][1] \in {n, 0, -1}
    BY <1>3, <2>1, <2>2
  <2>4. PICK a : a = Append(m.blocks, b)
    OBVIOUS
  <2>5. /\ a \in Seq(Block) /\ Len(a) = w + 1 /\ a[w + 1] = b
        /\ \A k \in 1 .. w : a[k] = m.blocks[k]
    BY <1>1, <2>4
  <2>6. F.blocks = Append(a, F.buff)
    BY <2>1, <2>4, Zenon
  <2>7. /\ Len(F.blocks) = w + 2 /\ F.blocks[w + 2] = F.buff /\ F.blocks[w + 1] = b
        /\ \A k \in 1 .. w : F.blocks[k] = m.blocks[k]
    BY <1>1, <1>2, <2>5, <2>6
  <2>8. ASSUME NEW k \in 1 .. Len(F.blocks), NEW o \in Offsets
        PROVE  IF k <= w THEN F.blocks[k][o] = Byte(n, (k - 1) * BlockLen + o)
                         ELSE F.blocks[k][o][1] \in {n, 0, -1}
    <3>1. CASE k <= w
      <4>1. k \in 1 .. w
        BY <1>1, <3>1
      <4>. QED  BY <1>1, <2>7, <3>1, <4>1, Zenon
    <3>2. CASE ~(k <= w)
      <4>1. k = w + 1 \/ k = w + 2
        BY <1>1, <2>7, <3>2
      <4>. QED  BY <2>2, <2>3, <2>7, <3>2, <4>1, Zenon
    <3>. QED  BY <3>1, <3>2, Zenon
  <2>. QED  BY <2>3, <2>8, Zenon DEF Own, F, w
<1>. QED  BY <1>4, <1>5, Zenon

\* A second final() gives the compression the same blocks.
LEMMA FinishedAgain ==
  ASSUME NEW m \in Object, Index(m) <= BlockLen - LenLen
  PROVE  Finished(Restored(m, Finished(m))).blocks = Finished(m).blocks
<1> DEFINE i == Index(m)
           last == BlockLen - LenLen
           F == Finished(m)
           r == Restored(m, F)
           G == Finished(r)
<1>1. r \in Object /\ r.buff = F.buff /\ r.count = m.count /\ r.blocks = m.blocks /\ Index(r) = i
  BY RestoredObject
<1>2. F.buff \in Block /\ G.buff \in Block
  BY <1>1, FinishedBlocks DEF Object
<1>3. i \in Nat /\ last \in Nat /\ Offsets \subseteq Nat /\ i <= last
  BY IndexType, Sizes DEF Offsets
<1>4. CASE i < last
  <2>1. F.blocks = Append(m.blocks, F.buff) /\ Last(m, F.buff)
    BY <1>4, FinishedBlocks
  <2>2. G.blocks = Append(r.blocks, G.buff) /\ Last(r, G.buff)
    BY <1>1, <1>4, FinishedBlocks
  <2> HIDE DEF F, G, r, i
  <2>3. \A o \in Offsets : G.buff[o] = F.buff[o]
    BY <1>1, <2>1, <2>2, Zenon DEF Last
  <2>4. G.buff = F.buff
    <3> HIDE DEF last
    <3>. QED  BY <1>2, <2>3 DEF Block
  <2>. QED  BY <1>1, <2>1, <2>2, <2>4, Zenon DEF F, G, r
<1>5. CASE ~(i < last)
  <2>1. PICK b \in Block :
          /\ Middle(m, b)
          /\ \A o \in Offsets : F.buff[o] = IF o <= last THEN b[o] ELSE Bits(m.count)
          /\ F.blocks = Append(Append(m.blocks, b), F.buff)
    BY <1>5, FinishedBlocks
  <2>2. PICK c \in Block :
          /\ Middle(r, c)
          /\ \A o \in Offsets : G.buff[o] = IF o <= last THEN c[o] ELSE Bits(r.count)
          /\ G.blocks = Append(Append(r.blocks, c), G.buff)
    BY <1>1, <1>5, FinishedBlocks
  <2>3. i = last
    BY <1>3, <1>5
  <2> HIDE DEF F, G, r, last
  <2>4. \A o \in Offsets : b[o] = IF o <= i THEN m.buff[o] ELSE Padding(o - i)
    BY <2>1, Zenon DEF Middle
  <2>5. \A o \in Offsets : c[o] = IF o <= i THEN F.buff[o] ELSE Padding(o - i)
    BY <1>1, <2>2, Zenon DEF Middle
  <2> HIDE DEF i
  <2>6. \A o \in Offsets : c[o] = b[o]
    BY <2>1, <2>3, <2>4, <2>5, Zenon
  <2>7. c = b
    BY <2>6 DEF Block
  <2>8. \A o \in Offsets : G.buff[o] = F.buff[o]
    BY <1>1, <2>1, <2>2, <2>7, Zenon
  <2>9. G.buff = F.buff
    BY <1>2, <2>8 DEF Block
  <2>. QED  BY <1>1, <2>1, <2>2, <2>7, <2>9, Zenon DEF F, G, r
<1>. QED  BY <1>4, <1>5, Zenon

-----------------------------------------------------------------------------
(* Every step keeps it.                                                    *)

LEMMA Md5Initially == Md5Init => Md5IInv
<1> SUFFICES ASSUME Md5Init
             PROVE  Md5IInv
  OBVIOUS
<1> USE DEF Md5Init
<1>1. md5 \in Object /\ md5.count = 0 /\ md5.blocks = << >>
  <2>1. Garbage \in Cell
    BY DEF Garbage, Cell
  <2>2. [i \in 1 .. BlockLen |-> Garbage] \in Block
    BY <2>1 DEF Block, Offsets
  <2>. QED  BY <2>2 DEF Object
<1>2. 0 \div BlockLen = 0
  BY Sizes, Less
<1>3. Md5TypeOK
  <2>1. digest \in Seq(Block)
    BY EmptySeq DEF Md5Init
  <2>2. message \in Nat \ {0}
    OBVIOUS
  <2>3. regular \in BOOLEAN /\ digested \in BOOLEAN
    BY Zenon
  <2>. QED  BY <1>1, <2>1, <2>2, <2>3, Zenon DEF Md5TypeOK
<1>4. BlocksInPlace
  <2>1. \A k \in 1 .. 0 : FALSE
    OBVIOUS
  <2>. QED  BY <1>1, <1>2, <2>1 DEF BlocksInPlace, InPlace
<1>5. BuffOwn /\ DigestOfOwnBytes /\ SameAgain
  BY <1>1, <1>2 DEF BuffOwn, WholeBlocks, DigestOfOwnBytes, SameAgain
<1>. QED  BY <1>3, <1>4, <1>5 DEF Md5IInv

LEMMA UpdateKeeps ==
  ASSUME Md5IInv, NEW n \in 0 .. MaxBytes, Update(n)
  PROVE  Md5IInv'
<1> DEFINE in == [i \in 1 .. n |-> Byte(message, md5.count + i)]
<1>1. n \in Nat /\ MaxBytes \in Nat
  BY Sizes
<1>2. /\ md5 \in Object /\ digest \in Seq(Block)
      /\ message \in Nat \ {0} /\ regular \in BOOLEAN
  BY DEF Md5IInv, Md5TypeOK
<1>3. /\ md5' = Fed(md5, in) /\ regular' = (regular /\ Index(md5) = 0)
      /\ digested' = FALSE /\ digest' = digest /\ message' = message
  BY Zenon DEF Update, in
<1>4. in \in Seq(Cell)
  <2>1. \A i \in 1 .. n : Byte(message, md5.count + i) \in Cell
    BY <1>1, <1>2 DEF Object, Byte, Cell
  <2>. QED  BY <1>1, <2>1
<1> HIDE DEF in
<1>5. md5' \in Object
  <2>1. Len(in) \in Nat /\ BlockLen - Index(md5) \in Int
    BY <1>2, <1>4, IndexType, Sizes
  <2>2. Len(in) < BlockLen - Index(md5) \/ Len(in) >= BlockLen - Index(md5)
    BY <2>1
  <2>. QED  BY <1>2, <1>3, <1>4, <2>2, FedShort, FedFull, Zenon
<1>6. ASSUME regular'
      PROVE  /\ InPlace(md5', message')
             /\ md5'.count \div BlockLen > 0 => Own(md5', message')
  <2>1. regular /\ Index(md5) = 0
    BY <1>3, <1>6, Zenon
  <2>2. InPlace(md5, message) /\ (md5.count \div BlockLen > 0 => Own(md5, message))
    BY <2>1, Zenon DEF Md5IInv, BlocksInPlace, BuffOwn, WholeBlocks
  <2>3. PICK f : f = Fed(md5, in)
    OBVIOUS
  <2>4. message \in Nat
    BY <1>2
  <2>5. InPlace(f, message) /\ (f.count \div BlockLen > 0 => Own(f, message))
    BY <1>1, <1>2, <2>1, <2>2, <2>3, <2>4, FedInPlace, Zenon DEF in
  <2>. QED  BY <1>3, <2>3, <2>5, Zenon
<1>7. Md5TypeOK'
  BY <1>2, <1>3, <1>5 DEF Md5TypeOK
<1>8. BlocksInPlace'
  BY <1>6, Zenon DEF BlocksInPlace
<1>9. BuffOwn'
  BY <1>6, Zenon DEF BuffOwn, WholeBlocks
<1>10. DigestOfOwnBytes' /\ SameAgain'
  BY <1>3, Zenon DEF DigestOfOwnBytes, SameAgain
<1>. QED  BY <1>7, <1>8, <1>9, <1>10, Zenon DEF Md5IInv

LEMMA DigestKeeps ==
  ASSUME Md5IInv, Digest
  PROVE  Md5IInv'
<1> DEFINE F == Finished(md5)
           r == Restored(md5, F)
<1>1. /\ md5 \in Object /\ digest \in Seq(Block)
      /\ message \in Nat \ {0} /\ regular \in BOOLEAN
  BY DEF Md5IInv, Md5TypeOK
<1>2. /\ md5' = r /\ digest' = F.blocks /\ digested' = TRUE
      /\ message' = message /\ regular' = regular
  BY Zenon DEF Digest, F, r
<1>3. /\ r \in Object /\ r.buff = F.buff /\ r.count = md5.count
      /\ r.blocks = md5.blocks /\ Index(r) = Index(md5)
  BY <1>1, RestoredObject
<1>4. F \in Object
  BY <1>1, FinishedBlocks
<1>5. message \in Nat
  BY <1>1
<1>6. Md5TypeOK'
  <2>1. F.blocks \in Seq(Block)
    <3> HIDE DEF F
    <3>. QED  BY <1>4 DEF Object
  <2> HIDE DEF F, r
  <2>. QED  BY <1>1, <1>2, <1>3, <2>1 DEF Md5TypeOK
<1>7. Finished(r).blocks = F.blocks \/ ~(Index(md5) <= BlockLen - LenLen)
  BY <1>1, FinishedAgain, Zenon DEF F, r
<1>8. ASSUME regular, WholeBlocks > 0
      PROVE  /\ Own(F, message)
             /\ \A k \in 1 .. Len(F.blocks), o \in Offsets :
                  IF k <= md5.count \div BlockLen
                    THEN F.blocks[k][o] = Byte(message, (k - 1) * BlockLen + o)
                    ELSE F.blocks[k][o][1] \in {message, 0, -1}
  <2>1. InPlace(md5, message) /\ Own(md5, message)
    BY <1>8, Zenon DEF Md5IInv, BlocksInPlace, BuffOwn
  <2>. QED  BY <1>1, <1>5, <2>1, FinishedOwn, Zenon DEF F
<1> HIDE DEF F, r
<1>9. WholeBlocks' = WholeBlocks /\ WholeBlocks = md5.count \div BlockLen
  BY <1>2, <1>3, Zenon DEF WholeBlocks
<1>10. BlocksInPlace'
  <2>1. InPlace(md5, message) => InPlace(r, message)
    BY <1>3, Zenon DEF InPlace
  <2>2. regular => InPlace(md5, message)
    BY DEF Md5IInv, BlocksInPlace
  <2>. QED  BY <1>2, <2>1, <2>2, Zenon DEF BlocksInPlace
<1>11. BuffOwn'
  <2>1. Own(F, message) => Own(r, message)
    BY <1>3, Zenon DEF Own
  <2>. QED  BY <1>2, <1>8, <1>9, <2>1, Zenon DEF BuffOwn
<1>12. DigestOfOwnBytes'
  BY <1>2, <1>8, <1>9, Zenon DEF DigestOfOwnBytes
<1>13. SameAgain'
  BY <1>2, <1>3, <1>7, Zenon DEF SameAgain
<1>. QED  BY <1>6, <1>10, <1>11, <1>12, <1>13, Zenon DEF Md5IInv

LEMMA ResetKeeps ==
  ASSUME Md5IInv, Reset
  PROVE  Md5IInv'
<1>1. /\ md5 \in Object /\ digest \in Seq(Block) /\ message \in Nat \ {0}
  BY DEF Md5IInv, Md5TypeOK
<1>2. /\ md5' \in Object /\ md5'.count = 0 /\ md5'.blocks = << >>
      /\ message' = message + 1 /\ regular' = TRUE /\ digested' = FALSE /\ digest' = digest
  <2>1. md5' = [md5 EXCEPT !.count = 0, !.blocks = << >>]
    BY DEF Reset, Cleared
  <2>2. << >> \in Seq(Block)
    BY EmptySeq
  <2>3. md5' \in Object /\ md5'.count = 0 /\ md5'.blocks = << >>
    BY <1>1, <2>1, <2>2 DEF Object
  <2>. QED  BY <2>3, Zenon DEF Reset
<1>3. 0 \div BlockLen = 0
  BY Sizes, Less
<1>4. Md5TypeOK'
  <2>1. message' \in Nat \ {0}
    BY <1>1, <1>2
  <2>3. regular' \in BOOLEAN /\ digested' \in BOOLEAN
    BY <1>2, Zenon
  <2>2. digest' \in Seq(Block)
    BY <1>1, <1>2, Zenon
  <2>. QED  BY <1>2, <2>1, <2>2, <2>3, Zenon DEF Md5TypeOK
<1>5. BlocksInPlace'
  <2>1. \A k \in 1 .. 0 : FALSE
    OBVIOUS
  <2>2. InPlace(md5', message')
    BY <1>2, <1>3, <2>1 DEF InPlace
  <2>. QED  BY <2>2, Zenon DEF BlocksInPlace
<1>6. BuffOwn' /\ DigestOfOwnBytes' /\ SameAgain'
  BY <1>2, <1>3 DEF BuffOwn, WholeBlocks, DigestOfOwnBytes, SameAgain
<1>. QED  BY <1>4, <1>5, <1>6 DEF Md5IInv

LEMMA Md5Step == Md5IInv /\ [Md5Next]_md5_vars => Md5IInv'
<1> SUFFICES ASSUME Md5IInv, [Md5Next]_md5_vars
             PROVE  Md5IInv'
  OBVIOUS
<1>1. CASE Digest
  BY <1>1, DigestKeeps
<1>2. CASE Reset
  BY <1>2, ResetKeeps
<1>3. ASSUME NEW n \in 0 .. MaxBytes, Update(n)
      PROVE  Md5IInv'
  BY <1>3, UpdateKeeps
<1>4. CASE UNCHANGED md5_vars
  BY <1>4, Zenon DEF Md5IInv, Md5TypeOK, BlocksInPlace, BuffOwn, WholeBlocks, DigestOfOwnBytes,
     SameAgain, md5_vars
<1>. QED  BY <1>1, <1>2, <1>3, <1>4 DEF Md5Next

\* The invariant holds after every sequence of calls.
THEOREM Md5Invariance == Md5Spec => []Md5IInv
BY Md5Initially, Md5Step, PTL DEF Md5Spec

\* The object of MD5 holds whole cells in __buff and whole blocks in _magic_num
\* and _digest, whatever the sizes of the calls.
THEOREM Md5TypeCorrect == Md5Spec => []Md5TypeOK
<1>1. Md5IInv => Md5TypeOK
  BY DEF Md5IInv
<1>. QED  BY Md5Invariance, <1>1, PTL

\* The digest of a file with a whole block, read in parts that begin at the start
\* of a block, is that of its own bytes, for every block length and file.
THEOREM DigestCorrect == Md5Spec => []DigestOfOwnBytes
<1>1. Md5IInv => DigestOfOwnBytes
  BY DEF Md5IInv
<1>. QED  BY Md5Invariance, <1>1, PTL

\* digest() twice is the same digest, unless the message ends among the last
\* LenLen bytes of a block, although final() leaves its traces in __buff.
THEOREM RepeatCorrect == Md5Spec => DigestRepeats
<1>1. Md5IInv /\ [Md5Next]_md5_vars =>
        [digested /\ digested' /\ Index(md5) <= BlockLen - LenLen => digest' = digest]_md5_vars
  <2> SUFFICES ASSUME Md5IInv, Md5Next, digested, digested', Index(md5) <= BlockLen - LenLen
               PROVE  digest' = digest
    OBVIOUS
  <2>1. CASE Digest
    BY <2>1, Zenon DEF Md5IInv, SameAgain, Digest
  <2>2. CASE Reset
    BY <2>2 DEF Reset
  <2>3. ASSUME NEW n \in 0 .. MaxBytes, Update(n)
        PROVE  digest' = digest
    BY <2>3 DEF Update
  <2>. QED  BY <2>1, <2>2, <2>3 DEF Md5Next
<1>. QED  BY Md5Invariance, <1>1, PTL DEF Md5Spec, DigestRepeats
=============================================================================
