------------------------------ MODULE SearchDir ------------------------------
(***************************************************************************)
(* templates/search_dir.hxx: search_file and search_file_ignore_extension  *)
(* walk a tree with list_them, whose open directories go onto the global   *)
(* storage_root for release_dir.  opendir() may fail anywhere.             *)
(*                                                                         *)
(* A caller may search again after an exception, as try_write would if it  *)
(* caught this one like its others; the tree has only that caller.         *)
(***************************************************************************)
EXTENDS Integers, Sequences, FiniteSets

CONSTANTS
  NDirs,      \* directories of the tree
  Names,      \* names of files: records of stem and extension
  Target,     \* the name that is searched for
  NoFile,     \* in place of a name
  MaxSearches \* bound: searches of one process

ASSUME ConstantsOK ==
  /\ NDirs \in Nat \ {0}
  /\ Target \in Names /\ NoFile \notin Names /\ MaxSearches \in Nat

Dirs == 1 .. NDirs
Root == 1

VARIABLES
  parent,       \* the tree: where a directory is
  file,         \* and the file in it
  ignore,       \* does the extension count?
  searches,     \* searches so far
  calls,        \* the calls of list_them: directory and entries not yet read
  storage_root, \* the global stack of open directories
  handle,       \* DIR objects, by search and directory
  file_found,
  outcome       \* of the last search

vars == <<parent, file, ignore, searches, calls, storage_root, handle, file_found, outcome>>
tree == <<parent, file>>

Subdirs(d) == {e \in Dirs \ {Root} : parent[e] = d}

Init ==
  /\ parent \in {p \in [Dirs -> Dirs] : p[Root] = Root /\ \A d \in Dirs \ {Root} : p[d] < d}
  /\ file \in [Dirs -> Names \cup {NoFile}]
  /\ ignore = FALSE /\ searches = 0 /\ calls = << >> /\ storage_root = << >>
  /\ handle = [s \in (1 .. MaxSearches) \X Dirs |-> "none"]
  /\ file_found = FALSE /\ outcome = "none"

\* Names of directories are not compared.
Matches(name) == IF ignore THEN name.stem = Target.stem ELSE name = Target

\* list_them up to its loop, called by what is in callers; an exception leaves
\* all calls, and storage_root as it is.
Enter(callers, d, n) ==
  \/ /\ calls' = Append(callers, [dir |-> d, dirs |-> Subdirs(d), files |-> {file[d]} \ {NoFile}])
     /\ handle' = [handle EXCEPT ![<<n, d>>] = "open"]
     /\ outcome' = "listing"
  \/ /\ calls' = << >> /\ outcome' = "threw"
     /\ UNCHANGED handle

\* Fault: the answer of the last search stands until a file is found.
KeepFound == file_found

FoundAtFirst == FALSE

\* search_file, and search_file_ignore_extension.
Search(i) ==
  /\ outcome \in {"none", "done", "threw"} /\ searches < MaxSearches
  /\ searches' = searches + 1
  /\ ignore' = i
  /\ file_found' = FoundAtFirst
  /\ Enter(<< >>, Root, searches')
  /\ UNCHANGED <<tree, storage_root>>

Top == calls[Len(calls)]

ReadFile ==
  /\ outcome = "listing"
  /\ \E f \in Top.files :
       /\ calls' = [calls EXCEPT ![Len(calls)].files = @ \ {f}]
       /\ file_found' = (file_found \/ Matches(f))
  /\ UNCHANGED <<tree, ignore, searches, storage_root, handle, outcome>>

\* Fault: a directory is also pushed when all of it was read.
PushedAtEndToo(d, read) == Append(storage_root, <<searches, d>>)

\* A directory goes onto the stack whenever a subdirectory is met in it, and not
\* when it is opened or read to its end.
Pushed(d, read) == IF read THEN storage_root ELSE Append(storage_root, <<searches, d>>)

ReadSubdir ==
  /\ outcome = "listing"
  /\ storage_root' = Pushed(Top.dir, FALSE)
  /\ \E d \in Top.dirs : Enter([calls EXCEPT ![Len(calls)].dirs = @ \ {d}], d, searches)
  /\ UNCHANGED <<tree, ignore, searches, file_found>>

Return ==
  /\ outcome = "listing" /\ Top.dirs = {} /\ Top.files = {}
  /\ calls' = SubSeq(calls, 1, Len(calls) - 1)
  /\ storage_root' = Pushed(Top.dir, TRUE)
  /\ outcome' = IF Len(calls) = 1 THEN "releasing" ELSE "listing"
  /\ UNCHANGED <<tree, ignore, searches, handle, file_found>>

Released == storage_root = << >>

\* release_dir, one closedir() at a time; on a directory that was closed before,
\* it is undefined.
ReleaseDir ==
  /\ outcome = "releasing"
  /\ \/ /\ Released
        /\ outcome' = "done"
        /\ UNCHANGED <<storage_root, handle>>
     \/ /\ ~Released
        /\ LET last == Len(storage_root)
               h == storage_root[last]
           IN /\ handle' = [handle EXCEPT ![h] = "closed"]
              /\ outcome' = IF handle[h] = "open" THEN outcome ELSE "undefined"
              /\ storage_root' = SubSeq(storage_root, 1, last - 1)
  /\ UNCHANGED <<tree, ignore, searches, calls, file_found>>

Next ==
  \/ \E i \in BOOLEAN : Search(i)
  \/ ReadFile \/ ReadSubdir \/ Return \/ ReleaseDir

Spec == Init /\ [][Next]_vars

-----------------------------------------------------------------------------
(* Properties.                                                             *)

\* A search that comes back says whether the file is anywhere in the tree,
\* whatever order the entries are read in and however the last search ended.
FoundIffThere ==
  outcome = "done" => (file_found <=> \E d \in Dirs : file[d] # NoFile /\ Matches(file[d]))

\* release_dir closes a directory once for every subdirectory.  Some directory
\* with two of them is what makes closedir() undefined, always in a search that
\* comes to its end; what stays open behind a search that came back is every
\* directory without any, opened by it or by one before it.  What an exception
\* leaves open besides is on the stack, for the next search to close.
ClosedPerSubdirectory ==
  LET siblings == \E d \in Dirs : Cardinality(Subdirs(d)) > 1
      leaf(d) == Subdirs(d) = {}
      stacked(h) == \E i \in DOMAIN storage_root : storage_root[i] = h
  IN /\ outcome = "undefined" => siblings
     /\ outcome \in {"done", "threw"} =>
          \A h \in DOMAIN handle : handle[h] = "open" => leaf(h[2]) \/ stacked(h)
     /\ outcome = "done" =>
          /\ ~siblings
          /\ \A d \in Dirs : leaf(d) => handle[<<searches, d>>] = "open"
=============================================================================
