---------------------------- MODULE ConfigProofs ----------------------------
(***************************************************************************)
(* Proofs about Config for files of every length, with paths of every      *)
(* length, and any number of getters called on one object.                 *)
(*                                                                         *)
(* check_dir and parse_setting are loops, recursive functions here.  That  *)
(* such a function exists, and what holds of its last value, is shown with *)
(* an induction over the numbers in a set (UpToN).                         *)
(***************************************************************************)
EXTENDS Config, SequenceTheorems, FiniteSetTheorems, WellFoundedInduction, TLAPS

-----------------------------------------------------------------------------
(* The invariant.                                                          *)

Parts == Names \cup {"/", "."}
Port == {"uninitialized", "set"}

Pair == [key : SUBSET Words, val : Path]

Settings ==
  [root_dir : Path, pages_path : Path, static_path : Path, listen_port : Port]

TypeOK ==
  /\ file \in Seq(Lines)
  /\ pos \in Nat \ {0}
  /\ phase \in {"loading", "ready", "threw"}
  /\ path_KV_data \in Seq(Pair)
  /\ settings \in Settings
  /\ answers \in Seq([getter : {"pages", "static", "port"}, value : Path \cup Port])
  /\ \A i \in PagesAnswers : answers[i].value \in Path

\* The pairs are those of the lines read, in their order; no line with a word
\* is left out.
ReadFrom(pairs, lines, n) ==
  \E line \in [1..Len(pairs) -> 1..n] :
    /\ \A j, k \in 1..Len(pairs) : j < k => line[j] < line[k]
    /\ \A k \in 1..Len(pairs) :
         pairs[k] = [key |-> lines[line[k]].key, val |-> lines[line[k]].val]
    /\ \A i \in 1..n :
         Word(lines[i].key) # "none" => \E k \in 1..Len(pairs) : line[k] = i

PairsFromFile == ReadFrom(path_KV_data, file, pos - 1)

\* How far the constructor is.
Reached == pos <= Len(file) + 1 /\ (phase = "ready" => pos = Len(file) + 1)

\* Two slashes in a row, and three.
NoDouble(p) == \A i \in 1..Len(p) : ~(i + 1 <= Len(p) /\ p[i] = "/" /\ p[i + 1] = "/")
NoTriple(p) ==
  \A i \in 1..Len(p) :
    ~(i + 2 <= Len(p) /\ p[i] = "/" /\ p[i + 1] = "/" /\ p[i + 2] = "/")

\* From a tidy file neither a path in the object nor one returned has a doubled
\* slash.
Clean ==
  Tidy =>
    /\ NoDouble(settings.root_dir) /\ NoDouble(settings.pages_path)
    /\ \A i \in PagesAnswers : NoDouble(answers[i].value)

\* parse_setting keeps the root directory, whatever the other settings are.
RootSettled ==
  \A s \in Settings :
    s.root_dir = settings.root_dir => parse_setting(s).root_dir = settings.root_dir

\* The next answer of get_pages_path is that of all calls but the first.
PagesSettled ==
  \A i \in PagesAnswers :
    i > 1 => answers[i].value = WithSlash(parse_setting(settings).pages_path)

\* Getters are called on an object that is loaded, and the first of them leaves
\* its final root directory.
Settled ==
  answers # << >> => phase = "ready" /\ RootSettled /\ PagesSettled

IInv ==
  /\ TypeOK
  /\ PairsFromFile
  /\ Reached
  /\ Clean
  /\ Settled
  /\ PagesWhereTheFileSays

-----------------------------------------------------------------------------
(* Induction and recursion over 0..N.                                      *)

\* A set of numbers that has 0 and with each number the next, up to N.
LEMMA UpToN ==
  ASSUME NEW N \in Nat, NEW S, 0 \in S,
         \A n \in 1..N : n - 1 \in S => n \in S
  PROVE  \A n \in 0..N : n \in S
<1> DEFINE R == OpToRel(<, Nat)
           bad == {n \in 0..N : n \notin S}
<1>1. IsWellFoundedOn(R, Nat)
  BY NatLessThanWellFounded
<1>2. \A m, n \in Nat : m < n => <<m, n>> \in R
  BY DEF OpToRel
<1> HIDE DEF R
<1>3. SUFFICES ASSUME bad # {} PROVE FALSE
  OBVIOUS
<1>4. bad \subseteq Nat
  OBVIOUS
<1>5. PICK x \in bad : \A y \in bad : ~ (<<y, x>> \in R)
  BY <1>1, <1>3, <1>4, WFMin
<1>6. x \in 1..N /\ x - 1 \in 0..N /\ x - 1 \in Nat /\ x \in Nat /\ x - 1 < x
  OBVIOUS
<1>7. x - 1 \notin bad
  BY <1>2, <1>5, <1>6, Zenon
<1>. QED  BY <1>5, <1>6, <1>7

\* The smallest number of a set.
LEMMA MinOfNats ==
  ASSUME NEW S, S \subseteq Nat, S # {}
  PROVE  Min(S) \in S /\ \A y \in S : Min(S) <= y
<1> DEFINE R == OpToRel(<, Nat)
<1>1. IsWellFoundedOn(R, Nat)
  BY NatLessThanWellFounded
<1>2. \A m, n \in Nat : m < n => <<m, n>> \in R
  BY DEF OpToRel
<1> HIDE DEF R
<1>3. PICK x \in S : \A y \in S : ~ (<<y, x>> \in R)
  BY <1>1, WFMin
<1>4. ASSUME NEW y \in S PROVE x <= y
  <2>1. x \in Nat /\ y \in Nat
    OBVIOUS
  <2>2. ~(y < x)
    BY <1>2, <1>3, <2>1, Zenon
  <2>. QED  BY <2>1, <2>2
<1>. QED  BY <1>4 DEF Min

\* A loop of N rounds: round n makes G[n][v] of the value v it finds.
Steps(V, N) == [1..N -> [V -> V]]

Run(f, V, v, N, G) ==
  /\ f \in [0..N -> V]
  /\ f[0] = v
  /\ \A n \in 1..N : f[n] = G[n][f[n - 1]]

LEMMA Rounds ==
  ASSUME NEW V, NEW v \in V, NEW N \in Nat, NEW G \in Steps(V, N)
  PROVE  \E f : Run(f, V, v, N, G)
<1> DEFINE upTo(m, f) == f[0] = v /\ \A n \in 1..m : f[n] = G[n][f[n - 1]]
           S == {m \in 0..N : \E f \in [0..m -> V] : upTo(m, f)}
<1>1. 0 \in S
  <2>1. [n \in 0..0 |-> v] \in [0..0 -> V] /\ upTo(0, [n \in 0..0 |-> v])
    OBVIOUS
  <2>2. 0 \in 0..N
    OBVIOUS
  <2> HIDE DEF upTo
  <2>. QED  BY <2>1, <2>2
<1>2. ASSUME NEW m \in 1..N, m - 1 \in S
      PROVE  m \in S
  <2>1. PICK f \in [0..m - 1 -> V] : upTo(m - 1, f)
    BY <1>2
  <2> DEFINE g == [n \in 0..m |-> IF n = m THEN G[m][f[m - 1]] ELSE f[n]]
  <2>2. f[m - 1] \in V /\ G[m][f[m - 1]] \in V
    <3>1. m - 1 \in 0..m - 1
      OBVIOUS
    <3>2. f[m - 1] \in V
      BY <3>1
    <3>3. G[m] \in [V -> V]
      BY DEF Steps
    <3>. QED  BY <3>2, <3>3
  <2>3. g \in [0..m -> V]
    BY <2>2
  <2>4. g[0] = v
    BY <2>1
  <2>5. ASSUME NEW n \in 1..m PROVE g[n] = G[n][g[n - 1]]
    <3>1. n - 1 \in 0..m /\ n - 1 # m /\ g[n - 1] = f[n - 1]
      OBVIOUS
    <3>2. CASE n = m
      BY <3>1, <3>2
    <3>3. CASE n # m
      <4>1. n \in 1..m - 1 /\ g[n] = f[n]
        BY <3>3
      <4>2. f[n] = G[n][f[n - 1]]
        BY <2>1, <4>1
      <4>. QED  BY <3>1, <4>1, <4>2
    <3>. QED  BY <3>2, <3>3
  <2>6. upTo(m, g)
    BY <2>4, <2>5
  <2>7. m \in 0..N
    OBVIOUS
  <2> HIDE DEF g, upTo
  <2>. QED  BY <2>3, <2>6, <2>7
<1>3. N \in S
  <2> HIDE DEF S
  <2>1. \A n \in 0..N : n \in S
    BY <1>1, <1>2, UpToN
  <2>. QED  BY <2>1
<1>4. PICK f \in [0..N -> V] : upTo(N, f)
  BY <1>3
<1>5. Run(f, V, v, N, G)
  BY <1>4 DEF Run
<1>. QED  BY <1>5, Zenon

-----------------------------------------------------------------------------
(* check_dir.                                                              *)

\* A round of check_dir takes one of two slashes away, or nothing.
LEMMA SqueezeCases ==
  ASSUME NEW p \in Path, NEW i \in Nat \ {0}
  PROVE  \/ /\ Squeeze(p, i) = p
            /\ ~(i + 1 <= Len(p) /\ p[i] = "/" /\ p[i + 1] = "/")
         \/ /\ i + 1 <= Len(p) /\ p[i] = "/" /\ p[i + 1] = "/"
            /\ Squeeze(p, i) \in Path
            /\ Len(Squeeze(p, i)) = Len(p) - 1
            /\ \A j \in 1..Len(p) - 1 :
                 Squeeze(p, i)[j] = IF j < i THEN p[j] ELSE p[j + 1]
<1>1. CASE ~(i + 1 <= Len(p) /\ p[i] = "/" /\ p[i + 1] = "/")
  BY <1>1 DEF Squeeze
<1>2. CASE i + 1 <= Len(p) /\ p[i] = "/" /\ p[i + 1] = "/"
  <2> DEFINE a == SubSeq(p, 1, i - 1)
             b == SubSeq(p, i + 1, Len(p))
  <2>1. Squeeze(p, i) = a \o b
    BY <1>2 DEF Squeeze, RemoveAt
  <2>2. a \in Path /\ Len(a) = i - 1 /\ \A j \in 1..i - 1 : a[j] = p[j]
    BY <1>2 DEF Path, Parts
  <2>3. b \in Path /\ Len(b) = Len(p) - i /\ \A j \in 1..Len(p) - i : b[j] = p[i + j]
    BY <1>2 DEF Path, Parts
  <2> HIDE DEF a, b
  <2>4. a \o b \in Path /\ Len(a \o b) = Len(p) - 1
    <3>1. a \in Seq(Parts) /\ b \in Seq(Parts)
      BY <2>2, <2>3 DEF Path, Parts
    <3>2. a \o b \in Seq(Parts) /\ Len(a \o b) = Len(a) + Len(b)
      BY <3>1, ConcatProperties
    <3>3. Len(p) \in Nat
      BY DEF Path, Parts
    <3>. QED  BY <2>2, <2>3, <3>2, <3>3 DEF Path, Parts
  <2>5. ASSUME NEW j \in 1..Len(p) - 1
        PROVE  (a \o b)[j] = IF j < i THEN p[j] ELSE p[j + 1]
    <3>1. (a \o b)[j] = IF j <= Len(a) THEN a[j] ELSE b[j - Len(a)]
      <4>1. a \in Seq(Parts) /\ b \in Seq(Parts) /\ j \in 1..Len(a) + Len(b)
        BY <1>2, <2>2, <2>3 DEF Path, Parts
      <4>. QED  BY <4>1, ConcatProperties
    <3>2. CASE j < i
      BY <2>2, <3>1, <3>2
    <3>3. CASE ~(j < i)
      <4>1. j - (i - 1) \in 1..Len(p) - i /\ ~(j <= i - 1) /\ i + (j - (i - 1)) = j + 1
        BY <1>2, <3>3
      <4>2. b[j - (i - 1)] = p[i + (j - (i - 1))]
        BY <2>3, <4>1
      <4>. QED  BY <2>2, <3>1, <3>3, <4>1, <4>2
    <3>. QED  BY <3>2, <3>3
  <2>. QED  BY <1>2, <2>1, <2>4, <2>5
<1>. QED  BY <1>1, <1>2

LEMMA SqueezeType ==
  ASSUME NEW p \in Path, NEW i \in Nat \ {0}
  PROVE  Squeeze(p, i) \in Path /\ Len(Squeeze(p, i)) <= Len(p)
<1>1. Len(p) \in Nat
  BY DEF Path, Parts
<1>. QED  BY <1>1, SqueezeCases

\* What check_dir has made of p after its rounds.
Loop(p) ==
  CHOOSE f : f = [i \in 0..Len(p) |-> IF i = 0 THEN p ELSE Squeeze(f[i - 1], i)]

LEMMA LoopDefined ==
  ASSUME NEW p \in Path
  PROVE  /\ Loop(p) \in [0..Len(p) -> Path]
         /\ Loop(p)[0] = p
         /\ \A i \in 1..Len(p) : Loop(p)[i] = Squeeze(Loop(p)[i - 1], i)
         /\ check_dir(p) = Loop(p)[Len(p)]
<1> DEFINE N == Len(p)
           G == [i \in 1..N |-> [q \in Path |-> Squeeze(q, i)]]
<1>1. N \in Nat
  BY DEF Path, Parts
<1> HIDE DEF N
<1>2. G \in Steps(Path, N)
  <2>1. ASSUME NEW i \in 1..N, NEW q \in Path PROVE Squeeze(q, i) \in Path
    BY <1>1, SqueezeType
  <2>. QED  BY <2>1 DEF Steps
<1>3. \A i \in 1..N : \A q \in Path : G[i][q] = Squeeze(q, i)
  OBVIOUS
<1> HIDE DEF G
<1>4. PICK f : Run(f, Path, p, N, G)
  BY <1>1, <1>2, Rounds, Zenon
<1>40. f \in [0..N -> Path] /\ f[0] = p /\ \A i \in 1..N : f[i] = G[i][f[i - 1]]
  BY <1>4 DEF Run
<1>5. f = [i \in 0..N |-> IF i = 0 THEN p ELSE Squeeze(f[i - 1], i)]
  <2>1. ASSUME NEW i \in 0..N
        PROVE  f[i] = IF i = 0 THEN p ELSE Squeeze(f[i - 1], i)
    <3>1. CASE i = 0
      BY <1>40, <3>1
    <3>2. CASE i # 0
      <4>1. i \in 1..N /\ i - 1 \in 0..N
        BY <1>1, <3>2
      <4>2. f[i - 1] \in Path
        BY <1>40, <4>1
      <4>3. f[i] = G[i][f[i - 1]]
        BY <1>40, <4>1
      <4>4. f[i] = Squeeze(f[i - 1], i)
        BY <1>3, <4>1, <4>2, <4>3, Zenon
      <4>. QED  BY <3>2, <4>4
    <3>. QED  BY <3>1, <3>2
  <2>. QED  BY <1>40, <2>1
<1>6. Loop(p) = [i \in 0..N |-> IF i = 0 THEN p ELSE Squeeze(Loop(p)[i - 1], i)]
  BY <1>5, Zenon DEF Loop, N
<1>7. check_dir(p) = Loop(p)[N]
  BY Zenon DEF check_dir, Loop, N
<1> DEFINE l == Loop(p)
<1> HIDE DEF l
<1>8. l = [i \in 0..N |-> IF i = 0 THEN p ELSE Squeeze(l[i - 1], i)]
  BY <1>6, Zenon DEF l
<1>9. /\ l[0] = p
      /\ \A i \in 1..N : l[i] = Squeeze(l[i - 1], i)
  <2>1. \A i \in 0..N : l[i] = IF i = 0 THEN p ELSE Squeeze(l[i - 1], i)
    BY <1>8
  <2>. QED  BY <1>1, <2>1
<1>10. \A i \in 0..N : l[i] \in Path
  <2> DEFINE S == {i \in 0..N : l[i] \in Path}
  <2>1. 0 \in S
    BY <1>1, <1>9
  <2>2. ASSUME NEW i \in 1..N, i - 1 \in S PROVE i \in S
    BY <1>1, <1>9, <2>2, SqueezeType
  <2> HIDE DEF S
  <2>3. \A i \in 0..N : i \in S
    BY <1>1, <2>1, <2>2, UpToN
  <2>. QED  BY <2>3 DEF S
<1>11. l \in [0..N -> Path]
  BY <1>8, <1>10
<1>. QED  BY <1>7, <1>9, <1>11 DEF l, N

LEMMA CheckDirType ==
  ASSUME NEW p \in Path
  PROVE  check_dir(p) \in Path
<1>1. Len(p) \in Nat /\ Len(p) \in 0..Len(p)
  BY DEF Path, Parts
<1>. QED  BY <1>1, LoopDefined

\* The doubled slashes a round has been past are gone, and no third slash
\* comes to two.
SingleUpTo(p, n) ==
  \A i \in 1..Len(p) : ~(i <= n /\ i + 1 <= Len(p) /\ p[i] = "/" /\ p[i + 1] = "/")

LEMMA SqueezeSingle ==
  ASSUME NEW p \in Path, NEW i \in Nat \ {0}, NoTriple(p), SingleUpTo(p, i - 1)
  PROVE  NoTriple(Squeeze(p, i)) /\ SingleUpTo(Squeeze(p, i), i)
<1> DEFINE r == Squeeze(p, i)
           L == Len(p)
<1>1. L \in Nat
  BY DEF Path, Parts
<1>2. /\ \A j \in 1..L : ~(j + 2 <= L /\ p[j] = "/" /\ p[j + 1] = "/" /\ p[j + 2] = "/")
      /\ \A j \in 1..L : ~(j <= i - 1 /\ j + 1 <= L /\ p[j] = "/" /\ p[j + 1] = "/")
  BY DEF NoTriple, SingleUpTo
<1>3. CASE r = p /\ ~(i + 1 <= L /\ p[i] = "/" /\ p[i + 1] = "/")
  <2> HIDE DEF L
  <2>1. \A j \in 1..L : ~(j <= i /\ j + 1 <= L /\ p[j] = "/" /\ p[j + 1] = "/")
    BY <1>1, <1>2, <1>3
  <2>. QED  BY <1>3, <2>1 DEF SingleUpTo, L
<1>4. CASE /\ i + 1 <= L /\ p[i] = "/" /\ p[i + 1] = "/"
           /\ r \in Path
           /\ Len(r) = L - 1
           /\ \A j \in 1..L - 1 : r[j] = IF j < i THEN p[j] ELSE p[j + 1]
  <2> HIDE DEF L, r
  <2>1. i > 1 => p[i - 1] # "/"
    <3> HAVE i > 1
    <3>1. i - 1 \in 1..L /\ (i - 1) + 1 = i
      BY <1>1, <1>4
    <3>. QED  BY <1>1, <1>2, <1>4, <3>1
  <2>2. i + 2 <= L => p[i + 2] # "/"
    BY <1>1, <1>2, <1>4
  <2>3. ASSUME NEW j \in 1..L - 1
        PROVE  ~(j + 2 <= L - 1 /\ r[j] = "/" /\ r[j + 1] = "/" /\ r[j + 2] = "/")
    <3>1. SUFFICES ASSUME j + 2 <= L - 1, r[j] = "/", r[j + 1] = "/", r[j + 2] = "/"
                   PROVE  FALSE
      OBVIOUS
    <3>2. CASE j + 2 < i
      <4>1. p[j] = "/" /\ p[j + 1] = "/"
        BY <1>1, <1>4, <3>1, <3>2
      <4>. QED  BY <1>1, <1>2, <1>4, <3>2, <4>1
    <3>3. CASE j + 2 = i
      <4>1. p[j + 1] = "/" /\ j + 1 = i - 1
        BY <1>1, <1>4, <3>1, <3>3
      <4>. QED  BY <1>1, <2>1, <3>3, <4>1
    <3>4. CASE j + 1 = i
      <4>1. p[j] = "/" /\ j = i - 1
        BY <1>1, <1>4, <3>1, <3>4
      <4>. QED  BY <1>1, <2>1, <3>4, <4>1
    <3>5. CASE j >= i
      <4>1. p[j + 1] = "/" /\ p[(j + 1) + 1] = "/" /\ p[(j + 1) + 2] = "/"
        <5>1. r[j] = p[j + 1]
          BY <1>1, <1>4, <3>1, <3>5
        <5>2. j + 1 \in 1..L - 1 /\ ~(j + 1 < i)
          BY <1>1, <1>4, <3>1, <3>5
        <5>3. r[j + 1] = p[(j + 1) + 1]
          BY <1>4, <5>2
        <5>4. j + 2 \in 1..L - 1 /\ ~(j + 2 < i)
          BY <1>1, <1>4, <3>1, <3>5
        <5>5. r[j + 2] = p[(j + 2) + 1]
          BY <1>4, <5>4
        <5>6. (j + 2) + 1 = (j + 1) + 2
          OBVIOUS
        <5>. QED  BY <3>1, <5>1, <5>3, <5>5, <5>6
      <4>2. j + 1 \in 1..L /\ (j + 1) + 2 <= L
        BY <1>1, <3>1
      <4>. QED  BY <1>2, <4>1, <4>2
    <3>. QED  BY <1>1, <3>2, <3>3, <3>4, <3>5
  <2>4. ASSUME NEW j \in 1..L - 1
        PROVE  ~(j <= i /\ j + 1 <= L - 1 /\ r[j] = "/" /\ r[j + 1] = "/")
    <3>1. SUFFICES ASSUME j <= i, j + 1 <= L - 1, r[j] = "/", r[j + 1] = "/"
                   PROVE  FALSE
      OBVIOUS
    <3>2. CASE j + 1 < i
      <4>1. p[j] = "/" /\ p[j + 1] = "/"
        BY <1>1, <1>4, <3>1, <3>2
      <4>. QED  BY <1>1, <1>2, <1>4, <3>2, <4>1
    <3>3. CASE j + 1 = i
      <4>1. p[j] = "/" /\ j = i - 1
        BY <1>1, <1>4, <3>1, <3>3
      <4>. QED  BY <1>1, <2>1, <3>3, <4>1
    <3>4. CASE j = i
      <4>1. j + 1 \in 1..L - 1 /\ ~(j + 1 < i) /\ (j + 1) + 1 = i + 2
        BY <1>1, <3>1, <3>4
      <4>2. r[j + 1] = p[i + 2]
        BY <1>4, <4>1
      <4>. QED  BY <1>1, <2>2, <3>1, <3>4, <4>2
    <3>. QED  BY <1>1, <3>1, <3>2, <3>3, <3>4
  <2>5. NoTriple(r)
    BY <1>4, <2>3 DEF NoTriple
  <2>6. SingleUpTo(r, i)
    BY <1>4, <2>4 DEF SingleUpTo
  <2>. QED  BY <2>5, <2>6 DEF r
<1>. QED  BY <1>3, <1>4, SqueezeCases

\* check_dir leaves no doubled slash of a path that has no three in a row.
LEMMA CheckDirSingle ==
  ASSUME NEW p \in Path, NoTriple(p)
  PROVE  NoDouble(check_dir(p))
<1> DEFINE N == Len(p)
           l == Loop(p)
           good(i) == /\ l[i] \in Path /\ Len(l[i]) <= N
                      /\ NoTriple(l[i]) /\ SingleUpTo(l[i], i)
           S == {i \in 0..N : good(i)}
<1>1. N \in Nat
  BY DEF Path, Parts
<1>2. /\ l[0] = p /\ check_dir(p) = l[N]
      /\ \A i \in 1..N : l[i] = Squeeze(l[i - 1], i)
  BY LoopDefined
<1> HIDE DEF N, l
<1>3. 0 \in S
  <2>1. SingleUpTo(p, 0)
    BY DEF SingleUpTo
  <2>. QED  BY <1>1, <1>2, <2>1 DEF N
<1>4. ASSUME NEW i \in 1..N, i - 1 \in S
      PROVE  i \in S
  <2>1. i \in Nat \ {0} /\ i \in 0..N /\ good(i - 1)
    BY <1>4
  <2> DEFINE q == l[i - 1]
  <2>2. q \in Path /\ Len(q) <= N /\ NoTriple(q) /\ SingleUpTo(q, i - 1) /\ l[i] = Squeeze(q, i)
    BY <1>2, <2>1
  <2> HIDE DEF q
  <2>3. Squeeze(q, i) \in Path /\ Len(Squeeze(q, i)) <= Len(q)
    BY <2>1, <2>2, SqueezeType
  <2>4. NoTriple(Squeeze(q, i)) /\ SingleUpTo(Squeeze(q, i), i)
    BY <2>1, <2>2, SqueezeSingle
  <2>5. Len(q) \in Nat /\ Len(Squeeze(q, i)) \in Nat
    BY <2>2, <2>3 DEF Path, Parts
  <2>6. Len(Squeeze(q, i)) <= N
    BY <1>1, <2>2, <2>3, <2>5
  <2>. QED  BY <2>1, <2>2, <2>3, <2>4, <2>6
<1>5. good(N)
  <2>1. \A i \in 0..N : i \in S
    <3> HIDE DEF S
    <3>. QED  BY <1>1, <1>3, <1>4, UpToN
  <2>2. N \in S
    <3> HIDE DEF S
    <3>. QED  BY <1>1, <2>1
  <2>. QED  BY <2>2
<1> DEFINE q == l[N]
<1> HIDE DEF q
<1>6. q \in Path /\ Len(q) <= N /\ SingleUpTo(q, N)
  BY <1>5 DEF q
<1>7. NoDouble(q)
  BY <1>1, <1>6 DEF NoDouble, SingleUpTo
<1>. QED  BY <1>2, <1>7 DEF q

-----------------------------------------------------------------------------
(* The settings.                                                           *)

\* WithSlash keeps a path a path without doubled slashes, and a path that it
\* has made as it is.
LEMMA WithSlashCorrect ==
  ASSUME NEW p \in Path
  PROVE  /\ WithSlash(p) \in Path
         /\ WithSlash(WithSlash(p)) = WithSlash(p)
         /\ NoDouble(p) => NoDouble(WithSlash(p))
<1>1. CASE p # << >> /\ p[Len(p)] = "/"
  <2>1. WithSlash(p) = p
    BY <1>1 DEF WithSlash, Last
  <2>. QED  BY <2>1
<1>2. CASE ~(p # << >> /\ p[Len(p)] = "/")
  <2> DEFINE q == Append(p, "/")
  <2>1. WithSlash(p) = q
    BY <1>2 DEF WithSlash, Last
  <2>2. /\ q \in Path /\ Len(q) = Len(p) + 1 /\ Len(p) \in Nat
        /\ q[Len(p) + 1] = "/" /\ \A i \in 1..Len(p) : q[i] = p[i]
    <3>1. p \in Seq(Parts) /\ "/" \in Parts
      BY DEF Path, Parts
    <3>2. q \in Seq(Parts) /\ Len(q) = Len(p) + 1 /\ q[Len(p) + 1] = "/"
      BY <3>1, AppendProperties
    <3>3. \A i \in 1..Len(p) : q[i] = p[i]
      BY <3>1, AppendProperties
    <3>. QED  BY <3>1, <3>2, <3>3 DEF Path, Parts
  <2> HIDE DEF q
  <2>3. WithSlash(q) = q
    <3>1. q # << >> /\ q[Len(q)] = "/"
      BY <2>2
    <3>. QED  BY <3>1 DEF WithSlash, Last
  <2>4. ASSUME NoDouble(p) PROVE NoDouble(q)
    <3>1. SUFFICES ASSUME NEW i \in 1..Len(q), i + 1 <= Len(q), q[i] = "/", q[i + 1] = "/"
                   PROVE  FALSE
      BY DEF NoDouble
    <3>2. CASE i + 1 <= Len(p)
      BY <2>2, <2>4, <3>1, <3>2 DEF NoDouble
    <3>3. CASE ~(i + 1 <= Len(p))
      <4>1. i = Len(p) /\ i \in 1..Len(p)
        BY <2>2, <3>1, <3>3
      <4>2. p[Len(p)] = "/" /\ p # << >>
        BY <2>2, <3>1, <4>1
      <4>. QED  BY <1>2, <4>2
    <3>. QED  BY <3>2, <3>3
  <2>. QED  BY <2>1, <2>2, <2>3, <2>4
<1>. QED  BY <1>1, <1>2

\* Two paths without doubled slashes make one without three in a row.
LEMMA JoinTriple ==
  ASSUME NEW a \in Path, NEW b \in Path
  PROVE  /\ a \o b \in Path
         /\ NoDouble(a) /\ NoDouble(b) => NoTriple(a \o b)
<1> DEFINE c == a \o b
<1>1. /\ c \in Path /\ Len(c) = Len(a) + Len(b) /\ Len(a) \in Nat /\ Len(b) \in Nat
      /\ \A i \in 1..Len(a) + Len(b) : c[i] = IF i <= Len(a) THEN a[i] ELSE b[i - Len(a)]
  BY ConcatProperties DEF Path, Parts
<1> HIDE DEF c
<1>2. ASSUME NoDouble(a), NoDouble(b),
             NEW i \in 1..Len(c), i + 2 <= Len(c), c[i] = "/", c[i + 1] = "/", c[i + 2] = "/"
      PROVE  FALSE
  <2>1. CASE i + 1 <= Len(a)
    <3>1. c[i] = a[i] /\ c[i + 1] = a[i + 1] /\ i \in 1..Len(a)
      BY <1>1, <1>2, <2>1
    <3>. QED  BY <1>2, <2>1, <3>1 DEF NoDouble
  <2>2. CASE ~(i + 1 <= Len(a))
    <3> DEFINE j == i + 1 - Len(a)
    <3>1. j \in 1..Len(b) /\ j + 1 <= Len(b) /\ i + 2 - Len(a) = j + 1
      BY <1>1, <1>2, <2>2
    <3>2. c[i + 1] = b[j]
      BY <1>1, <1>2, <2>2
    <3>3. i + 2 \in 1..Len(a) + Len(b) /\ ~(i + 2 <= Len(a))
      BY <1>1, <1>2, <2>2
    <3>4. c[i + 2] = b[i + 2 - Len(a)]
      BY <1>1, <3>3
    <3>. QED  BY <1>2, <3>1, <3>2, <3>4 DEF NoDouble
  <2>. QED  BY <2>1, <2>2
<1>3. NoDouble(a) /\ NoDouble(b) => NoTriple(c)
  BY <1>2 DEF NoTriple
<1>. QED  BY <1>1, <1>3 DEF c

\* RootOf and Below: a path, and one without doubled slashes when what it is
\* made of allows it.
LEMMA RootOfCorrect ==
  ASSUME NEW s, NEW val \in Path
  PROVE  /\ RootOf(s, val) \in Path
         /\ NoTriple(val) => NoDouble(RootOf(s, val))
<1>1. CASE val = << >>
  <2>1. RootOf(s, val) = <<".", "/">>
    BY <1>1 DEF RootOf
  <2>2. <<".", "/">> \in Path /\ NoDouble(<<".", "/">>)
    <3>1. <<".", "/">> \in Seq(Parts)
      BY DEF Parts
    <3>2. PICK q : q = <<".", "/">>
      OBVIOUS
    <3>3. q \in Seq(Parts)
      BY <3>1, <3>2, Zenon
    <3>4. Len(q) = 2
      BY <3>2
    <3>5. q[1] = "." /\ q[2] = "/"
      BY <3>2
    <3>6. NoDouble(q)
      BY <3>4, <3>5 DEF NoDouble
    <3>. QED  BY <3>2, <3>3, <3>6 DEF Path
  <2>. QED  BY <2>1, <2>2
<1>2. CASE val # << >>
  <2>1. RootOf(s, val) = WithSlash(check_dir(val))
    BY <1>2, Zenon DEF RootOf
  <2>. QED  BY <2>1, CheckDirType, CheckDirSingle, WithSlashCorrect
<1>. QED  BY <1>1, <1>2

LEMMA BelowCorrect ==
  ASSUME NEW s \in Settings, NEW val \in Path
  PROVE  /\ Below(s, val) \in Path
         /\ NoDouble(s.root_dir) /\ NoDouble(val) => NoDouble(Below(s, val))
<1>1. s.root_dir \in Path
  BY DEF Settings
<1>. QED  BY <1>1, JoinTriple, CheckDirType, CheckDirSingle DEF Below

\* The word of a key is one of it; a key of the pages' directory is none of a
\* location.
LEMMA WordCorrect ==
  ASSUME NEW key
  PROVE  /\ Word(key) \in Words \cup {"none"}
         /\ Word(key) # "none" => Word(key) \in key
         /\ Word(key) \in {"html_pages", "static_path"} => "location" \notin key
<1> DEFINE inTurn == <<"listen_port", "location", "html_pages", "static_path">>
           found == {i \in 1..4 : inTurn[i] \in key}
<1>1. /\ inTurn[1] = "listen_port" /\ inTurn[2] = "location"
      /\ inTurn[3] = "html_pages" /\ inTurn[4] = "static_path"
  OBVIOUS
<1>2. Word(key) = IF found = {} THEN "none" ELSE inTurn[Min(found)]
  BY Zenon DEF Word
<1> HIDE DEF inTurn
<1>3. CASE found = {}
  BY <1>2, <1>3
<1>4. CASE found # {}
  <2>1. Min(found) \in found /\ \A y \in found : Min(found) <= y
    <3>1. found \subseteq Nat
      OBVIOUS
    <3> HIDE DEF found
    <3>. QED  BY <1>4, <3>1, MinOfNats
  <2>2. PICK m \in found : m = Min(found)
    BY <2>1
  <2>3. m \in 1..4 /\ inTurn[m] \in key /\ Word(key) = inTurn[m]
    BY <1>2, <1>4, <2>2
  <2>4. inTurn[m] \in {"html_pages", "static_path"} => "location" \notin key
    <3> HAVE inTurn[m] \in {"html_pages", "static_path"}
    <3>1. m \in {3, 4}
      BY <1>1, <2>3
    <3>2. 2 \notin found
      BY <2>1, <2>2, <3>1
    <3>. QED  BY <1>1, <3>2
  <2>5. inTurn[m] \in Words
    BY <1>1, <2>3 DEF Words
  <2>6. inTurn[m] # "none"
    BY <1>1, <2>3
  <2>. QED  BY <2>3, <2>4, <2>5, <2>6
<1>. QED  BY <1>3, <1>4

-----------------------------------------------------------------------------
(* parse_setting.                                                          *)

\* One pair: the settings stay settings; the root directory and the pages'
\* directory become what the pair gives, or stay.
LEMMA ParseOneCases ==
  ASSUME NEW s \in Settings, NEW kv \in Pair
  PROVE  /\ ParseOne(s, kv) \in Settings
         /\ ParseOne(s, kv).root_dir =
              IF Word(kv.key) = "location" THEN RootOf(s, kv.val) ELSE s.root_dir
         /\ ParseOne(s, kv).pages_path =
              IF Word(kv.key) = "html_pages" THEN Below(s, kv.val) ELSE s.pages_path
<1> DEFINE word == Word(kv.key)
           root == RootOf(s, kv.val)
           below == Below(s, kv.val)
<1>1. kv.val \in Path
  BY DEF Pair
<1>2. root \in Path /\ below \in Path
  BY <1>1, RootOfCorrect, BelowCorrect
<1>3. word \in {"listen_port", "location", "html_pages", "static_path", "none"}
  BY WordCorrect DEF Words
<1>4. ParseOne(s, kv) =
        CASE word = "listen_port" -> [s EXCEPT !.listen_port = "set"]
          [] word = "location"    -> [s EXCEPT !.root_dir = root]
          [] word = "html_pages"  -> [s EXCEPT !.pages_path = below]
          [] word = "static_path" -> [s EXCEPT !.static_path = below]
          [] word = "none"        -> s
  BY Zenon DEF ParseOne
<1> HIDE DEF word, root, below
<1>5. CASE word = "listen_port"
  BY <1>4, <1>5 DEF Settings, Port, word
<1>6. CASE word = "location"
  BY <1>2, <1>4, <1>6 DEF Settings, word, root
<1>7. CASE word = "html_pages"
  BY <1>2, <1>4, <1>7 DEF Settings, word, below
<1>8. CASE word = "static_path"
  BY <1>2, <1>4, <1>8 DEF Settings, word
<1>9. CASE word = "none"
  BY <1>4, <1>9 DEF word
<1>. QED  BY <1>3, <1>5, <1>6, <1>7, <1>8, <1>9

\* What parse_setting has made of s after its rounds over pairs.
After(pairs, s) ==
  CHOOSE f : f = [i \in 0..Len(pairs) |-> IF i = 0 THEN s ELSE ParseOne(f[i - 1], pairs[i])]

LEMMA AfterDefined ==
  ASSUME NEW pairs \in Seq(Pair), NEW s \in Settings
  PROVE  /\ After(pairs, s) \in [0..Len(pairs) -> Settings]
         /\ After(pairs, s)[0] = s
         /\ \A i \in 1..Len(pairs) :
              After(pairs, s)[i] = ParseOne(After(pairs, s)[i - 1], pairs[i])
<1> DEFINE N == Len(pairs)
           G == [i \in 1..N |-> [t \in Settings |-> ParseOne(t, pairs[i])]]
<1>1. N \in Nat /\ \A i \in 1..N : pairs[i] \in Pair
  OBVIOUS
<1> HIDE DEF N
<1>2. \A i \in 1..N : \A t \in Settings : ParseOne(t, pairs[i]) \in Settings
  BY <1>1, ParseOneCases
<1>3. G \in Steps(Settings, N)
  BY <1>2 DEF Steps
<1>4. \A i \in 1..N : \A t \in Settings : G[i][t] = ParseOne(t, pairs[i])
  OBVIOUS
<1> HIDE DEF G
<1>5. PICK f : Run(f, Settings, s, N, G)
  BY <1>1, <1>3, Rounds, Zenon
<1>6. f \in [0..N -> Settings] /\ f[0] = s /\ \A i \in 1..N : f[i] = G[i][f[i - 1]]
  BY <1>5 DEF Run
<1>7. f = [i \in 0..N |-> IF i = 0 THEN s ELSE ParseOne(f[i - 1], pairs[i])]
  <2>1. ASSUME NEW i \in 0..N
        PROVE  f[i] = IF i = 0 THEN s ELSE ParseOne(f[i - 1], pairs[i])
    <3>1. CASE i = 0
      BY <1>6, <3>1
    <3>2. CASE i # 0
      <4>1. i \in 1..N /\ i - 1 \in 0..N
        BY <1>1, <3>2
      <4>2. f[i - 1] \in Settings
        BY <1>6, <4>1
      <4>3. f[i] = G[i][f[i - 1]]
        BY <1>6, <4>1
      <4>4. f[i] = ParseOne(f[i - 1], pairs[i])
        BY <1>4, <4>1, <4>2, <4>3, Zenon
      <4>. QED  BY <3>2, <4>4
    <3>. QED  BY <3>1, <3>2
  <2>. QED  BY <1>6, <2>1
<1> DEFINE a == After(pairs, s)
<1>8. a = [i \in 0..N |-> IF i = 0 THEN s ELSE ParseOne(a[i - 1], pairs[i])]
  BY <1>7, Zenon DEF After, N
<1> HIDE DEF a
<1>9. \A i \in 0..N : a[i] = IF i = 0 THEN s ELSE ParseOne(a[i - 1], pairs[i])
  BY <1>8
<1>10. a[0] = s /\ \A i \in 1..N : a[i] = ParseOne(a[i - 1], pairs[i])
  BY <1>1, <1>9
<1>11. \A i \in 0..N : a[i] \in Settings
  <2> DEFINE S == {i \in 0..N : a[i] \in Settings}
  <2>1. 0 \in S
    BY <1>1, <1>10
  <2>2. ASSUME NEW i \in 1..N, i - 1 \in S PROVE i \in S
    BY <1>1, <1>2, <1>10, <2>2
  <2> HIDE DEF S
  <2>3. \A i \in 0..N : i \in S
    BY <1>1, <2>1, <2>2, UpToN
  <2>. QED  BY <2>3 DEF S
<1>12. a \in [0..N -> Settings]
  BY <1>8, <1>11
<1>. QED  BY <1>10, <1>12 DEF a, N

LEMMA ParseSetting ==
  ASSUME NEW s
  PROVE  parse_setting(s) = After(path_KV_data, s)[Len(path_KV_data)]
BY Zenon DEF parse_setting, After

\* parse_setting on two settings: the root directory becomes the same, or stays
\* in both; with the same root directory so does the pages' directory.
LEMMA TwoParses ==
  ASSUME NEW pairs \in Seq(Pair), NEW s \in Settings, NEW t \in Settings,
         NEW n \in 0..Len(pairs)
  PROVE  LET u == After(pairs, s)[n]
             v == After(pairs, t)[n] IN
         /\ \/ u.root_dir = v.root_dir
            \/ u.root_dir = s.root_dir /\ v.root_dir = t.root_dir
         /\ s.root_dir = t.root_dir =>
              /\ u.root_dir = v.root_dir
              /\ \/ u.pages_path = v.pages_path
                 \/ u.pages_path = s.pages_path /\ v.pages_path = t.pages_path
<1> DEFINE N == Len(pairs)
           a == After(pairs, s)
           b == After(pairs, t)
           alike(x, y) ==
             /\ \/ x.root_dir = y.root_dir
                \/ x.root_dir = s.root_dir /\ y.root_dir = t.root_dir
             /\ s.root_dir = t.root_dir =>
                  /\ x.root_dir = y.root_dir
                  /\ \/ x.pages_path = y.pages_path
                     \/ x.pages_path = s.pages_path /\ y.pages_path = t.pages_path
           S == {i \in 0..N : alike(a[i], b[i])}
<1>1. N \in Nat /\ \A i \in 1..N : pairs[i] \in Pair
  OBVIOUS
<1>2. a[0] = s /\ \A i \in 0..N : a[i] \in Settings
  BY AfterDefined
<1>3. b[0] = t /\ \A i \in 0..N : b[i] \in Settings
  BY AfterDefined
<1>4. \A i \in 1..N : a[i] = ParseOne(a[i - 1], pairs[i]) /\ b[i] = ParseOne(b[i - 1], pairs[i])
  BY AfterDefined
<1> HIDE DEF N, a, b
<1>5. 0 \in S
  BY <1>1, <1>2, <1>3
<1>6. ASSUME NEW i \in 1..N, i - 1 \in S
      PROVE  i \in S
  <2> DEFINE x == a[i - 1]
             y == b[i - 1]
             kv == pairs[i]
             w == Word(kv.key)
  <2>1. i \in 0..N /\ i - 1 \in 0..N /\ kv \in Pair
    BY <1>1
  <2>2. x \in Settings /\ y \in Settings /\ alike(x, y)
    BY <1>2, <1>3, <1>6, <2>1
  <2>3. a[i] = ParseOne(x, kv) /\ b[i] = ParseOne(y, kv)
    BY <1>4
  <2> HIDE DEF x, y, kv
  <2>4. /\ a[i].root_dir = IF w = "location" THEN RootOf(x, kv.val) ELSE x.root_dir
        /\ a[i].pages_path = IF w = "html_pages" THEN Below(x, kv.val) ELSE x.pages_path
    BY <2>1, <2>2, <2>3, ParseOneCases
  <2>5. /\ b[i].root_dir = IF w = "location" THEN RootOf(y, kv.val) ELSE y.root_dir
        /\ b[i].pages_path = IF w = "html_pages" THEN Below(y, kv.val) ELSE y.pages_path
    BY <2>1, <2>2, <2>3, ParseOneCases
  <2>6. RootOf(x, kv.val) = RootOf(y, kv.val)
    BY DEF RootOf
  <2>7. x.root_dir = y.root_dir => Below(x, kv.val) = Below(y, kv.val)
    BY Zenon DEF Below
  <2>8. alike(a[i], b[i])
    <3> HIDE DEF w
    <3>1. CASE w = "location"
      BY <2>2, <2>4, <2>5, <2>6, <3>1
    <3>2. CASE w = "html_pages"
      BY <2>2, <2>4, <2>5, <2>7, <3>2
    <3>3. CASE w \notin {"location", "html_pages"}
      BY <2>2, <2>4, <2>5, <3>3
    <3>. QED  BY <3>1, <3>2, <3>3
  <2>. QED  BY <2>1, <2>8
<1>7. n \in S
  <2> HIDE DEF S
  <2>1. \A i \in 0..N : i \in S
    BY <1>1, <1>5, <1>6, UpToN
  <2>. QED  BY <2>1 DEF N
<1>. QED  BY <1>7 DEF a, b

\* parse_setting makes settings of settings, without doubled slashes if the
\* pairs are those of a tidy file.
TidyPairs(pairs) ==
  \A k \in 1..Len(pairs) :
    IF "location" \in pairs[k].key THEN NoTriple(pairs[k].val) ELSE NoDouble(pairs[k].val)

Single(s) == NoDouble(s.root_dir) /\ NoDouble(s.pages_path)

LEMMA ParsedSingle ==
  ASSUME NEW pairs \in Seq(Pair), NEW s \in Settings, TidyPairs(pairs), Single(s)
  PROVE  Single(After(pairs, s)[Len(pairs)])
<1> DEFINE N == Len(pairs)
           a == After(pairs, s)
           S == {i \in 0..N : Single(a[i])}
<1>1. N \in Nat /\ \A i \in 1..N : pairs[i] \in Pair
  OBVIOUS
<1>2. /\ a[0] = s /\ \A i \in 0..N : a[i] \in Settings
      /\ \A i \in 1..N : a[i] = ParseOne(a[i - 1], pairs[i])
  BY AfterDefined
<1> HIDE DEF N, a
<1>3. 0 \in S
  BY <1>1, <1>2
<1>4. ASSUME NEW i \in 1..N, i - 1 \in S
      PROVE  i \in S
  <2> DEFINE x == a[i - 1]
             kv == pairs[i]
             w == Word(kv.key)
  <2>1. i \in 0..N /\ i - 1 \in 0..N /\ kv \in Pair
    BY <1>1
  <2>2. x \in Settings /\ Single(x) /\ a[i] = ParseOne(x, kv)
    BY <1>2, <1>4, <2>1
  <2>3. IF "location" \in kv.key THEN NoTriple(kv.val) ELSE NoDouble(kv.val)
    BY DEF TidyPairs, N
  <2> HIDE DEF x, kv
  <2>4. kv.val \in Path
    BY <2>1 DEF Pair
  <2>5. /\ a[i].root_dir = IF w = "location" THEN RootOf(x, kv.val) ELSE x.root_dir
        /\ a[i].pages_path = IF w = "html_pages" THEN Below(x, kv.val) ELSE x.pages_path
    BY <2>1, <2>2, ParseOneCases
  <2>6. w = "location" => NoTriple(kv.val)
    BY <2>3, WordCorrect
  <2>7. w = "html_pages" => NoDouble(kv.val)
    BY <2>3, WordCorrect
  <2> HIDE DEF w
  <2>8. NoDouble(a[i].root_dir)
    BY <2>2, <2>4, <2>5, <2>6, RootOfCorrect DEF Single
  <2>9. NoDouble(a[i].pages_path)
    BY <2>2, <2>4, <2>5, <2>7, BelowCorrect DEF Single
  <2>. QED  BY <2>1, <2>8, <2>9 DEF Single
<1>5. N \in S
  <2> HIDE DEF S
  <2>1. \A i \in 0..N : i \in S
    BY <1>1, <1>3, <1>4, UpToN
  <2>. QED  BY <1>1, <2>1
<1>. QED  BY <1>5 DEF N, a

LEMMA ParsedType ==
  ASSUME NEW s \in Settings, path_KV_data \in Seq(Pair)
  PROVE  parse_setting(s) \in Settings
<1>1. Len(path_KV_data) \in 0..Len(path_KV_data)
  OBVIOUS
<1>. QED  BY <1>1, AfterDefined, ParseSetting

\* The runs of slashes the properties speak of.
LEMMA RunsOfSlashes ==
  ASSUME NEW p \in Path
  PROVE  /\ HasRun(p, 2) <=> ~NoDouble(p)
         /\ HasRun(p, 3) <=> ~NoTriple(p)
<1> DEFINE L == Len(p)
<1>1. L \in Nat
  BY DEF Path
<1> HIDE DEF L
<1>2. HasRun(p, 2) <=> \E i \in 0..L - 2 : p[i + 1] = "/" /\ p[i + 2] = "/"
  <2>1. HasRun(p, 2) <=> \E i \in 0..L - 2 : \A k \in 1..2 : p[i + k] = "/"
    BY DEF HasRun, L
  <2>2. ASSUME NEW i \in 0..L - 2
        PROVE  (\A k \in 1..2 : p[i + k] = "/") <=> p[i + 1] = "/" /\ p[i + 2] = "/"
    <3>1. 1..2 = {1, 2}
      OBVIOUS
    <3>. QED  BY <3>1
  <2>. QED  BY <2>1, <2>2
<1>3. HasRun(p, 3) <=> \E i \in 0..L - 3 : p[i + 1] = "/" /\ p[i + 2] = "/" /\ p[i + 3] = "/"
  <2>1. HasRun(p, 3) <=> \E i \in 0..L - 3 : \A k \in 1..3 : p[i + k] = "/"
    BY DEF HasRun, L
  <2>2. ASSUME NEW i \in 0..L - 3
        PROVE  (\A k \in 1..3 : p[i + k] = "/") <=>
               p[i + 1] = "/" /\ p[i + 2] = "/" /\ p[i + 3] = "/"
    <3>1. 1..3 = {1, 2, 3}
      OBVIOUS
    <3>. QED  BY <3>1
  <2>. QED  BY <2>1, <2>2
<1>4. NoDouble(p) => ~HasRun(p, 2)
  <2>1. SUFFICES ASSUME NoDouble(p), NEW i \in 0..L - 2, p[i + 1] = "/", p[i + 2] = "/"
                 PROVE  FALSE
    BY <1>2
  <2>2. i + 1 \in 1..L /\ (i + 1) + 1 = i + 2 /\ i + 2 <= L
    BY <1>1
  <2>. QED  BY <2>1, <2>2 DEF NoDouble, L
<1>5. NoTriple(p) => ~HasRun(p, 3)
  <2>1. SUFFICES ASSUME NoTriple(p), NEW i \in 0..L - 3,
                        p[i + 1] = "/", p[i + 2] = "/", p[i + 3] = "/"
                 PROVE  FALSE
    BY <1>3
  <2>2. i + 1 \in 1..L /\ (i + 1) + 1 = i + 2 /\ (i + 1) + 2 = i + 3 /\ i + 3 <= L
    BY <1>1
  <2>. QED  BY <2>1, <2>2 DEF NoTriple, L
<1>6. ~NoDouble(p) => HasRun(p, 2)
  <2>1. SUFFICES ASSUME NEW j \in 1..L, j + 1 <= L, p[j] = "/", p[j + 1] = "/"
                 PROVE  HasRun(p, 2)
    BY DEF NoDouble, L
  <2>2. j - 1 \in 0..L - 2 /\ (j - 1) + 1 = j /\ (j - 1) + 2 = j + 1
    BY <1>1, <2>1
  <2>. QED  BY <1>2, <2>1, <2>2
<1>7. ~NoTriple(p) => HasRun(p, 3)
  <2>1. SUFFICES ASSUME NEW j \in 1..L, j + 2 <= L, p[j] = "/", p[j + 1] = "/", p[j + 2] = "/"
                 PROVE  HasRun(p, 3)
    BY DEF NoTriple, L
  <2>2. j - 1 \in 0..L - 3 /\ (j - 1) + 1 = j /\ (j - 1) + 2 = j + 1 /\ (j - 1) + 3 = j + 2
    BY <1>1, <2>1
  <2>. QED  BY <1>3, <2>1, <2>2
<1>. QED  BY <1>4, <1>5, <1>6, <1>7

-----------------------------------------------------------------------------
(* Places: Normal.                                                         *)

\* The number of an element among those of a set of numbers.
Rank(K, i) == Cardinality({j \in K : j <= i})

LEMMA RankOnto ==
  ASSUME NEW N \in Nat, NEW K, K \subseteq 1..N
  PROVE  /\ IsFiniteSet(K) /\ Cardinality(K) \in Nat
         /\ \A k \in 1..Cardinality(K) : \E i \in K : Rank(K, i) = k
         /\ \A i, j \in K : Rank(K, i) = Rank(K, j) => i = j
<1> DEFINE upTo(i) == {j \in K : j <= i}
           n == Cardinality(K)
<1>1. IsFiniteSet(1..N)
  BY FS_Interval
<1>2. IsFiniteSet(K) /\ n \in Nat
  BY <1>1, FS_Subset, FS_CardinalityType
<1>3. \A i \in K : upTo(i) \in SUBSET K /\ i \in upTo(i)
  OBVIOUS
<1>4. \A i \in K : /\ IsFiniteSet(upTo(i))
                   /\ Rank(K, i) = Cardinality(upTo(i))
                   /\ Rank(K, i) \in Nat /\ Rank(K, i) <= n /\ Rank(K, i) # 0
  <2>1. SUFFICES ASSUME NEW i \in K
                 PROVE  /\ IsFiniteSet(upTo(i))
                        /\ Rank(K, i) = Cardinality(upTo(i))
                        /\ Rank(K, i) \in Nat /\ Rank(K, i) <= n /\ Rank(K, i) # 0
    OBVIOUS
  <2>2. Rank(K, i) = Cardinality(upTo(i))
    BY DEF Rank
  <2>3. upTo(i) \in SUBSET K /\ upTo(i) # {}
    BY <1>3
  <2> HIDE DEF upTo
  <2>4. IsFiniteSet(upTo(i)) /\ Cardinality(upTo(i)) <= n
    BY <1>2, <2>3, FS_Subset
  <2>5. Cardinality(upTo(i)) \in Nat /\ Cardinality(upTo(i)) # 0
    BY <2>3, <2>4, FS_CardinalityType, FS_EmptySet
  <2>. QED  BY <2>2, <2>4, <2>5
<1>5. ASSUME NEW i \in K, NEW j \in K, i < j
      PROVE  Rank(K, i) # Rank(K, j)
  <2>0. \A k \in K : k \in Nat
    OBVIOUS
  <2>1. upTo(i) \in SUBSET upTo(j) /\ j \in upTo(j) /\ j \notin upTo(i)
    <3>1. i \in Nat /\ j \in Nat /\ i < j
      BY <1>5, <2>0
    <3>2. ASSUME NEW k \in K, k <= i PROVE k <= j
      <4>1. k \in Nat
        BY <2>0
      <4>. QED  BY <3>1, <3>2, <4>1
    <3>3. upTo(i) \in SUBSET upTo(j)
      BY <3>2
    <3>4. j \in upTo(j) /\ j \notin upTo(i)
      BY <3>1
    <3>. QED  BY <3>3, <3>4
  <2> HIDE DEF upTo
  <2>2. Cardinality(upTo(i)) # Cardinality(upTo(j))
    BY <1>4, <2>1, FS_Subset
  <2>. QED  BY <1>4, <2>2
<1>6. ASSUME NEW i \in K, NEW j \in K, Rank(K, i) = Rank(K, j)
      PROVE  i = j
  <2>1. i \in Nat /\ j \in Nat
    OBVIOUS
  <2>2. ~(i < j) /\ ~(j < i)
    BY <1>5, <1>6
  <2>. QED  BY <2>1, <2>2
<1> DEFINE f == [i \in K |-> Rank(K, i)]
<1>7. f \in [K -> 1..n]
  <2>1. \A i \in K : Rank(K, i) \in 1..n
    <3> HIDE DEF n, upTo
    <3>1. \A i \in K : Rank(K, i) \in Nat /\ Rank(K, i) <= n /\ Rank(K, i) # 0
      BY <1>4
    <3>. QED  BY <1>2, <3>1
  <2>. QED  BY <2>1
<1>8. f \in Injection(K, 1..n)
  BY <1>6, <1>7 DEF Injection, IsInjective
<1>9. IsFiniteSet(1..n) /\ Cardinality(1..n) = n
  <2> HIDE DEF n
  <2>. QED  BY <1>2, FS_Interval
<1>10. f \in Surjection(K, 1..n)
  <2> HIDE DEF f
  <2>. QED  BY <1>8, <1>9, FS_Injection
<1>11. \A k \in 1..n : \E i \in K : Rank(K, i) = k
  BY <1>10 DEF Surjection
<1>. QED  BY <1>2, <1>6, <1>11

\* The positions Normal keeps.
Kept(p) == {i \in 1..Len(p) : ~(i > 1 /\ p[i] = "/" /\ p[i - 1] = "/")}

\* One slash of two can go: the place is the same.
LEMMA NormalSame ==
  ASSUME NEW p \in Path, NEW q \in Path, NEW i \in 1..Len(p),
         i + 1 <= Len(p), p[i] = "/", p[i + 1] = "/", Len(q) = Len(p) - 1,
         \A j \in 1..Len(p) - 1 : q[j] = IF j < i THEN p[j] ELSE p[j + 1]
  PROVE  Normal(q) = Normal(p)
<1> DEFINE L == Len(p)
           K == Kept(p)
           J == Kept(q)
           at(j) == IF j <= i THEN j ELSE j + 1
<1>1. L \in Nat /\ Len(q) = L - 1
  BY DEF Path
<1> HIDE DEF L
<1>2. i \in 1..L /\ i + 1 <= L /\ \A j \in 1..L - 1 : q[j] = IF j < i THEN p[j] ELSE p[j + 1]
  BY DEF L
<1>3. /\ K \subseteq 1..L /\ J \subseteq 1..L
      /\ \A j : j \in K <=> j \in 1..L /\ ~(j > 1 /\ p[j] = "/" /\ p[j - 1] = "/")
      /\ \A j : j \in J <=> j \in 1..L - 1 /\ ~(j > 1 /\ q[j] = "/" /\ q[j - 1] = "/")
  BY <1>1 DEF Kept, L
<1> HIDE DEF K, J
<1>4. \A j \in 1..L - 1 : q[j] = p[at(j)]
  <2>1. SUFFICES ASSUME NEW j \in 1..L - 1 PROVE q[j] = p[at(j)]
    OBVIOUS
  <2>2. CASE j < i
    BY <1>2, <2>2
  <2>3. CASE j = i
    BY <1>2, <2>3
  <2>4. CASE j > i
    BY <1>2, <2>4
  <2>. QED  BY <2>2, <2>3, <2>4
<1>5. \A j \in J : at(j) \in K
  <2>1. SUFFICES ASSUME NEW j \in J PROVE at(j) \in K
    OBVIOUS
  <2>2. j \in 1..L - 1 /\ ~(j > 1 /\ q[j] = "/" /\ q[j - 1] = "/")
    BY <1>3
  <2>3. CASE j <= i
    <3>1. j > 1 => j - 1 \in 1..L - 1 /\ j - 1 < i
      BY <1>1, <2>2, <2>3
    <3>2. q[j] = p[j] /\ (j > 1 => q[j - 1] = p[j - 1])
      BY <1>2, <1>4, <2>2, <2>3, <3>1
    <3>. QED  BY <1>1, <1>3, <2>2, <2>3, <3>2
  <2>4. CASE j > i
    <3>1. j - 1 \in 1..L - 1 /\ ~(j - 1 < i) /\ (j - 1) + 1 = j /\ j > 1
      BY <1>1, <2>2, <2>4
    <3>2. q[j] = p[j + 1] /\ q[j - 1] = p[j]
      BY <1>2, <2>2, <2>4, <3>1
    <3>3. j + 1 \in 1..L /\ (j + 1) - 1 = j
      BY <1>1, <2>2
    <3>. QED  BY <1>3, <2>2, <2>4, <3>1, <3>2, <3>3
  <2>. QED  BY <2>2, <2>3, <2>4
<1>6. \A k \in K : \E j \in J : at(j) = k
  <2>1. SUFFICES ASSUME NEW k \in K PROVE \E j \in J : at(j) = k
    OBVIOUS
  <2>2. k \in 1..L /\ ~(k > 1 /\ p[k] = "/" /\ p[k - 1] = "/")
    BY <1>3
  <2>3. CASE k <= i
    <3>1. k \in 1..L - 1 /\ (k > 1 => k - 1 \in 1..L - 1 /\ k - 1 < i)
      BY <1>1, <1>2, <2>2, <2>3
    <3>2. q[k] = p[k] /\ (k > 1 => q[k - 1] = p[k - 1])
      BY <1>2, <1>4, <2>3, <3>1
    <3>3. k \in J
      BY <1>3, <2>2, <3>1, <3>2
    <3>. QED  BY <2>3, <3>3
  <2>4. CASE k > i
    <3>1. k # i + 1
      <4>1. SUFFICES ASSUME k = i + 1 PROVE FALSE
        OBVIOUS
      <4>2. k > 1 /\ k - 1 = i
        BY <1>2, <4>1
      <4>. QED  BY <2>2, <4>1, <4>2
    <3>2. /\ k - 1 \in 1..L - 1 /\ k - 1 > i /\ (k - 1) + 1 = k
          /\ (k - 1) - 1 \in 1..L - 1 /\ ~((k - 1) - 1 < i) /\ ((k - 1) - 1) + 1 = k - 1
      BY <1>1, <1>2, <2>2, <2>4, <3>1
    <3> DEFINE m == k - 1
    <3>3. m \in 1..L - 1 /\ ~(m < i) /\ m + 1 = k
      BY <1>2, <3>2
    <3>4. m - 1 \in 1..L - 1 /\ ~(m - 1 < i) /\ (m - 1) + 1 = m
      BY <3>2
    <3>5. p[k] # "/" \/ p[m] # "/"
      BY <2>2, <2>4, <1>2
    <3> HIDE DEF m
    <3>6. q[m] = p[k] /\ q[m - 1] = p[m]
      BY <1>2, <3>3, <3>4
    <3>7. m \in J
      BY <1>3, <3>3, <3>5, <3>6
    <3>8. at(m) = k
      BY <1>2, <3>2 DEF m
    <3>. QED  BY <3>7, <3>8
  <2>. QED  BY <2>2, <2>3, <2>4
<1>7. \A j, k \in J : j <= k <=> at(j) <= at(k)
  BY <1>1, <1>2, <1>3
<1>8. \A j, k \in J : at(j) = at(k) => j = k
  BY <1>1, <1>2, <1>3
<1> DEFINE F == [j \in J |-> at(j)]
<1>9. \A j \in J : F[j] = at(j)
  OBVIOUS
<1> HIDE DEF at
<1>10. F \in Bijection(J, K)
  <2>1. F \in [J -> K]
    BY <1>5
  <2>2. F \in Injection(J, K)
    BY <1>8, <2>1 DEF Injection, IsInjective
  <2>3. F \in Surjection(J, K)
    BY <1>6, <2>1 DEF Surjection
  <2>. QED  BY <2>2, <2>3 DEF Bijection
<1>11. /\ IsFiniteSet(J) /\ IsFiniteSet(K)
       /\ \A k \in 1..Cardinality(J) : \E j \in J : Rank(J, j) = k
       /\ \A j, k \in K : Rank(K, j) = Rank(K, k) => j = k
       /\ \A j, k \in J : Rank(J, j) = Rank(J, k) => j = k
  BY <1>1, <1>3, RankOnto
<1>12. Cardinality(K) = Cardinality(J)
  <2>1. ExistsBijection(J, K)
    BY <1>10 DEF ExistsBijection
  <2>. QED  BY <1>11, <2>1, FS_Bijection
<1>13. ASSUME NEW j \in J PROVE Rank(K, at(j)) = Rank(J, j)
  <2> DEFINE A == {k \in J : k <= j}
             B == {k \in K : k <= at(j)}
             G == [k \in A |-> at(k)]
  <2>1. G \in [A -> B]
    BY <1>5, <1>7
  <2>2. G \in Injection(A, B)
    BY <1>8, <2>1 DEF Injection, IsInjective
  <2>3. G \in Surjection(A, B)
    <3>1. ASSUME NEW b \in B PROVE \E a \in A : G[a] = b
      <4>1. PICK a \in J : at(a) = b
        BY <1>6
      <4>2. a \in A
        BY <1>7, <4>1
      <4>. QED  BY <4>1, <4>2
    <3>. QED  BY <2>1, <3>1 DEF Surjection
  <2>4. ExistsBijection(A, B)
    BY <2>2, <2>3 DEF ExistsBijection, Bijection
  <2>5. IsFiniteSet(A)
    <3>1. A \in SUBSET J
      OBVIOUS
    <3> HIDE DEF A
    <3>. QED  BY <1>11, <3>1, FS_Subset
  <2>6. Cardinality(B) = Cardinality(A)
    <3> HIDE DEF A, B
    <3>. QED  BY <2>4, <2>5, FS_Bijection
  <2>. QED  BY <2>6 DEF Rank
<1> DEFINE n == Cardinality(J)
           x(k) == CHOOSE j \in J : Rank(J, j) = k
           y(k) == CHOOSE j \in K : Rank(K, j) = k
<1> HIDE DEF n
<1>14. Normal(q) = [k \in 1..n |-> q[x(k)]]
  BY Zenon DEF Normal, Kept, Rank, J, n
<1>15. Normal(p) = [k \in 1..n |-> p[y(k)]]
  <2>1. Normal(p) = [k \in 1..Cardinality(K) |-> p[y(k)]]
    BY Zenon DEF Normal, Kept, Rank, K
  <2>. QED  BY <1>12, <2>1 DEF n
<1>16. ASSUME NEW k \in 1..n PROVE q[x(k)] = p[y(k)]
  <2>1. \E j \in J : Rank(J, j) = k
    BY <1>11 DEF n
  <2>2. x(k) \in J /\ Rank(J, x(k)) = k
    BY <2>1
  <2>3. at(x(k)) \in K /\ Rank(K, at(x(k))) = k
    BY <1>5, <1>13, <2>2, Zenon
  <2>4. y(k) \in K /\ Rank(K, y(k)) = k
    BY <2>3
  <2>5. y(k) = at(x(k))
    BY <1>11, <2>3, <2>4, Zenon
  <2>6. x(k) \in 1..L - 1
    BY <1>3, <2>2
  <2>. QED  BY <1>4, <2>5, <2>6, Zenon
<1> HIDE DEF x, y
<1>. QED  BY <1>14, <1>15, <1>16

\* r is p without one slash of two.
Drops(p, r, i) ==
  /\ i \in 1..Len(p) /\ i + 1 <= Len(p) /\ p[i] = "/" /\ p[i + 1] = "/"
  /\ Len(r) = Len(p) - 1
  /\ \A j \in 1..Len(p) - 1 : r[j] = IF j < i THEN p[j] ELSE p[j + 1]

\* The same with more of the path behind it.
LEMMA NormalDrops ==
  ASSUME NEW p \in Path, NEW r \in Path, NEW c \in Path, NEW i, Drops(p, r, i)
  PROVE  Normal(r \o c) = Normal(p \o c)
<1> DEFINE P == p \o c
           Q == r \o c
           L == Len(p)
           M == Len(c)
<1>1. L \in Nat /\ M \in Nat
  BY DEF Path
<1>2. /\ i \in 1..L /\ i + 1 <= L /\ p[i] = "/" /\ p[i + 1] = "/" /\ Len(r) = L - 1
      /\ \A j \in 1..L - 1 : r[j] = IF j < i THEN p[j] ELSE p[j + 1]
  BY DEF Drops
<1> HIDE DEF L, M
<1>3. /\ P \in Path /\ Len(P) = L + M
      /\ \A j \in 1..L + M : P[j] = IF j <= L THEN p[j] ELSE c[j - L]
  BY ConcatProperties DEF Path, L, M
<1>4. /\ Q \in Path /\ Len(Q) = (L - 1) + M
      /\ \A j \in 1..(L - 1) + M : Q[j] = IF j <= L - 1 THEN r[j] ELSE c[j - (L - 1)]
  <2>1. Len(r) = L - 1
    BY <1>2
  <2>2. /\ Q \in Path /\ Len(Q) = Len(r) + M
        /\ \A j \in 1..Len(r) + M : Q[j] = IF j <= Len(r) THEN r[j] ELSE c[j - Len(r)]
    BY ConcatProperties DEF Path, M
  <2>. QED  BY <2>1, <2>2, Zenon
<1> HIDE DEF P, Q
<1>5. i \in 1..Len(P) /\ i + 1 <= Len(P) /\ P[i] = "/" /\ P[i + 1] = "/"
  BY <1>1, <1>2, <1>3
<1>6. Len(Q) = Len(P) - 1
  BY <1>1, <1>3, <1>4
<1>7. ASSUME NEW j \in 1..Len(P) - 1 PROVE Q[j] = IF j < i THEN P[j] ELSE P[j + 1]
  <2>1. j \in 1..(L - 1) + M /\ j \in 1..L + M /\ j + 1 \in 1..L + M
    BY <1>1, <1>3
  <2>2. CASE j <= L - 1
    <3>1. j \in 1..L - 1 /\ j <= L /\ j + 1 <= L
      BY <1>1, <2>1, <2>2
    <3>2. Q[j] = r[j] /\ P[j] = p[j] /\ P[j + 1] = p[j + 1]
      BY <1>3, <1>4, <2>1, <2>2, <3>1
    <3>. QED  BY <1>2, <3>1, <3>2
  <2>3. CASE ~(j <= L - 1)
    <3>1. ~(j + 1 <= L) /\ ~(j < i) /\ (j + 1) - L = j - (L - 1)
      BY <1>1, <1>2, <2>1, <2>3
    <3>2. Q[j] = c[j - (L - 1)] /\ P[j + 1] = c[(j + 1) - L]
      BY <1>3, <1>4, <2>1, <2>3, <3>1
    <3>. QED  BY <3>1, <3>2
  <2>. QED  BY <2>2, <2>3
<1>8. Normal(Q) = Normal(P)
  BY <1>3, <1>4, <1>5, <1>6, <1>7, NormalSame
<1>. QED  BY <1>8 DEF P, Q

\* check_dir leads to the same place.
LEMMA NormalCheckDir ==
  ASSUME NEW p \in Path, NEW c \in Path
  PROVE  Normal(check_dir(p) \o c) = Normal(p \o c)
<1> DEFINE N == Len(p)
           l == Loop(p)
           S == {i \in 0..N : l[i] \in Path /\ Normal(l[i] \o c) = Normal(p \o c)}
<1>1. N \in Nat
  BY DEF Path
<1>2. /\ l[0] = p /\ check_dir(p) = l[N]
      /\ \A i \in 1..N : l[i] = Squeeze(l[i - 1], i)
  BY LoopDefined
<1> HIDE DEF N, l
<1>3. 0 \in S
  BY <1>1, <1>2
<1>4. ASSUME NEW i \in 1..N, i - 1 \in S
      PROVE  i \in S
  <2>1. i \in Nat \ {0} /\ i \in 0..N
    BY <1>1
  <2>2. PICK q \in Path : q = l[i - 1]
    BY <1>4
  <2>3. Normal(q \o c) = Normal(p \o c)
    BY <1>4, <2>2
  <2>4. l[i] = Squeeze(q, i) /\ Squeeze(q, i) \in Path
    BY <1>2, <2>1, <2>2, SqueezeType
  <2>5. Normal(Squeeze(q, i) \o c) = Normal(q \o c)
    <3>1. Squeeze(q, i) = q \/ Drops(q, Squeeze(q, i), i)
      <4>1. Len(q) \in Nat
        BY DEF Path
      <4>. QED  BY <2>1, <4>1, SqueezeCases DEF Drops
    <3>2. CASE Squeeze(q, i) = q
      BY <3>2
    <3>3. CASE Drops(q, Squeeze(q, i), i)
      BY <2>4, <3>3, NormalDrops
    <3>. QED  BY <3>1, <3>2, <3>3
  <2>. QED  BY <2>1, <2>3, <2>4, <2>5
<1>5. N \in S
  <2> HIDE DEF S
  <2>1. \A i \in 0..N : i \in S
    BY <1>1, <1>3, <1>4, UpToN
  <2>. QED  BY <1>1, <2>1
<1>. QED  BY <1>2, <1>5

\* WithSlash leads where a slash behind the path leads.
LEMMA NormalWithSlash ==
  ASSUME NEW p \in Path, NEW c \in Path
  PROVE  Normal(WithSlash(p) \o c) = Normal(Append(p, "/") \o c)
<1>1. CASE p # << >> /\ p[Len(p)] = "/"
  <2> DEFINE q == Append(p, "/")
  <2>1. WithSlash(p) = p
    BY <1>1 DEF WithSlash, Last
  <2>2. p \in Seq(Parts) /\ "/" \in Parts
    BY DEF Path, Parts
  <2>3. /\ q \in Seq(Parts) /\ Len(q) = Len(p) + 1 /\ q[Len(p) + 1] = "/"
        /\ \A i \in 1..Len(p) : q[i] = p[i]
    BY <2>2, AppendProperties
  <2> HIDE DEF q
  <2>4. Len(p) \in Nat \ {0}
    BY <1>1, <2>2
  <2>5. Drops(q, p, Len(p))
    BY <1>1, <2>3, <2>4 DEF Drops
  <2>6. q \in Path
    BY <2>3 DEF Path, Parts
  <2>7. Normal(p \o c) = Normal(q \o c)
    BY <2>5, <2>6, NormalDrops
  <2>. QED  BY <2>1, <2>7 DEF q
<1>2. CASE ~(p # << >> /\ p[Len(p)] = "/")
  BY <1>2 DEF WithSlash, Last
<1>. QED  BY <1>1, <1>2

\* The path of a single slash.
LEMMA Slash ==
  /\ <<"/">> \in Path /\ << >> \in Path
  /\ \A p \in Path : Append(p, "/") = p \o <<"/">> /\ Append(p, "/") \in Path /\ p \o << >> = p
<1>1. "/" \in Parts /\ Path = Seq(Parts)
  BY DEF Parts, Path
<1> HIDE DEF Parts
<1>2. <<"/">> \in Seq(Parts) /\ << >> \in Seq(Parts)
  BY <1>1
<1>3. ASSUME NEW p \in Seq(Parts)
      PROVE  Append(p, "/") = p \o <<"/">> /\ Append(p, "/") \in Seq(Parts) /\ p \o << >> = p
  BY <1>1, AppendIsConcat, AppendProperties, ConcatEmptySeq
<1>. QED  BY <1>1, <1>2, <1>3

\* What the getter makes of a location and a directory of pages is the place
\* they name.
LEMMA PlaceReached ==
  ASSUME NEW s, NEW site \in Path, NEW val \in Path
  PROVE  Normal(WithSlash(check_dir(RootOf(s, site) \o val))) =
         Normal((IF site = << >> THEN <<".">> ELSE site) \o <<"/">> \o val \o <<"/">>)
<1> DEFINE sl == <<"/">>
           root == RootOf(s, site)
           joined == root \o val
           dir == check_dir(joined)
           tail == val \o sl
<1>1. sl \in Path /\ << >> \in Path
  BY Slash
<1>2. root \in Path
  BY RootOfCorrect
<1> HIDE DEF sl, root
<1>3. joined \in Path /\ tail \in Path
  BY <1>1, <1>2, JoinTriple
<1> HIDE DEF joined, tail
<1>4. dir \in Path
  BY <1>3, CheckDirType
<1> HIDE DEF dir
<1>5. WithSlash(dir) \in Path /\ WithSlash(dir) \o << >> = WithSlash(dir)
  BY <1>4, WithSlashCorrect, Slash
<1>6. Normal(WithSlash(dir)) = Normal(dir \o sl)
  <2>1. Normal(WithSlash(dir) \o << >>) = Normal(Append(dir, "/") \o << >>)
    BY <1>1, <1>4, NormalWithSlash
  <2>2. Append(dir, "/") \o << >> = dir \o sl
    BY <1>4, Slash DEF sl
  <2>. QED  BY <1>5, <2>1, <2>2
<1>7. Normal(dir \o sl) = Normal(joined \o sl)
  BY <1>1, <1>3, NormalCheckDir DEF dir
<1>8. \A x, y, z \in Path : (x \o y) \o z = x \o (y \o z)
  <2>1. SUFFICES ASSUME NEW x \in Path, NEW y \in Path, NEW z \in Path
                 PROVE  (x \o y) \o z = x \o (y \o z)
    OBVIOUS
  <2>. QED  BY ConcatAssociative DEF Path
<1>9. joined \o sl = root \o tail
  BY <1>1, <1>2, <1>8, Zenon DEF joined, tail
<1>10. CASE site = << >>
  <2>1. root = <<".", "/">> /\ <<".">> \in Path /\ <<".", "/">> = <<".">> \o sl
    BY <1>10 DEF root, RootOf, sl, Path
  <2>2. root \o tail = (<<".">> \o sl) \o val \o sl
    <3>1. root = <<".">> \o sl
      BY <2>1, Zenon
    <3>2. root \o tail = (root \o val) \o sl
      BY <1>1, <1>2, <1>8, Zenon DEF tail
    <3>. QED  BY <3>1, <3>2, Zenon
  <2>. QED  BY <1>6, <1>7, <1>9, <1>10, <2>2, Zenon DEF sl, dir, joined, root
<1>11. CASE site # << >>
  <2> DEFINE d == check_dir(site)
  <2>1. root = WithSlash(d)
    BY <1>11, Zenon DEF root, RootOf
  <2>2. d \in Path
    BY CheckDirType
  <2> HIDE DEF d
  <2>3. Normal(root \o tail) = Normal((d \o sl) \o tail)
    <3>1. Normal(WithSlash(d) \o tail) = Normal(Append(d, "/") \o tail)
      BY <1>3, <2>2, NormalWithSlash
    <3>2. Append(d, "/") = d \o sl
      BY <2>2, Slash DEF sl
    <3>. QED  BY <2>1, <3>1, <3>2, Zenon
  <2>4. (d \o sl) \o tail = d \o (sl \o tail)
    BY <1>1, <1>3, <1>8, <2>2, Zenon
  <2>5. sl \o tail \in Path
    BY <1>1, <1>3, JoinTriple
  <2>6. Normal(d \o (sl \o tail)) = Normal(site \o (sl \o tail))
    BY <2>5, NormalCheckDir DEF d
  <2>7. site \o sl \in Path
    BY <1>1, JoinTriple
  <2>8. site \o (sl \o tail) = ((site \o sl) \o val) \o sl
    <3>1. site \o (sl \o tail) = (site \o sl) \o tail
      BY <1>1, <1>3, <1>8, Zenon
    <3>2. (site \o sl) \o tail = ((site \o sl) \o val) \o sl
      BY <1>1, <1>8, <2>7, Zenon DEF tail
    <3>. QED  BY <3>1, <3>2, Zenon
  <2>. QED  BY <1>6, <1>7, <1>9, <1>11, <2>3, <2>4, <2>6, <2>8, Zenon DEF sl, dir, joined, root
<1>. QED  BY <1>10, <1>11

\* The settings that the last location and the last directory of pages behind
\* it leave.
LEMMA ParsedPlace ==
  ASSUME NEW pairs \in Seq(Pair), NEW s \in Settings,
         NEW kl \in 1..Len(pairs), NEW kp \in 1..Len(pairs), kl < kp,
         Word(pairs[kl].key) = "location", Word(pairs[kp].key) = "html_pages",
         \A k \in 1..Len(pairs) : k > kl => Word(pairs[k].key) # "location",
         \A k \in 1..Len(pairs) : k > kp => Word(pairs[k].key) # "html_pages"
  PROVE  After(pairs, s)[Len(pairs)].pages_path =
           check_dir(RootOf(s, pairs[kl].val) \o pairs[kp].val)
<1> DEFINE N == Len(pairs)
           a == After(pairs, s)
           root == RootOf(s, pairs[kl].val)
           place == check_dir(root \o pairs[kp].val)
           S == {i \in 0..N : /\ i >= kl => a[i].root_dir = root
                              /\ i >= kp => a[i].pages_path = place}
<1>1. N \in Nat /\ kl \in 1..N /\ kp \in 1..N /\ \A i \in 1..N : pairs[i] \in Pair
  OBVIOUS
<1>2. /\ a[0] = s /\ \A i \in 0..N : a[i] \in Settings
      /\ \A i \in 1..N : a[i] = ParseOne(a[i - 1], pairs[i])
  BY AfterDefined
<1>3. \A x : RootOf(x, pairs[kl].val) = root
  BY DEF RootOf
<1>4. \A x : x.root_dir = root => Below(x, pairs[kp].val) = place
  BY DEF Below
<1>5. /\ \A k \in 1..N : k > kl => Word(pairs[k].key) # "location"
      /\ \A k \in 1..N : k > kp => Word(pairs[k].key) # "html_pages"
  OBVIOUS
<1> HIDE DEF N, a, root, place
<1>6. 0 \in S
  BY <1>1
<1>7. ASSUME NEW i \in 1..N, i - 1 \in S
      PROVE  i \in S
  <2> DEFINE x == a[i - 1]
             kv == pairs[i]
             w == Word(kv.key)
  <2>1. i \in 0..N /\ i - 1 \in 0..N /\ kv \in Pair
    BY <1>1
  <2>2. x \in Settings /\ a[i] = ParseOne(x, kv)
    BY <1>2, <2>1
  <2>3. /\ i - 1 >= kl => x.root_dir = root
        /\ i - 1 >= kp => x.pages_path = place
    BY <1>7
  <2> HIDE DEF x, kv
  <2>4. /\ a[i].root_dir = IF w = "location" THEN RootOf(x, kv.val) ELSE x.root_dir
        /\ a[i].pages_path = IF w = "html_pages" THEN Below(x, kv.val) ELSE x.pages_path
    BY <2>1, <2>2, ParseOneCases
  <2>5. i >= kl => a[i].root_dir = root
    <3>1. CASE i = kl
      <4>1. w = "location" /\ RootOf(x, kv.val) = root
        BY <1>3, <3>1 DEF kv
      <4>. QED  BY <2>4, <4>1
    <3>2. CASE i > kl
      <4>1. w # "location" /\ i - 1 >= kl
        BY <1>1, <1>5, <2>1, <3>2 DEF kv
      <4>. QED  BY <2>3, <2>4, <4>1
    <3>. QED  BY <1>1, <2>1, <3>1, <3>2
  <2>6. i >= kp => a[i].pages_path = place
    <3>1. CASE i = kp
      <4>1. i - 1 >= kl
        BY <1>1, <3>1
      <4>2. w = "html_pages" /\ Below(x, kv.val) = place
        BY <1>4, <2>3, <3>1, <4>1 DEF kv
      <4>. QED  BY <2>4, <4>2
    <3>2. CASE i > kp
      <4>1. w # "html_pages" /\ i - 1 >= kp
        BY <1>1, <1>5, <2>1, <3>2 DEF kv
      <4>. QED  BY <2>3, <2>4, <4>1
    <3>. QED  BY <1>1, <2>1, <3>1, <3>2
  <2>. QED  BY <2>1, <2>5, <2>6
<1>8. N \in S
  <2> HIDE DEF S
  <2>1. \A i \in 0..N : i \in S
    BY <1>1, <1>6, <1>7, UpToN
  <2>. QED  BY <1>1, <2>1
<1>9. N >= kp
  BY <1>1
<1>10. a[N].pages_path = place
  BY <1>8, <1>9
<1>. QED  BY <1>10 DEF N, a, root, place

-----------------------------------------------------------------------------
(* Every step keeps the invariant.                                         *)

LEMMA InitIInv == Init => IInv
<1> SUFFICES ASSUME Init PROVE IInv
  OBVIOUS
<1>1. file \in Seq(Lines)
  <2>1. PICK m \in 0..MaxLines : file \in [1..m -> Lines]
    BY DEF Init, SeqOf
  <2>2. m \in Nat
    BY <2>1, ConstantsOK DEF ConstantsOK
  <2>. QED  BY <2>1, <2>2
<1>2. settings \in Settings
  <2>1. PICK e : e = << >>
    OBVIOUS
  <2>2. e \in Path
    BY <2>1 DEF Path
  <2>3. settings = [root_dir |-> e, pages_path |-> e, static_path |-> e,
                    listen_port |-> "uninitialized"]
    BY <2>1 DEF Init, NoSettings
  <2>. QED  BY <2>2, <2>3 DEF Settings, Port
<1>3. answers = << >> /\ path_KV_data = << >> /\ pos = 1 /\ phase = "loading"
  BY DEF Init
<1>4. PagesAnswers = {}
  BY <1>3 DEF PagesAnswers
<1>5. NoDouble(settings.root_dir) /\ NoDouble(settings.pages_path)
  BY DEF Init, NoSettings, NoDouble
<1>6. TypeOK
  BY <1>1, <1>2, <1>3, <1>4 DEF TypeOK
<1>7. PairsFromFile
  <2>1. PICK line : line = [k \in 1..0 |-> 0]
    OBVIOUS
  <2>2. line \in [1..Len(path_KV_data) -> 1..pos - 1]
    BY <1>3, <2>1
  <2>3. Len(path_KV_data) = 0 /\ pos - 1 = 0 /\ 1..0 = {}
    BY <1>3
  <2>. QED  BY <2>2, <2>3, Zenon DEF PairsFromFile, ReadFrom
<1>8. Reached
  BY <1>1, <1>3 DEF Reached
<1>9. PagesWhereTheFileSays
  BY <1>4 DEF PagesWhereTheFileSays
<1>. QED  BY <1>3, <1>4, <1>5, <1>6, <1>7, <1>8, <1>9 DEF IInv, Clean, Settled

\* Where the pages are is a matter of the file alone.
LEMMA PlaceStays ==
  ASSUME UNCHANGED file
  PROVE  SiteFirst' = SiteFirst /\ PlaceOfPages' = PlaceOfPages
<1>1. Locations' = Locations /\ Pages' = Pages
  BY DEF Locations, Pages
<1>2. SiteFirst' = SiteFirst
  BY <1>1 DEF SiteFirst
<1>3. PlaceOfPages' = PlaceOfPages
  BY <1>1 DEF PlaceOfPages
<1>. QED  BY <1>2, <1>3

\* A step that leaves file, settings and answers keeps what is said of them.
LEMMA AnswersStay ==
  ASSUME Clean, PagesWhereTheFileSays, UNCHANGED <<file, settings, answers>>
  PROVE  Clean' /\ PagesWhereTheFileSays' /\ PagesAnswers' = PagesAnswers
<1>1. Tidy' <=> Tidy
  BY DEF Tidy
<1>2. PagesAnswers' = PagesAnswers
  BY DEF PagesAnswers
<1>3. Clean'
  BY <1>1, <1>2 DEF Clean
<1>4. PagesWhereTheFileSays'
  BY <1>2, PlaceStays DEF PagesWhereTheFileSays
<1>. QED  BY <1>2, <1>3, <1>4

\* What makes pairs those of n lines.
LEMMA IsReadFrom ==
  ASSUME NEW pairs, NEW lines, NEW n, NEW m, Len(pairs) = m, NEW line \in [1..m -> 1..n],
         \A j, k \in 1..m : j < k => line[j] < line[k],
         \A k \in 1..m : pairs[k] = [key |-> lines[line[k]].key, val |-> lines[line[k]].val],
         \A i \in 1..n : Word(lines[i].key) # "none" => \E k \in 1..m : line[k] = i
  PROVE  ReadFrom(pairs, lines, n)
<1>1. line \in [1..Len(pairs) -> 1..n]
  BY Zenon
<1>2. \A j, k \in 1..Len(pairs) : j < k => line[j] < line[k]
  BY Zenon
<1>3. \A k \in 1..Len(pairs) : pairs[k] = [key |-> lines[line[k]].key, val |-> lines[line[k]].val]
  BY Zenon
<1>4. \A i \in 1..n : Word(lines[i].key) # "none" => \E k \in 1..Len(pairs) : line[k] = i
  BY Zenon
<1>. QED  BY <1>1, <1>2, <1>3, <1>4, Zenon DEF ReadFrom

\* A line is read: of the pairs and the lines of the file.
LEMMA LineRead ==
  ASSUME TypeOK, PairsFromFile, pos <= Len(file), UNCHANGED file, pos' = pos + 1,
         path_KV_data' = path_KV_data \o PairsOf(file[pos])
  PROVE  path_KV_data' \in Seq(Pair) /\ PairsFromFile'
<1> DEFINE more == PairsOf(file[pos])
           kv == [key |-> file[pos].key, val |-> file[pos].val]
           n == Len(path_KV_data)
<1>1. /\ pos \in Nat \ {0} /\ n \in Nat /\ path_KV_data \in Seq(Pair)
      /\ pos \in 1..Len(file) /\ file[pos] \in Lines
  BY DEF TypeOK
<1>2. PICK line \in [1..n -> 1..pos - 1] :
        /\ \A j, k \in 1..n : j < k => line[j] < line[k]
        /\ \A k \in 1..n :
             path_KV_data[k] = [key |-> file[line[k]].key, val |-> file[line[k]].val]
        /\ \A i \in 1..pos - 1 :
             Word(file[i].key) # "none" => \E k \in 1..n : line[k] = i
  BY DEF PairsFromFile, ReadFrom
<1>3. kv \in Pair
  BY <1>1, ConstantsOK DEF ConstantsOK, Pair
<1>4. CASE file[pos].text = "none"
  <2>1. more = << >> /\ path_KV_data' = path_KV_data
    <3>1. more = << >>
      BY <1>4 DEF PairsOf
    <3>. QED  BY <1>1, <3>1, ConcatEmptySeq
  <2>2. Word(file[pos].key) = "none"
    <3>1. file[pos].key = {}
      BY <1>1, <1>4, ConstantsOK DEF ConstantsOK
    <3>. QED  BY <3>1, WordCorrect
  <2>3. line \in [1..n -> 1..pos' - 1]
    BY <1>1, <1>2
  <2>4. \A i \in 1..pos' - 1 : Word(file[i].key) # "none" => \E k \in 1..n : line[k] = i
    <3>1. SUFFICES ASSUME NEW i \in 1..pos' - 1, Word(file[i].key) # "none"
                   PROVE  \E k \in 1..n : line[k] = i
      OBVIOUS
    <3>2. i # pos
      BY <2>2, <3>1
    <3>3. i \in 1..pos - 1
      BY <1>1, <3>2
    <3>. QED  BY <1>2, <3>1, <3>3
  <2>5. PairsFromFile'
    <3>1. ReadFrom(path_KV_data, file, pos' - 1)
      BY <1>2, <2>3, <2>4, IsReadFrom
    <3>. QED  BY <2>1, <3>1, Zenon DEF PairsFromFile
  <2>. QED  BY <1>1, <2>1, <2>5
<1>5. CASE file[pos].text # "none"
  <2>1. path_KV_data' = Append(path_KV_data, kv)
    <3>1. more = <<kv>>
      BY <1>5 DEF PairsOf
    <3> HIDE DEF more, kv
    <3>. QED  BY <1>1, <1>3, <3>1, AppendIsConcat DEF more
  <2>2. /\ path_KV_data' \in Seq(Pair)
        /\ Len(path_KV_data') = n + 1
        /\ path_KV_data'[n + 1] = kv
        /\ \A k \in 1..n : path_KV_data'[k] = path_KV_data[k]
    <3> HIDE DEF kv
    <3>. QED  BY <1>1, <1>3, <2>1, AppendProperties
  <2> DEFINE more2 == [k \in 1..n + 1 |-> IF k = n + 1 THEN pos ELSE line[k]]
  <2> HIDE DEF n
  <2>3. /\ \A k \in 1..n : more2[k] = line[k] /\ line[k] \in 1..pos - 1
        /\ more2[n + 1] = pos
        /\ more2 \in [1..n + 1 -> 1..pos' - 1]
    <3>1. \A k \in 1..n : more2[k] = line[k] /\ line[k] \in 1..pos - 1
      BY <1>1, <1>2
    <3>2. more2[n + 1] = pos /\ pos \in 1..pos' - 1
      BY <1>1
    <3>3. \A k \in 1..n + 1 : more2[k] \in 1..pos' - 1
      <4>1. SUFFICES ASSUME NEW k \in 1..n + 1 PROVE more2[k] \in 1..pos' - 1
        OBVIOUS
      <4> HIDE DEF more2
      <4>2. k = n + 1 \/ k \in 1..n
        BY <1>1
      <4>. QED  BY <1>1, <3>1, <3>2, <4>2
    <3>. QED  BY <3>1, <3>2, <3>3
  <2> HIDE DEF more2
  <2>4. \A k \in 1..n + 1 : k \in 1..n \/ k = n + 1
    BY <1>1
  <2>5. \A j, k \in 1..n + 1 : j < k => more2[j] < more2[k]
    <3>1. SUFFICES ASSUME NEW j \in 1..n + 1, NEW k \in 1..n + 1, j < k
                   PROVE  more2[j] < more2[k]
      OBVIOUS
    <3>2. j \in 1..n
      BY <1>1, <3>1
    <3>3. CASE k = n + 1
      BY <1>1, <2>3, <3>2, <3>3
    <3>4. CASE k \in 1..n
      BY <1>2, <2>3, <3>1, <3>2, <3>4
    <3>. QED  BY <2>4, <3>3, <3>4
  <2>6. \A k \in 1..n + 1 :
          path_KV_data'[k] = [key |-> file[more2[k]].key, val |-> file[more2[k]].val]
    <3>1. SUFFICES ASSUME NEW k \in 1..n + 1
                   PROVE  path_KV_data'[k] = [key |-> file[more2[k]].key, val |-> file[more2[k]].val]
      OBVIOUS
    <3>2. CASE k = n + 1
      BY <2>2, <2>3, <3>2
    <3>3. CASE k \in 1..n
      BY <1>2, <2>2, <2>3, <3>3
    <3>. QED  BY <2>4, <3>2, <3>3
  <2>7. \A i \in 1..pos' - 1 :
          Word(file[i].key) # "none" => \E k \in 1..n + 1 : more2[k] = i
    <3>1. SUFFICES ASSUME NEW i \in 1..pos' - 1, Word(file[i].key) # "none"
                   PROVE  \E k \in 1..n + 1 : more2[k] = i
      OBVIOUS
    <3>2. CASE i = pos
      BY <1>1, <2>3, <3>2
    <3>3. CASE i # pos
      <4>1. i \in 1..pos - 1
        BY <1>1, <3>3
      <4>2. PICK k \in 1..n : line[k] = i
        BY <1>2, <3>1, <4>1
      <4>3. k \in 1..n + 1
        BY <1>1
      <4>. QED  BY <2>3, <4>2, <4>3
    <3>. QED  BY <3>2, <3>3
  <2>8. PairsFromFile'
    <3>1. file' = file /\ Len(path_KV_data') = n + 1
      BY <2>2
    <3>2. PICK pairs : pairs = path_KV_data'
      OBVIOUS
    <3>3. Len(pairs) = n + 1
      BY <3>1, <3>2
    <3>4. ReadFrom(pairs, file, pos' - 1)
      <4>1. \A k \in 1..n + 1 :
              pairs[k] = [key |-> file[more2[k]].key, val |-> file[more2[k]].val]
        BY <2>6, <3>2
      <4>2. more2 \in [1..Len(pairs) -> 1..pos' - 1]
        BY <2>3, <3>3, Zenon
      <4>3. \A j, k \in 1..Len(pairs) : j < k => more2[j] < more2[k]
        BY <2>5, <3>3, Zenon
      <4>4. \A k \in 1..Len(pairs) :
              pairs[k] = [key |-> file[more2[k]].key, val |-> file[more2[k]].val]
        BY <3>3, <4>1, Zenon
      <4>5. \A i \in 1..pos' - 1 :
              Word(file[i].key) # "none" => \E k \in 1..Len(pairs) : more2[k] = i
        BY <2>7, <3>3, Zenon
      <4>. QED  BY <4>2, <4>3, <4>4, <4>5, Zenon DEF ReadFrom
    <3>. QED  BY <3>1, <3>2, <3>4, Zenon DEF PairsFromFile
  <2>. QED  BY <2>2, <2>8
<1>. QED  BY <1>4, <1>5

LEMMA LoadLineStep ==
  ASSUME IInv, LoadLine
  PROVE  IInv'
<1>1. /\ phase = "loading" /\ pos <= Len(file)
      /\ UNCHANGED <<file, settings, answers>>
  BY DEF LoadLine
<1>2. TypeOK /\ PairsFromFile /\ Reached /\ pos \in Nat \ {0} /\ file \in Seq(Lines)
  BY DEF IInv, TypeOK
<1>3. answers = << >>
  BY <1>1 DEF IInv, Settled
<1>4. Clean' /\ PagesWhereTheFileSays' /\ PagesAnswers' = PagesAnswers
  BY <1>1, AnswersStay DEF IInv
<1>5. Settled'
  BY <1>1, <1>3 DEF Settled
<1>6. CASE Throws(file[pos]) /\ phase' = "threw" /\ UNCHANGED <<pos, path_KV_data>>
  <2>1. TypeOK'
    BY <1>1, <1>2, <1>4, <1>6 DEF TypeOK
  <2>2. PairsFromFile' /\ Reached'
    BY <1>1, <1>2, <1>6 DEF PairsFromFile, ReadFrom, Reached
  <2>. QED  BY <1>4, <1>5, <2>1, <2>2 DEF IInv
<1>7. CASE /\ ~Throws(file[pos])
           /\ path_KV_data' = path_KV_data \o PairsOf(file[pos])
           /\ pos' = pos + 1
           /\ UNCHANGED phase
  <2>1. path_KV_data' \in Seq(Pair) /\ PairsFromFile'
    BY <1>1, <1>2, <1>7, LineRead
  <2>2. pos' \in Nat \ {0}
    BY <1>2, <1>7
  <2>3. Reached'
    BY <1>1, <1>2, <1>7 DEF Reached
  <2>4. TypeOK'
    BY <1>1, <1>2, <1>4, <1>7, <2>1, <2>2 DEF TypeOK
  <2>. QED  BY <1>4, <1>5, <2>1, <2>3, <2>4 DEF IInv
<1>. QED  BY <1>6, <1>7 DEF LoadLine

LEMMA LoadEndStep ==
  ASSUME IInv, LoadEnd
  PROVE  IInv'
<1>1. /\ phase = "loading" /\ phase' = "ready" /\ pos > Len(file)
      /\ UNCHANGED <<file, settings, answers, pos, path_KV_data>>
  BY DEF LoadEnd
<1>2. Clean' /\ PagesWhereTheFileSays' /\ PagesAnswers' = PagesAnswers
  BY <1>1, AnswersStay DEF IInv
<1>3. TypeOK'
  BY <1>1, <1>2 DEF IInv, TypeOK
<1>4. PairsFromFile'
  BY <1>1 DEF IInv, PairsFromFile
<1>5. Settled'
  BY <1>1 DEF IInv, Settled
<1>6. Reached'
  <2>1. pos \in Nat /\ Len(file) \in Nat
    BY DEF IInv, TypeOK
  <2>. QED  BY <1>1, <2>1 DEF IInv, Reached
<1>. QED  BY <1>2, <1>3, <1>4, <1>5, <1>6 DEF IInv

\* A getter: it answers from the parsed settings and keeps them, perhaps with a
\* slash behind a path that is not the root directory.
Called(getter, value) ==
  LET s == parse_setting(settings) IN
  /\ phase = "ready"
  /\ settings' \in Settings
  /\ settings'.root_dir = s.root_dir
  /\ settings'.pages_path \in {s.pages_path, WithSlash(s.pages_path)}
  /\ answers' = Append(answers, [getter |-> getter, value |-> value])
  /\ value \in Path \cup Port
  /\ getter = "pages" => value = WithSlash(s.pages_path)
  /\ UNCHANGED <<file, pos, phase, path_KV_data>>

LEMMA GetterCalls ==
  ASSUME IInv, get_pages_path \/ get_static_path \/ get_listen_port
  PROVE  \E getter \in {"pages", "static", "port"}, value \in Path \cup Port :
           Called(getter, value)
<1> DEFINE s == parse_setting(settings)
<1>1. s \in Settings
  BY ParsedType DEF IInv, TypeOK
<1>2. /\ WithSlash(s.pages_path) \in Path /\ WithSlash(s.static_path) \in Path
      /\ s.pages_path \in Path /\ s.static_path \in Path /\ s.listen_port \in Port
  BY <1>1, WithSlashCorrect DEF Settings
<1>3. CASE get_pages_path
  <2>1. /\ phase = "ready" /\ UNCHANGED <<file, pos, phase, path_KV_data>>
        /\ settings' = [s EXCEPT !.pages_path = WithSlash(s.pages_path)]
        /\ answers' = Append(answers, [getter |-> "pages", value |-> WithSlash(s.pages_path)])
    BY <1>3 DEF get_pages_path, MayCall, Answer
  <2> HIDE DEF s
  <2>2. /\ settings' \in Settings /\ settings'.root_dir = s.root_dir
        /\ settings'.pages_path = WithSlash(s.pages_path)
    BY <1>1, <1>2, <2>1 DEF Settings
  <2>3. Called("pages", WithSlash(s.pages_path))
    BY <1>2, <2>1, <2>2 DEF Called, s
  <2>. QED  BY <1>2, <2>3
<1>4. CASE get_static_path
  <2>1. /\ phase = "ready" /\ UNCHANGED <<file, pos, phase, path_KV_data>>
        /\ settings' = [s EXCEPT !.static_path = WithSlash(s.static_path)]
        /\ answers' = Append(answers, [getter |-> "static", value |-> WithSlash(s.static_path)])
    BY <1>4 DEF get_static_path, MayCall, Answer
  <2> HIDE DEF s
  <2>2. /\ settings' \in Settings /\ settings'.root_dir = s.root_dir
        /\ settings'.pages_path = s.pages_path
    BY <1>1, <1>2, <2>1 DEF Settings
  <2>3. Called("static", WithSlash(s.static_path))
    BY <1>2, <2>1, <2>2 DEF Called, s
  <2>. QED  BY <1>2, <2>3
<1>5. CASE get_listen_port
  <2>1. /\ phase = "ready" /\ UNCHANGED <<file, pos, phase, path_KV_data>>
        /\ settings' = s
        /\ answers' = Append(answers, [getter |-> "port", value |-> s.listen_port])
    BY <1>5 DEF get_listen_port, MayCall, Answer
  <2> HIDE DEF s
  <2>2. Called("port", s.listen_port)
    BY <1>1, <1>2, <2>1 DEF Called, s
  <2>. QED  BY <1>2, <2>2
<1>. QED  BY <1>3, <1>4, <1>5

\* The answers of get_pages_path after a call are those before and perhaps the
\* new one.
LEMMA PagesAfter ==
  ASSUME TypeOK, NEW getter \in {"pages", "static", "port"}, NEW value, Called(getter, value)
  PROVE  /\ answers' \in Seq([getter : {"pages", "static", "port"}, value : Path \cup Port])
         /\ \A i \in PagesAnswers' :
              \/ i \in PagesAnswers /\ answers'[i].value = answers[i].value
              \/ /\ i = Len(answers) + 1 /\ getter = "pages"
                 /\ answers'[i].value = value
<1> DEFINE A == [getter : {"pages", "static", "port"}, value : Path \cup Port]
           e == [getter |-> getter, value |-> value]
<1>1. answers \in Seq(A) /\ Len(answers) \in Nat
  BY DEF TypeOK
<1>2. e \in A /\ e.getter = getter /\ e.value = value /\ answers' = Append(answers, e)
  BY DEF Called
<1> HIDE DEF A, e
<1>3. /\ answers' \in Seq(A)
      /\ Len(answers') = Len(answers) + 1
      /\ answers'[Len(answers) + 1] = e
      /\ \A i \in 1..Len(answers) : answers'[i] = answers[i]
  BY <1>1, <1>2, AppendProperties
<1>4. ASSUME NEW i \in PagesAnswers'
      PROVE  \/ i \in PagesAnswers /\ answers'[i].value = answers[i].value
             \/ i = Len(answers) + 1 /\ getter = "pages" /\ answers'[i].value = value
  <2>1. i \in 1..Len(answers) + 1 /\ answers'[i].getter = "pages"
    BY <1>3, <1>4 DEF PagesAnswers
  <2>2. CASE i = Len(answers) + 1
    BY <1>2, <1>3, <2>1, <2>2
  <2>3. CASE i # Len(answers) + 1
    <3>1. i \in 1..Len(answers)
      BY <1>1, <2>1, <2>3
    <3>2. answers'[i] = answers[i]
      BY <1>3, <3>1
    <3>. QED  BY <2>1, <3>1, <3>2 DEF PagesAnswers
  <2>. QED  BY <2>2, <2>3
<1>. QED  BY <1>3, <1>4 DEF A

LEMMA PairsTidy ==
  ASSUME TypeOK, PairsFromFile, Reached, Tidy
  PROVE  TidyPairs(path_KV_data)
<1> SUFFICES ASSUME NEW k \in 1..Len(path_KV_data)
             PROVE  IF "location" \in path_KV_data[k].key
                    THEN NoTriple(path_KV_data[k].val) ELSE NoDouble(path_KV_data[k].val)
  BY DEF TidyPairs
<1>1. PICK i \in 1..Len(file) : path_KV_data[k] = [key |-> file[i].key, val |-> file[i].val]
  <2>1. PICK line \in [1..Len(path_KV_data) -> 1..pos - 1] :
          path_KV_data[k] = [key |-> file[line[k]].key, val |-> file[line[k]].val]
    BY DEF PairsFromFile, ReadFrom
  <2>2. line[k] \in 1..Len(file)
    BY DEF Reached, TypeOK
  <2>. QED  BY <2>1, <2>2
<1>2. path_KV_data[k].key = file[i].key /\ path_KV_data[k].val = file[i].val
  BY <1>1
<1>3. path_KV_data[k].val \in Path
  <2>1. path_KV_data[k] \in Pair
    BY DEF TypeOK
  <2>. QED  BY <2>1 DEF Pair
<1>4. ~HasRun(file[i].val, IF "location" \in file[i].key THEN 3 ELSE 2)
  BY DEF Tidy
<1>. QED  BY <1>2, <1>3, <1>4, RunsOfSlashes

\* With the same pairs parse_setting does the same after a step.
LEMMA ParseStays ==
  ASSUME UNCHANGED path_KV_data
  PROVE  /\ \A s : parse_setting(s)' = parse_setting(s)
         /\ \A s : settings' = s => parse_setting(settings)' = parse_setting(s)
BY DEF parse_setting

\* Two settings parsed: TwoParses for all pairs.
LEMMA TwoSettings ==
  ASSUME path_KV_data \in Seq(Pair), NEW s \in Settings, NEW t \in Settings
  PROVE  LET u == parse_setting(s)
             v == parse_setting(t) IN
         /\ \/ u.root_dir = v.root_dir
            \/ u.root_dir = s.root_dir /\ v.root_dir = t.root_dir
         /\ s.root_dir = t.root_dir =>
              \/ u.pages_path = v.pages_path
              \/ u.pages_path = s.pages_path /\ v.pages_path = t.pages_path
<1>1. Len(path_KV_data) \in 0..Len(path_KV_data)
  OBVIOUS
<1>2. /\ parse_setting(s) = After(path_KV_data, s)[Len(path_KV_data)]
      /\ parse_setting(t) = After(path_KV_data, t)[Len(path_KV_data)]
  BY ParseSetting
<1>. QED  BY <1>1, <1>2, TwoParses

\* The greatest of a set of numbers up to N.
LEMMA MaxOfNats ==
  ASSUME NEW N \in Nat, NEW S, S \subseteq 1..N, S # {}
  PROVE  Max(S) \in S /\ \A y \in S : y <= Max(S)
<1> DEFINE T == {N - y : y \in S}
<1>1. \A y \in S : y \in Nat /\ y <= N
  OBVIOUS
<1>2. T \subseteq Nat /\ T # {}
  <2>1. \A y \in S : N - y \in Nat
    BY <1>1
  <2>2. PICK y \in S : TRUE
    OBVIOUS
  <2>. QED  BY <2>1, <2>2
<1> HIDE DEF T
<1>3. PICK m \in T : \A t \in T : m <= t
  BY <1>2, MinOfNats
<1>4. PICK x \in S : m = N - x
  BY DEF T
<1>5. ASSUME NEW y \in S PROVE x >= y
  <2>1. N - y \in T
    BY DEF T
  <2>2. N - x <= N - y
    BY <1>3, <1>4, <2>1
  <2>. QED  BY <1>1, <2>2
<1>6. Max(S) \in S /\ \A y \in S : Max(S) >= y
  BY <1>5 DEF Max
<1>. QED  BY <1>1, <1>6

\* When the location comes first, parse_setting finds the pages where the file
\* puts them, whatever the settings were.
LEMMA PlaceFound ==
  ASSUME TypeOK, PairsFromFile, Reached, phase = "ready", SiteFirst, NEW s \in Settings
  PROVE  Normal(WithSlash(parse_setting(s).pages_path)) = PlaceOfPages
<1> DEFINE n == Len(path_KV_data)
           L == Max(Locations)
           P == Max(Pages)
<1>1. /\ n \in Nat /\ Len(file) \in Nat /\ path_KV_data \in Seq(Pair)
      /\ pos - 1 = Len(file)
  BY DEF TypeOK, Reached
<1>2. /\ Locations # {} /\ Pages # {} /\ L < P
      /\ Locations \subseteq 1..Len(file) /\ Pages \subseteq 1..Len(file)
  BY DEF SiteFirst, Locations, Pages
<1>3. L \in Locations /\ \A i \in Locations : i <= L
  BY <1>1, <1>2, MaxOfNats
<1>4. P \in Pages /\ \A i \in Pages : i <= P
  BY <1>1, <1>2, MaxOfNats
<1> HIDE DEF L, P
<1>5. /\ L \in 1..Len(file) /\ Word(file[L].key) = "location"
      /\ P \in 1..Len(file) /\ Word(file[P].key) = "html_pages"
  BY <1>3, <1>4 DEF Locations, Pages
<1>6. PICK line \in [1..n -> 1..pos - 1] :
        /\ \A j, k \in 1..n : j < k => line[j] < line[k]
        /\ \A k \in 1..n :
             path_KV_data[k] = [key |-> file[line[k]].key, val |-> file[line[k]].val]
        /\ \A i \in 1..pos - 1 :
             Word(file[i].key) # "none" => \E k \in 1..n : line[k] = i
  BY DEF PairsFromFile, ReadFrom
<1> HIDE DEF n
<1>7. PICK kl \in 1..n : line[kl] = L
  BY <1>1, <1>5, <1>6
<1>8. PICK kp \in 1..n : line[kp] = P
  BY <1>1, <1>5, <1>6
<1>9. \A k \in 1..n : /\ path_KV_data[k].key = file[line[k]].key
                      /\ path_KV_data[k].val = file[line[k]].val
                      /\ line[k] \in 1..Len(file) /\ path_KV_data[k] \in Pair
  <2>1. SUFFICES ASSUME NEW k \in 1..n
                 PROVE  /\ path_KV_data[k].key = file[line[k]].key
                        /\ path_KV_data[k].val = file[line[k]].val
                        /\ line[k] \in 1..Len(file) /\ path_KV_data[k] \in Pair
    OBVIOUS
  <2>2. PICK i : i = line[k]
    OBVIOUS
  <2>3. path_KV_data[k] = [key |-> file[i].key, val |-> file[i].val]
    BY <1>6, <2>2
  <2>4. path_KV_data[k].key = file[i].key /\ path_KV_data[k].val = file[i].val
    BY <2>3
  <2>5. i \in 1..Len(file)
    BY <1>1, <1>6, <2>2
  <2>6. path_KV_data[k] \in Pair
    BY <1>1 DEF n
  <2>. QED  BY <2>2, <2>4, <2>5, <2>6
<1>10. kl < kp
  <2>1. SUFFICES ASSUME kp <= kl PROVE FALSE
    BY <1>1
  <2>2. kp = kl \/ kp < kl
    BY <1>1, <2>1
  <2>3. line[kp] <= line[kl]
    BY <1>6, <1>9, <2>2
  <2>. QED  BY <1>2, <1>5, <1>7, <1>8, <2>3
<1>11. \A k \in 1..n : k > kl => Word(path_KV_data[k].key) # "location"
  <2>1. SUFFICES ASSUME NEW k \in 1..n, k > kl, Word(path_KV_data[k].key) = "location"
                 PROVE  FALSE
    OBVIOUS
  <2>2. line[k] \in Locations
    BY <1>9, <2>1 DEF Locations
  <2>3. line[kl] < line[k] /\ line[k] <= L
    BY <1>3, <1>6, <2>1, <2>2
  <2>. QED  BY <1>5, <1>7, <1>9, <2>3
<1>12. \A k \in 1..n : k > kp => Word(path_KV_data[k].key) # "html_pages"
  <2>1. SUFFICES ASSUME NEW k \in 1..n, k > kp, Word(path_KV_data[k].key) = "html_pages"
                 PROVE  FALSE
    OBVIOUS
  <2>2. line[k] \in Pages
    BY <1>9, <2>1 DEF Pages
  <2>3. line[kp] < line[k] /\ line[k] <= P
    BY <1>4, <1>6, <2>1, <2>2
  <2>. QED  BY <1>5, <1>8, <1>9, <2>3
<1> DEFINE site == file[L].val
           val == file[P].val
<1>13. /\ path_KV_data[kl].val = site /\ path_KV_data[kp].val = val
       /\ Word(path_KV_data[kl].key) = "location" /\ Word(path_KV_data[kp].key) = "html_pages"
  BY <1>5, <1>7, <1>8, <1>9
<1>14. site \in Path /\ val \in Path
  <2>1. path_KV_data[kl] \in Pair /\ path_KV_data[kp] \in Pair
    BY <1>9
  <2>. QED  BY <1>13, <2>1 DEF Pair
<1> HIDE DEF site, val
<1>15. parse_setting(s).pages_path = check_dir(RootOf(s, site) \o val)
  <2>1. After(path_KV_data, s)[n].pages_path =
          check_dir(RootOf(s, path_KV_data[kl].val) \o path_KV_data[kp].val)
    BY <1>1, <1>10, <1>11, <1>12, <1>13, ParsedPlace DEF n
  <2>. QED  BY <1>13, <2>1, ParseSetting DEF n
<1>16. PlaceOfPages =
         Normal((IF site = << >> THEN <<".">> ELSE site) \o <<"/">> \o val \o <<"/">>)
  BY Zenon DEF PlaceOfPages, site, val, L, P
<1>. QED  BY <1>14, <1>15, <1>16, PlaceReached

LEMMA GetterStep ==
  ASSUME IInv, NEW getter \in {"pages", "static", "port"}, NEW value,
         Called(getter, value)
  PROVE  IInv'
<1>1. /\ phase = "ready" /\ UNCHANGED <<file, pos, phase, path_KV_data>>
      /\ settings' \in Settings /\ value \in Path \cup Port
  BY DEF Called
<1>2. TypeOK /\ settings \in Settings /\ path_KV_data \in Seq(Pair)
  BY DEF IInv, TypeOK
<1>3. PICK s \in Settings : s = parse_setting(settings)
  BY <1>2, ParsedType
<1>4. PICK t \in Settings : t = settings'
  BY <1>1
<1>5. /\ t.root_dir = s.root_dir
      /\ t.pages_path \in {s.pages_path, WithSlash(s.pages_path)}
      /\ getter = "pages" => value = WithSlash(s.pages_path)
  BY <1>3, <1>4 DEF Called
<1>6. s.root_dir \in Path /\ s.pages_path \in Path
  BY DEF Settings
<1>7. \A i \in PagesAnswers' :
        \/ i \in PagesAnswers /\ answers'[i].value = answers[i].value
        \/ /\ i = Len(answers) + 1 /\ answers'[i].value = WithSlash(s.pages_path)
  BY <1>2, <1>5, PagesAfter
<1>8. TypeOK'
  <2>1. answers' \in Seq([getter : {"pages", "static", "port"}, value : Path \cup Port])
    BY <1>2, PagesAfter
  <2>2. \A i \in PagesAnswers' : answers'[i].value \in Path
    BY <1>2, <1>6, <1>7, WithSlashCorrect DEF TypeOK
  <2>. QED  BY <1>1, <1>2, <2>1, <2>2 DEF TypeOK
<1>9. PairsFromFile'
  BY <1>1 DEF IInv, PairsFromFile
<1>10. Clean'
  <2>1. SUFFICES ASSUME Tidy'
                 PROVE  /\ NoDouble(settings.root_dir)' /\ NoDouble(settings.pages_path)'
                        /\ \A i \in PagesAnswers' : NoDouble(answers'[i].value)
    BY DEF Clean
  <2>2. Tidy
    BY <1>1, <2>1 DEF Tidy
  <2>3. TidyPairs(path_KV_data)
    BY <1>2, <2>2, PairsTidy DEF IInv
  <2>4. Single(settings)
    BY <2>2 DEF IInv, Clean, Single
  <2>5. Single(s)
    BY <1>2, <1>3, <2>3, <2>4, ParsedSingle, ParseSetting
  <2>6. NoDouble(WithSlash(s.pages_path))
    BY <1>6, <2>5, WithSlashCorrect DEF Single
  <2>7. NoDouble(t.root_dir) /\ NoDouble(t.pages_path)
    BY <1>5, <2>5, <2>6 DEF Single
  <2>8. \A i \in PagesAnswers' : NoDouble(answers'[i].value)
    BY <1>7, <2>2, <2>6 DEF IInv, Clean
  <2>. QED  BY <1>4, <2>7, <2>8
<1>11. RootSettled'
  <2>1. SUFFICES ASSUME NEW r \in Settings, r.root_dir = t.root_dir
                 PROVE  parse_setting(r).root_dir = t.root_dir
    BY <1>1, <1>4, ParseStays DEF RootSettled
  <2>2. \/ parse_setting(r).root_dir = s.root_dir
        \/ parse_setting(r).root_dir = r.root_dir
    BY <1>2, <1>3, TwoSettings
  <2>. QED  BY <1>5, <2>1, <2>2
<1>12. PagesSettled'
  <2>1. PICK u \in Settings : u = parse_setting(t) /\ u = parse_setting(settings)'
    BY <1>1, <1>2, <1>4, ParseStays, ParsedType
  <2>2. SUFFICES ASSUME NEW i \in PagesAnswers', i > 1
                 PROVE  answers'[i].value = WithSlash(u.pages_path)
    BY <2>1 DEF PagesSettled
  <2>3. Len(answers) \in Nat /\ i \in Nat
    BY <1>2 DEF TypeOK, PagesAnswers
  <2>4. answers # << >>
    <3>1. i \in PagesAnswers \/ i = Len(answers) + 1
      BY <1>7
    <3>2. i \in PagesAnswers => i <= Len(answers)
      BY <2>3 DEF PagesAnswers
    <3>. QED  BY <2>2, <2>3, <3>1, <3>2
  <2>5. RootSettled /\ PagesSettled
    BY <2>4 DEF IInv, Settled
  <2>6. s.root_dir = settings.root_dir
    BY <1>2, <1>3, <2>5 DEF RootSettled
  <2>7. \/ s.pages_path = u.pages_path
        \/ s.pages_path = settings.pages_path /\ u.pages_path = t.pages_path
    BY <1>2, <1>3, <1>5, <2>1, <2>6, TwoSettings
  <2>8. WithSlash(u.pages_path) = WithSlash(s.pages_path)
    BY <1>5, <1>6, <2>7, WithSlashCorrect
  <2>9. answers'[i].value = WithSlash(s.pages_path)
    BY <1>3, <1>7, <2>2, <2>5 DEF PagesSettled
  <2>. QED  BY <2>8, <2>9
<1>13. Settled'
  BY <1>1, <1>11, <1>12 DEF Settled
<1>14. Reached'
  BY <1>1 DEF IInv, Reached
<1>15. PagesWhereTheFileSays'
  <2>1. SUFFICES ASSUME SiteFirst, NEW i \in PagesAnswers'
                 PROVE  Normal(answers'[i].value) = PlaceOfPages
    BY <1>1, PlaceStays DEF PagesWhereTheFileSays
  <2>2. CASE i \in PagesAnswers /\ answers'[i].value = answers[i].value
    BY <2>1, <2>2 DEF IInv, PagesWhereTheFileSays
  <2>3. CASE answers'[i].value = WithSlash(s.pages_path)
    <3>1. Normal(WithSlash(s.pages_path)) = PlaceOfPages
      BY <1>1, <1>2, <1>3, <2>1, PlaceFound DEF IInv
    <3>. QED  BY <2>3, <3>1
  <2>. QED  BY <1>7, <2>2, <2>3
<1>. QED  BY <1>8, <1>9, <1>10, <1>13, <1>14, <1>15 DEF IInv

LEMMA NextIInv == IInv /\ [Next]_vars => IInv'
<1> SUFFICES ASSUME IInv, [Next]_vars PROVE IInv'
  OBVIOUS
<1>1. CASE LoadLine
  BY <1>1, LoadLineStep
<1>2. CASE LoadEnd
  BY <1>2, LoadEndStep
<1>3. CASE get_pages_path \/ get_static_path \/ get_listen_port
  BY <1>3, GetterCalls, GetterStep
<1>4. CASE UNCHANGED vars
  <2>1. Clean' /\ PagesWhereTheFileSays' /\ PagesAnswers' = PagesAnswers
    BY <1>4, AnswersStay DEF IInv, vars
  <2>2. TypeOK'
    BY <1>4, <2>1 DEF IInv, TypeOK, vars
  <2>3. PairsFromFile'
    BY <1>4 DEF IInv, PairsFromFile, vars
  <2>4. RootSettled => RootSettled'
    BY <1>4 DEF RootSettled, parse_setting, vars
  <2>5. PagesSettled => PagesSettled'
    BY <1>4, <2>1 DEF PagesSettled, parse_setting, vars
  <2>6. Settled'
    BY <1>4, <2>4, <2>5 DEF IInv, Settled, vars
  <2>7. Reached'
    BY <1>4 DEF IInv, Reached, vars
  <2>. QED  BY <2>1, <2>2, <2>3, <2>6, <2>7 DEF IInv
<1>. QED  BY <1>1, <1>2, <1>3, <1>4 DEF Next

-----------------------------------------------------------------------------
(* The theorems.                                                           *)

\* The invariant holds in every state of every behavior of config_file_parse.
THEOREM Invariance == Spec => []IInv
<1>1. Init => IInv
  BY InitIInv
<1>2. IInv /\ [Next]_vars => IInv'
  BY NextIInv
<1>. QED  BY <1>1, <1>2, PTL DEF Spec

\* check_dir: whatever getters are called and in whatever order, a file whose
\* settings have no doubled slashes of their own gives the pages' directory
\* without one.
THEOREM SlashesCorrect == Spec => []NoDoubledSlash
<1>1. IInv => NoDoubledSlash
  BY RunsOfSlashes DEF IInv, TypeOK, Clean, NoDoubledSlash
<1>. QED  BY <1>1, Invariance, PTL

\* parse_setting on what earlier getters left: from its second call on
\* get_pages_path repeats itself, for every file.
THEOREM AnswersCorrect == Spec => []AnswersSettle
<1>1. IInv => AnswersSettle
  <2> SUFFICES ASSUME IInv, NEW i \in PagesAnswers, NEW j \in PagesAnswers, i > 1, j > 1
               PROVE  answers[i].value = answers[j].value
    BY DEF AnswersSettle
  <2>1. answers # << >>
    BY DEF IInv, TypeOK, PagesAnswers
  <2>2. PagesSettled
    BY <2>1 DEF IInv, Settled
  <2>. QED  BY <2>2 DEF PagesSettled
<1>. QED  BY <1>1, Invariance, PTL

\* The getter gives the place the file names, at every call and whatever was
\* called before, when the location comes first.
THEOREM PagesCorrect == Spec => []PagesWhereTheFileSays
<1>1. IInv => PagesWhereTheFileSays
  BY DEF IInv
<1>. QED  BY <1>1, Invariance, PTL
=============================================================================
