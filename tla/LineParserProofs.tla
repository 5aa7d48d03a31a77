-------------------------- MODULE LineParserProofs --------------------------
(***************************************************************************)
(* What holds of LineParser for requests of every length, in every         *)
(* division into arrivals.  The line starts of a single call are computed  *)
(* by a recursive function; what is shown of it here rests on a least      *)
(* counterexample, a minimum of a set of numbers.                          *)
(***************************************************************************)
EXTENDS LineParser, WellFoundedInduction, TLAPS

\* What lies between the start of the line and the cursor is inside a line.
Skipped ==
  \A i \in m_start_line .. m_check_cur - 1 :
    i < Len(buff) => At(buff, i) \notin {"CR", "LF"}

IInv ==
  /\ m_start_line \in Nat /\ m_check_cur \in Nat
  /\ CursorsInBounds
  /\ Skipped

-----------------------------------------------------------------------------
(* check_line.                                                             *)

\* The smaller of the numbers in a set is in it.
LEMMA MinOfNats ==
  ASSUME NEW S, S \subseteq Nat, S # {}
  PROVE  Min(S) \in S /\ \A y \in S : Min(S) <= y
<1> DEFINE R == OpToRel(<, Nat)
<1>1. IsWellFoundedOn(R, Nat)
  BY NatLessThanWellFounded
<1>2. \A m, n \in Nat : m < n => <<m, n>> \in R
  BY DEF OpToRel
<1> HIDE DEF R
<1>3. PICK x \in S : \A y \in S : ~ (<<y, x>> \in R)
  BY <1>1, WFMin
<1>4. ASSUME NEW y \in S PROVE x <= y
  <2>1. x \in Nat /\ y \in Nat
    OBVIOUS
  <2>2. ~(y < x)
    BY <1>2, <1>3, <2>1, Zenon
  <2>. QED  BY <2>1, <2>2
<1>. QED  BY <1>4 DEF Min

\* The greater of two numbers.
LEMMA MaxOfTwo ==
  ASSUME NEW a \in Nat, NEW b \in Nat
  PROVE  Max({a, b}) = IF a >= b THEN a ELSE b
<1>1. CASE a >= b
  BY <1>1 DEF Max
<1>2. CASE ~(a >= b)
  BY <1>2 DEF Max
<1>. QED  BY <1>1, <1>2

\* The loop of check_line stops at the first CR or LF, or where nothing is left.
LEMMA StopsFirst ==
  ASSUME NEW b \in Seq(Chars), NEW cur \in Nat
  PROVE  /\ Stop(b, cur) \in Nat
         /\ cur <= Stop(b, cur)
         /\ Stop(b, cur) <= IF cur >= Len(b) THEN cur ELSE Len(b)
         /\ \A i \in cur .. Stop(b, cur) - 1 : i < Len(b) => At(b, i) \notin {"CR", "LF"}
<1> DEFINE ends == {i \in cur .. Len(b) - 1 : At(b, i) \in {"CR", "LF"}}
           last == IF cur >= Len(b) THEN cur ELSE Len(b)
<1>1. Len(b) \in Nat /\ Max({cur, Len(b)}) = last
  BY MaxOfTwo
<1>2. ends \cup {last} \subseteq Nat
  BY <1>1
<1>3. Stop(b, cur) = Min(ends \cup {last})
  BY <1>1 DEF Stop
<1>4. /\ Stop(b, cur) \in ends \cup {last}
      /\ \A y \in ends \cup {last} : Stop(b, cur) <= y
  BY <1>2, <1>3, MinOfNats
<1>5. ASSUME NEW i \in cur .. Stop(b, cur) - 1, i < Len(b)
      PROVE  At(b, i) \notin {"CR", "LF"}
  BY <1>1, <1>2, <1>4, <1>5
<1>. QED  BY <1>1, <1>2, <1>4, <1>5

\* check_line from a cursor that is at most one past the buffer: it goes
\* forward, past no CR and LF unless it has found the end of a line, and comes
\* one past the buffer only then.
LEMMA CheckedLine ==
  ASSUME NEW b \in Seq(Chars), NEW cur \in Nat, cur <= Len(b) + 1
  PROVE  LET l == check_line(b, cur) IN
         /\ l.cur \in Nat /\ cur <= l.cur /\ l.cur <= Len(b) + 1
         /\ l.line # "LINE_OK" =>
              /\ l.cur = Len(b) + 1 => cur = Len(b) + 1
              /\ \A i \in cur .. l.cur - 1 : i < Len(b) => At(b, i) \notin {"CR", "LF"}
<1> DEFINE s == Stop(b, cur)
           l == check_line(b, cur)
<1>1. /\ s \in Nat /\ cur <= s /\ Len(b) \in Nat
      /\ s <= IF cur >= Len(b) THEN cur ELSE Len(b)
      /\ \A i \in cur .. s - 1 : i < Len(b) => At(b, i) \notin {"CR", "LF"}
  BY StopsFirst
<1> HIDE DEF s
<1>2. l = AtLineEnd(b, s)
  BY DEF check_line, s
<1>3. CASE Open(b, s)
  <2>1. l.cur = s
    BY <1>2, <1>3 DEF AtLineEnd
  <2>. QED  BY <1>1, <2>1
<1>4. CASE ~Open(b, s) /\ Ends(b, s)
  <2>1. l.cur = s + 2 /\ l.line = "LINE_OK"
    BY <1>2, <1>4 DEF AtLineEnd
  <2>2. s < Len(b)
    BY <1>1, <1>4 DEF Open
  <2>. QED  BY <1>1, <2>1, <2>2
<1>5. CASE ~Open(b, s) /\ ~Ends(b, s)
  <2>1. l.cur = s
    BY <1>2, <1>5 DEF AtLineEnd
  <2>. QED  BY <1>1, <2>1
<1>. QED  BY <1>3, <1>4, <1>5

-----------------------------------------------------------------------------
(* The line starts of a single call.                                       *)

\* A call that has found a line finds the same one when more has arrived.
LEMMA LineStays ==
  ASSUME NEW b \in Seq(Chars), NEW c \in Chars, NEW cur \in Nat, cur <= Len(b) + 1,
         check_line(b, cur).line = "LINE_OK"
  PROVE  check_line(Append(b, c), cur) = check_line(b, cur)
<1> DEFINE s == Stop(b, cur)
           d == Append(b, c)
           ends(a) == {i \in cur .. Len(a) - 1 : At(a, i) \in {"CR", "LF"}}
           last(a) == IF cur >= Len(a) THEN cur ELSE Len(a)
<1>1. /\ d \in Seq(Chars) /\ Len(b) \in Nat /\ Len(d) = Len(b) + 1
      /\ \A i \in 0 .. Len(b) - 1 : At(d, i) = At(b, i)
  BY DEF At
<1>2. ~Open(b, s) /\ Ends(b, s)
  BY DEF check_line, AtLineEnd
<1>3. s \in Nat /\ cur <= s
  BY StopsFirst
<1>4. s < Len(b) /\ ~(s = Len(b) - 1 /\ At(b, s) = "CR")
  BY <1>1, <1>2, <1>3 DEF Open
<1>5. \A a \in Seq(Chars) : Stop(a, cur) = Min(ends(a) \cup {last(a)})
  <2>1. SUFFICES ASSUME NEW a \in Seq(Chars) PROVE Stop(a, cur) = Min(ends(a) \cup {last(a)})
    OBVIOUS
  <2>2. Max({cur, Len(a)}) = last(a)
    BY MaxOfTwo
  <2>. QED  BY <2>2 DEF Stop
<1>6. \A a \in Seq(Chars) :
        /\ Stop(a, cur) \in ends(a) \cup {last(a)}
        /\ \A y \in ends(a) \cup {last(a)} : Stop(a, cur) <= y
  <2>1. SUFFICES ASSUME NEW a \in Seq(Chars)
        PROVE  /\ Stop(a, cur) \in ends(a) \cup {last(a)}
               /\ \A y \in ends(a) \cup {last(a)} : Stop(a, cur) <= y
    OBVIOUS
  <2>2. ends(a) \cup {last(a)} \subseteq Nat
    OBVIOUS
  <2>. QED  BY <1>5, <2>2, MinOfNats
<1>7. s \in ends(b)
  BY <1>1, <1>3, <1>4, <1>6
<1>8. s \in ends(d)
  BY <1>1, <1>7
<1>9. Stop(d, cur) \in Nat /\ Stop(d, cur) <= s
  BY <1>1, <1>6, <1>8, StopsFirst
<1>10. Stop(d, cur) \in ends(b)
  <2>1. Stop(d, cur) \in ends(d)
    <3>1. Stop(d, cur) # last(d)
      BY <1>1, <1>4, <1>9, <1>3
    <3>2. Stop(d, cur) \in ends(d) \cup {last(d)}
      BY <1>1, <1>6
    <3>. QED  BY <3>1, <3>2
  <2> DEFINE x == Stop(d, cur)
  <2>2. x \in cur .. Len(d) - 1 /\ At(d, x) \in {"CR", "LF"}
    BY <2>1
  <2> HIDE DEF x, d, s
  <2>3. x \in 0 .. Len(b) - 1 /\ x \in cur .. Len(b) - 1
    BY <1>1, <1>3, <1>4, <1>9, <2>2 DEF x
  <2>4. At(b, x) \in {"CR", "LF"}
    BY <1>1, <2>2, <2>3
  <2>. QED  BY <2>3, <2>4 DEF x
<1>11. Stop(d, cur) = s
  BY <1>3, <1>6, <1>9, <1>10
<1> HIDE DEF s, d
<1>12. At(d, s) = At(b, s) /\ (s > 1 => At(d, s - 1) = At(b, s - 1))
  BY <1>1, <1>3, <1>4
<1>13. ~Open(d, s)
  BY <1>1, <1>3, <1>4 DEF Open
<1>14. Ends(d, s) <=> Ends(b, s)
  BY <1>12 DEF Ends
<1>. QED  BY <1>2, <1>11, <1>13, <1>14 DEF check_line, AtLineEnd, s, d

\* The function of LineStarts.
Starts(b) ==
  CHOOSE f : f = [n \in 0 .. Len(b) + 1 |-> IF n = 0 THEN {0} ELSE WithNext(b, f[n - 1])]

\* It exists up to every n: the first n it did not exist for would extend the
\* one before.
LEMMA StartsDefined ==
  ASSUME NEW b \in Seq(Chars)
  PROVE  /\ Starts(b)[0] = {0}
         /\ \A n \in 1 .. Len(b) + 1 : Starts(b)[n] = WithNext(b, Starts(b)[n - 1])
         /\ LineStarts(b) = Starts(b)[Len(b) + 1]
<1> DEFINE upTo(n, f) == f = [k \in 0 .. n |-> IF k = 0 THEN {0} ELSE WithNext(b, f[k - 1])]
           bad == {n \in Nat : ~ \E f : upTo(n, f)}
<1>1. bad = {}
  <2>1. SUFFICES ASSUME bad # {} PROVE FALSE
    OBVIOUS
  <2>2. PICK n \in bad : \A m \in bad : n <= m
    <3>1. bad \subseteq Nat
      OBVIOUS
    <3>. QED  BY <2>1, <3>1, MinOfNats
  <2>3. n \in Nat /\ ~ \E f : upTo(n, f)
    OBVIOUS
  <2>4. CASE n = 0
    <3>1. upTo(0, [k \in 0 .. 0 |-> {0}])
      OBVIOUS
    <3>. QED  BY <2>3, <2>4, <3>1
  <2>5. CASE n # 0
    <3>1. n - 1 \in Nat /\ ~(n <= n - 1)
      BY <2>3, <2>5
    <3>2. PICK f : upTo(n - 1, f)
      BY <2>2, <3>1, Zenon
    <3> DEFINE g == [k \in 0 .. n |-> IF k = n THEN WithNext(b, f[n - 1]) ELSE f[k]]
    <3>3. /\ DOMAIN f = 0 .. n - 1
          /\ \A k \in 0 .. n - 1 : f[k] = IF k = 0 THEN {0} ELSE WithNext(b, f[k - 1])
      BY <3>2
    <3>4. \A k \in 0 .. n : g[k] = IF k = n THEN WithNext(b, f[n - 1]) ELSE f[k]
      OBVIOUS
    <3>5. DOMAIN g = 0 .. n /\ g = [k \in 0 .. n |-> g[k]]
      OBVIOUS
    <3> HIDE DEF g
    <3>6. ASSUME NEW k \in 0 .. n
          PROVE  g[k] = IF k = 0 THEN {0} ELSE WithNext(b, g[k - 1])
      <4>1. CASE k = 0
        BY <2>3, <2>5, <3>3, <3>4, <4>1
      <4>2. CASE k # 0
        <5>1. k - 1 \in 0 .. n /\ k - 1 # n /\ g[k - 1] = f[k - 1]
          BY <2>3, <3>4, <4>2
        <5>2. g[k] = WithNext(b, f[k - 1])
          BY <2>3, <3>3, <3>4, <4>2
        <5>. QED  BY <4>2, <5>1, <5>2
      <4>. QED  BY <4>1, <4>2
    <3>7. upTo(n, g)
      BY <3>5, <3>6
    <3>. QED  BY <2>3, <3>7
  <2>. QED  BY <2>4, <2>5
<1>2. \E f : upTo(Len(b) + 1, f)
  <2>1. Len(b) + 1 \in Nat
    OBVIOUS
  <2>. QED  BY <1>1, <2>1
<1>3. upTo(Len(b) + 1, Starts(b))
  BY <1>2, Zenon DEF Starts
<1>4. LineStarts(b) = Starts(b)[Len(b) + 1]
  BY Zenon DEF LineStarts, Starts
<1>5. \A n \in 0 .. Len(b) + 1 : Starts(b)[n] = IF n = 0 THEN {0} ELSE WithNext(b, Starts(b)[n - 1])
  BY <1>3
<1>. QED  BY <1>4, <1>5

\* The line starts are in every set that has the first and from each the next.
LEMMA StartsLeast ==
  ASSUME NEW b \in Seq(Chars), NEW X, 0 \in X,
         \A t \in X : check_line(b, t).line = "LINE_OK" => check_line(b, t).cur \in X
  PROVE  LineStarts(b) \subseteq X
<1> DEFINE N == Len(b) + 1
           st == Starts(b)
           bad == {n \in 0 .. N : ~(st[n] \subseteq X)}
<1>1. /\ st[0] = {0} /\ \A n \in 1 .. N : st[n] = WithNext(b, st[n - 1])
      /\ LineStarts(b) = st[N] /\ N \in Nat
  BY StartsDefined
<1> HIDE DEF st, N
<1>2. bad = {}
  <2>1. SUFFICES ASSUME bad # {} PROVE FALSE
    OBVIOUS
  <2>2. bad \subseteq Nat
    BY <1>1
  <2>3. PICK n \in bad : \A m \in bad : n <= m
    BY <2>1, <2>2, MinOfNats
  <2>4. n \in Nat /\ n # 0
    BY <1>1, <2>2, <2>3
  <2>5. st[n - 1] \subseteq X
    BY <1>1, <2>3, <2>4
  <2>6. st[n] = WithNext(b, st[n - 1])
    BY <1>1, <2>3, <2>4
  <2>7. st[n] \subseteq X
    BY <2>5, <2>6 DEF WithNext
  <2>. QED  BY <2>3, <2>7
<1>. QED  BY <1>1, <1>2

\* What was a line start after some rounds is one after all.
LEMMA StartsGrow ==
  ASSUME NEW b \in Seq(Chars), NEW m \in 0 .. Len(b) + 1
  PROVE  Starts(b)[m] \subseteq LineStarts(b)
<1> DEFINE N == Len(b) + 1
           st == Starts(b)
<1>1. /\ \A n \in 1 .. N : st[n] = WithNext(b, st[n - 1])
      /\ LineStarts(b) = st[N] /\ N \in Nat /\ m \in 0 .. N
  BY StartsDefined
<1> HIDE DEF st, N
<1>2. SUFFICES ASSUME NEW t \in st[m] PROVE t \in st[N]
  BY <1>1 DEF st
<1> DEFINE bad == {n \in m .. N : t \notin st[n]}
<1>3. bad = {}
  <2>1. SUFFICES ASSUME bad # {} PROVE FALSE
    OBVIOUS
  <2>2. bad \subseteq Nat
    BY <1>1
  <2>3. PICK n \in bad : \A k \in bad : n <= k
    BY <2>1, <2>2, MinOfNats
  <2>4. n \in m .. N /\ n # m /\ n \in Nat
    BY <1>1, <1>2, <2>2, <2>3
  <2>5. t \in st[n - 1]
    BY <1>1, <2>3, <2>4
  <2>6. st[n] = WithNext(b, st[n - 1])
    BY <1>1, <2>4
  <2>7. t \in st[n]
    BY <2>5, <2>6 DEF WithNext
  <2>. QED  BY <2>3, <2>7
<1>. QED  BY <1>1, <1>3

\* A single call starts a line at the beginning, and after every line it finds:
\* a line start is at least as far as the round that finds it, so the rounds
\* do not run out.
LEMMA StartsClosed ==
  ASSUME NEW b \in Seq(Chars)
  PROVE  /\ 0 \in LineStarts(b)
         /\ \A t \in LineStarts(b) :
              /\ t \in Nat /\ t <= Len(b) + 1
              /\ check_line(b, t).line = "LINE_OK" => check_line(b, t).cur \in LineStarts(b)
<1> DEFINE N == Len(b) + 1
           st == Starts(b)
           X == {t \in 0 .. N : \E m \in 0 .. N : m <= t /\ t \in st[m]}
<1>1. /\ st[0] = {0} /\ \A n \in 1 .. N : st[n] = WithNext(b, st[n - 1])
      /\ N \in Nat /\ Len(b) \in Nat
  BY StartsDefined
<1>2. 0 \in X
  BY <1>1
<1>3. ASSUME NEW t \in X, check_line(b, t).line = "LINE_OK"
      PROVE  check_line(b, t).cur \in X
  <2> DEFINE u == check_line(b, t).cur
  <2>1. t \in Nat /\ t <= N
    OBVIOUS
  <2>2. u \in Nat /\ t + 2 <= u /\ u <= N
    <3>1. /\ check_line(b, t) = AtLineEnd(b, Stop(b, t)) /\ Stop(b, t) \in Nat
          /\ t <= Stop(b, t)
      BY <2>1, StopsFirst DEF check_line
    <3>2. u = Stop(b, t) + 2
      BY <1>3, <3>1 DEF AtLineEnd
    <3>3. u <= N
      BY <2>1, CheckedLine
    <3>. QED  BY <2>1, <3>1, <3>2, <3>3
  <2>3. PICK m \in 0 .. N : m <= t /\ t \in st[m]
    OBVIOUS
  <2> HIDE DEF st
  <2>4. u \in WithNext(b, st[m])
    BY <1>3, <2>3 DEF WithNext
  <2> HIDE DEF u, N
  <2>5. m + 1 \in 1 .. N /\ m + 1 <= u /\ (m + 1) - 1 = m
    BY <1>1, <2>1, <2>2, <2>3
  <2>6. st[m + 1] = WithNext(b, st[m])
    BY <1>1, <2>5
  <2>7. u \in st[m + 1] /\ m + 1 \in 0 .. N /\ u \in 0 .. N
    BY <1>1, <2>2, <2>4, <2>5, <2>6
  <2>. QED  BY <2>5, <2>7 DEF u
<1>4. LineStarts(b) \subseteq X
  <2>1. \A t \in X : check_line(b, t).line = "LINE_OK" => check_line(b, t).cur \in X
    BY <1>3
  <2> HIDE DEF X
  <2>. QED  BY <1>2, <2>1, StartsLeast
<1>5. X \subseteq LineStarts(b)
  BY StartsGrow
<1>. QED
  <2>1. \A t \in X : t \in Nat /\ t <= Len(b) + 1
    BY <1>1
  <2> HIDE DEF X
  <2>. QED  BY <1>2, <1>3, <1>4, <1>5, <2>1

\* More input takes no line start away.
LEMMA StartsStay ==
  ASSUME NEW b \in Seq(Chars), NEW c \in Chars
  PROVE  LineStarts(b) \subseteq LineStarts(Append(b, c))
<1> DEFINE X == LineStarts(b) \cap LineStarts(Append(b, c))
<1>1. Append(b, c) \in Seq(Chars)
  OBVIOUS
<1>2. 0 \in X
  BY <1>1, StartsClosed
<1>3. ASSUME NEW t \in X, check_line(b, t).line = "LINE_OK"
      PROVE  check_line(b, t).cur \in X
  <2>1. t \in Nat /\ t <= Len(b) + 1 /\ check_line(b, t).cur \in LineStarts(b)
    BY <1>3, StartsClosed
  <2>2. check_line(Append(b, c), t) = check_line(b, t)
    BY <1>3, <2>1, LineStays
  <2>3. check_line(Append(b, c), t).cur \in LineStarts(Append(b, c))
    BY <1>1, <1>3, <2>2, StartsClosed
  <2>. QED  BY <2>1, <2>2, <2>3
<1>4. LineStarts(b) \subseteq X
  <2> HIDE DEF X
  <2>. QED  BY <1>2, <1>3, StartsLeast
<1>. QED  BY <1>4

-----------------------------------------------------------------------------
(* The invariant.                                                          *)

\* Nothing has arrived.
LEMMA InitInv == Init => IInv
<1> SUFFICES ASSUME Init PROVE IInv
  OBVIOUS
<1>1. buff \in Seq(Chars) /\ Len(buff) = 0
  BY DEF Init
<1>. QED  BY <1>1 DEF Init, IInv, CursorsInBounds, Skipped

\* What arrives cannot land between the start of the line and the cursor.
LEMMA ArriveInv == ASSUME IInv, Arrive PROVE IInv'
<1>1. PICK c \in Chars : buff' = Append(buff, c)
  BY DEF Arrive
<1>2. /\ buff \in Seq(Chars) /\ buff' \in Seq(Chars) /\ Len(buff') = Len(buff) + 1
      /\ Len(buff) \in Nat
      /\ \A i \in 1 .. Len(buff) : buff'[i] = buff[i]
  BY <1>1 DEF IInv, CursorsInBounds
<1>3. UNCHANGED <<m_start_line, m_check_cur>>
  BY DEF Arrive
<1>4. CursorsInBounds'
  BY <1>2, <1>3 DEF IInv, CursorsInBounds
<1>5. ASSUME NEW i \in m_start_line .. m_check_cur - 1, i < Len(buff) + 1
      PROVE  At(buff', i) \notin {"CR", "LF"}
  <2>1. i < Len(buff) /\ i \in Nat
    BY <1>2, <1>5 DEF IInv, CursorsInBounds
  <2>2. At(buff', i) = At(buff, i)
    BY <1>2, <2>1 DEF At
  <2>. QED  BY <1>5, <2>1, <2>2 DEF IInv, Skipped
<1>6. Skipped'
  BY <1>2, <1>3, <1>5 DEF Skipped, At
<1>. QED  BY <1>3, <1>4, <1>6 DEF IInv

\* A round with a whole line starts the next one at the cursor.
LEMMA RoundOkInv == ASSUME IInv, RoundOk PROVE IInv'
<1> DEFINE l == check_line(buff, m_check_cur)
<1>1. /\ buff' = buff /\ m_check_cur' = l.cur /\ m_start_line' = l.cur
  BY DEF RoundOk
<1>2. l.cur \in Nat /\ l.cur <= Len(buff) + 1 /\ Len(buff) \in Nat /\ buff \in Seq(Chars)
  BY CheckedLine DEF IInv, CursorsInBounds
<1> HIDE DEF l
<1>. QED  BY <1>1, <1>2 DEF IInv, CursorsInBounds, Skipped

\* A round without one leaves the start of the line where it is.
LEMMA RoundEndInv == ASSUME IInv, RoundEnd PROVE IInv'
<1> DEFINE l == check_line(buff, m_check_cur)
<1>1. buff' = buff /\ m_check_cur' = l.cur /\ m_start_line' = m_start_line /\ l.line # "LINE_OK"
  BY DEF RoundEnd
<1>2. /\ l.cur \in Nat /\ m_check_cur <= l.cur /\ l.cur <= Len(buff) + 1
      /\ l.cur = Len(buff) + 1 => m_check_cur = Len(buff) + 1
      /\ \A i \in m_check_cur .. l.cur - 1 : i < Len(buff) => At(buff, i) \notin {"CR", "LF"}
      /\ Len(buff) \in Nat /\ buff \in Seq(Chars)
  BY <1>1, CheckedLine DEF IInv, CursorsInBounds
<1> HIDE DEF l
<1>3. CursorsInBounds'
  BY <1>1, <1>2 DEF IInv, CursorsInBounds
<1>4. ASSUME NEW i \in m_start_line .. l.cur - 1, i < Len(buff)
      PROVE  At(buff, i) \notin {"CR", "LF"}
  <2>1. i \in m_start_line .. m_check_cur - 1 \/ i \in m_check_cur .. l.cur - 1
    BY <1>2, <1>4 DEF IInv
  <2>. QED  BY <1>2, <1>4, <2>1 DEF IInv, Skipped
<1>5. Skipped'
  BY <1>1, <1>4 DEF Skipped, At
<1>. QED  BY <1>1, <1>2, <1>3, <1>5 DEF IInv

\* Every step keeps the invariant.
LEMMA NextInv == IInv /\ [Next]_vars => IInv'
<1> SUFFICES ASSUME IInv, [Next]_vars PROVE IInv'
  OBVIOUS
<1>1. CASE Next
  BY <1>1, ArriveInv, RoundOkInv, RoundEndInv DEF Next
<1>2. CASE UNCHANGED vars
  BY <1>2 DEF vars, IInv, CursorsInBounds, Skipped, At
<1>. QED  BY <1>1, <1>2

\* The invariant holds in every reachable state.
THEOREM Invariance == Spec => []IInv
  BY InitInv, NextInv, PTL DEF Spec

-----------------------------------------------------------------------------
(* The properties.                                                         *)

\* parse_request never reads behind the terminator of its buffer, however long
\* the request is.
THEOREM CursorsCorrect == Spec => []CursorsInBounds
<1>1. IInv => CursorsInBounds
  BY DEF IInv
<1>. QED  BY <1>1, Invariance, PTL

\* However a request is cut into arrivals, no CR and LF is passed over.
THEOREM MissedCorrect == Spec => []NothingMissed
<1>1. IInv => NothingMissed
  BY DEF IInv, Skipped, NothingMissed
<1>. QED  BY <1>1, Invariance, PTL

\* From the start of the line or from the cursor, check_line finds the same.
LEMMA ResumesWell ==
  ASSUME IInv
  PROVE  check_line(buff, m_start_line) = check_line(buff, m_check_cur)
<1> DEFINE ends(cur) == {i \in cur .. Len(buff) - 1 : At(buff, i) \in {"CR", "LF"}}
<1>1. /\ buff \in Seq(Chars) /\ Len(buff) \in Nat
      /\ m_start_line \in Nat /\ m_check_cur \in Nat /\ m_start_line <= m_check_cur
      /\ m_check_cur <= Len(buff) + 1
      /\ m_check_cur = Len(buff) + 1 => m_start_line = m_check_cur
  BY DEF IInv, CursorsInBounds
<1>2. CASE m_check_cur = Len(buff) + 1
  BY <1>1, <1>2
<1>3. CASE m_check_cur <= Len(buff)
  <2>1. \A i \in m_start_line .. m_check_cur - 1 :
          i < Len(buff) => At(buff, i) \notin {"CR", "LF"}
    BY DEF IInv, Skipped
  <2>2. ends(m_start_line) = ends(m_check_cur)
    BY <1>1, <1>3, <2>1
  <2>3. Max({m_start_line, Len(buff)}) = Len(buff) /\ Max({m_check_cur, Len(buff)}) = Len(buff)
    BY <1>1, <1>3, MaxOfTwo
  <2>4. Stop(buff, m_start_line) = Stop(buff, m_check_cur)
    BY <2>2, <2>3 DEF Stop
  <2>. QED  BY <2>4 DEF check_line
<1>. QED  BY <1>1, <1>2, <1>3

\* However a request is cut into arrivals, the parser starts a line only where a
\* single call on what has arrived starts one.
THEOREM ChunkCorrect == Spec => []ChunkInsensitive
<1> DEFINE Inv == m_start_line \in LineStarts(buff)
<1>1. Init => Inv
  <2>1. Init => buff \in Seq(Chars) /\ m_start_line = 0
    BY DEF Init
  <2>. QED  BY <2>1, StartsClosed
<1>2. IInv /\ Inv /\ [Next]_vars => Inv'
  <2> SUFFICES ASSUME IInv, Inv, [Next]_vars PROVE Inv'
    OBVIOUS
  <2>1. buff \in Seq(Chars)
    BY DEF IInv, CursorsInBounds
  <2>2. CASE Arrive
    <3>1. PICK c \in Chars : buff' = Append(buff, c)
      BY <2>2 DEF Arrive
    <3>2. m_start_line' = m_start_line
      BY <2>2 DEF Arrive
    <3>. QED  BY <2>1, <3>1, <3>2, StartsStay
  <2>3. CASE RoundOk
    <3>1. /\ check_line(buff, m_check_cur).line = "LINE_OK" /\ buff' = buff
          /\ m_start_line' = check_line(buff, m_check_cur).cur
      BY <2>3 DEF RoundOk
    <3>2. check_line(buff, m_start_line) = check_line(buff, m_check_cur)
      BY ResumesWell
    <3>. QED  BY <2>1, <3>1, <3>2, StartsClosed
  <2>4. CASE RoundEnd
    BY <2>4 DEF RoundEnd
  <2>5. CASE UNCHANGED vars
    BY <2>5 DEF vars
  <2>. QED  BY <2>2, <2>3, <2>4, <2>5 DEF Next
<1>3. Inv => ChunkInsensitive
  BY DEF ChunkInsensitive
<1>. QED  BY <1>1, <1>2, <1>3, Invariance, PTL DEF Spec
=============================================================================
