-------------------------- MODULE HttpRequestProofs --------------------------
(***************************************************************************)
(* What holds of HttpRequest for every set of routes and headers, those    *)
(* that name a method included, for requests of every length and any       *)
(* number of them read over each other.                                    *)
(***************************************************************************)
EXTENDS HttpRequest, FiniteSetTheorems, SequenceTheorems, WellFoundedInduction, TLAPS

Cells == FirstWords \cup Routes \cup Headers \cup {"SP", "CRLF", "word"}

\* No word behind the first one of a text says anything.
Quiet(t) == \A i \in 2 .. Len(t) : t[i] \notin Telling

\* What the array holds, as far as module Reactor keeps account of it: after
\* plain requests only, a whole request line with a route that ends nothing,
\* and no other word that setting_attrib looks for.
IInv ==
  /\ buff \in Seq(Cells)
  /\ old \in Methods \cup {"garbage", "mixed"}
  /\ old = "garbage" => buff = << >>
  /\ old # "mixed" => Quiet(buff)
  /\ old \in Methods =>
       /\ LineEnds(buff) # {} /\ buff[1] = old
       /\ HasRoute(buff) /\ RouteOf(buff) \notin {"?", "none"}
       /\ outcome \in Outcomes(buff)

\* t begins with a whole request line.
Starts(t, m, r) ==
  /\ t[1] = m /\ t[2] = "SP"
  /\ r = "none" => Len(t) >= 4 /\ t[3] = "SP" /\ t[4] = "CRLF"
  /\ r # "none" => Len(t) >= 5 /\ t[3] = r /\ t[4] = "SP" /\ t[5] = "CRLF"

-----------------------------------------------------------------------------
(* Least and greatest numbers.                                             *)

\* A least number of a set is its minimum, a greatest its maximum.
LEMMA MinIs ==
  ASSUME NEW S, S \subseteq Int, NEW x \in S, \A y \in S : x <= y
  PROVE  Min(S) = x
<1>1. Min(S) \in S /\ \A y \in S : Min(S) <= y
  BY DEF Min
<1>2. Min(S) <= x /\ x <= Min(S)
  BY <1>1
<1>3. Min(S) \in Int /\ x \in Int
  BY <1>1
<1>. QED  BY <1>2, <1>3

LEMMA MaxIs ==
  ASSUME NEW S, S \subseteq Int, NEW x \in S, \A y \in S : x >= y
  PROVE  Max(S) = x
<1>1. Max(S) \in S /\ \A y \in S : Max(S) >= y
  BY DEF Max
<1>2. Max(S) >= x /\ x >= Max(S)
  BY <1>1
<1>3. Max(S) \in Int /\ x \in Int
  BY <1>1
<1>. QED  BY <1>2, <1>3

\* A set of numbers up to n has a greatest one.
LEMMA MaxOfBounded ==
  ASSUME NEW n \in Nat, NEW S, S \subseteq 0 .. n, S # {}
  PROVE  Max(S) \in S /\ \A y \in S : Max(S) >= y
<1> DEFINE R == OpToRel(<, Nat)
           D == {n - x : x \in S}
<1>1. IsWellFoundedOn(R, Nat)
  BY NatLessThanWellFounded
<1>2. \A a, b \in Nat : a < b => <<a, b>> \in R
  BY DEF OpToRel
<1>3. D \subseteq Nat /\ D # {}
  <2>1. \A x \in S : x \in 0 .. n
    OBVIOUS
  <2>2. \A x \in S : n - x \in Nat
    BY <2>1
  <2>. QED  BY <2>2
<1> HIDE DEF R, D
<1>4. PICK d \in D : \A e \in D : ~ (<<e, d>> \in R)
  BY <1>1, <1>3, WFMin
<1>5. PICK x \in S : d = n - x
  BY DEF D
<1>6. ASSUME NEW y \in S PROVE x >= y
  <2>1. n - y \in D
    BY DEF D
  <2>2. ~(n - y < d)
    BY <1>2, <1>3, <1>4, <2>1, Zenon
  <2>. QED  BY <1>5, <2>2
<1>. QED  BY <1>6 DEF Max

-----------------------------------------------------------------------------
(* Lines.                                                                  *)

\* The words of a line lie between the start of the text and its end.
LEMMA LineFacts ==
  ASSUME NEW t \in Seq(Cells), NEW e \in Split(t)
  PROVE  /\ LineStart(t, e) \in Nat \ {0}
         /\ e \in 1 .. Len(t) /\ t[e] = "CRLF"
<1>1. Len(t) \in Nat /\ Split(t) \subseteq 1 .. Len(t) /\ t[e] = "CRLF"
  BY DEF Split, LineEnds
<1> DEFINE S == {0} \cup {i \in Split(t) : i < e}
<1>2. S \subseteq 0 .. Len(t) /\ S # {}
  BY <1>1
<1>3. Max(S) \in S
  BY <1>1, <1>2, MaxOfBounded
<1>4. Max(S) \in Nat
  BY <1>1, <1>2, <1>3
<1>. QED  BY <1>1, <1>4 DEF LineStart

\* The first of a nonempty set of methods, in the order of setting_attrib, is
\* one of them.
LEMMA FirstOfFacts ==
  ASSUME NEW ms, ms \subseteq Methods, ms # {}
  PROVE  FirstOf(ms) \in ms
<1>1. CASE "GET" \in ms
  BY <1>1 DEF FirstOf
<1>2. CASE "GET" \notin ms /\ "POST" \in ms
  BY <1>2 DEF FirstOf
<1>3. CASE ms \cap {"GET", "POST"} = {} /\ "PUT" \in ms
  BY <1>3 DEF FirstOf
<1>4. CASE ms \cap {"GET", "POST", "PUT"} = {} /\ "DELETE" \in ms
  BY <1>4 DEF FirstOf
<1>5. CASE ms \cap {"GET", "POST", "PUT", "DELETE"} = {}
  <2>1. ms = {"HEAD"}
    BY <1>5 DEF Methods
  <2>. QED  BY <2>1 DEF FirstOf
<1>. QED  BY <1>1, <1>2, <1>3, <1>4, <1>5

\* Whatever the array holds, the parser takes one of the five methods.
LEMMA MethodsRange ==
  ASSUME NEW t \in Seq(Cells)
  PROVE  MethodsOf(t) \subseteq Methods
<1> DEFINE naming == {e \in Split(t) : Names(t, e) # {}}
<1>1. CASE naming = {}
  BY <1>1 DEF MethodsOf
<1>2. CASE naming # {}
  <2>1. Len(t) \in Nat /\ naming \subseteq 0 .. Len(t)
    BY DEF Split, LineEnds
  <2>2. Max(naming) \in naming
    BY <1>2, <2>1, MaxOfBounded
  <2>3. FirstOf(Names(t, Max(naming))) \in Methods
    BY <2>2, FirstOfFacts DEF Names
  <2>4. MethodsOf(t) = {FirstOf(Names(t, Max(naming)))}
    BY <1>2 DEF MethodsOf
  <2>. QED  BY <2>3, <2>4
<1>. QED  BY <1>1, <1>2

\* A text with a line, whose first word is a method and no other word says
\* anything, has that method, and no Content- line.
LEMMA MethodOfFirst ==
  ASSUME NEW t \in Seq(Cells), Quiet(t), Split(t) # {}, t[1] \in Methods
  PROVE  MethodsOf(t) = {t[1]} /\ Described(t) = {}
<1> DEFINE naming == {e \in Split(t) : Names(t, e) # {}}
<1>1. Len(t) \in Nat /\ Split(t) \subseteq 1 .. Len(t) /\ naming \subseteq 0 .. Len(t)
  BY DEF Split, LineEnds
<1>0. Methods \subseteq Telling
  BY DEF Telling
<1>2. ASSUME NEW e \in Split(t)
      PROVE  Names(t, e) \subseteq {t[1]} /\ WordsOf(t, e) \cap {"Content: x", "Content:"} = {}
  <2>1. \A i \in LineStart(t, e) .. e - 1 : i \in 1 .. Len(t)
    BY LineFacts
  <2>2. \A i \in 1 .. Len(t) : t[i] \in Telling => t[i] = t[1]
    BY <1>1 DEF Quiet
  <2>3. \A w \in WordsOf(t, e) : w \in Telling => w = t[1]
    BY <2>1, <2>2 DEF WordsOf
  <2>4. {"Content: x", "Content:"} \subseteq Telling /\ {"Content: x", "Content:"} \cap Methods = {}
    BY DEF Telling, Methods
  <2>. QED  BY <1>0, <2>3, <2>4 DEF Names
<1>3. naming # {}
  <2>1. PICK e \in Split(t) : \A f \in Split(t) : e <= f
    <3> DEFINE D == {Len(t) - f : f \in Split(t)}
    <3>1. D \subseteq 0 .. Len(t) /\ D # {}
      BY <1>1
    <3>2. Max(D) \in D /\ \A d \in D : Max(D) >= d
      BY <1>1, <3>1, MaxOfBounded
    <3>3. PICK e \in Split(t) : Max(D) = Len(t) - e
      BY <3>2
    <3>4. \A f \in Split(t) : Len(t) - e >= Len(t) - f
      BY <3>2, <3>3
    <3>. QED  BY <1>1, <3>4
  <2>2. {0} \cup {i \in Split(t) : i < e} = {0}
    BY <1>1, <2>1
  <2>3. LineStart(t, e) = 1
    <3>1. Max({0}) = 0
      <4>1. {0} \subseteq Int /\ 0 \in {0} /\ \A y \in {0} : 0 >= y
        OBVIOUS
      <4>. QED  BY <4>1, MaxIs
    <3>2. LineStart(t, e) = 1 + Max({0})
      BY <2>2, Zenon DEF LineStart
    <3>. QED  BY <3>1, <3>2
  <2>4. e \in 1 .. Len(t) /\ t[e] = "CRLF"
    BY LineFacts
  <2>5. e # 1
    BY <2>4 DEF Methods
  <2>6. 1 \in LineStart(t, e) .. e - 1
    BY <2>3, <2>4, <2>5
  <2>7. t[1] \in Names(t, e)
    BY <2>6 DEF Names, WordsOf
  <2>. QED  BY <2>7
<1>4. Max(naming) \in naming
  BY <1>1, <1>3, MaxOfBounded
<1>5. Names(t, Max(naming)) = {t[1]}
  BY <1>2, <1>4
<1>6. FirstOf({t[1]}) = t[1]
  <2>1. {t[1]} \subseteq Methods /\ {t[1]} # {}
    OBVIOUS
  <2>2. FirstOf({t[1]}) \in {t[1]}
    BY <2>1, FirstOfFacts
  <2>. QED  BY <2>2
<1>7. MethodsOf(t) = {t[1]}
  BY <1>3, <1>5, <1>6 DEF MethodsOf
<1>8. Described(t) = {}
  BY <1>2 DEF Described
<1>. QED  BY <1>7, <1>8

\* A set of two has two members.
LEMMA TwoMembers ==
  ASSUME NEW a, NEW b, a # b
  PROVE  Cardinality({a, b}) = 2
<1>1. IsFiniteSet({b}) /\ Cardinality({b}) = 1
  BY FS_Singleton
<1>2. Cardinality({b} \cup {a}) = Cardinality({b}) + 1
  BY <1>1, FS_AddElement
<1>3. {b} \cup {a} = {a, b}
  OBVIOUS
<1>. QED  BY <1>1, <1>2, <1>3

\* The route of a text that begins with a whole request line is that line's.
LEMMA RouteOfLine ==
  ASSUME NEW t \in Seq(Cells), NEW m \in Methods \cup {"word"}, NEW r \in Methods \cup {"/", "page", "?", "none"},
         Starts(t, m, r)
  PROVE  /\ HasRoute(t) /\ RouteOf(t) = r
         /\ LineEnds(t) # {}
<1>1. m \notin {"SP", "CRLF"} /\ r \notin {"SP", "CRLF"}
  BY DEF Methods
<1>2. PICK last \in {4, 5} :
        /\ last = 4 <=> r = "none"
        /\ last <= Len(t)
        /\ t[1] = m /\ t[2] = "SP" /\ t[last - 1] = "SP" /\ t[last] = "CRLF"
        /\ last = 5 => t[3] = r
  <2>1. CASE r = "none"
    <3>1. Len(t) \in Nat /\ Len(t) >= 4 /\ t[1] = m /\ t[2] = "SP" /\ t[3] = "SP" /\ t[4] = "CRLF"
      BY <2>1 DEF Starts
    <3>. QED  BY <2>1, <3>1
  <2>2. CASE r # "none"
    <3>1. /\ Len(t) \in Nat /\ Len(t) >= 5
          /\ t[1] = m /\ t[2] = "SP" /\ t[3] = r /\ t[4] = "SP" /\ t[5] = "CRLF"
      BY <2>2 DEF Starts
    <3>. QED  BY <2>2, <3>1
  <2>. QED  BY <2>1, <2>2
<1>3. \A i \in 1 .. last - 1 : i \in {1, 2, 3, last - 1}
  BY <1>1
<1>4. \A i \in 1 .. last - 1 : t[i] # "CRLF"
  BY <1>1, <1>2, <1>3
<1>5. last \in Split(t) /\ \A e \in Split(t) : last <= e
  BY <1>1, <1>2, <1>4 DEF Split, LineEnds
<1>6. Min(Split(t)) = last
  <2>1. Split(t) \subseteq Int
    BY <1>2 DEF Split, LineEnds
  <2>. QED  BY <1>5, <2>1, MinIs
<1>7. Spaces(t) = {2, last - 1}
  <2>1. Spaces(t) = {i \in 1 .. last - 1 : t[i] = "SP"}
    BY <1>6 DEF Spaces
  <2>2. \A i \in 1 .. last - 1 : t[i] = "SP" <=> i \in {2, last - 1}
    BY <1>1, <1>2, <1>3
  <2>3. {2, last - 1} \subseteq 1 .. last - 1
    BY <1>1
  <2>. QED  BY <2>1, <2>2, <2>3
<1>8. Min(Spaces(t)) = 2
  <2>1. {2, last - 1} \subseteq Int /\ \A y \in {2, last - 1} : 2 <= y
    BY <1>1
  <2>. QED  BY <1>7, <2>1, MinIs
<1>9. Min(Spaces(t) \ {2}) = last - 1
  <2>1. Spaces(t) \ {2} = {last - 1} /\ last - 1 \in Int
    BY <1>1, <1>7
  <2>2. \A y \in {last - 1} : last - 1 <= y
    BY <1>1
  <2>. QED  BY <2>1, <2>2, MinIs
<1>10. HasRoute(t)
  <2>1. Cardinality({2, last - 1}) = 2
    <3>1. 2 # last - 1
      BY <1>1
    <3>. QED  BY <3>1, TwoMembers
  <2>. QED  BY <1>5, <1>7, <2>1 DEF HasRoute
<1>11. RouteOf(t) = IF last - 1 = 3 THEN "none" ELSE t[3]
  BY <1>8, <1>9 DEF RouteOf
<1>12. RouteOf(t) = r
  BY <1>1, <1>2, <1>11
<1>. QED  BY <1>5, <1>10, <1>12 DEF Split

\* What set_path makes of a method and a route.
LEMMA SetPathFacts ==
  ASSUME NEW m \in Methods, NEW r
  PROVE  \/ SetPath(m, r).method = m
         \/ SetPath(m, r).method = "aborted" /\ r = "none"
<1>1. CASE m \notin {"GET", "PUT"} \/ r = "/"
  BY <1>1 DEF SetPath
<1>2. CASE m \in {"GET", "PUT"} /\ r = "none"
  BY <1>2 DEF SetPath
<1>3. CASE m \in {"GET", "PUT"} /\ r \notin {"/", "none"}
  BY <1>3 DEF SetPath
<1>. QED  BY <1>1, <1>2, <1>3

\* What the constructor and set_path come to: a method, or one of two ends.
LEMMA OutcomeRange ==
  ASSUME NEW t \in Seq(Cells), NEW o \in Outcomes(t)
  PROVE  \/ o.method = "undefined" /\ (~HasRoute(t) \/ RouteOf(t) = "?" \/ Described(t) # {})
         \/ o.method = "aborted" /\ (RouteOf(t) = "none" \/ Described(t) # {})
         \/ o.method \in MethodsOf(t) /\ o = SetPath(o.method, RouteOf(t)) /\ HasRoute(t)
<1>1. CASE ~HasRoute(t)
  <2>1. o \in {Undefined}
    BY <1>1, Zenon DEF Outcomes
  <2>2. o.method = "undefined"
    BY <2>1 DEF Undefined
  <2>. QED  BY <1>1, <2>2
<1>2. CASE HasRoute(t) /\ o = Undefined /\ (RouteOf(t) = "?" \/ Described(t) # {})
  BY <1>2 DEF Undefined
<1>3. CASE o = [method |-> "aborted", route |-> "none"] /\ Throws(t)
  BY <1>3 DEF Throws
<1>4. CASE HasRoute(t) /\ o \in {SetPath(m, RouteOf(t)) : m \in MethodsOf(t)}
  <2>1. PICK m \in MethodsOf(t) : o = SetPath(m, RouteOf(t))
    BY <1>4
  <2>2. m \in Methods
    BY MethodsRange
  <2>. QED  BY <1>4, <2>1, <2>2, SetPathFacts
<1>. QED  BY <1>1, <1>2, <1>3, <1>4 DEF Outcomes

-----------------------------------------------------------------------------
(* What can arrive.                                                        *)

\* A request line, cell by cell.
LEMMA RequestLineFacts ==
  ASSUME NEW m \in FirstWords, NEW r \in Routes
  PROVE  /\ m \notin {"SP", "CRLF"} /\ r \notin {"SP", "CRLF"}
         /\ RequestLine(m, r) \in Seq(Cells) /\ Starts(RequestLine(m, r), m, r)
         /\ Len(RequestLine(m, r)) = IF r = "none" THEN 4 ELSE 5
<1> DEFINE line == RequestLine(m, r)
           front == <<m, "SP">> \o (IF r = "none" THEN << >> ELSE <<r>>)
           back == <<"SP", "CRLF">>
<1>1. m \notin {"SP", "CRLF"} /\ r \notin {"SP", "CRLF"}
  BY ConstantsOK DEF Methods
<1>2. m \in Cells /\ r \in Cells /\ "SP" \in Cells /\ "CRLF" \in Cells
  BY DEF Cells
<1>3. back \in Seq(Cells) /\ Len(back) = 2 /\ back[1] = "SP" /\ back[2] = "CRLF"
  BY <1>2
<1>4. /\ front \in Seq(Cells) /\ Len(front) = IF r = "none" THEN 2 ELSE 3
      /\ front[1] = m /\ front[2] = "SP" /\ (r # "none" => front[3] = r)
  <2>1. CASE r = "none"
    <3> DEFINE x == <<m, "SP">> \o << >>
    <3>1. x \in Seq(Cells) /\ Len(x) = 2 /\ x[1] = m /\ x[2] = "SP"
      BY <1>2
    <3>2. front = x
      BY <2>1, Zenon
    <3> HIDE DEF x, front
    <3>. QED  BY <2>1, <3>1, <3>2
  <2>2. CASE r # "none"
    <3> DEFINE x == <<m, "SP">> \o <<r>>
    <3>1. x \in Seq(Cells) /\ Len(x) = 3 /\ x[1] = m /\ x[2] = "SP" /\ x[3] = r
      BY <1>2
    <3>2. front = x
      BY <2>2, Zenon
    <3> HIDE DEF x, front
    <3>. QED  BY <2>2, <3>1, <3>2
  <2>. QED  BY <2>1, <2>2, Zenon
<1>5. line = front \o back
  BY Zenon DEF RequestLine
<1> HIDE DEF line, front, back
<1>6. /\ line \in Seq(Cells) /\ Len(line) = Len(front) + 2
      /\ \A i \in 1 .. Len(front) + 2 :
           line[i] = IF i <= Len(front) THEN front[i] ELSE back[i - Len(front)]
  <2>1. front \in Seq(Cells) /\ back \in Seq(Cells)
    BY <1>3, <1>4
  <2>2. /\ line \in Seq(Cells) /\ Len(line) = Len(front) + Len(back)
        /\ \A i \in 1 .. Len(front) + Len(back) :
             line[i] = IF i <= Len(front) THEN front[i] ELSE back[i - Len(front)]
    BY <1>5, <2>1, ConcatProperties
  <2>. QED  BY <1>3, <2>2
<1>7. CASE r = "none"
  <2>1. /\ Len(line) = 4
        /\ line[1] = m /\ line[2] = "SP" /\ line[3] = "SP" /\ line[4] = "CRLF"
    BY <1>3, <1>4, <1>6, <1>7
  <2>. QED  BY <1>1, <1>6, <1>7, <2>1 DEF Starts, line
<1>8. CASE r # "none"
  <2>1. /\ Len(line) = 5
        /\ line[1] = m /\ line[2] = "SP" /\ line[3] = r /\ line[4] = "SP" /\ line[5] = "CRLF"
    BY <1>3, <1>4, <1>6, <1>8
  <2>2. Starts(line, m, r)
    BY <1>8, <2>1 DEF Starts
  <2>. QED  BY <1>1, <1>6, <1>8, <2>1, <2>2 DEF line
<1>. QED  BY <1>7, <1>8

\* The header lines are made of cells.
LEMMA HeaderTextFacts ==
  ASSUME NEW hs \in HeaderLists
  PROVE  HeaderText(hs) \in Seq(Cells)
<1>1. PICK n \in 0 .. MaxHeaders : hs \in [1 .. n -> Headers]
  BY DEF HeaderLists
<1>0. n \in Nat
  <2>1. MaxHeaders \in Nat
    BY ConstantsOK, Zenon
  <2>. QED  BY <2>1
<1>2. n \in Nat /\ Len(hs) = n /\ \A k \in 1 .. n : hs[k] \in Headers
  BY <1>0, <1>1
<1>3. ASSUME NEW i \in 1 .. 2 * n
      PROVE  (IF i % 2 = 0 THEN "CRLF" ELSE hs[(i + 1) \div 2]) \in Cells
  <2>1. (i + 1) \div 2 \in 1 .. n
    BY <1>2
  <2>2. hs[(i + 1) \div 2] \in Headers
    BY <1>2, <2>1
  <2>. QED  BY <2>2 DEF Cells
<1>4. HeaderText(hs) \in [1 .. 2 * n -> Cells]
  BY <1>2, <1>3 DEF HeaderText
<1>. QED  BY <1>2, <1>4

\* What has arrived of a request begins with its first line, or has no line.
LEMMA ArrivalFacts ==
  ASSUME NEW t \in Texts, NEW new, NEW n \in 0 .. Len(t), new = SubSeq(t, 1, n)
  PROVE  /\ t \in Seq(Cells) /\ new \in Seq(Cells)
         /\ \E m \in FirstWords, r \in Routes :
              /\ Starts(t, m, r)
              /\ LineEnds(new) # {} => Starts(new, m, r)
<1>1. PICK m \in FirstWords, r \in Routes, hs \in HeaderLists :
        t = RequestLine(m, r) \o HeaderText(hs) \o <<"CRLF">>
  BY DEF Texts
<1> DEFINE first == RequestLine(m, r)
           more == HeaderText(hs) \o <<"CRLF">>
<1>2. /\ m \notin {"SP", "CRLF"} /\ r \notin {"SP", "CRLF"}
      /\ first \in Seq(Cells) /\ Starts(first, m, r)
      /\ Len(first) = IF r = "none" THEN 4 ELSE 5
  BY RequestLineFacts
<1>3. HeaderText(hs) \in Seq(Cells) /\ <<"CRLF">> \in Seq(Cells)
  BY HeaderTextFacts DEF Cells
<1>4. more \in Seq(Cells) /\ t = first \o more
  BY <1>1, <1>2, <1>3
<1> HIDE DEF first, more
<1>5. /\ t \in Seq(Cells) /\ Len(t) >= Len(first) /\ Len(t) \in Nat
      /\ \A i \in 1 .. Len(first) : t[i] = first[i]
  <2>1. first \in Seq(Cells)
    BY <1>2
  <2>2. Len(first) \in Nat /\ Len(more) \in Nat
    BY <1>4, <2>1
  <2>3. first \o more \in Seq(Cells) /\ Len(first \o more) = Len(first) + Len(more)
    BY <1>4, <2>1, ConcatProperties
  <2>4. \A i \in 1 .. Len(first) + Len(more) :
          (first \o more)[i] = IF i <= Len(first) THEN first[i] ELSE more[i - Len(first)]
    BY <1>4, <2>1, ConcatProperties
  <2>. QED  BY <1>4, <2>2, <2>3, <2>4
<1>6. /\ new \in Seq(Cells) /\ Len(new) = n /\ n \in Nat
      /\ \A i \in 1 .. n : new[i] = t[i]
  BY <1>5
<1>7. CASE r = "none"
  <2>1. t[1] = m /\ t[2] = "SP" /\ t[3] = "SP" /\ t[4] = "CRLF" /\ Len(t) >= 4
    BY <1>2, <1>5, <1>7 DEF Starts
  <2>2. Starts(t, m, r)
    BY <1>7, <2>1 DEF Starts
  <2>3. CASE n >= 4
    <3>1. Starts(new, m, r)
      BY <1>6, <1>7, <2>1, <2>3 DEF Starts
    <3>. QED  BY <1>5, <1>6, <2>2, <3>1
  <2>4. CASE n < 4
    <3>1. \A i \in 1 .. n : i \in {1, 2, 3}
      BY <1>6, <2>4
    <3>2. LineEnds(new) = {}
      BY <1>2, <1>6, <2>1, <3>1 DEF LineEnds
    <3>. QED  BY <1>5, <1>6, <2>2, <3>2
  <2>. QED  BY <1>6, <2>3, <2>4
<1>8. CASE r # "none"
  <2>1. /\ t[1] = m /\ t[2] = "SP" /\ t[3] = r /\ t[4] = "SP" /\ t[5] = "CRLF"
        /\ Len(t) >= 5
    BY <1>2, <1>5, <1>8 DEF Starts
  <2>2. Starts(t, m, r)
    BY <1>8, <2>1 DEF Starts
  <2>3. CASE n >= 5
    <3>1. Starts(new, m, r)
      BY <1>6, <1>8, <2>1, <2>3 DEF Starts
    <3>. QED  BY <1>5, <1>6, <2>2, <3>1
  <2>4. CASE n < 5
    <3>1. \A i \in 1 .. n : i \in {1, 2, 3, 4}
      BY <1>6, <2>4
    <3>2. LineEnds(new) = {}
      BY <1>2, <1>6, <2>1, <3>1 DEF LineEnds
    <3>. QED  BY <1>5, <1>6, <2>2, <3>2
  <2>. QED  BY <1>6, <2>3, <2>4
<1>. QED  BY <1>7, <1>8

\* A text that begins with a whole line keeps that line in front of any other.
LEMMA FirstLineStays ==
  ASSUME NEW a \in Seq(Cells), NEW b \in Seq(Cells), NEW m \in FirstWords, NEW r \in Routes,
         Starts(a, m, r)
  PROVE  /\ a \o b \in Seq(Cells) /\ Starts(a \o b, m, r)
         /\ HasRoute(a) /\ HasRoute(a \o b)
         /\ RouteOf(a) = r /\ RouteOf(a \o b) = r
         /\ LineEnds(a) # {} /\ LineEnds(a \o b) # {}
<1> DEFINE t == a \o b
<1>1. /\ t \in Seq(Cells) /\ Len(t) = Len(a) + Len(b) /\ Len(a) \in Nat /\ Len(b) \in Nat
      /\ \A i \in 1 .. Len(a) : t[i] = a[i]
  OBVIOUS
<1> HIDE DEF t
<1>2. Starts(t, m, r)
  <2>1. CASE r = "none"
    <3>1. Len(a) >= 4
      BY <2>1 DEF Starts
    <3>. QED  BY <1>1, <2>1, <3>1 DEF Starts
  <2>2. CASE r # "none"
    <3>1. /\ Len(a) >= 5 /\ a[1] = m /\ a[2] = "SP" /\ a[3] = r /\ a[4] = "SP" /\ a[5] = "CRLF"
      BY <2>2 DEF Starts
    <3>2. t[1] = m /\ t[2] = "SP" /\ t[3] = r /\ t[4] = "SP" /\ t[5] = "CRLF"
      BY <1>1, <3>1
    <3>3. Len(t) >= 5
      BY <1>1, <3>1
    <3>. QED  BY <2>2, <3>2, <3>3 DEF Starts
  <2>. QED  BY <2>1, <2>2
<1>3. m \in Methods \cup {"word"} /\ r \in Methods \cup {"/", "page", "?", "none"}
  BY ConstantsOK
<1>. QED  BY <1>1, <1>2, <1>3, RouteOfLine DEF t

-----------------------------------------------------------------------------
(* What a read() leaves in the array.                                      *)

\* The old text behind its first word.
Back == IF buff = << >> THEN << >> ELSE Tail(buff)

\* Every word that can stand at a junction is a cell.
LEMMA WordFacts ==
  /\ \A w \in Words : w \in Cells
  /\ \A w \in Cells : EndOf(w) \subseteq Cells /\ (w \notin Telling => EndOf(w) \cap Telling = {})
<1>1. \A w \in Words : w \in Cells
  BY DEF Words, Cells
<1>2. "word" \in Cells /\ "word" \notin Telling
  BY DEF Cells, Telling, Methods
<1>. QED  BY <1>1, <1>2 DEF EndOf

\* What stays of the old text is made of cells, and says nothing as long as
\* plain requests only have been read.
LEMMA BackFacts ==
  ASSUME IInv
  PROVE  /\ Back \in Seq(Cells)
         /\ old # "mixed" => \A i \in 1 .. Len(Back) : Back[i] \notin Telling
<1>1. CASE buff = << >>
  BY <1>1 DEF Back
<1>2. CASE buff # << >>
  <2>1. /\ buff \in Seq(Cells) /\ Back \in Seq(Cells)
        /\ Len(Back) = Len(buff) - 1 /\ Len(Back) \in Nat
        /\ \A i \in 1 .. Len(Back) : Back[i] = buff[i + 1]
    BY <1>2 DEF IInv, Back
  <2>2. ASSUME old # "mixed", NEW i \in 1 .. Len(Back) PROVE Back[i] \notin Telling
    <3>1. i + 1 \in 2 .. Len(buff) /\ Back[i] = buff[i + 1]
      BY <2>1
    <3>. QED  BY <2>2, <3>1 DEF IInv, Quiet
  <2>. QED  BY <2>1, <2>2
<1>. QED  BY <1>1, <1>2

\* The ends of a text are cut from its cells.
LEMMA SuffixFacts ==
  ASSUME NEW t \in Seq(Cells), NEW k \in 1 .. Len(t) + 1
  PROVE  /\ SubSeq(t, k, Len(t)) \in Seq(Cells)
         /\ \A i \in 1 .. Len(SubSeq(t, k, Len(t))) : \E j \in 1 .. Len(t) : SubSeq(t, k, Len(t))[i] = t[j]
<1> DEFINE u == SubSeq(t, k, Len(t))
<1>1. /\ u \in Seq(Cells) /\ Len(u) = Len(t) - k + 1 /\ Len(t) \in Nat
      /\ \A i \in 1 .. Len(u) : u[i] = t[k + i - 1]
  OBVIOUS
<1> HIDE DEF u
<1>2. \A i \in 1 .. Len(u) : k + i - 1 \in 1 .. Len(t)
  BY <1>1
<1>. QED  BY <1>1, <1>2 DEF u

\* Cut within a word as well, an end of a text that says nothing says nothing.
LEMMA RemainderFacts ==
  ASSUME NEW t \in Seq(Cells), NEW u \in Remainders(t)
  PROVE  /\ u \in Seq(Cells)
         /\ (\A i \in 1 .. Len(t) : t[i] \notin Telling) => \A i \in 1 .. Len(u) : u[i] \notin Telling
<1>1. CASE u \in Suffixes(t)
  <2>1. PICK k \in 1 .. Len(t) + 1 : u = SubSeq(t, k, Len(t))
    BY <1>1 DEF Suffixes
  <2>2. u \in Seq(Cells) /\ \A i \in 1 .. Len(u) : \E j \in 1 .. Len(t) : u[i] = t[j]
    BY <2>1, SuffixFacts
  <2>. QED  BY <2>2
<1>2. CASE u \notin Suffixes(t)
  <2>0. PICK i \in 1 .. Len(t) : \E w \in EndOf(t[i]) : u = <<w>> \o SubSeq(t, i + 1, Len(t))
    BY <1>2 DEF Remainders
  <2>1. PICK w \in EndOf(t[i]) : u = <<w>> \o SubSeq(t, i + 1, Len(t))
    BY <2>0
  <2> DEFINE v == SubSeq(t, i + 1, Len(t))
  <2>2. i + 1 \in 1 .. Len(t) + 1
    OBVIOUS
  <2>3. v \in Seq(Cells) /\ \A k \in 1 .. Len(v) : \E j \in 1 .. Len(t) : v[k] = t[j]
    BY <2>2, SuffixFacts
  <2>4. w \in Cells /\ (t[i] \notin Telling => w \notin Telling)
    <3>1. t[i] \in Cells
      OBVIOUS
    <3>. QED  BY <2>1, <3>1, WordFacts
  <2>5. u = <<w>> \o v
    BY <2>1
  <2> HIDE DEF v
  <2>6. /\ u \in Seq(Cells) /\ Len(u) = Len(v) + 1 /\ Len(v) \in Nat
        /\ u[1] = w /\ \A k \in 2 .. Len(u) : u[k] = v[k - 1]
    BY <2>3, <2>4, <2>5
  <2>7. ASSUME \A j \in 1 .. Len(t) : t[j] \notin Telling, NEW k \in 1 .. Len(u)
        PROVE  u[k] \notin Telling
    <3>1. CASE k = 1
      BY <2>4, <2>6, <2>7, <3>1
    <3>2. CASE k # 1
      <4>1. k \in 2 .. Len(u) /\ k - 1 \in 1 .. Len(v)
        BY <2>6, <3>2
      <4>. QED  BY <2>3, <2>6, <2>7, <4>1
    <3>. QED  BY <3>1, <3>2
  <2>. QED  BY <2>6, <2>7
<1>. QED  BY <1>1, <1>2

\* A whole text is a part of itself: its facts.
LEMMA TextFacts ==
  ASSUME NEW t \in Texts
  PROVE  t \in Seq(Cells) /\ \E m \in FirstWords, r \in Routes : Starts(t, m, r)
<1>1. PICK m \in FirstWords, r \in Routes, hs \in HeaderLists :
        t = RequestLine(m, r) \o HeaderText(hs) \o <<"CRLF">>
  BY DEF Texts
<1>2. RequestLine(m, r) \in Seq(Cells) /\ HeaderText(hs) \in Seq(Cells) /\ <<"CRLF">> \in Seq(Cells)
  BY RequestLineFacts, HeaderTextFacts DEF Cells
<1>3. t \in Seq(Cells)
  BY <1>1, <1>2
<1>4. Len(t) \in Nat /\ 0 \in 0 .. Len(t)
  BY <1>3
<1>5. \E a \in FirstWords, b \in Routes : Starts(t, a, b)
  BY <1>4, ArrivalFacts
<1>. QED  BY <1>3, <1>5

\* A request of a kind of its own is plain.
LEMMA KindFacts ==
  ASSUME NEW new \in Texts
  PROVE  /\ KindOf(new) \in Kinds
         /\ KindOf(new) \in Methods =>
              KindOf(new) = new[1] /\ RouteOf(new) \notin {"?", "none"} /\ Quiet(new)
<1>1. PICK m \in FirstWords, r \in Routes : new \in Seq(Cells) /\ Starts(new, m, r)
  BY TextFacts
<1>2. new[1] = m /\ Len(new) \in Nat /\ Len(new) >= 4 /\ m \in Methods \cup {"word"}
  BY <1>1, ConstantsOK DEF Starts
<1>3. "OTHER" \notin Methods /\ "word" \notin Telling
  BY DEF Methods, Telling
<1>4. CASE RouteOf(new) \notin {"?", "none"} /\ \A i \in 1 .. Len(new) : new[i] \in Telling <=> i = 1
  <2>1. KindOf(new) = m
    BY <1>2, <1>4 DEF KindOf
  <2>2. m \in Telling /\ Quiet(new)
    BY <1>2, <1>4 DEF Quiet
  <2>3. m \in Methods
    BY <1>2, <1>3, <2>2
  <2>. QED  BY <1>2, <1>4, <2>1, <2>2, <2>3 DEF Kinds
<1>5. CASE ~(RouteOf(new) \notin {"?", "none"} /\ \A i \in 1 .. Len(new) : new[i] \in Telling <=> i = 1)
  <2>1. KindOf(new) = "OTHER"
    BY <1>5, Zenon DEF KindOf
  <2>. QED  BY <1>3, <2>1 DEF Kinds
<1>. QED  BY <1>4, <1>5

\* A whole request over the old text: its first line is that of the array, and
\* a plain one after plain ones leaves nothing that says anything.
LEMMA WholeOver ==
  ASSUME IInv, NEW new \in Texts, NEW t \in Overlaid(new, "whole")
  PROVE  /\ t \in Seq(Cells) /\ LineEnds(t) # {} /\ t[1] = new[1]
         /\ HasRoute(t) /\ RouteOf(t) = RouteOf(new)
         /\ old # "mixed" /\ Quiet(new) => Quiet(t)
<1>1. PICK m \in FirstWords, r \in Routes : new \in Seq(Cells) /\ Starts(new, m, r)
  BY TextFacts
<1>2. PICK rest \in Remainders(Back) : t = new \o rest
  <2>1. Overlaid(new, "whole") = {u \in {new \o v : v \in Remainders(Back)} : Len(u) <= MaxCells}
    BY DEF Overlaid, Back
  <2>. QED  BY <2>1
<1>3. rest \in Seq(Cells) /\ (old # "mixed" => \A i \in 1 .. Len(rest) : rest[i] \notin Telling)
  BY BackFacts, RemainderFacts
<1>4. /\ t \in Seq(Cells) /\ Starts(t, m, r) /\ LineEnds(t) # {}
      /\ HasRoute(t) /\ RouteOf(t) = r /\ RouteOf(new) = r
  BY <1>1, <1>2, <1>3, FirstLineStays
<1>5. t[1] = m /\ new[1] = m
  BY <1>1, <1>4 DEF Starts
<1>6. ASSUME old # "mixed", Quiet(new), NEW i \in 2 .. Len(t) PROVE t[i] \notin Telling
  <2>1. Len(new) \in Nat /\ Len(rest) \in Nat /\ Len(t) = Len(new) + Len(rest)
    BY <1>1, <1>2, <1>3
  <2>2. CASE i <= Len(new)
    <3>1. t[i] = new[i] /\ i \in 2 .. Len(new)
      BY <1>1, <1>2, <1>3, <2>1, <2>2
    <3>. QED  BY <1>6, <3>1 DEF Quiet
  <2>3. CASE i > Len(new)
    <3>1. t[i] = rest[i - Len(new)] /\ i - Len(new) \in 1 .. Len(rest)
      BY <1>1, <1>2, <1>3, <2>1, <2>3
    <3>. QED  BY <1>3, <1>6, <3>1
  <2>. QED  BY <2>1, <2>2, <2>3
<1>. QED  BY <1>4, <1>5, <1>6 DEF Quiet

\* A part of a request over the old text: a line that has come keeps its place.
LEMMA PartOver ==
  ASSUME IInv, NEW new \in Arrivals, NEW t \in Overlaid(new, "part")
  PROVE  /\ t \in Seq(Cells)
         /\ LineEnds(new) # {} => RouteOf(t) = RouteOf(new)
<1>1. PICK s \in Texts : new \in {SubSeq(s, 1, n) : n \in 0 .. Len(s)}
  BY Zenon DEF Arrivals
<1>2. PICK n \in 0 .. Len(s) : new = SubSeq(s, 1, n)
  BY <1>1
<1>3. PICK m \in FirstWords, r \in Routes :
        new \in Seq(Cells) /\ (LineEnds(new) # {} => Starts(new, m, r))
  BY <1>2, ArrivalFacts
<1>4. PICK j \in Joined(new), rest \in Suffixes(Back) : t = new \o j \o rest
  <2> DEFINE all == {new \o j \o v : j \in Joined(new), v \in Suffixes(Back)}
  <2>1. Overlaid(new, "part") = {u \in all : Len(u) <= MaxCells}
    BY DEF Overlaid, Back
  <2>2. t \in all
    BY <2>1
  <2>. QED  BY <2>2
<1>5. rest \in Seq(Cells)
  BY BackFacts, SuffixFacts DEF Suffixes
<1>6. j \in Seq(Cells)
  <2>1. j = << >> \/ \E w \in Words : j = <<w>>
    BY DEF Joined
  <2>2. \A w \in Cells : <<w>> \in Seq(Cells)
    OBVIOUS
  <2>3. << >> \in Seq(Cells)
    OBVIOUS
  <2>. QED  BY <2>1, <2>2, <2>3, WordFacts
<1>7. j \o rest \in Seq(Cells) /\ t = new \o (j \o rest) /\ t \in Seq(Cells)
  BY <1>3, <1>4, <1>5, <1>6
<1>8. ASSUME LineEnds(new) # {} PROVE RouteOf(t) = RouteOf(new)
  BY <1>3, <1>7, <1>8, FirstLineStays
<1>. QED  BY <1>7, <1>8

-----------------------------------------------------------------------------
(* The three kinds of calls.                                               *)

NothingCame ==
  /\ extent' = "nothing" /\ request'.route = "unread"
  /\ buff' = buff /\ old' = old /\ outcome' \in Outcomes(buff')

PartCame(new) ==
  /\ extent' = "part" /\ buff' \in Overlaid(new, "part")
  /\ request'.route = IF LineEnds(new) # {} THEN RouteOf(new) ELSE "unread"
  /\ old' = "mixed" /\ outcome' \in Outcomes(buff')

WholeCame(new) ==
  /\ extent' = "whole" /\ buff' \in Overlaid(new, "whole")
  /\ request'.kind = KindOf(new) /\ request'.route = RouteOf(new)
  /\ old' = (IF old # "mixed" /\ KindOf(new) \in Methods THEN KindOf(new) ELSE "mixed")
  /\ outcome' \in Outcomes(buff')

\* Every step is one of them.
LEMMA StepCases ==
  ASSUME Next
  PROVE  \/ NothingCame
         \/ \E new \in Arrivals : PartCame(new)
         \/ \E new \in Texts : WholeCame(new)
<1>1. CASE DoSomthing(<< >>, "nothing")
  <2>1. /\ buff' \in Overlaid(<< >>, "nothing") /\ outcome' \in Outcomes(buff')
        /\ request' = [kind |-> IF "nothing" = "whole" THEN KindOf(<< >>) ELSE "none",
                       route |-> IF LineEnds(<< >>) # {} THEN RouteOf(<< >>) ELSE "unread"]
        /\ old' = Left(old, "nothing", request'.kind) /\ extent' = "nothing"
    BY <1>1, Zenon DEF DoSomthing
  <2>2. buff' = buff
    BY <2>1 DEF Overlaid
  <2>3. old' = old
    BY <2>1 DEF Left
  <2>4. LineEnds(<< >>) = {}
    BY DEF LineEnds
  <2>5. request'.route = "unread"
    BY <2>1, <2>4
  <2>. QED  BY <2>1, <2>2, <2>3, <2>5 DEF NothingCame
<1>2. CASE \E new \in Arrivals : DoSomthing(new, IF new \in Texts THEN "whole" ELSE "part")
  <2>1. PICK new \in Arrivals : DoSomthing(new, IF new \in Texts THEN "whole" ELSE "part")
    BY <1>2, Zenon
  <2>2. CASE new \in Texts
    <3>1. DoSomthing(new, "whole")
      BY <2>1, <2>2, Zenon
    <3>2. /\ buff' \in Overlaid(new, "whole") /\ outcome' \in Outcomes(buff')
          /\ request' = [kind |-> IF "whole" = "whole" THEN KindOf(new) ELSE "none",
                         route |-> IF LineEnds(new) # {} THEN RouteOf(new) ELSE "unread"]
          /\ old' = Left(old, "whole", request'.kind) /\ extent' = "whole"
      BY <3>1, Zenon DEF DoSomthing
    <3>3. LineEnds(new) # {}
      <4>1. PICK m \in FirstWords, r \in Routes : new \in Seq(Cells) /\ Starts(new, m, r)
        BY <2>2, TextFacts
      <4>. QED  BY <4>1, RouteOfLine, ConstantsOK
    <3>4. request'.kind = KindOf(new) /\ request'.route = RouteOf(new)
      BY <3>2, <3>3
    <3>5. old' = IF old # "mixed" /\ KindOf(new) \in Methods THEN KindOf(new) ELSE "mixed"
      BY <3>2, <3>4 DEF Left
    <3>6. WholeCame(new)
      BY <3>2, <3>4, <3>5, Zenon DEF WholeCame
    <3>. QED  BY <2>2, <3>6
  <2>3. CASE new \notin Texts
    <3>1. DoSomthing(new, "part")
      BY <2>1, <2>3, Zenon
    <3>2. /\ buff' \in Overlaid(new, "part") /\ outcome' \in Outcomes(buff')
          /\ request' = [kind |-> IF "part" = "whole" THEN KindOf(new) ELSE "none",
                         route |-> IF LineEnds(new) # {} THEN RouteOf(new) ELSE "unread"]
          /\ old' = Left(old, "part", request'.kind) /\ extent' = "part"
      BY <3>1, Zenon DEF DoSomthing
    <3>3. request'.route = IF LineEnds(new) # {} THEN RouteOf(new) ELSE "unread"
      BY <3>2
    <3>4. old' = "mixed"
      BY <3>2 DEF Left
    <3>5. PartCame(new)
      BY <3>2, <3>3, <3>4, Zenon DEF PartCame
    <3>. QED  BY <3>5
  <2>. QED  BY <2>2, <2>3
<1>. QED  BY <1>1, <1>2 DEF Next

\* Over an array that begins with the line of a method, has a route and says
\* nothing else, http_parse and set_path come to that method.
LEMMA OwnMethod ==
  ASSUME NEW t \in Seq(Cells), Quiet(t), LineEnds(t) # {}, t[1] \in Methods,
         HasRoute(t), RouteOf(t) \notin {"?", "none"}, NEW o \in Outcomes(t)
  PROVE  o.method = t[1]
<1>1. MethodsOf(t) = {t[1]} /\ Described(t) = {}
  BY MethodOfFirst DEF Split
<1>. QED  BY <1>1, OutcomeRange

\* Whatever is in the array, they come to a method or to one of two ends.
LEMMA AnyOutcome ==
  ASSUME NEW t \in Seq(Cells), NEW o \in Outcomes(t)
  PROVE  o.method \in Methods \cup Ends
BY OutcomeRange, MethodsRange DEF Ends

-----------------------------------------------------------------------------
(* The invariant.                                                          *)

\* IInv is inductive.
LEMMA NextIInv ==
  ASSUME IInv, Next
  PROVE  IInv'
<1>1. ASSUME NothingCame PROVE IInv'
  BY <1>1 DEF NothingCame, IInv
<1>2. ASSUME NEW new \in Arrivals, PartCame(new) PROVE IInv'
  <2>1. buff' \in Overlaid(new, "part") /\ old' = "mixed"
    BY <1>2 DEF PartCame
  <2>2. buff' \in Seq(Cells)
    BY <2>1, PartOver
  <2>3. "mixed" \notin Methods
    BY DEF Methods
  <2>. QED  BY <2>1, <2>2, <2>3 DEF IInv
<1>3. ASSUME NEW new \in Texts, WholeCame(new) PROVE IInv'
  <2>1. /\ buff' \in Overlaid(new, "whole") /\ outcome' \in Outcomes(buff')
        /\ old' = IF old # "mixed" /\ KindOf(new) \in Methods THEN KindOf(new) ELSE "mixed"
    BY <1>3 DEF WholeCame
  <2>2. /\ buff' \in Seq(Cells) /\ LineEnds(buff') # {} /\ buff'[1] = new[1]
        /\ HasRoute(buff') /\ RouteOf(buff') = RouteOf(new)
        /\ old # "mixed" /\ Quiet(new) => Quiet(buff')
    BY <2>1, WholeOver
  <2>3. CASE old # "mixed" /\ KindOf(new) \in Methods
    <3>1. KindOf(new) = new[1] /\ RouteOf(new) \notin {"?", "none"} /\ Quiet(new)
      BY <2>3, KindFacts
    <3>2. old' = KindOf(new) /\ old' # "garbage" /\ old' # "mixed"
      BY <2>1, <2>3 DEF Methods
    <3>3. RouteOf(buff') \notin {"?", "none"} /\ Quiet(buff')
      BY <2>2, <2>3, <3>1
    <3>. QED  BY <2>1, <2>2, <2>3, <3>1, <3>2, <3>3 DEF IInv
  <2>4. CASE ~(old # "mixed" /\ KindOf(new) \in Methods)
    <3>1. old' = "mixed" /\ "mixed" \notin Methods
      BY <2>1, <2>4 DEF Methods
    <3>. QED  BY <2>2, <3>1 DEF IInv
  <2>. QED  BY <2>3, <2>4
<1>. QED  BY <1>1, <1>2, <1>3, StepCases

\* The array holds what module Reactor's account of it says, after calls
\* of do_somthing with requests of whatever kinds, routes and lengths.
THEOREM Invariance == Spec => []IInv
<1>1. Init => IInv
  <2> SUFFICES ASSUME Init PROVE IInv
    OBVIOUS
  <2>1. buff = << >> /\ old = "garbage"
    BY DEF Init
  <2>2. "garbage" \notin Methods
    BY DEF Methods
  <2>. QED  BY <2>1, <2>2 DEF IInv, Quiet
<1>2. IInv /\ [Next]_vars => IInv'
  <2>1. ASSUME IInv, UNCHANGED vars PROVE IInv'
    BY <2>1 DEF IInv, vars
  <2>. QED  BY <2>1, NextIInv
<1>. QED  BY <1>1, <1>2, PTL DEF Spec

-----------------------------------------------------------------------------
(* The properties.                                                         *)

\* As long as plain requests only have been read, and whole, http_parse comes
\* to the method of the last of them and nothing behind it in the array names
\* another, whatever the lengths of the requests.
THEOREM LeftoverCorrect == Spec => []LeftoverAccounted
<1>1. IInv => LeftoverAccounted
  <2> SUFFICES ASSUME IInv, old \in Methods
               PROVE  outcome.method = old /\ Quiet(buff)
    BY DEF LeftoverAccounted, Quiet
  <2>1. old # "mixed"
    BY DEF Methods
  <2>2. /\ buff \in Seq(Cells) /\ Quiet(buff) /\ LineEnds(buff) # {} /\ buff[1] = old
        /\ HasRoute(buff) /\ RouteOf(buff) \notin {"?", "none"}
        /\ outcome \in Outcomes(buff)
    BY <2>1 DEF IInv
  <2>3. outcome.method = old
    BY <2>2, OwnMethod
  <2>. QED  BY <2>2, <2>3
<1>. QED  BY <1>1, Invariance, PTL

\* Reading requests line by line never comes to what module Reactor does not
\* reckon with: a plain request over what plain ones left is read as itself.
THEOREM ReadingCorrect == Spec => WithinReactorReading
<1> DEFINE Within == outcome'.method \in Parsed(old, extent', request'.kind)
<1>1. ASSUME IInv, NothingCame PROVE Within
  <2>1. extent' = "nothing" /\ buff \in Seq(Cells) /\ outcome' \in Outcomes(buff)
    BY <1>1 DEF NothingCame, IInv
  <2>2. CASE old \in Methods
    <3>1. old # "mixed" /\ old # "garbage"
      BY <2>2 DEF Methods
    <3>2. Parsed(old, extent', request'.kind) = {old}
      BY <2>1, <2>2, <3>1 DEF Parsed
    <3>3. /\ Quiet(buff) /\ LineEnds(buff) # {} /\ buff[1] = old
          /\ HasRoute(buff) /\ RouteOf(buff) \notin {"?", "none"}
      BY <1>1, <2>2, <3>1 DEF IInv
    <3>4. outcome'.method = old
      BY <2>1, <2>2, <3>3, OwnMethod
    <3>. QED  BY <3>2, <3>4
  <2>3. CASE old = "garbage"
    <3>1. Parsed(old, extent', request'.kind) = {"undefined"}
      BY <2>1, <2>3 DEF Parsed, Methods
    <3>2. ~HasRoute(buff)
      BY <1>1, <2>3 DEF IInv, HasRoute, Split, LineEnds
    <3>3. outcome' = Undefined
      BY <2>1, <3>2, Zenon DEF Outcomes
    <3>4. outcome'.method = "undefined"
      BY <3>3 DEF Undefined
    <3>. QED  BY <3>1, <3>4
  <2>4. CASE old = "mixed"
    <3>1. Parsed(old, extent', request'.kind) = Methods \cup Ends
      BY <2>1, <2>4 DEF Parsed, Methods
    <3>. QED  BY <2>1, <3>1, AnyOutcome
  <2>. QED  BY <1>1, <2>2, <2>3, <2>4 DEF IInv
<1>2. ASSUME IInv, NEW new \in Arrivals, PartCame(new) PROVE Within
  <2>1. extent' = "part" /\ buff' \in Overlaid(new, "part") /\ outcome' \in Outcomes(buff')
    BY <1>2 DEF PartCame
  <2>2. buff' \in Seq(Cells)
    BY <1>2, <2>1, PartOver
  <2>3. Parsed(old, extent', request'.kind) = Methods \cup Ends
    BY <2>1 DEF Parsed
  <2>. QED  BY <2>1, <2>2, <2>3, AnyOutcome
<1>3. ASSUME IInv, NEW new \in Texts, WholeCame(new) PROVE Within
  <2>1. /\ extent' = "whole" /\ buff' \in Overlaid(new, "whole")
        /\ request'.kind = KindOf(new) /\ outcome' \in Outcomes(buff')
    BY <1>3 DEF WholeCame
  <2>2. /\ buff' \in Seq(Cells) /\ LineEnds(buff') # {} /\ buff'[1] = new[1]
        /\ HasRoute(buff') /\ RouteOf(buff') = RouteOf(new)
        /\ old # "mixed" /\ Quiet(new) => Quiet(buff')
    BY <1>3, <2>1, WholeOver
  <2>3. CASE old # "mixed" /\ KindOf(new) \in Methods
    <3>1. KindOf(new) = new[1] /\ RouteOf(new) \notin {"?", "none"} /\ Quiet(new)
      BY <2>3, KindFacts
    <3>2. Parsed(old, extent', request'.kind) = {KindOf(new)}
      BY <2>1, <2>3 DEF Parsed
    <3>3. outcome'.method = buff'[1]
      BY <2>1, <2>2, <2>3, <3>1, OwnMethod
    <3>. QED  BY <2>2, <3>1, <3>2, <3>3
  <2>4. CASE ~(old # "mixed" /\ KindOf(new) \in Methods)
    <3>1. Parsed(old, extent', request'.kind) = Methods \cup Ends
      BY <2>1, <2>4 DEF Parsed
    <3>. QED  BY <2>1, <2>2, <3>1, AnyOutcome
  <2>. QED  BY <2>3, <2>4
<1>4. IInv /\ [Next]_vars => [Within]_vars
  BY <1>1, <1>2, <1>3, StepCases
<1>. QED  BY <1>4, Invariance, PTL DEF Spec, WithinReactorReading

\* A request whose first line has come is answered for its own route, whatever
\* was left behind it and whatever method is taken for its own.
THEOREM RouteCorrect == Spec => OwnRouteTaken
<1> DEFINE Own == request'.route # "unread" /\ outcome'.method \in Methods =>
                    outcome' = SetPath(outcome'.method, request'.route)
<1>1. ASSUME NothingCame PROVE Own
  BY <1>1 DEF NothingCame
<1>2. ASSUME NEW t, t \in Seq(Cells), outcome' \in Outcomes(t), outcome'.method \in Methods
      PROVE  outcome' = SetPath(outcome'.method, RouteOf(t))
  <2>1. "undefined" \notin Methods /\ "aborted" \notin Methods
    BY DEF Methods
  <2>. QED  BY <1>2, <2>1, OutcomeRange
<1>3. ASSUME IInv, NEW new \in Arrivals, PartCame(new) PROVE Own
  <2>1. /\ buff' \in Overlaid(new, "part") /\ outcome' \in Outcomes(buff')
        /\ request'.route = IF LineEnds(new) # {} THEN RouteOf(new) ELSE "unread"
    BY <1>3 DEF PartCame
  <2>2. buff' \in Seq(Cells) /\ (LineEnds(new) # {} => RouteOf(buff') = RouteOf(new))
    BY <1>3, <2>1, PartOver
  <2>3. CASE LineEnds(new) = {}
    BY <2>1, <2>3
  <2>4. CASE LineEnds(new) # {}
    BY <1>2, <2>1, <2>2, <2>4
  <2>. QED  BY <2>3, <2>4
<1>4. ASSUME IInv, NEW new \in Texts, WholeCame(new) PROVE Own
  <2>1. /\ buff' \in Overlaid(new, "whole") /\ outcome' \in Outcomes(buff')
        /\ request'.route = RouteOf(new)
    BY <1>4 DEF WholeCame
  <2>2. buff' \in Seq(Cells) /\ RouteOf(buff') = RouteOf(new)
    BY <1>4, <2>1, WholeOver
  <2>. QED  BY <1>2, <2>1, <2>2
<1>5. IInv /\ [Next]_vars => [Own]_vars
  BY <1>1, <1>3, <1>4, StepCases
<1>. QED  BY <1>5, Invariance, PTL DEF Spec, OwnRouteTaken
=============================================================================
