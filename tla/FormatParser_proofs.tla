------------------------ MODULE FormatParser_proofs -------------------------
(***************************************************************************)
(* How the formats are parsed, for every format.  The parser's loops are   *)
(* recursive functions of the model, and the library's induction theorems  *)
(* are out of the provers' reach, so each induction is an argument about   *)
(* the least counterexample (LeastElement, Upward, Downward).  The first   *)
(* part shows that the loop of parse_format ends and what it collects; the *)
(* second, that a specifier can be divided into its parts in one way only, *)
(* the way the parser does it, so that the parser accepts exactly the      *)
(* grammar; the third, that text inserted where a segment starts leaves    *)
(* the specifiers as they are; the fourth, that the canonical form of a    *)
(* specifier reads back as an equivalent one; the fifth, that the names    *)
(* the suites' models have for specifiers are such canonical forms.        *)
(***************************************************************************)
EXTENDS FormatParser, SequenceTheorems, WellFoundedInduction, TLAPS

-----------------------------------------------------------------------------
(* Characters, and the loops that skip them.                               *)

\* The characters of formats.  That those the model names are strings is a fact of
\* TLA+ that the provers are not told.
Char ==
  STRING \cup Flags \cup Digits \cup OneLetterLengths \cup Conversions \cup {"%", " ", ".", "*"}

\* A format that is a sequence of strings is a sequence of characters.
LEMMA StringsAreFormats ==
  ASSUME NEW f \in Seq(STRING)
  PROVE  f \in Seq(Char)
<1>1. STRING \subseteq Char
  BY DEF Char
<1>2. PICK S : S = STRING
  OBVIOUS
<1> QED BY <1>1, <1>2, SeqMonotonic

\* A set of naturals that is not empty has a least element: the induction of every
\* proof below.
LEMMA LeastElement ==
  ASSUME NEW T \in SUBSET Nat, T # {}
  PROVE  \E m \in T : \A x \in T : m <= x
<1>0. T \subseteq Nat
  OBVIOUS
<1>1. PICK m \in T : \A x \in T : <<x, m>> \notin OpToRel(<, Nat)
  BY <1>0, WFMin, NatLessThanWellFounded, Zenon
<1>2. \A x \in T : ~(x < m)
  BY <1>0, <1>1, Zenon DEF OpToRel
<1> QED BY <1>0, <1>2

\* The loops of parse_format that skip characters of a class.
First(f, i, S) ==
  CHOOSE e \in i..Len(f) + 1 :
    (\A n \in i..e - 1 : f[n] \in S) /\ (e <= Len(f) => ~(f[e] \in S))

\* The characters of S that start at position i end before e.
EndsAt(f, i, S, e) ==
  /\ e \in i..Len(f) + 1
  /\ \A n \in i..e - 1 : f[n] \in S
  /\ e <= Len(f) => f[e] \notin S

\* The loop finds the place.
LEMMA FirstOutside ==
  ASSUME NEW f \in Seq(Char), NEW i \in 1..Len(f) + 1, NEW S
  PROVE  EndsAt(f, i, S, First(f, i, S))
<1> DEFINE T == {e \in Nat : e \in i..Len(f) + 1 /\ (e <= Len(f) => f[e] \notin S)}
<1>1. PICK e \in T : \A x \in T : e <= x
  <2>1. Len(f) + 1 \in T
    OBVIOUS
  <2> QED BY <2>1, LeastElement
<1>2. EndsAt(f, i, S, e)
  <2>1. ASSUME NEW n \in i..e - 1 PROVE f[n] \in S
    <3>1. n \in Nat /\ n \in i..Len(f) + 1 /\ ~(e <= n) /\ n <= Len(f)
      BY <1>1
    <3> QED BY <1>1, <3>1
  <2> QED BY <1>1, <2>1 DEF EndsAt
<1> QED BY <1>2 DEF First, EndsAt

\* There is one such place.
LEMMA OneEnd ==
  ASSUME NEW f \in Seq(Char), NEW i \in 1..Len(f) + 1, NEW S,
         NEW a, NEW b, EndsAt(f, i, S, a), EndsAt(f, i, S, b)
  PROVE  a = b
<1>1. a \in Int /\ b \in Int
  BY DEF EndsAt
<1>2. ~(a < b)
  <2> SUFFICES ASSUME a < b PROVE FALSE
    OBVIOUS
  <2>1. a \in i..b - 1 /\ a <= Len(f)
    BY <1>1 DEF EndsAt
  <2> QED BY <2>1 DEF EndsAt
<1>3. ~(b < a)
  <2> SUFFICES ASSUME b < a PROVE FALSE
    OBVIOUS
  <2>1. b \in i..a - 1 /\ b <= Len(f)
    BY <1>1 DEF EndsAt
  <2> QED BY <2>1 DEF EndsAt
<1> QED BY <1>1, <1>2, <1>3

\* The characters that may stand in the text.
Text == Char \ {"%"}

\* The flags end at the first character that is none.
LEMMA FlagsEndAt ==
  ASSUME NEW f \in Seq(Char), NEW i \in 1..Len(f) + 1
  PROVE  EndsAt(f, i, Flags, FlagsEnd(f, i))
<1>1. FlagsEnd(f, i) = First(f, i, Flags)
  BY DEF FlagsEnd, Skip, First
<1> QED BY <1>1, FirstOutside

\* The digits from i on.
DigitsEnd(f, i) == Skip(f, i, LAMBDA c : c \in Digits)

\* So do the digits of a width or a precision,
LEMMA DigitsEndAt ==
  ASSUME NEW f \in Seq(Char), NEW i \in 1..Len(f) + 1
  PROVE  EndsAt(f, i, Digits, DigitsEnd(f, i))
<1>1. DigitsEnd(f, i) = First(f, i, Digits)
  BY DEF DigitsEnd, Skip, First
<1> QED BY <1>1, FirstOutside

\* The text from i on.
TextEnd(f, i) == Skip(f, i, LAMBDA c : c # "%")

\* and so does the text before a specifier.
LEMMA TextEndAt ==
  ASSUME NEW f \in Seq(Char), NEW i \in 1..Len(f) + 1
  PROVE  EndsAt(f, i, Text, TextEnd(f, i))
<1> DEFINE P(e) == (\A n \in i..e - 1 : f[n] # "%") /\ (e <= Len(f) => ~(f[e] # "%"))
           Q(e) == (\A n \in i..e - 1 : f[n] \in Text) /\ (e <= Len(f) => ~(f[e] \in Text))
<1>1. \A e \in i..Len(f) + 1 : P(e) <=> Q(e)
  BY DEF Text
<1>2. TextEnd(f, i) = CHOOSE e \in i..Len(f) + 1 : P(e)
  BY DEF TextEnd, Skip
<1>3. First(f, i, Text) = CHOOSE e \in i..Len(f) + 1 : Q(e)
  BY DEF First
<1> HIDE DEF P, Q
<1>4. TextEnd(f, i) = First(f, i, Text)
  BY <1>1, <1>2, <1>3
<1> QED BY <1>4, FirstOutside

\* The width of a specifier is a star or the digits.
LEMMA WidthIs ==
  ASSUME NEW f, NEW i
  PROVE  WidthEnd(f, i) = IF At(f, i) = "*" THEN i + 1 ELSE DigitsEnd(f, i)
BY DEF WidthEnd, DigitsEnd, Skip

\* Its precision is a dot and a star, or a dot and the digits.
LEMMA PrecisionIs ==
  ASSUME NEW f, NEW i
  PROVE  PrecisionEnd(f, i) = IF At(f, i) # "." THEN i
                              ELSE IF At(f, i + 1) = "*" THEN i + 2 ELSE DigitsEnd(f, i + 1)
BY DEF PrecisionEnd, DigitsEnd, Skip

\* The specifier at a % in the format: its parts follow each other.
LEMMA PartsFollow ==
  ASSUME NEW f \in Seq(Char), NEW i \in 1..Len(f)
  PROVE  LET end == PartEnds(f, i) IN
         /\ end.start = i + 1
         /\ EndsAt(f, end.start, Flags, end.flags)
         /\ end.width \in end.flags..Len(f) + 1
         /\ end.precision \in end.width..Len(f) + 1
         /\ end.length \in end.precision..Len(f) + 1
         /\ end.width = WidthEnd(f, end.flags)
         /\ end.precision = PrecisionEnd(f, end.width)
         /\ end.length = end.precision + Len(LengthModifier(f, end.precision))
<1> DEFINE end == PartEnds(f, i)
<1>1. /\ end.start = i + 1 /\ end.flags = FlagsEnd(f, i + 1)
      /\ end.width = WidthEnd(f, end.flags) /\ end.precision = PrecisionEnd(f, end.width)
      /\ end.length = end.precision + Len(LengthModifier(f, end.precision))
  BY DEF PartEnds
<1> HIDE DEF end
<1>2. EndsAt(f, i + 1, Flags, end.flags) /\ end.flags \in 1..Len(f) + 1
  BY <1>1, FlagsEndAt DEF EndsAt
<1>3. end.width \in end.flags..Len(f) + 1
  <2>1. CASE At(f, end.flags) = "*"
    <3>1. end.flags \in 1..Len(f)
      BY <2>1, <1>2 DEF At
    <3> QED BY <2>1, <3>1, <1>1, WidthIs
  <2>2. CASE At(f, end.flags) # "*"
    BY <2>2, <1>1, <1>2, WidthIs, DigitsEndAt DEF EndsAt
  <2> QED BY <2>1, <2>2
<1>4. end.precision \in end.width..Len(f) + 1
  <2>0. end.width \in 1..Len(f) + 1
    BY <1>2, <1>3
  <2>1. CASE At(f, end.width) # "."
    BY <2>0, <2>1, <1>1, PrecisionIs
  <2>2. CASE At(f, end.width) = "."
    <3>1. end.width \in 1..Len(f) /\ end.width + 1 \in 1..Len(f) + 1
      BY <2>0, <2>2 DEF At
    <3>2. CASE At(f, end.width + 1) = "*"
      <4>1. end.width + 1 \in 1..Len(f)
        BY <3>1, <3>2 DEF At
      <4> QED BY <2>2, <3>1, <3>2, <4>1, <1>1, PrecisionIs
    <3>3. CASE At(f, end.width + 1) # "*"
      <4>1. EndsAt(f, end.width + 1, Digits, DigitsEnd(f, end.width + 1))
        BY <3>1, DigitsEndAt
      <4> QED BY <2>2, <3>1, <3>3, <4>1, <1>1, PrecisionIs DEF EndsAt
    <3> QED BY <3>2, <3>3
  <2> QED BY <2>1, <2>2
<1>5. end.length \in end.precision..Len(f) + 1
  <2>0. end.precision \in 1..Len(f) + 1
    BY <1>2, <1>3, <1>4
  <2> DEFINE e == end.precision
  <2> HIDE DEF e
  <2>1. e \in 1..Len(f) + 1
    BY <2>0 DEF e
  <2>2. e + Len(LengthModifier(f, e)) \in e..Len(f) + 1
    <3>1. CASE <<At(f, e), At(f, e + 1)>> \in TwoLetterLengths
      <4>1. e \in 1..Len(f) /\ e + 1 \in 1..Len(f)
        BY <2>1, <3>1 DEF At, TwoLetterLengths
      <4>2. Len(LengthModifier(f, e)) = 2
        BY <3>1 DEF LengthModifier
      <4> QED BY <4>1, <4>2
    <3>2. CASE /\ <<At(f, e), At(f, e + 1)>> \notin TwoLetterLengths
               /\ At(f, e) \in OneLetterLengths
      <4>1. e \in 1..Len(f)
        BY <2>1, <3>2 DEF At, OneLetterLengths
      <4>2. Len(LengthModifier(f, e)) = 1
        BY <3>2 DEF LengthModifier
      <4> QED BY <4>1, <4>2
    <3>3. CASE /\ <<At(f, e), At(f, e + 1)>> \notin TwoLetterLengths
               /\ At(f, e) \notin OneLetterLengths
      BY <2>1, <3>3 DEF LengthModifier
    <3> QED BY <3>1, <3>2, <3>3
  <2> QED BY <1>1, <2>2 DEF e
<1> QED BY <1>1, <1>2, <1>3, <1>4, <1>5 DEF end

\* A segment starts where it is looked for and, if it is no error, ends in the format.
LEMMA SegmentStays ==
  ASSUME NEW f \in Seq(Char), NEW i \in 1..Len(f)
  PROVE  LET g == Segment(f, i) IN
         /\ g.from = i /\ g.kind \in {"literal", "spec", "error"}
         /\ g.kind # "error" => g.to \in i..Len(f)
<1>1. CASE f[i] # "%"
  <2>1. Segment(f, i) = Literal(i, TextEnd(f, i))
    BY <1>1 DEF Segment, TextEnd
  <2>2. EndsAt(f, i, Text, TextEnd(f, i))
    BY TextEndAt
  <2>3. f[i] \in Text
    BY <1>1 DEF Text
  <2> QED BY <2>1, <2>2, <2>3 DEF Literal, EndsAt
<1>2. CASE f[i] = "%"
  <2> DEFINE end == PartEnds(f, i)
             g == ReadSpec(f, i)
  <2>1. Segment(f, i) = SpecOrError(f, g)
    BY <1>2 DEF Segment
  <2>2. end.start = i + 1 /\ end.length \in i + 1..Len(f) + 1
    <3>1. /\ end.start = i + 1 /\ EndsAt(f, end.start, Flags, end.flags)
          /\ end.width \in end.flags..Len(f) + 1
          /\ end.precision \in end.width..Len(f) + 1
          /\ end.length \in end.precision..Len(f) + 1
      BY PartsFollow
    <3> HIDE DEF end
    <3> QED BY <3>1 DEF EndsAt
  <2>3. g.kind = "spec" /\ g.from = i /\ g.to = end.length
    <3> HIDE DEF end
    <3>1. g = SpecOf(f, end)
      BY DEF ReadSpec, end
    <3> QED BY <2>2, <3>1 DEF SpecOf
  <2> HIDE DEF end, g
  <2>4. CASE g.to <= Len(f) /\ g.conversion \in Conversions
    BY <2>1, <2>2, <2>3, <2>4 DEF SpecOrError
  <2>5. CASE ~(g.to <= Len(f) /\ g.conversion \in Conversions)
    BY <2>1, <2>2, <2>3, <2>5 DEF SpecOrError, Error
  <2> QED BY <2>4, <2>5
<1> QED BY <1>1, <1>2

-----------------------------------------------------------------------------
(* Sequences.  Cons and Snoc are kept folded, for the provers to match.    *)

\* g before s, and e after it.
Cons(g, s) == <<g>> \o s
Snoc(s, e) == Append(s, e)

\* A sequence with one more element in front.
LEMMA ConsIs ==
  ASSUME NEW S, NEW g \in S, NEW s \in Seq(S)
  PROVE  /\ Cons(g, s) \in Seq(S) /\ Len(Cons(g, s)) = Len(s) + 1
         /\ DOMAIN Cons(g, s) = 1..Len(s) + 1
         /\ Cons(g, s)[1] = g
         /\ \A n \in 1..Len(s) : Cons(g, s)[n + 1] = s[n]
         /\ Len(s) \in Nat /\ DOMAIN s = 1..Len(s)
BY DEF Cons

\* all is g and then the elements of s.
Adds(all, g, s) ==
  /\ Len(all) = Len(s) + 1 /\ DOMAIN all = 1..Len(s) + 1
  /\ Len(s) \in Nat /\ DOMAIN s = 1..Len(s)
  /\ all[1] = g
  /\ \A n \in 1..Len(s) : all[n + 1] = s[n]

\* Cons is such a sequence.
LEMMA ConsAdds ==
  ASSUME NEW S, NEW g \in S, NEW s \in Seq(S)
  PROVE  Cons(g, s) \in Seq(S) /\ Adds(Cons(g, s), g, s)
BY DEF Cons, Adds

\* A sequence with one more element at its end.
LEMMA SnocIs ==
  ASSUME NEW S, NEW s \in Seq(S), NEW e \in S
  PROVE  /\ Snoc(s, e) \in Seq(S) /\ Len(Snoc(s, e)) = Len(s) + 1
         /\ Snoc(s, e)[Len(s) + 1] = e
         /\ \A n \in 1..Len(s) : Snoc(s, e)[n] = s[n]
BY DEF Snoc

\* Adding in front and at the end commute.
LEMMA ConsSnoc ==
  ASSUME NEW S, NEW g \in S, NEW s \in Seq(S), NEW e \in S
  PROVE  Snoc(Cons(g, s), e) = Cons(g, Snoc(s, e))
<1> DEFINE x == Snoc(Cons(g, s), e)
           y == Cons(g, Snoc(s, e))
<1>1. x \in Seq(S) /\ y \in Seq(S) /\ Len(x) = Len(s) + 2 /\ Len(y) = Len(s) + 2
  BY DEF Cons, Snoc
<1>2. ASSUME NEW n \in 1..Len(s) + 2 PROVE x[n] = y[n]
  <2>1. CASE n = 1
    BY <2>1 DEF Cons, Snoc
  <2>2. CASE n \in 2..Len(s) + 1
    BY <2>2 DEF Cons, Snoc
  <2>3. CASE n = Len(s) + 2
    BY <2>3 DEF Cons, Snoc
  <2> QED BY <2>1, <2>2, <2>3
<1> HIDE DEF x, y
<1>3. x = y
  BY <1>1, <1>2, SeqEqual
<1> QED BY <1>3 DEF x, y

-----------------------------------------------------------------------------
(* The loop of parse_format.                                               *)

\* Segment after segment from position i on, given what follows each of them.
Step(f, segment, g, i) ==
  IF i > Len(f) THEN <<>>
  ELSE IF segment[i].kind = "error" THEN <<segment[i]>>
  ELSE <<segment[i]>> \o g[segment[i].to + 1]

\* All the segments from each position on, the recursion of SegmentsFrom.
Loop(f, segment) ==
  CHOOSE g : g = [i \in 1..Len(f) + 1 |-> Step(f, segment, g, i)]

\* The segment that each position starts.
Found(f) == [i \in DOMAIN f |-> Segment(f, i)]

\* What the loop finds from position i on.
From(f, i) == Loop(f, Found(f))[i]

\* It is the one Segment gives.
LEMMA FoundIs ==
  ASSUME NEW f \in Seq(Char), NEW i \in 1..Len(f)
  PROVE  Found(f)[i] = Segment(f, i)
BY DEF Found

\* The loop ends: no segment is empty.
LEMMA LoopEnds ==
  ASSUME NEW f \in Seq(Char)
  PROVE  \A i \in 1..Len(f) + 1 :
           From(f, i) = Step(f, Found(f), Loop(f, Found(f)), i)
<1> DEFINE n == Len(f) + 1
           seg == Found(f)
           Solves(g, k) == g = [i \in k..n |-> Step(f, seg, g, i)]
           T == {k \in Nat : k \in 0..n - 1 /\ ~ \E g : Solves(g, n - k)}
<1>0. n \in Nat /\ n >= 1 /\ Len(f) \in Nat
  OBVIOUS
<1>1. \A i \in 1..Len(f) : seg[i].kind # "error" => seg[i].to \in i..Len(f)
  BY FoundIs, SegmentStays
<1> HIDE DEF seg
<1>2. T = {}
  <2> SUFFICES ASSUME T # {} PROVE FALSE
    OBVIOUS
  <2>1. PICK k \in T : \A x \in T : k <= x
    <3>1. T \in SUBSET Nat
      OBVIOUS
    <3> HIDE DEF T
    <3> QED BY <3>1, LeastElement
  <2>2. k \in 0..n - 1 /\ ~ \E g : Solves(g, n - k)
    BY <2>1
  <2>3. CASE k = 0
    <3> DEFINE g == [i \in n..n |-> <<>>]
    <3>1. \A i \in n..n : Step(f, seg, g, i) = <<>>
      BY <1>0 DEF Step
    <3>2. g = [i \in n..n |-> Step(f, seg, g, i)]
      <4> HIDE DEF n
      <4> QED BY <3>1
    <3>3. n - k = n
      BY <1>0, <2>3
    <3>4. Solves(g, n - k)
      BY <3>2, <3>3
    <3> HIDE DEF Solves
    <3> QED BY <2>2, <3>4
  <2>4. CASE k > 0
    <3>1. k - 1 \in 0..n - 1 /\ ~(k - 1 \in T)
      <4>1. k - 1 \in 0..n - 1 /\ ~(k <= k - 1)
        BY <2>2, <2>4, <1>0
      <4> HIDE DEF T
      <4> QED BY <2>1, <4>1
    <3>2. PICK g : Solves(g, n - (k - 1))
      BY <3>1
    <3> DEFINE lo == n - k
               h == [i \in lo..n |-> IF i = lo THEN Step(f, seg, g, lo) ELSE g[i]]
    <3>3. lo \in 1..n /\ lo + 1 = n - (k - 1) /\ lo <= Len(f)
      BY <2>2, <2>4, <1>0
    <3>4. \A i \in lo + 1..n : g[i] = Step(f, seg, g, i)
      BY <3>2, <3>3
    <3> HIDE DEF lo
    <3>5. ASSUME NEW i \in lo..n PROVE Step(f, seg, h, i) = Step(f, seg, g, i)
      <4>1. CASE i > Len(f)
        BY <4>1 DEF Step
      <4>2. CASE i <= Len(f) /\ seg[i].kind = "error"
        BY <4>2, <3>3, <1>0 DEF Step
      <4>3. CASE i <= Len(f) /\ seg[i].kind # "error"
        <5>1. seg[i].to + 1 \in lo + 1..n
          BY <4>3, <3>3, <1>0, <1>1
        <5>2. h[seg[i].to + 1] = g[seg[i].to + 1]
          BY <5>1, <3>3, <1>0
        <5> HIDE DEF h
        <5> QED BY <4>3, <5>2 DEF Step
      <4> QED BY <4>1, <4>2, <4>3, <3>3, <1>0
    <3>6. \A i \in lo..n : h[i] = Step(f, seg, h, i)
      <4> SUFFICES ASSUME NEW i \in lo..n PROVE h[i] = Step(f, seg, h, i)
        OBVIOUS
      <4>1. i = lo \/ i \in lo + 1..n
        BY <3>3, <1>0
      <4> QED BY <4>1, <3>4, <3>5, <3>3, <1>0
    <3>7. Solves(h, lo)
      <4>1. h = [i \in lo..n |-> h[i]]
        OBVIOUS
      <4> HIDE DEF h
      <4> QED BY <3>6, <4>1
    <3> QED BY <3>7, <2>2 DEF lo
  <2> QED BY <2>2, <2>3, <2>4
<1>3. \E g : Solves(g, 1)
  <2>1. n - 1 \in Nat /\ n - 1 \in 0..n - 1 /\ n - (n - 1) = 1
    BY <1>0
  <2>2. ~(n - 1 \in T)
    BY <1>2
  <2> QED BY <2>1, <2>2
<1>4. Solves(Loop(f, seg), 1)
  <2>1. Loop(f, seg) = CHOOSE g : Solves(g, 1)
    BY DEF Loop
  <2> HIDE DEF Solves
  <2> QED BY <1>3, <2>1
<1>5. \A i \in 1..n : Loop(f, seg)[i] = Step(f, seg, Loop(f, seg), i)
  <2> DEFINE g == Loop(f, seg)
  <2>1. g = [i \in 1..n |-> Step(f, seg, g, i)]
    BY <1>4
  <2> HIDE DEF g
  <2>2. \A i \in 1..n : g[i] = Step(f, seg, g, i)
    BY <2>1
  <2> QED BY <2>2 DEF g
<1> QED BY <1>5 DEF From, seg

\* A turn of the loop.
LEMMA Turn ==
  ASSUME NEW f \in Seq(Char), NEW i \in 1..Len(f) + 1
  PROVE  /\ i > Len(f) => From(f, i) = <<>>
         /\ i <= Len(f) /\ Segment(f, i).kind = "error" => From(f, i) = <<Segment(f, i)>>
         /\ i <= Len(f) /\ Segment(f, i).kind # "error" =>
              /\ Segment(f, i).to + 1 \in i + 1..Len(f) + 1
              /\ From(f, i) = Cons(Segment(f, i), From(f, Segment(f, i).to + 1))
<1>1. From(f, i) = Step(f, Found(f), Loop(f, Found(f)), i)
  BY LoopEnds
<1>2. i <= Len(f) => Found(f)[i] = Segment(f, i)
  BY FoundIs
<1>3. i <= Len(f) /\ Segment(f, i).kind # "error" => Segment(f, i).to \in i..Len(f)
  BY SegmentStays
<1>4. i <= Len(f) /\ Segment(f, i).kind # "error" =>
        From(f, i) = Cons(Segment(f, i), From(f, Segment(f, i).to + 1))
  BY <1>1, <1>2 DEF Step, From, Cons
<1> QED BY <1>1, <1>2, <1>3, <1>4 DEF Step

\* parse_format sorts what the loop finds from the first position on.
LEMMA ParseIs ==
  ASSUME NEW f
  PROVE  parse_format(f) = Parsed(From(f, 1))
<1>1. SegmentsFrom(f, Found(f)) = From(f, 1)
  BY DEF SegmentsFrom, From, Loop, Step
<1> QED BY <1>1 DEF parse_format, Found

-----------------------------------------------------------------------------
(* Induction over the positions of a sequence.                             *)

\* Induction from 0 up to n.
LEMMA Upward ==
  ASSUME NEW n \in Nat, NEW T, 0 \in T, \A k \in 1..n : k - 1 \in T => k \in T
  PROVE  \A k \in 0..n : k \in T
<1> DEFINE B == {k \in Nat : k \in 0..n /\ k \notin T}
<1> SUFFICES ASSUME B # {} PROVE FALSE
  OBVIOUS
<1>1. PICK k \in B : \A x \in B : k <= x
  <2>1. B \in SUBSET Nat
    OBVIOUS
  <2> HIDE DEF B
  <2> QED BY <2>1, LeastElement
<1>2. k \in 1..n /\ k - 1 \in Nat /\ k - 1 \in 0..n /\ ~(k <= k - 1)
  BY <1>1
<1>3. k - 1 \in T
  BY <1>1, <1>2
<1> QED BY <1>1, <1>2, <1>3

\* Induction from n down to 1, on what holds of every later position.
LEMMA Downward ==
  ASSUME NEW n \in Nat, NEW T,
         \A i \in 1..n : (\A j \in i + 1..n : j \in T) => i \in T
  PROVE  \A i \in 1..n : i \in T
<1> DEFINE B == {k \in Nat : k \in 0..n - 1 /\ n - k \notin T}
<1>0. B = {}
  <2> SUFFICES ASSUME B # {} PROVE FALSE
    OBVIOUS
  <2>1. PICK k \in B : \A x \in B : k <= x
    <3>1. B \in SUBSET Nat
      OBVIOUS
    <3> HIDE DEF B
    <3> QED BY <3>1, LeastElement
  <2>2. n - k \in 1..n /\ k \in 0..n - 1 /\ n - k \notin T
    BY <2>1
  <2>3. ASSUME NEW j \in n - k + 1..n PROVE j \in T
    <3>1. n - j \in Nat /\ n - j \in 0..n - 1 /\ ~(k <= n - j) /\ n - (n - j) = j
      BY <2>2
    <3>2. n - j \notin B
      BY <2>1, <3>1
    <3> QED BY <3>1, <3>2
  <2> QED BY <2>2, <2>3
<1> SUFFICES ASSUME NEW i \in 1..n PROVE i \in T
  OBVIOUS
<1>1. n - i \in Nat /\ n - i \in 0..n - 1 /\ n - (n - i) = i
  OBVIOUS
<1> QED BY <1>0, <1>1

-----------------------------------------------------------------------------
(* Selecting from a sequence.                                              *)

\* The recursion of Select: the elements of s at the places P, up to each n.
UpTo(s, P) ==
  CHOOSE u : u = [n \in 0..Len(s) |->
    IF n = 0 THEN <<>> ELSE IF n \in P THEN Snoc(u[n - 1], s[n]) ELSE u[n - 1]]

\* The recursion has a solution, so its value at n is what it says.
LEMMA UpToIs ==
  ASSUME NEW S, NEW s \in Seq(S), NEW P
  PROVE  /\ UpTo(s, P)[0] = <<>>
         /\ \A n \in 1..Len(s) :
              UpTo(s, P)[n] = IF n \in P THEN Snoc(UpTo(s, P)[n - 1], s[n])
                              ELSE UpTo(s, P)[n - 1]
<1> DEFINE Body(u, n) == IF n = 0 THEN <<>>
                         ELSE IF n \in P THEN Snoc(u[n - 1], s[n]) ELSE u[n - 1]
           Solves(u, k) == u = [n \in 0..k |-> Body(u, n)]
           T == {k \in 0..Len(s) : \E u : Solves(u, k)}
<1>1. 0 \in T
  <2> DEFINE u == [n \in 0..0 |-> <<>>]
  <2>1. \A n \in 0..0 : Body(u, n) = <<>>
    OBVIOUS
  <2>2. Solves(u, 0)
    BY <2>1
  <2> HIDE DEF Solves
  <2> QED BY <2>2
<1>2. ASSUME NEW k \in 1..Len(s), k - 1 \in T PROVE k \in T
  <2>1. PICK u : Solves(u, k - 1)
    BY <1>2
  <2> DEFINE v == [n \in 0..k |-> IF n = k THEN Body(u, k) ELSE u[n]]
  <2>2. \A n \in 0..k - 1 : u[n] = Body(u, n)
    BY <2>1
  <2> HIDE DEF Solves
  <2>3. ASSUME NEW n \in 0..k PROVE Body(v, n) = Body(u, n)
    <3>1. CASE n = 0
      BY <3>1
    <3>2. CASE n > 0
      <4>1. v[n - 1] = u[n - 1]
        BY <3>2
      <4> HIDE DEF v
      <4> QED BY <4>1
    <3> QED BY <3>1, <3>2
  <2> HIDE DEF Body
  <2>4. \A n \in 0..k : v[n] = Body(v, n)
    <3> SUFFICES ASSUME NEW n \in 0..k PROVE v[n] = Body(v, n)
      OBVIOUS
    <3>1. n = k \/ n \in 0..k - 1
      OBVIOUS
    <3> QED BY <2>2, <2>3, <3>1
  <2>5. v = [n \in 0..k |-> v[n]]
    OBVIOUS
  <2> HIDE DEF v
  <2>6. Solves(v, k)
    BY <2>4, <2>5 DEF Solves
  <2> QED BY <2>6
<1>3. \E u : Solves(u, Len(s))
  <2> HIDE DEF Solves
  <2>1. Len(s) \in Nat
    OBVIOUS
  <2>2. \A k \in 0..Len(s) : k \in T
    <3> HIDE DEF T
    <3> QED BY <1>1, <1>2, <2>1, Upward
  <2> QED BY <2>1, <2>2
<1> DEFINE u == UpTo(s, P)
<1>4. Solves(u, Len(s))
  <2>1. u = CHOOSE x : Solves(x, Len(s))
    BY DEF UpTo
  <2> HIDE DEF Solves, u
  <2> QED BY <1>3, <2>1
<1>5. \A n \in 0..Len(s) : u[n] = Body(u, n)
  <2> HIDE DEF u
  <2> QED BY <1>4
<1> QED
  <2> HIDE DEF u
  <2>1. u[0] = <<>>
    BY <1>5
  <2>2. \A n \in 1..Len(s) : u[n] = IF n \in P THEN Snoc(u[n - 1], s[n]) ELSE u[n - 1]
    BY <1>5
  <2> QED BY <2>1, <2>2 DEF u

\* Select is that recursion at the end of s.
LEMMA SelectIs ==
  ASSUME NEW s, NEW P
  PROVE  Select(s, P) = UpTo(s, P)[Len(s)]
BY DEF Select, UpTo, Snoc

\* It collects elements of s.
LEMMA UpToIsSeq ==
  ASSUME NEW S, NEW s \in Seq(S), NEW P, NEW n \in 0..Len(s)
  PROVE  UpTo(s, P)[n] \in Seq(S)
<1> DEFINE T == {k \in 0..Len(s) : UpTo(s, P)[k] \in Seq(S)}
<1>1. 0 \in T
  <2>1. UpTo(s, P)[0] = <<>>
    BY UpToIs
  <2>2. <<>> \in Seq(S) /\ 0 \in 0..Len(s)
    OBVIOUS
  <2> QED BY <2>1, <2>2
<1>2. ASSUME NEW k \in 1..Len(s), k - 1 \in T PROVE k \in T
  <2>1. UpTo(s, P)[k] = IF k \in P THEN Snoc(UpTo(s, P)[k - 1], s[k]) ELSE UpTo(s, P)[k - 1]
    BY UpToIs
  <2>2. UpTo(s, P)[k - 1] \in Seq(S) /\ s[k] \in S /\ k \in 0..Len(s)
    BY <1>2
  <2> HIDE DEF T
  <2>3. UpTo(s, P)[k] \in Seq(S)
    BY <2>1, <2>2, SnocIs
  <2> QED BY <2>2, <2>3 DEF T
<1>3. Len(s) \in Nat
  OBVIOUS
<1>4. \A k \in 0..Len(s) : k \in T
  <2> HIDE DEF T
  <2> QED BY <1>1, <1>2, <1>3, Upward
<1> QED BY <1>4

\* So does Select.
LEMMA SelectIsSeq ==
  ASSUME NEW S, NEW s \in Seq(S), NEW P
  PROVE  Select(s, P) \in Seq(S)
<1>1. Len(s) \in 0..Len(s)
  OBVIOUS
<1> QED BY <1>1, SelectIs, UpToIsSeq

\* Of no elements it selects none.
LEMMA SelectEmpty ==
  ASSUME NEW P
  PROVE  Select(<<>>, P) = <<>>
<1>1. <<>> \in Seq({}) /\ Len(<<>>) = 0
  OBVIOUS
<1> QED BY <1>1, UpToIs, SelectIs

\* The first element and the others.
LEMMA SelectCons ==
  ASSUME NEW S, NEW g \in S, NEW rest \in Seq(S), NEW P, NEW Q,
         \A n \in 1..Len(rest) : n \in Q <=> n + 1 \in P
  PROVE  Select(Cons(g, rest), P) =
           IF 1 \in P THEN Cons(g, Select(rest, Q)) ELSE Select(rest, Q)
<1> DEFINE all == Cons(g, rest)
           After(b) == IF 1 \in P THEN Cons(g, b) ELSE b
           T == {k \in 0..Len(rest) : UpTo(all, P)[k + 1] = After(UpTo(rest, Q)[k])}
<1>0. /\ all \in Seq(S) /\ Len(all) = Len(rest) + 1 /\ Len(rest) \in Nat
      /\ all[1] = g /\ \A k \in 1..Len(rest) : all[k + 1] = rest[k]
  <2>1. all \in Seq(S) /\ Adds(all, g, rest)
    BY ConsAdds
  <2> HIDE DEF all
  <2> QED BY <2>1 DEF Adds
<1> HIDE DEF all
<1>a. /\ UpTo(all, P)[0] = <<>>
      /\ \A n \in 1..Len(all) :
           UpTo(all, P)[n] = IF n \in P THEN Snoc(UpTo(all, P)[n - 1], all[n])
                             ELSE UpTo(all, P)[n - 1]
  BY <1>0, UpToIs
<1>b. /\ UpTo(rest, Q)[0] = <<>>
      /\ \A n \in 1..Len(rest) :
           UpTo(rest, Q)[n] = IF n \in Q THEN Snoc(UpTo(rest, Q)[n - 1], rest[n])
                              ELSE UpTo(rest, Q)[n - 1]
  BY UpToIs
<1>1. 0 \in T
  <2>1. UpTo(all, P)[1] = IF 1 \in P THEN Snoc(UpTo(all, P)[1 - 1], all[1])
                          ELSE UpTo(all, P)[1 - 1]
    <3>1. 1 \in 1..Len(all)
      BY <1>0
    <3> QED BY <1>a, <3>1
  <2>2. Snoc(<<>>, g) = Cons(g, <<>>)
    BY DEF Snoc, Cons
  <2>3. UpTo(all, P)[1] = After(<<>>)
    BY <1>0, <1>a, <2>1, <2>2
  <2>4. UpTo(all, P)[0 + 1] = After(UpTo(rest, Q)[0]) /\ 0 \in 0..Len(rest)
    BY <1>0, <1>b, <2>3
  <2> HIDE DEF After
  <2> QED BY <2>4
<1>2. ASSUME NEW k \in 1..Len(rest), k - 1 \in T PROVE k \in T
  <2> DEFINE a == UpTo(all, P)[k]
             b == UpTo(rest, Q)[k - 1]
  <2>1. a = After(b)
    <3> HIDE DEF After
    <3>1. UpTo(all, P)[k - 1 + 1] = After(b) /\ k - 1 + 1 = k
      BY <1>2
    <3> QED BY <3>1
  <2>2. b \in Seq(S) /\ rest[k] \in S
    <3>1. k - 1 \in 0..Len(rest)
      OBVIOUS
    <3> QED BY <3>1, UpToIsSeq
  <2>3. UpTo(all, P)[k + 1] = IF k + 1 \in P THEN Snoc(a, rest[k]) ELSE a
    <3>1. k + 1 \in 1..Len(all) /\ k + 1 - 1 = k
      BY <1>0
    <3>2. UpTo(all, P)[k + 1] = IF k + 1 \in P THEN Snoc(UpTo(all, P)[k + 1 - 1], all[k + 1])
                                ELSE UpTo(all, P)[k + 1 - 1]
      BY <1>a, <3>1
    <3> QED BY <1>0, <3>1, <3>2
  <2>4. UpTo(rest, Q)[k] = IF k \in Q THEN Snoc(b, rest[k]) ELSE b
    BY <1>b
  <2> HIDE DEF a, b
  <2>5. Snoc(Cons(g, b), rest[k]) = Cons(g, Snoc(b, rest[k]))
    BY <2>2, ConsSnoc
  <2>6. UpTo(all, P)[k + 1] = After(UpTo(rest, Q)[k])
    BY <2>1, <2>3, <2>4, <2>5
  <2> HIDE DEF After
  <2> QED BY <2>6
<1>3. \A k \in 0..Len(rest) : k \in T
  <2> HIDE DEF T
  <2> QED BY <1>0, <1>1, <1>2, Upward
<1>4. UpTo(all, P)[Len(all)] = After(UpTo(rest, Q)[Len(rest)])
  <2> HIDE DEF After
  <2>1. Len(rest) \in 0..Len(rest)
    BY <1>0
  <2> QED BY <1>0, <1>3, <2>1
<1> QED BY <1>4, SelectIs DEF all

-----------------------------------------------------------------------------
(* What parse_format returns, segment by segment.                          *)

\* The segments a format can be divided into.
Segments(f) == {Segment(f, i) : i \in 1..Len(f)}

\* What the loop finds are segments of the format.
LEMMA FromIsSeq ==
  ASSUME NEW f \in Seq(Char)
  PROVE  \A i \in 1..Len(f) + 1 : From(f, i) \in Seq(Segments(f))
<1> DEFINE S == Segments(f)
           n == Len(f) + 1
           T == {i \in 1..n : From(f, i) \in Seq(S)}
<1>0. n \in Nat /\ n = Len(f) + 1 /\ \A i \in 1..n : i <= Len(f) => Segment(f, i) \in S
  BY DEF Segments
<1> HIDE DEF S, n
<1>1. ASSUME NEW i \in 1..n, \A j \in i + 1..n : j \in T PROVE i \in T
  <2>1. CASE i > Len(f)
    <3>1. From(f, i) = <<>>
      BY <1>0, <2>1, Turn
    <3>2. From(f, i) \in Seq(S)
      BY <3>1
    <3> QED BY <3>2
  <2>2. CASE i <= Len(f) /\ Segment(f, i).kind = "error"
    <3>1. From(f, i) = <<Segment(f, i)>> /\ Segment(f, i) \in S
      BY <1>0, <2>2, Turn
    <3>2. From(f, i) \in Seq(S)
      BY <3>1
    <3> QED BY <3>2
  <2>3. CASE i <= Len(f) /\ Segment(f, i).kind # "error"
    <3> DEFINE next == Segment(f, i).to + 1
    <3>1. next \in i + 1..n /\ From(f, i) = Cons(Segment(f, i), From(f, next))
      BY <1>0, <2>3, Turn
    <3>2. From(f, next) \in Seq(S) /\ Segment(f, i) \in S
      BY <1>0, <1>1, <2>3, <3>1
    <3>3. Cons(Segment(f, i), From(f, next)) \in Seq(S)
      BY <3>2, ConsIs
    <3> QED BY <3>1, <3>3
  <2> QED BY <1>0, <2>1, <2>2, <2>3
<1>2. \A i \in 1..n : i \in T
  <2> HIDE DEF T
  <2> QED BY <1>0, <1>1, Downward
<1> QED BY <1>2, <1>0 DEF S

\* Nothing found is a format without segments.
LEMMA ParsedEmpty ==
  LET p == Parsed(<<>>) IN p.ok /\ p.segments = <<>> /\ p.specs = <<>> /\ p.errors = <<>>
<1>1. Errors(<<>>) = {}
  BY DEF Errors
<1>2. \A P : Select(<<>>, P) = <<>>
  BY SelectEmpty
<1> QED BY <1>1, <1>2 DEF Parsed

\* One more segment in front of what was found.
LEMMA ParsedCons ==
  ASSUME NEW S, NEW g \in S, NEW rest \in Seq(S)
  PROVE  LET p == Parsed(Cons(g, rest))
             r == Parsed(rest)
         IN /\ p.ok <=> g.kind # "error" /\ r.ok
            /\ p.segments = IF g.kind # "error" THEN Cons(g, r.segments) ELSE r.segments
            /\ p.specs = IF g.kind = "spec" /\ g.conversion # "%" THEN Cons(g, r.specs)
                         ELSE r.specs
            /\ p.errors = IF g.kind = "error" THEN Cons(g, r.errors) ELSE r.errors
<1> DEFINE all == Cons(g, rest)
<1>0. /\ Len(all) = Len(rest) + 1 /\ Len(rest) \in Nat /\ DOMAIN all = 1..Len(rest) + 1
      /\ DOMAIN rest = 1..Len(rest)
      /\ all[1] = g /\ \A k \in 1..Len(rest) : all[k + 1] = rest[k]
  <2>1. all \in Seq(S) /\ Adds(all, g, rest)
    BY ConsAdds
  <2> HIDE DEF all
  <2> QED BY <2>1 DEF Adds
<1> HIDE DEF all
<1>1. ASSUME NEW k \in 1..Len(rest)
      PROVE  /\ k \in Errors(rest) <=> k + 1 \in Errors(all)
             /\ k \in DOMAIN rest \ Errors(rest) <=> k + 1 \in DOMAIN all \ Errors(all)
             /\ k \in Arguments(rest) <=> k + 1 \in Arguments(all)
  <2>1. k \in DOMAIN rest /\ k + 1 \in DOMAIN all /\ all[k + 1] = rest[k]
    BY <1>0
  <2> QED BY <2>1 DEF Errors, Arguments
<1>2. /\ 1 \in Errors(all) <=> g.kind = "error"
      /\ 1 \in DOMAIN all \ Errors(all) <=> g.kind # "error"
      /\ 1 \in Arguments(all) <=> g.kind = "spec" /\ g.conversion # "%"
  <2>1. 1 \in DOMAIN all /\ all[1] = g
    BY <1>0
  <2> QED BY <2>1 DEF Errors, Arguments
<1>3. Errors(all) = {} <=> g.kind # "error" /\ Errors(rest) = {}
  <2>1. CASE g.kind = "error"
    BY <1>2, <2>1
  <2>2. CASE g.kind # "error" /\ Errors(rest) # {}
    <3>1. PICK k \in Errors(rest) : TRUE
      BY <2>2
    <3>2. k \in 1..Len(rest)
      BY <1>0, <3>1 DEF Errors
    <3> QED BY <1>1, <2>2, <3>1, <3>2
  <2>3. CASE g.kind # "error" /\ Errors(rest) = {}
    <3> SUFFICES ASSUME NEW k \in Errors(all) PROVE FALSE
      BY <2>3
    <3>1. k \in 1..Len(rest) + 1 /\ k # 1
      BY <1>0, <1>2, <2>3 DEF Errors
    <3>2. k - 1 \in 1..Len(rest) /\ k - 1 + 1 = k
      BY <1>0, <3>1
    <3>3. k - 1 \in Errors(rest)
      BY <1>1, <3>2
    <3> QED BY <2>3, <3>3
  <2> QED BY <2>1, <2>2, <2>3
<1>4. Select(all, Errors(all)) =
        IF 1 \in Errors(all) THEN Cons(g, Select(rest, Errors(rest)))
        ELSE Select(rest, Errors(rest))
  <2>1. \A n \in 1..Len(rest) : n \in Errors(rest) <=> n + 1 \in Errors(all)
    BY <1>1
  <2> QED BY <2>1, SelectCons DEF all
<1>5. Select(all, DOMAIN all \ Errors(all)) =
        IF 1 \in DOMAIN all \ Errors(all) THEN Cons(g, Select(rest, DOMAIN rest \ Errors(rest)))
        ELSE Select(rest, DOMAIN rest \ Errors(rest))
  <2> DEFINE P == DOMAIN all \ Errors(all)
             Q == DOMAIN rest \ Errors(rest)
  <2>1. \A n \in 1..Len(rest) : n \in Q <=> n + 1 \in P
    BY <1>1
  <2> HIDE DEF P, Q
  <2>2. Select(all, P) = IF 1 \in P THEN Cons(g, Select(rest, Q)) ELSE Select(rest, Q)
    BY <2>1, SelectCons DEF all
  <2> QED BY <2>2 DEF P, Q
<1>6. Select(all, Arguments(all)) =
        IF 1 \in Arguments(all) THEN Cons(g, Select(rest, Arguments(rest)))
        ELSE Select(rest, Arguments(rest))
  <2>1. \A n \in 1..Len(rest) : n \in Arguments(rest) <=> n + 1 \in Arguments(all)
    BY <1>1
  <2> QED BY <2>1, SelectCons DEF all
<1> QED BY <1>2, <1>3, <1>4, <1>5, <1>6 DEF Parsed, all

\* What is parsed from position i on.
ParsedFrom(f, i) == Parsed(From(f, i))

\* One turn of the loop, in terms of what is parsed.
LEMMA ParseTurn ==
  ASSUME NEW f \in Seq(Char), NEW i \in 1..Len(f) + 1
  PROVE  LET p == ParsedFrom(f, i)
             g == Segment(f, i)
             r == ParsedFrom(f, g.to + 1)
         IN /\ i > Len(f) => p.ok /\ p.segments = <<>> /\ p.specs = <<>>
            /\ i <= Len(f) /\ g.kind = "error" =>
                 ~p.ok /\ p.segments = <<>> /\ p.specs = <<>> /\ p.errors = <<g>>
            /\ i <= Len(f) /\ g.kind # "error" =>
                 /\ g.from = i /\ g.to + 1 \in i + 1..Len(f) + 1
                 /\ p.ok = r.ok /\ p.segments = Cons(g, r.segments) /\ p.errors = r.errors
                 /\ p.specs = IF g.kind = "spec" /\ g.conversion # "%" THEN Cons(g, r.specs)
                              ELSE r.specs
<1> DEFINE p == ParsedFrom(f, i)
           g == Segment(f, i)
           r == ParsedFrom(f, g.to + 1)
<1>1. ASSUME i > Len(f) PROVE p.ok /\ p.segments = <<>> /\ p.specs = <<>>
  <2>1. From(f, i) = <<>>
    BY <1>1, Turn
  <2> QED BY <2>1, ParsedEmpty DEF ParsedFrom
<1>2. ASSUME i <= Len(f), g.kind = "error"
      PROVE  ~p.ok /\ p.segments = <<>> /\ p.specs = <<>> /\ p.errors = <<g>>
  <2> HIDE DEF g
  <2>1. From(f, i) = <<g>>
    BY <1>2, Turn DEF g
  <2>2. From(f, i) = Cons(g, <<>>) /\ <<g>> = Cons(g, <<>>)
    BY <2>1 DEF Cons
  <2>3. g \in Segments(f)
    BY <1>2 DEF Segments, g
  <2>e. PICK rest \in Seq(Segments(f)) : rest = <<>>
    <3>1. \A S : <<>> \in Seq(S)
      OBVIOUS
    <3> QED BY ONLY <3>1
  <2> DEFINE q == Parsed(Cons(g, rest))
             e == Parsed(rest)
  <2>4. /\ q.ok <=> g.kind # "error" /\ e.ok
        /\ q.segments = IF g.kind # "error" THEN Cons(g, e.segments) ELSE e.segments
        /\ q.specs = IF g.kind = "spec" /\ g.conversion # "%" THEN Cons(g, e.specs) ELSE e.specs
        /\ q.errors = IF g.kind = "error" THEN Cons(g, e.errors) ELSE e.errors
    BY <2>3, ParsedCons
  <2>5. e.ok /\ e.segments = <<>> /\ e.specs = <<>> /\ e.errors = <<>>
    BY <2>e, ParsedEmpty
  <2>6. p = q
    BY <2>2, <2>e DEF ParsedFrom
  <2> HIDE DEF p, q, e
  <2> QED BY <1>2, <2>2, <2>4, <2>5, <2>6
<1>3. ASSUME i <= Len(f), g.kind # "error"
      PROVE  /\ g.from = i /\ g.to + 1 \in i + 1..Len(f) + 1
             /\ p.ok = r.ok /\ p.segments = Cons(g, r.segments) /\ p.errors = r.errors
             /\ p.specs = IF g.kind = "spec" /\ g.conversion # "%" THEN Cons(g, r.specs)
                          ELSE r.specs
  <2>1. g.from = i /\ g.to + 1 \in i + 1..Len(f) + 1 /\ g \in Segments(f)
    BY <1>3, Turn, SegmentStays DEF Segments
  <2>2. From(f, i) = Cons(g, From(f, g.to + 1))
    BY <1>3, Turn
  <2>3. From(f, g.to + 1) \in Seq(Segments(f))
    BY <2>1, FromIsSeq
  <2> DEFINE rest == From(f, g.to + 1)
             q == Parsed(Cons(g, rest))
  <2> HIDE DEF g
  <2>4. /\ q.ok <=> g.kind # "error" /\ r.ok
        /\ q.segments = IF g.kind # "error" THEN Cons(g, r.segments) ELSE r.segments
        /\ q.specs = IF g.kind = "spec" /\ g.conversion # "%" THEN Cons(g, r.specs) ELSE r.specs
        /\ q.errors = IF g.kind = "error" THEN Cons(g, r.errors) ELSE r.errors
    BY <2>1, <2>3, ParsedCons DEF ParsedFrom
  <2>5. p = q
    BY <2>2 DEF ParsedFrom
  <2>6. p.ok \in BOOLEAN /\ r.ok \in BOOLEAN
    BY DEF ParsedFrom, Parsed
  <2> HIDE DEF p, q, r
  <2> QED BY <1>3, <2>1, <2>4, <2>5, <2>6
<1> QED
  <2> HIDE DEF p, g, r
  <2>1. /\ i > Len(f) => p.ok /\ p.segments = <<>> /\ p.specs = <<>>
        /\ i <= Len(f) /\ g.kind = "error" =>
             ~p.ok /\ p.segments = <<>> /\ p.specs = <<>> /\ p.errors = <<g>>
        /\ i <= Len(f) /\ g.kind # "error" =>
             /\ g.from = i /\ g.to + 1 \in i + 1..Len(f) + 1
             /\ p.ok = r.ok /\ p.segments = Cons(g, r.segments) /\ p.errors = r.errors
             /\ p.specs = IF g.kind = "spec" /\ g.conversion # "%" THEN Cons(g, r.specs)
                          ELSE r.specs
    BY <1>1, <1>2, <1>3
  <2> QED BY <2>1 DEF p, g, r

-----------------------------------------------------------------------------
(* The segments tile the format.                                           *)

\* Where the n-th segment from position i on ends.
EndOf(i, p, n) == IF n = 0 THEN i - 1 ELSE p.segments[n].to

\* The segments of p follow each other from position i to the end, or to the error.
Tiles(f, i, p) ==
  /\ p.segments \in Seq(Segments(f))
  /\ \A n \in 1..Len(p.segments) :
       /\ p.segments[n].from = EndOf(i, p, n - 1) + 1
       /\ p.segments[n].to >= p.segments[n].from
  /\ EndOf(i, p, Len(p.segments)) + 1 = IF p.ok THEN Len(f) + 1 ELSE p.errors[1].from

\* So do those that the loop finds, from any position on.
LEMMA ParseTiles ==
  ASSUME NEW f \in Seq(Char)
  PROVE  \A i \in 1..Len(f) + 1 : Tiles(f, i, ParsedFrom(f, i))
<1> DEFINE n == Len(f) + 1
           T == {i \in 1..n : Tiles(f, i, ParsedFrom(f, i))}
<1>0. n \in Nat /\ n = Len(f) + 1
  OBVIOUS
<1>1. ASSUME NEW i \in 1..n, \A j \in i + 1..n : j \in T PROVE i \in T
  <2> DEFINE p == ParsedFrom(f, i)
             g == Segment(f, i)
             next == g.to + 1
             r == ParsedFrom(f, next)
  <2>0. /\ i > Len(f) => p.ok /\ p.segments = <<>>
        /\ i <= Len(f) /\ g.kind = "error" => ~p.ok /\ p.segments = <<>> /\ p.errors = <<g>>
        /\ i <= Len(f) /\ g.kind # "error" =>
             /\ g.from = i /\ next \in i + 1..n
             /\ p.ok = r.ok /\ p.segments = Cons(g, r.segments) /\ p.errors = r.errors
        /\ i <= Len(f) => g.from = i /\ g \in Segments(f)
    BY ParseTurn, SegmentStays DEF Segments
  <2> HIDE DEF p, g, r
  <2>1. CASE i > Len(f)
    <3>1. p.segments \in Seq(Segments(f)) /\ Len(p.segments) = 0
      <4>1. p.segments = <<>>
        BY <2>0, <2>1
      <4>2. \A S : <<>> \in Seq(S) /\ Len(<<>>) = 0
        OBVIOUS
      <4> QED BY ONLY <4>1, <4>2, Zenon
    <3>2. EndOf(i, p, 0) + 1 = Len(f) + 1 /\ p.ok
      BY <2>0, <2>1 DEF EndOf
    <3>3. Tiles(f, i, p)
      BY <3>1, <3>2 DEF Tiles
    <3> QED BY <3>3 DEF p
  <2>2. CASE i <= Len(f) /\ g.kind = "error"
    <3>1. p.segments \in Seq(Segments(f)) /\ Len(p.segments) = 0
      <4>1. p.segments = <<>>
        BY <2>0, <2>2
      <4>2. \A S : <<>> \in Seq(S) /\ Len(<<>>) = 0
        OBVIOUS
      <4> QED BY ONLY <4>1, <4>2, Zenon
    <3>2. EndOf(i, p, 0) + 1 = i /\ ~p.ok /\ p.errors[1].from = i
      BY <2>0, <2>2 DEF EndOf
    <3>3. Tiles(f, i, p)
      BY <3>1, <3>2 DEF Tiles
    <3> QED BY <3>3 DEF p
  <2>3. CASE i <= Len(f) /\ g.kind # "error"
    <3>1. Tiles(f, next, r) /\ next \in Int
      BY <1>0, <1>1, <2>0, <2>3 DEF r
    <3> DEFINE t == r.segments
               s == Cons(g, t)
    <3>2. t \in Seq(Segments(f)) /\ Len(t) \in Nat
      BY <3>1 DEF Tiles
    <3> HIDE DEF t
    <3>3. /\ s \in Seq(Segments(f)) /\ Len(s) = Len(t) + 1 /\ s[1] = g
          /\ \A k \in 1..Len(t) : s[k + 1] = t[k]
      BY <2>0, <2>3, <3>2, ConsIs
    <3> HIDE DEF s
    <3>4. p.segments = s /\ r.segments = t
      BY <2>0, <2>3 DEF s, t
    <3>5. g.to \in Int /\ g.to >= i /\ next = g.to + 1 /\ g.from = i
      BY <2>0, <2>3, SegmentStays DEF g
    <3>6. \A k \in 0..Len(t) : EndOf(i, p, k + 1) = EndOf(next, r, k)
      <4> SUFFICES ASSUME NEW k \in 0..Len(t) PROVE EndOf(i, p, k + 1) = EndOf(next, r, k)
        OBVIOUS
      <4>1. CASE k = 0
        BY <4>1, <3>3, <3>4, <3>5 DEF EndOf
      <4>2. CASE k \in 1..Len(t)
        BY <4>2, <3>3, <3>4 DEF EndOf
      <4> QED BY <4>1, <4>2
    <3>7. ASSUME NEW k \in 1..Len(s)
          PROVE  s[k].from = EndOf(i, p, k - 1) + 1 /\ s[k].to >= s[k].from
      <4>1. CASE k = 1
        BY <4>1, <3>3, <3>5 DEF EndOf
      <4>2. CASE k # 1
        <5>1. k - 1 \in 1..Len(t) /\ k - 1 + 1 = k /\ k - 2 \in 0..Len(t) /\ k - 2 + 1 = k - 1
          BY <4>2, <3>2, <3>3
        <5>2. s[k] = t[k - 1]
          BY <5>1, <3>3
        <5>3. t[k - 1].from = EndOf(next, r, k - 1 - 1) + 1 /\ t[k - 1].to >= t[k - 1].from
          BY <3>1, <3>4, <5>1 DEF Tiles
        <5>4. EndOf(i, p, k - 1) = EndOf(next, r, k - 2) /\ k - 1 - 1 = k - 2
          BY <3>6, <5>1
        <5> QED BY <5>2, <5>3, <5>4
      <4> QED BY <4>1, <4>2
    <3>8. EndOf(i, p, Len(s)) + 1 = IF p.ok THEN Len(f) + 1 ELSE p.errors[1].from
      <4>1. EndOf(i, p, Len(s)) = EndOf(next, r, Len(t))
        BY <3>2, <3>3, <3>6
      <4>2. EndOf(next, r, Len(t)) + 1 = IF r.ok THEN Len(f) + 1 ELSE r.errors[1].from
        BY <3>1, <3>4 DEF Tiles
      <4> QED BY <4>1, <4>2, <2>0, <2>3
    <3>9. Tiles(f, i, p)
      BY <3>3, <3>4, <3>7, <3>8 DEF Tiles
    <3> QED BY <3>9 DEF p
  <2> QED BY <2>0, <2>1, <2>2, <2>3, <1>0
<1>2. \A i \in 1..n : i \in T
  <2> HIDE DEF T, n
  <2> QED BY <1>0, <1>1, Downward
<1> QED BY <1>2

\* The invariant: the format is made of characters, and both formats have been parsed.
TypeInv ==
  /\ fmt \in Seq(Char) /\ parsed = parse_format(fmt)
  /\ required \in Required /\ expected = parse_format(required)

\* Type correctness of every run, as far as it matters here.
LEMMA TypesHold == Spec => []TypeInv
<1>1. Init => TypeInv
  BY DEF Init, TypeInv
<1>2. TypeInv /\ [Next]_vars => TypeInv'
  <2> SUFFICES ASSUME TypeInv, [Next]_vars PROVE TypeInv'
    OBVIOUS
  <2>1. CASE Next
    <3>1. PICK fragment \in Fragments : Write(fragment)
      BY <2>1 DEF Next
    <3>2. fmt' = fmt \o fragment /\ fragment \in Seq(Char)
      BY <3>1, FragmentsAssumption, StringsAreFormats DEF Write
    <3> QED BY <3>1, <3>2 DEF TypeInv, Write
  <2>2. CASE UNCHANGED vars
    BY <2>2 DEF vars, TypeInv
  <2> QED BY <2>1, <2>2
<1> QED BY <1>1, <1>2, PTL DEF Spec

\* Whatever format a student passes to printf, and wherever it is cut off, the
\* segments parse_format cuts it into (format_parser.cpp) follow each other without
\* a gap or an overlap, from the first character to the last one, or to the
\* specifier that could not be read: SegmentsTile, for every set of fragments.
THEOREM NothingIsLost == Spec => []SegmentsTile
<1>1. TypeInv => SegmentsTile
  <2> SUFFICES ASSUME TypeInv PROVE SegmentsTile
    OBVIOUS
  <2>1. fmt \in Seq(Char) /\ parsed = ParsedFrom(fmt, 1)
    BY ParseIs DEF TypeInv, ParsedFrom
  <2>2. Tiles(fmt, 1, parsed)
    <3>1. 1 \in 1..Len(fmt) + 1
      BY <2>1
    <3> QED BY <2>1, <3>1, ParseTiles
  <2> DEFINE ends == [n \in 0..Len(parsed.segments) |->
                        IF n = 0 THEN 0 ELSE parsed.segments[n].to]
  <2>3. /\ parsed.segments \in Seq(Segments(fmt)) /\ Len(parsed.segments) \in Nat
        /\ DOMAIN parsed.segments = 1..Len(parsed.segments)
    BY <2>2 DEF Tiles
  <2>4. \A n \in 0..Len(parsed.segments) : ends[n] = EndOf(1, parsed, n)
    BY DEF EndOf
  <2> HIDE DEF ends
  <2>5. \A n \in 1..Len(parsed.segments) :
          parsed.segments[n].from = ends[n - 1] + 1 /\ ends[n] >= parsed.segments[n].from
    <3> SUFFICES ASSUME NEW n \in 1..Len(parsed.segments)
                 PROVE  parsed.segments[n].from = ends[n - 1] + 1
                          /\ ends[n] >= parsed.segments[n].from
      OBVIOUS
    <3>1. /\ parsed.segments[n].from = EndOf(1, parsed, n - 1) + 1
          /\ parsed.segments[n].to >= parsed.segments[n].from
      BY <2>2 DEF Tiles
    <3>2. ends[n] = parsed.segments[n].to /\ ends[n - 1] = EndOf(1, parsed, n - 1)
      BY <2>3, <2>4 DEF EndOf
    <3> QED BY <3>1, <3>2
  <2>6. ends[Len(parsed.segments)] + 1 = IF parsed.ok THEN Len(fmt) + 1 ELSE parsed.errors[1].from
    BY <2>2, <2>3, <2>4 DEF Tiles
  <2> QED BY <2>3, <2>5, <2>6 DEF SegmentsTile, ends
<1> QED BY <1>1, TypesHold, PTL

-----------------------------------------------------------------------------
(* The parts of a specifier, as places in the format.                      *)

\* The characters that the code's tables name.
LEMMA Characters ==
  /\ Flags = {"-", "+", " ", "#", "0", "'"}
  /\ Digits = {"0", "1", "2", "3", "4", "5", "6", "7", "8", "9"}
  /\ Conversions = {"d", "i", "o", "u", "x", "X", "e", "E", "f", "F", "g", "G", "a", "A",
                    "c", "s", "p", "n", "%"}
<1>1. \A c : c \in Flags <=> c \in {"-", "+", " ", "#", "0", "'"}
  <2>1. DOMAIN FlagOrder = {1, 2, 3, 4, 5, 6}
    BY DEF FlagOrder
  <2>2. /\ FlagOrder[1] = "-" /\ FlagOrder[2] = "+" /\ FlagOrder[3] = " "
        /\ FlagOrder[4] = "#" /\ FlagOrder[5] = "0" /\ FlagOrder[6] = "'"
    BY DEF FlagOrder
  <2> QED BY <2>1, <2>2 DEF Flags, Elements
<1>2. \A c : c \in Digits <=> c \in {"0", "1", "2", "3", "4", "5", "6", "7", "8", "9"}
  <2>1. DOMAIN DigitOrder = {1, 2, 3, 4, 5, 6, 7, 8, 9, 10}
    BY DEF DigitOrder
  <2>2. /\ DigitOrder[1] = "0" /\ DigitOrder[2] = "1" /\ DigitOrder[3] = "2"
        /\ DigitOrder[4] = "3" /\ DigitOrder[5] = "4" /\ DigitOrder[6] = "5"
        /\ DigitOrder[7] = "6" /\ DigitOrder[8] = "7" /\ DigitOrder[9] = "8"
        /\ DigitOrder[10] = "9"
    BY DEF DigitOrder
  <2> QED BY <2>1, <2>2 DEF Digits, Elements
<1>3. \A c : c \in Conversions <=>
               c \in {"d", "i", "o", "u", "x", "X", "e", "E", "f", "F", "g", "G", "a", "A",
                      "c", "s", "p", "n", "%"}
  BY DEF Conversions, IntegerConversions, UnsignedConversions, FloatConversions
<1> QED BY <1>1, <1>2, <1>3

\* The places from a up to b hold a width.
AmountAt(f, a, b) ==
  \/ b = a
  \/ b = a + 1 /\ f[a] = "*"
  \/ f[a] # "0" /\ \A n \in a..b - 1 : f[n] \in Digits

\* The places from b up to c hold a dot and a precision.
DottedAt(f, b, c) ==
  \/ c = b
  \/ c = b + 2 /\ f[b] = "." /\ f[b + 1] = "*"
  \/ c > b /\ f[b] = "." /\ \A n \in b + 1..c - 1 : f[n] \in Digits

\* The places from c up to e hold a length modifier.
ModifierAt(f, c, e) ==
  \/ e = c
  \/ e = c + 1 /\ f[c] \in OneLetterLengths
  \/ e = c + 2 /\ <<f[c], f[c + 1]>> \in TwoLetterLengths

\* The parts of a specifier from i to e end at a, b and c.
Divides(f, i, a, b, c, e) ==
  /\ f[i] = "%" /\ f[e] \in Conversions
  /\ a \in i + 1..e /\ b \in a..e /\ c \in b..e
  /\ \A n \in i + 1..a - 1 : f[n] \in Flags
  /\ AmountAt(f, a, b) /\ DottedAt(f, b, c) /\ ModifierAt(f, c, e)

\* What follows a part is none of its characters: the division is the parser's.
LEMMA DivisionIsGreedy ==
  ASSUME NEW f \in Seq(Char), NEW i \in 1..Len(f), NEW e \in i + 1..Len(f),
         NEW a, NEW b, NEW c, Divides(f, i, a, b, c, e)
  PROVE  LET end == PartEnds(f, i) IN
         /\ end.start = i + 1 /\ end.flags = a /\ end.width = b /\ end.precision = c
         /\ end.length = e
<1> USE DEF Divides
<1> DEFINE Follow == Conversions \cup OneLetterLengths
<1>0. /\ a \in 1..Len(f) /\ b \in 1..Len(f) /\ c \in 1..Len(f) /\ e \in 1..Len(f)
      /\ i + 1 \in 1..Len(f) + 1
  OBVIOUS
<1>1. f[c] \in Follow
  <2>1. CASE e = c
    BY <2>1
  <2>2. CASE e = c + 1 /\ f[c] \in OneLetterLengths
    BY <2>2
  <2>3. CASE e = c + 2 /\ <<f[c], f[c + 1]>> \in TwoLetterLengths
    BY <2>3 DEF TwoLetterLengths, OneLetterLengths
  <2> QED BY <2>1, <2>2, <2>3 DEF ModifierAt
<1>2. f[b] \in Follow \/ f[b] = "."
  BY <1>1 DEF DottedAt
<1>3. f[a] \in Follow \/ f[a] = "." \/ f[a] = "*" \/ (f[a] \in Digits /\ f[a] # "0")
  <2>1. CASE b = a
    BY <1>2, <2>1
  <2>2. CASE b # a
    <3>1. a \in a..b - 1
      BY <2>2, <1>0
    <3> QED BY <2>2, <3>1 DEF AmountAt
  <2> QED BY <2>1, <2>2
<1>4. \A x \in Follow : x \notin Flags /\ x \notin Digits /\ x # "*" /\ x # "."
  BY Characters DEF OneLetterLengths
<1>5. \A x \in Digits : x # "0" => x \notin Flags /\ x # "*" /\ x # "."
  BY Characters
<1>6. "." \notin Flags /\ "." \notin Digits /\ "*" \notin Flags /\ "*" \notin Digits /\ "." # "*"
  BY Characters
<1> HIDE DEF Follow
<1> DEFINE end == PartEnds(f, i)
<1>7. /\ end.start = i + 1
      /\ EndsAt(f, end.start, Flags, end.flags)
      /\ end.width = WidthEnd(f, end.flags)
      /\ end.precision = PrecisionEnd(f, end.width)
      /\ end.length = end.precision + Len(LengthModifier(f, end.precision))
  BY PartsFollow
<1> HIDE DEF end
<1>8. end.flags = a
  <2>1. EndsAt(f, i + 1, Flags, a)
    BY <1>0, <1>3, <1>4, <1>5, <1>6 DEF EndsAt
  <2> QED BY <1>0, <1>7, <2>1, OneEnd
<1>9. WidthEnd(f, a) = b
  <2>0. At(f, a) = f[a] /\ EndsAt(f, a, Digits, DigitsEnd(f, a))
    BY <1>0, DigitsEndAt DEF At
  <2>1. CASE b = a + 1 /\ f[a] = "*"
    BY <2>0, <2>1, WidthIs
  <2>2. CASE b = a
    <3>1. f[a] # "*" /\ EndsAt(f, a, Digits, b)
      BY <1>0, <1>2, <1>4, <1>6, <2>2 DEF EndsAt
    <3>2. DigitsEnd(f, a) = b
      BY <1>0, <2>0, <3>1, OneEnd
    <3> QED BY <2>0, <3>1, <3>2, WidthIs
  <2>3. CASE b # a /\ f[a] # "0" /\ \A n \in a..b - 1 : f[n] \in Digits
    <3>1. f[a] # "*"
      BY <1>0, <1>6, <2>3
    <3>2. EndsAt(f, a, Digits, b)
      BY <1>0, <1>2, <1>4, <1>6, <2>3 DEF EndsAt
    <3>3. DigitsEnd(f, a) = b
      BY <1>0, <2>0, <3>2, OneEnd
    <3> QED BY <2>0, <3>1, <3>3, WidthIs
  <2> QED BY <2>1, <2>2, <2>3 DEF AmountAt
<1>10. PrecisionEnd(f, b) = c
  <2>0. At(f, b) = f[b]
    BY <1>0 DEF At
  <2>1. CASE c = b
    <3>1. f[b] # "."
      BY <1>1, <1>4, <2>1
    <3> QED BY <2>0, <2>1, <3>1, PrecisionIs
  <2>2. CASE c = b + 2 /\ f[b] = "." /\ f[b + 1] = "*"
    <3>1. At(f, b + 1) = f[b + 1]
      BY <1>0, <2>2 DEF At
    <3> QED BY <2>0, <2>2, <3>1, PrecisionIs
  <2>3. CASE c > b /\ f[b] = "." /\ \A n \in b + 1..c - 1 : f[n] \in Digits
    <3>0. b + 1 \in 1..Len(f) /\ At(f, b + 1) = f[b + 1]
      BY <1>0, <2>3 DEF At
    <3>1. f[b + 1] # "*"
      <4>1. CASE c = b + 1
        BY <1>1, <1>4, <4>1
      <4>2. CASE c # b + 1
        <5>1. b + 1 \in b + 1..c - 1
          BY <1>0, <2>3, <4>2
        <5> QED BY <1>6, <2>3, <5>1
      <4> QED BY <4>1, <4>2
    <3>2. EndsAt(f, b + 1, Digits, c)
      BY <1>0, <1>1, <1>4, <2>3 DEF EndsAt
    <3>3. DigitsEnd(f, b + 1) = c
      <4>1. EndsAt(f, b + 1, Digits, DigitsEnd(f, b + 1))
        BY <3>0, DigitsEndAt
      <4> QED BY <3>0, <3>2, <4>1, OneEnd
    <3> QED BY <2>0, <2>3, <3>0, <3>1, <3>3, PrecisionIs
  <2> QED BY <2>1, <2>2, <2>3 DEF DottedAt
<1>11. c + Len(LengthModifier(f, c)) = e
  <2>0. At(f, c) = f[c]
    BY <1>0 DEF At
  <2>1. CASE e = c
    <3>1. f[c] \notin OneLetterLengths /\ \A x : <<f[c], x>> \notin TwoLetterLengths
      BY <2>1, Characters DEF OneLetterLengths, TwoLetterLengths
    <3> QED BY <1>0, <2>0, <2>1, <3>1 DEF LengthModifier
  <2>2. CASE e = c + 1 /\ f[c] \in OneLetterLengths
    <3>1. At(f, c + 1) = f[e]
      BY <1>0, <2>2 DEF At
    <3>2. \A x : <<x, f[e]>> \notin TwoLetterLengths
      BY Characters DEF TwoLetterLengths
    <3> QED BY <1>0, <2>0, <2>2, <3>1, <3>2 DEF LengthModifier
  <2>3. CASE e = c + 2 /\ <<f[c], f[c + 1]>> \in TwoLetterLengths
    <3>1. At(f, c + 1) = f[c + 1]
      BY <1>0, <2>3 DEF At
    <3> QED BY <1>0, <2>0, <2>3, <3>1 DEF LengthModifier
  <2> QED BY <2>1, <2>2, <2>3 DEF ModifierAt
<1> QED BY <1>7, <1>8, <1>9, <1>10, <1>11 DEF end

\* A sequence of one element, and of two.
LEMMA OneLong ==
  ASSUME NEW S, NEW w \in Seq(S), NEW x
  PROVE  w = <<x>> <=> Len(w) = 1 /\ w[1] = x
OBVIOUS

\* The same for two.
LEMMA TwoLong ==
  ASSUME NEW S, NEW w \in Seq(S), NEW x, NEW y
  PROVE  w = <<x, y>> <=> Len(w) = 2 /\ w[1] = x /\ w[2] = y
OBVIOUS

\* What a piece of a sequence holds.
LEMMA PieceIs ==
  ASSUME NEW S, NEW f \in Seq(S), NEW a \in 1..Len(f) + 1, NEW b \in a..Len(f) + 1
  PROVE  LET w == SubSeq(f, a, b - 1) IN
         /\ w \in Seq(S) /\ Len(w) = b - a /\ DOMAIN w = 1..b - a
         /\ \A n \in a..b - 1 : w[n - a + 1] = f[n]
         /\ \A k \in 1..b - a : w[k] = f[a + k - 1]
<1> DEFINE w == SubSeq(f, a, b - 1)
<1>1. \A n \in a..b - 1 : f[n] \in S
  OBVIOUS
<1>2. a \in Int /\ b - 1 \in Int
  OBVIOUS
<1>3. /\ w \in Seq(S)
      /\ Len(w) = IF a <= b - 1 THEN b - 1 - a + 1 ELSE 0
      /\ \A k \in 1..b - 1 - a + 1 : w[k] = f[a + k - 1]
  BY <1>1, <1>2, SubSeqProperties
<1> HIDE DEF w
<1>4. Len(w) = b - a /\ DOMAIN w = 1..b - a
  BY <1>3
<1>5. \A k \in 1..b - a : w[k] = f[a + k - 1]
  BY <1>3
<1>6. \A n \in a..b - 1 : w[n - a + 1] = f[n]
  <2> SUFFICES ASSUME NEW n \in a..b - 1 PROVE w[n - a + 1] = f[n]
    OBVIOUS
  <2>1. n - a + 1 \in 1..b - a /\ a + (n - a + 1) - 1 = n
    OBVIOUS
  <2> QED BY <1>5, <2>1
<1> QED BY <1>3, <1>4, <1>5, <1>6 DEF w

\* What IsSpec asks of the three parts.
IsAmount(w) == w \in {<<>>, <<"*">>} \/ (w[1] # "0" /\ Elements(w) \subseteq Digits)

\* The precision of a specifier with its dot,
IsDotted(w) ==
  w \in {<<>>, <<".", "*">>} \/ (w[1] = "." /\ Elements(Tail(w)) \subseteq Digits)

\* and its length modifier.
IsModifier(w) == w \in {<<>>} \cup TwoLetterLengths \cup {<<x>> : x \in OneLetterLengths}

\* A width in the grammar is one at its place in the format.
LEMMA AmountIff ==
  ASSUME NEW S, NEW f \in Seq(S), NEW a \in 1..Len(f) + 1, NEW b \in a..Len(f) + 1,
         NEW w, w = SubSeq(f, a, b - 1)
  PROVE  IsAmount(w) <=> AmountAt(f, a, b)
<1>1. /\ w \in Seq(S) /\ Len(w) = b - a /\ DOMAIN w = 1..b - a
      /\ \A n \in a..b - 1 : w[n - a + 1] = f[n]
      /\ \A k \in 1..b - a : w[k] = f[a + k - 1]
  BY PieceIs
<1>0. w \in Seq(S)
  BY <1>1
<1>2. w = <<>> <=> b = a
  BY <1>1
<1>3. w = <<"*">> <=> b = a + 1 /\ f[a] = "*"
  <2>1. w = <<"*">> <=> Len(w) = 1 /\ w[1] = "*"
    BY ONLY <1>0, OneLong
  <2>2. b = a + 1 => w[1] = f[a]
    BY <1>1
  <2> QED BY <1>1, <2>1, <2>2
<1>4. b # a => w[1] = f[a]
  BY <1>1
<1>5. Elements(w) \subseteq Digits <=> \A n \in a..b - 1 : f[n] \in Digits
  <2>1. ASSUME Elements(w) \subseteq Digits, NEW n \in a..b - 1 PROVE f[n] \in Digits
    <3>1. n - a + 1 \in DOMAIN w /\ w[n - a + 1] = f[n]
      BY <1>1
    <3> QED BY <2>1, <3>1 DEF Elements
  <2>2. ASSUME \A n \in a..b - 1 : f[n] \in Digits, NEW k \in DOMAIN w PROVE w[k] \in Digits
    <3>1. w[k] = f[a + k - 1] /\ a + k - 1 \in a..b - 1
      BY <1>1
    <3> QED BY <2>2, <3>1
  <2> QED BY <2>1, <2>2 DEF Elements
<1>6. (w \in {<<>>, <<"*">>} \/ (w[1] # "0" /\ Elements(w) \subseteq Digits))
        <=> AmountAt(f, a, b)
  BY <1>2, <1>3, <1>4, <1>5 DEF AmountAt
<1> QED BY <1>6 DEF IsAmount

\* So is a precision,
LEMMA DottedIff ==
  ASSUME NEW S, NEW f \in Seq(S), NEW b \in 1..Len(f) + 1, NEW c \in b..Len(f) + 1,
         NEW w, w = SubSeq(f, b, c - 1)
  PROVE  IsDotted(w) <=> DottedAt(f, b, c)
<1>1. /\ w \in Seq(S) /\ Len(w) = c - b /\ DOMAIN w = 1..c - b
      /\ \A n \in b..c - 1 : w[n - b + 1] = f[n]
      /\ \A k \in 1..c - b : w[k] = f[b + k - 1]
  BY PieceIs
<1>0. w \in Seq(S)
  BY <1>1
<1>2. w = <<>> <=> c = b
  BY <1>1
<1>3. w = <<".", "*">> <=> c = b + 2 /\ f[b] = "." /\ f[b + 1] = "*"
  <2>1. w = <<".", "*">> <=> Len(w) = 2 /\ w[1] = "." /\ w[2] = "*"
    BY ONLY <1>0, TwoLong
  <2>2. c = b + 2 => w[1] = f[b] /\ w[2] = f[b + 1]
    BY <1>1
  <2> QED BY <1>1, <2>1, <2>2
<1>4. c # b => w[1] = f[b]
  BY <1>1
<1>5. ASSUME c # b
      PROVE  Elements(Tail(w)) \subseteq Digits <=> \A n \in b + 1..c - 1 : f[n] \in Digits
  <2> DEFINE t == Tail(w)
  <2>0. w # <<>>
    BY <1>2, <1>5
  <2>1. t \in Seq(S) /\ Len(t) = Len(w) - 1 /\ \A k \in 1..Len(t) : t[k] = w[k + 1]
    BY <1>1, <2>0, HeadTailProperties
  <2> HIDE DEF t
  <2>2. DOMAIN t = 1..c - b - 1 /\ \A k \in 1..c - b - 1 : t[k] = f[b + k]
    <3>1. DOMAIN t = 1..c - b - 1 /\ Len(t) = c - b - 1
      BY <1>1, <2>1
    <3>2. ASSUME NEW k \in 1..c - b - 1 PROVE t[k] = f[b + k]
      <4>1. k + 1 \in 1..c - b /\ b + (k + 1) - 1 = b + k
        OBVIOUS
      <4>2. t[k] = w[k + 1]
        BY <2>1, <3>1
      <4> QED BY <1>1, <4>1, <4>2
    <3> QED BY <3>1, <3>2
  <2>3. ASSUME Elements(t) \subseteq Digits, NEW n \in b + 1..c - 1 PROVE f[n] \in Digits
    <3>1. n - b \in 1..c - b - 1 /\ b + (n - b) = n
      OBVIOUS
    <3> QED BY <2>2, <2>3, <3>1 DEF Elements
  <2>4. ASSUME \A n \in b + 1..c - 1 : f[n] \in Digits, NEW k \in DOMAIN t
        PROVE  t[k] \in Digits
    <3>1. t[k] = f[b + k] /\ b + k \in b + 1..c - 1
      BY <2>2
    <3> QED BY <2>4, <3>1
  <2>5. Elements(t) \subseteq Digits <=> \A n \in b + 1..c - 1 : f[n] \in Digits
    BY <2>3, <2>4 DEF Elements
  <2> QED BY <2>5 DEF t
<1>6. (w \in {<<>>, <<".", "*">>} \/ (w[1] = "." /\ Elements(Tail(w)) \subseteq Digits))
        <=> DottedAt(f, b, c)
  <2>1. CASE c = b
    BY <1>2, <2>1 DEF DottedAt
  <2>2. CASE c # b
    BY <1>2, <1>3, <1>4, <1>5, <2>2 DEF DottedAt
  <2> QED BY <2>1, <2>2
<1> QED BY <1>6 DEF IsDotted

\* and a length modifier.
LEMMA ModifierIff ==
  ASSUME NEW S, NEW f \in Seq(S), NEW c \in 1..Len(f) + 1, NEW e \in c..Len(f) + 1,
         NEW w, w = SubSeq(f, c, e - 1)
  PROVE  IsModifier(w) <=> ModifierAt(f, c, e)
<1>1. /\ w \in Seq(S) /\ Len(w) = e - c /\ DOMAIN w = 1..e - c
      /\ \A n \in c..e - 1 : w[n - c + 1] = f[n]
      /\ \A k \in 1..e - c : w[k] = f[c + k - 1]
  BY PieceIs
<1>0. w \in Seq(S)
  BY <1>1
<1>2. w = <<>> <=> e = c
  BY <1>1
<1>3. \A x, y : w = <<x, y>> <=> e = c + 2 /\ <<f[c], f[c + 1]>> = <<x, y>>
  <2> SUFFICES ASSUME NEW x, NEW y
               PROVE  w = <<x, y>> <=> e = c + 2 /\ <<f[c], f[c + 1]>> = <<x, y>>
    OBVIOUS
  <2>1. w = <<x, y>> <=> Len(w) = 2 /\ w[1] = x /\ w[2] = y
    BY ONLY <1>0, TwoLong
  <2>2. e = c + 2 => w[1] = f[c] /\ w[2] = f[c + 1]
    BY <1>1
  <2> QED BY <1>1, <2>1, <2>2
<1>4. \A x : w = <<x>> <=> e = c + 1 /\ f[c] = x
  <2> SUFFICES ASSUME NEW x PROVE w = <<x>> <=> e = c + 1 /\ f[c] = x
    OBVIOUS
  <2>1. w = <<x>> <=> Len(w) = 1 /\ w[1] = x
    BY ONLY <1>0, OneLong
  <2>2. e = c + 1 => w[1] = f[c]
    BY <1>1
  <2> QED BY <1>1, <2>1, <2>2
<1>5. w \in TwoLetterLengths <=> e = c + 2 /\ <<f[c], f[c + 1]>> \in TwoLetterLengths
  BY <1>3 DEF TwoLetterLengths
<1>6. w \in {<<x>> : x \in OneLetterLengths} <=> e = c + 1 /\ f[c] \in OneLetterLengths
  BY <1>4
<1>7. w \in {<<>>} \cup TwoLetterLengths \cup {<<x>> : x \in OneLetterLengths}
        <=> ModifierAt(f, c, e)
  BY <1>2, <1>5, <1>6 DEF ModifierAt
<1> QED BY <1>7 DEF IsModifier

\* A piece of a piece of the format is a piece of the format.
LEMMA PartOf ==
  ASSUME NEW S, NEW f \in Seq(S), NEW i \in 1..Len(f), NEW e \in i + 1..Len(f),
         NEW p \in 1..e - i, NEW q \in p..e - i
  PROVE  SubSeq(SubSeq(f, i, e), p + 1, q) = SubSeq(f, i + p, i + q - 1)
<1>1. e - i + 1 \in Nat /\ p + 1 \in 1..e - i + 1 /\ q \in 1..e - i + 1
      /\ i + (p + 1) - 1 = i + p
  OBVIOUS
<1>2. \A m, n \in 1..e - i + 1 :
        SubSeq(SubSeq(f, i, e), m, n) = SubSeq(f, i + m - 1, i + n - 1)
  <2>1. f \in Seq(S) /\ i \in 1..Len(f) /\ e \in 1..Len(f)
    OBVIOUS
  <2> QED BY <2>1, SubSeqOfSubSeq
<1>3. SubSeq(SubSeq(f, i, e), p + 1, q) = SubSeq(f, i + (p + 1) - 1, i + q - 1)
  BY <1>1, <1>2
<1> QED BY <1>1, <1>3

\* What IsSpec asks of the places where the flags, the width, and the precision end.
DividesAt(t, flags, width, precision, length) ==
  /\ flags <= width /\ width <= precision /\ precision <= length
  /\ length = Len(t) - 1
  /\ \A n \in 2..flags : t[n] \in Flags
  /\ LET amount == SubSeq(t, flags + 1, width)
         dotted == SubSeq(t, width + 1, precision)
         modifier == SubSeq(t, precision + 1, length)
     IN IsAmount(amount) /\ IsDotted(dotted) /\ IsModifier(modifier)

\* A specifier of the grammar, by the ends of its parts.
LEMMA IsSpecIs ==
  ASSUME NEW t
  PROVE  IsSpec(t) <=>
           /\ t[1] = "%" /\ t[Len(t)] \in Conversions
           /\ \E flags \in 1..Len(t), width, precision, length \in 1..Len(t) :
                DividesAt(t, flags, width, precision, length)
BY DEF IsSpec, DividesAt, IsAmount, IsDotted, IsModifier

\* These ends, moved by where the specifier starts, divide the format there.
LEMMA SpecPlaces ==
  ASSUME NEW S, NEW f \in Seq(S), NEW i \in 1..Len(f), NEW e \in i + 1..Len(f),
         f[i] = "%", f[e] \in Conversions,
         NEW x \in 1..e - i, NEW y \in x..e - i, NEW z \in y..e - i
  PROVE  DividesAt(SubSeq(f, i, e), x, y, z, e - i) <=> Divides(f, i, i + x, i + y, i + z, e)
<1> DEFINE t == SubSeq(f, i, e)
           w == SubSeq(t, x + 1, y)
           d == SubSeq(t, y + 1, z)
           m == SubSeq(t, z + 1, e - i)
<1>0. /\ i + x \in 1..Len(f) + 1 /\ i + y \in i + x..Len(f) + 1 /\ i + y \in 1..Len(f) + 1
      /\ i + z \in i + y..Len(f) + 1 /\ i + z \in 1..Len(f) + 1
      /\ e \in i + z..Len(f) + 1 /\ e \in Int /\ i \in Int
      /\ i + x \in i + 1..e /\ i + y \in i + x..e /\ i + z \in i + y..e /\ i + (e - i) = e
      /\ e - i \in z..e - i /\ z \in 1..e - i /\ y \in 1..e - i
  OBVIOUS
<1>1. Len(t) = e - i + 1 /\ \A n \in 1..e - i + 1 : t[n] = f[i + n - 1]
  <2>1. e + 1 \in i..Len(f) + 1 /\ e + 1 - 1 = e /\ i \in 1..Len(f) + 1 /\ e + 1 - i = e - i + 1
    OBVIOUS
  <2>2. LET v == SubSeq(f, i, e + 1 - 1) IN
          Len(v) = e + 1 - i /\ \A n \in 1..e + 1 - i : v[n] = f[i + n - 1]
    <3>1. f \in Seq(S) /\ e + 1 \in i..Len(f) + 1 /\ i \in 1..Len(f) + 1
      BY <2>1
    <3> HIDE DEF t
    <3> QED BY <3>1, PieceIs
  <2> QED BY <2>1, <2>2
<1>2. w = SubSeq(f, i + x, i + y - 1)
  BY <1>0, PartOf
<1>3. d = SubSeq(f, i + y, i + z - 1)
  BY <1>0, PartOf
<1>4. m = SubSeq(f, i + z, e - 1)
  <2>1. m = SubSeq(f, i + z, i + (e - i) - 1)
    BY <1>0, PartOf
  <2> QED BY <1>0, <2>1
<1> HIDE DEF t, w, d, m
<1> DEFINE a == i + x
           b == i + y
           c == i + z
<1>a. /\ a \in 1..Len(f) + 1 /\ b \in a..Len(f) + 1 /\ b \in 1..Len(f) + 1
      /\ c \in b..Len(f) + 1 /\ w = SubSeq(f, a, b - 1) /\ d = SubSeq(f, b, c - 1)
  BY <1>0, <1>2, <1>3
<1>5. IsAmount(w) <=> AmountAt(f, a, b)
  <2> HIDE DEF a, b, c
  <2> QED BY <1>a, AmountIff
<1>6. IsDotted(d) <=> DottedAt(f, b, c)
  <2> HIDE DEF a, b, c
  <2> QED BY <1>a, DottedIff
<1>7. IsModifier(m) <=> ModifierAt(f, i + z, e)
  BY <1>0, <1>4, ModifierIff
<1>8. (\A n \in 2..x : t[n] \in Flags) <=> \A n \in i + 1..i + x - 1 : f[n] \in Flags
  <2>1. ASSUME \A n \in 2..x : t[n] \in Flags, NEW n \in i + 1..i + x - 1 PROVE f[n] \in Flags
    <3>1. n - i + 1 \in 2..x /\ n - i + 1 \in 1..e - i + 1 /\ i + (n - i + 1) - 1 = n
      OBVIOUS
    <3> QED BY <1>1, <2>1, <3>1
  <2>2. ASSUME \A n \in i + 1..i + x - 1 : f[n] \in Flags, NEW n \in 2..x PROVE t[n] \in Flags
    <3>1. n \in 1..e - i + 1 /\ i + n - 1 \in i + 1..i + x - 1
      OBVIOUS
    <3> QED BY <1>1, <2>2, <3>1
  <2> QED BY <2>1, <2>2
<1>9. DividesAt(t, x, y, z, e - i) <=>
        /\ \A n \in 2..x : t[n] \in Flags
        /\ IsAmount(w) /\ IsDotted(d) /\ IsModifier(m)
  <2>1. x <= y /\ y <= z /\ z <= e - i /\ e - i = Len(t) - 1
    BY <1>1
  <2> QED BY <2>1 DEF DividesAt, w, d, m
<1>10. DividesAt(t, x, y, z, e - i) <=> Divides(f, i, i + x, i + y, i + z, e)
  BY <1>0, <1>5, <1>6, <1>7, <1>8, <1>9 DEF Divides
<1> QED BY <1>10 DEF t

\* A part of a format is a specifier when its places divide.
LEMMA SpecIff ==
  ASSUME NEW S, NEW f \in Seq(S), NEW i \in 1..Len(f), NEW e \in i + 1..Len(f)
  PROVE  IsSpec(SubSeq(f, i, e)) <=> \E a, b, c : Divides(f, i, a, b, c, e)
<1> DEFINE t == SubSeq(f, i, e)
<1>1. Len(t) = e - i + 1 /\ t[1] = f[i] /\ t[Len(t)] = f[e]
  <2>1. e + 1 \in i..Len(f) + 1 /\ i \in 1..Len(f) + 1 /\ e + 1 - 1 = e /\ e + 1 - i = e - i + 1
        /\ 1 \in 1..e + 1 - i /\ e - i + 1 \in 1..e + 1 - i
        /\ i + 1 - 1 = i /\ i + (e - i + 1) - 1 = e
    OBVIOUS
  <2>2. LET v == SubSeq(f, i, e + 1 - 1) IN
          Len(v) = e + 1 - i /\ \A n \in 1..e + 1 - i : v[n] = f[i + n - 1]
    <3> HIDE DEF t
    <3> QED BY <2>1, PieceIs
  <2>3. Len(t) = e - i + 1 /\ \A n \in 1..e + 1 - i : t[n] = f[i + n - 1]
    BY <2>1, <2>2
  <2> HIDE DEF t
  <2> QED BY <2>1, <2>3
<1> HIDE DEF t
<1>2. IsSpec(t) <=>
        /\ f[i] = "%" /\ f[e] \in Conversions
        /\ \E x \in 1..Len(t), y, z, l \in 1..Len(t) : DividesAt(t, x, y, z, l)
  BY <1>1, IsSpecIs
<1>3. ASSUME IsSpec(t) PROVE \E a, b, c : Divides(f, i, a, b, c, e)
  <2>1. PICK x \in 1..Len(t), y \in 1..Len(t), z \in 1..Len(t), l \in 1..Len(t) :
          DividesAt(t, x, y, z, l)
    BY <1>2, <1>3
  <2>2. x <= y /\ y <= z /\ z <= l /\ l = Len(t) - 1
    BY <2>1 DEF DividesAt
  <2>3. x \in 1..e - i /\ y \in x..e - i /\ z \in y..e - i /\ l = e - i
    BY <1>1, <2>2
  <2>4. Divides(f, i, i + x, i + y, i + z, e)
    BY <1>2, <1>3, <2>1, <2>3, SpecPlaces DEF t
  <2> QED BY <2>4
<1>4. ASSUME NEW a, NEW b, NEW c, Divides(f, i, a, b, c, e) PROVE IsSpec(t)
  <2>1. f[i] = "%" /\ f[e] \in Conversions /\ a \in i + 1..e /\ b \in a..e /\ c \in b..e
    BY <1>4 DEF Divides
  <2>2. /\ a - i \in 1..e - i /\ b - i \in a - i..e - i /\ c - i \in b - i..e - i
        /\ i + (a - i) = a /\ i + (b - i) = b /\ i + (c - i) = c
        /\ a - i \in 1..Len(t) /\ b - i \in 1..Len(t) /\ c - i \in 1..Len(t)
        /\ e - i \in 1..Len(t)
    BY <1>1, <2>1
  <2>3. DividesAt(t, a - i, b - i, c - i, e - i)
    BY <1>4, <2>1, <2>2, SpecPlaces DEF t
  <2> QED BY <1>2, <2>1, <2>2, <2>3
<1> QED BY <1>3, <1>4 DEF t

-----------------------------------------------------------------------------
(* The grammar.                                                            *)

\* The parts of a specifier of the grammar are the ones the parser finds.
LEMMA SpecIsRead ==
  ASSUME NEW f \in Seq(Char), NEW i \in 1..Len(f), NEW e \in i + 1..Len(f),
         IsSpec(SubSeq(f, i, e))
  PROVE  f[i] = "%" /\ Segment(f, i).kind = "spec" /\ Segment(f, i).to = e
<1>1. PICK a, b, c : Divides(f, i, a, b, c, e)
  BY SpecIff
<1> DEFINE end == PartEnds(f, i)
           g == ReadSpec(f, i)
<1>2. end.start = i + 1 /\ end.length = e
  BY <1>1, DivisionIsGreedy
<1>3. f[i] = "%" /\ f[e] \in Conversions
  BY <1>1 DEF Divides
<1>4. g.kind = "spec" /\ g.to = e /\ g.conversion = f[e]
  <2>1. g = SpecOf(f, end)
    BY DEF ReadSpec
  <2>2. At(f, e) = f[e]
    BY DEF At
  <2> HIDE DEF end, g
  <2> QED BY <1>2, <2>1, <2>2 DEF SpecOf
<1>5. Segment(f, i) = SpecOrError(f, g)
  BY <1>3 DEF Segment
<1> HIDE DEF g
<1>6. Segment(f, i) = g
  BY <1>3, <1>4, <1>5 DEF SpecOrError
<1> QED BY <1>3, <1>4, <1>6

\* What the parser reads as a specifier is one of the grammar.
LEMMA ReadIsSpec ==
  ASSUME NEW f \in Seq(Char), NEW i \in 1..Len(f), Segment(f, i).kind = "spec"
  PROVE  /\ f[i] = "%" /\ Segment(f, i).from = i /\ Segment(f, i).to \in i + 1..Len(f)
         /\ IsSpec(SubSeq(f, i, Segment(f, i).to))
<1> DEFINE end == PartEnds(f, i)
           g == ReadSpec(f, i)
<1>1. f[i] = "%"
  <2> SUFFICES ASSUME f[i] # "%" PROVE FALSE
    OBVIOUS
  <2>1. Segment(f, i).kind = "literal"
    BY DEF Segment, Literal
  <2> QED BY <2>1
<1>2. Segment(f, i) = SpecOrError(f, g)
  BY <1>1 DEF Segment
<1> HIDE DEF g
<1>3. g.to <= Len(f) /\ g.conversion \in Conversions /\ Segment(f, i) = g
  BY <1>2 DEF SpecOrError, Error
<1>4. /\ end.start = i + 1 /\ EndsAt(f, end.start, Flags, end.flags)
      /\ end.width \in end.flags..Len(f) + 1
      /\ end.precision \in end.width..Len(f) + 1
      /\ end.length \in end.precision..Len(f) + 1
      /\ end.width = WidthEnd(f, end.flags)
      /\ end.precision = PrecisionEnd(f, end.width)
      /\ end.length = end.precision + Len(LengthModifier(f, end.precision))
  BY PartsFollow
<1>5. g = SpecOf(f, end)
  BY DEF ReadSpec, g
<1> HIDE DEF end
<1>6. g.from = end.start - 1 /\ g.to = end.length /\ g.conversion = At(f, end.length)
  BY <1>5 DEF SpecOf
<1> DEFINE a == end.flags
           b == end.width
           c == end.precision
           e == end.length
<1>7. /\ a \in i + 1..e /\ b \in a..e /\ c \in b..e /\ e \in i + 1..Len(f)
      /\ a \in 1..Len(f) /\ b \in 1..Len(f) /\ c \in 1..Len(f)
      /\ f[e] \in Conversions /\ \A n \in i + 1..a - 1 : f[n] \in Flags
      /\ f[a] \notin Flags
  <2>1. /\ a \in i + 1..Len(f) + 1 /\ e <= Len(f)
        /\ \A n \in i + 1..a - 1 : f[n] \in Flags
        /\ a <= Len(f) => f[a] \notin Flags
    BY <1>3, <1>4, <1>6 DEF EndsAt
  <2> HIDE DEF a
  <2>2. /\ a \in i + 1..e /\ b \in a..e /\ c \in b..e /\ e \in i + 1..Len(f)
        /\ a \in 1..Len(f) /\ b \in 1..Len(f) /\ c \in 1..Len(f)
    BY <1>4, <2>1 DEF a
  <2>3. f[e] \in Conversions
    BY <1>3, <1>6, <2>2 DEF At
  <2>4. f[a] \notin Flags
    BY <2>1, <2>2
  <2>5. \A n \in i + 1..a - 1 : f[n] \in Flags
    BY <2>1
  <2> HIDE DEF b, c, e
  <2> QED BY <2>2, <2>3, <2>4, <2>5
<1>a. /\ b = WidthEnd(f, a) /\ c = PrecisionEnd(f, b) /\ e = c + Len(LengthModifier(f, c))
      /\ g.to = e /\ g.from = i
  BY <1>4, <1>6
<1> HIDE DEF a, b, c, e
<1>8. AmountAt(f, a, b)
  <2>0. At(f, a) = f[a]
    BY <1>7 DEF At
  <2>1. CASE f[a] = "*"
    BY <1>7, <1>a, <2>0, <2>1, WidthIs DEF AmountAt
  <2>2. CASE f[a] # "*"
    <3>1. b = DigitsEnd(f, a) /\ EndsAt(f, a, Digits, b)
      BY <1>7, <1>a, <2>0, <2>2, WidthIs, DigitsEndAt
    <3>2. f[a] # "0"
      BY <1>7, Characters
    <3> QED BY <3>1, <3>2 DEF AmountAt, EndsAt
  <2> QED BY <2>1, <2>2
<1>9. DottedAt(f, b, c)
  <2>0. At(f, b) = f[b]
    BY <1>7 DEF At
  <2>1. CASE f[b] # "."
    BY <1>7, <1>a, <2>0, <2>1, PrecisionIs DEF DottedAt
  <2>2. CASE f[b] = "." /\ At(f, b + 1) = "*"
    <3>1. f[b + 1] = "*"
      BY <2>2 DEF At
    <3> QED BY <1>7, <1>a, <2>0, <2>2, <3>1, PrecisionIs DEF DottedAt
  <2>3. CASE f[b] = "." /\ At(f, b + 1) # "*"
    <3>1. c = DigitsEnd(f, b + 1) /\ EndsAt(f, b + 1, Digits, c)
      <4>1. b + 1 \in 1..Len(f) + 1
        BY <1>7
      <4> QED BY <1>a, <2>0, <2>3, <4>1, PrecisionIs, DigitsEndAt
    <3> QED BY <1>7, <2>3, <3>1 DEF DottedAt, EndsAt
  <2> QED BY <2>1, <2>2, <2>3
<1>10. ModifierAt(f, c, e)
  <2>0. At(f, c) = f[c]
    BY <1>7 DEF At
  <2>1. CASE <<At(f, c), At(f, c + 1)>> \in TwoLetterLengths
    <3>1. At(f, c + 1) = f[c + 1]
      BY <2>1 DEF At, TwoLetterLengths
    <3>2. Len(LengthModifier(f, c)) = 2
      BY <2>1 DEF LengthModifier
    <3> QED BY <1>a, <2>0, <2>1, <3>1, <3>2 DEF ModifierAt
  <2>2. CASE <<At(f, c), At(f, c + 1)>> \notin TwoLetterLengths /\ f[c] \in OneLetterLengths
    <3>1. Len(LengthModifier(f, c)) = 1
      BY <2>0, <2>2 DEF LengthModifier
    <3> QED BY <1>a, <2>2, <3>1 DEF ModifierAt
  <2>3. CASE <<At(f, c), At(f, c + 1)>> \notin TwoLetterLengths /\ f[c] \notin OneLetterLengths
    <3>1. Len(LengthModifier(f, c)) = 0
      BY <2>0, <2>3 DEF LengthModifier
    <3> QED BY <1>7, <1>a, <3>1 DEF ModifierAt
  <2> QED BY <2>1, <2>2, <2>3
<1>11. Divides(f, i, a, b, c, e)
  BY <1>1, <1>7, <1>8, <1>9, <1>10 DEF Divides
<1>12. IsSpec(SubSeq(f, i, e))
  <2>1. e \in i + 1..Len(f) /\ \E x, y, z : Divides(f, i, x, y, z, e)
    BY <1>7, <1>11
  <2> QED BY <2>1, SpecIff
<1> QED BY <1>1, <1>3, <1>7, <1>a, <1>12

-----------------------------------------------------------------------------
(* The grammar of whole formats.                                           *)

\* A format of the grammar, given what is known of the later positions.
FormatAt(f, from, i) ==
  \/ i > Len(f)
  \/ i <= Len(f) /\ f[i] # "%" /\ from[i + 1]
  \/ \E e \in i + 1..Len(f) : IsSpec(SubSeq(f, i, e)) /\ from[e + 1]

\* Which positions text and specifiers can go on from: the recursion of IsFormat.
Grammar(f) == CHOOSE from : from = [i \in 1..Len(f) + 1 |-> FormatAt(f, from, i)]

\* IsFormat asks it of the first position.
LEMMA IsFormatIs ==
  ASSUME NEW f
  PROVE  IsFormat(f) <=> Grammar(f)[1]
BY DEF IsFormat, Grammar, FormatAt

\* Which positions parse_format can go on from.
Accepts(f) == [i \in 1..Len(f) + 1 |-> ParsedFrom(f, i).ok]

\* Text may start one character later.
LEMMA LiteralGoesOn ==
  ASSUME NEW f \in Seq(Char), NEW i \in 1..Len(f), f[i] # "%"
  PROVE  /\ ParsedFrom(f, i).ok = ParsedFrom(f, i + 1).ok
         /\ ParsedFrom(f, i).specs = ParsedFrom(f, i + 1).specs
<1> DEFINE e == TextEnd(f, i)
<1>1. Segment(f, i) = Literal(i, e)
  BY DEF Segment, TextEnd
<1>2. EndsAt(f, i, Text, e) /\ f[i] \in Text
  <2>1. EndsAt(f, i, Text, e)
    BY TextEndAt
  <2>2. f[i] \in Text
    BY DEF Text
  <2> QED BY <2>1, <2>2
<1> HIDE DEF e
<1>3. e \in i + 1..Len(f) + 1
  BY <1>2 DEF EndsAt
<1>4. Segment(f, i).kind = "literal" /\ Segment(f, i).to + 1 = e
  BY <1>1, <1>3 DEF Literal
<1>5. ParsedFrom(f, i).ok = ParsedFrom(f, e).ok /\ ParsedFrom(f, i).specs = ParsedFrom(f, e).specs
  BY <1>4, ParseTurn
<1>6. CASE e = i + 1
  BY <1>5, <1>6
<1>7. CASE e # i + 1
  <2>1. i + 1 \in 1..Len(f) /\ f[i + 1] \in Text
    BY <1>2, <1>3, <1>7 DEF EndsAt
  <2> DEFINE d == TextEnd(f, i + 1)
  <2>2. Segment(f, i + 1) = Literal(i + 1, d)
    BY <2>1 DEF Segment, TextEnd, Text
  <2>3. EndsAt(f, i + 1, Text, d)
    BY <2>1, TextEndAt
  <2> HIDE DEF d
  <2>4. EndsAt(f, i + 1, Text, e)
    BY <1>2, <1>3 DEF EndsAt
  <2>5. d = e
    BY <2>1, <2>3, <2>4, OneEnd
  <2>6. Segment(f, i + 1).kind = "literal" /\ Segment(f, i + 1).to + 1 = e
    BY <1>3, <2>2, <2>5 DEF Literal
  <2>7. /\ ParsedFrom(f, i + 1).ok = ParsedFrom(f, e).ok
        /\ ParsedFrom(f, i + 1).specs = ParsedFrom(f, e).specs
    BY <2>1, <2>6, ParseTurn
  <2> QED BY <1>5, <2>7
<1> QED BY <1>6, <1>7

\* parse_format's answers satisfy the grammar's equation.
LEMMA AcceptsIsGrammatical ==
  ASSUME NEW f \in Seq(Char), NEW i \in 1..Len(f) + 1
  PROVE  ParsedFrom(f, i).ok <=> FormatAt(f, Accepts(f), i)
<1>0. \A k \in 1..Len(f) + 1 : Accepts(f)[k] = ParsedFrom(f, k).ok
  BY DEF Accepts
<1>1. CASE i > Len(f)
  BY <1>1, ParseTurn DEF FormatAt
<1>2. CASE i <= Len(f) /\ f[i] # "%"
  <2>1. ~ \E e \in i + 1..Len(f) : IsSpec(SubSeq(f, i, e))
    BY <1>2, SpecIsRead
  <2>2. Accepts(f)[i + 1] = ParsedFrom(f, i).ok
    BY <1>0, <1>2, LiteralGoesOn
  <2> QED BY <1>2, <2>1, <2>2 DEF FormatAt
<1>3. CASE i <= Len(f) /\ f[i] = "%"
  <2>0. Segment(f, i).kind \in {"spec", "error"}
    BY <1>3 DEF Segment, SpecOrError, ReadSpec, SpecOf, Error
  <2>1. CASE Segment(f, i).kind = "spec"
    <3> DEFINE e == Segment(f, i).to
    <3>1. e \in i + 1..Len(f) /\ IsSpec(SubSeq(f, i, e))
      BY <1>3, <2>1, ReadIsSpec
    <3>2. \A x \in i + 1..Len(f) : IsSpec(SubSeq(f, i, x)) => x = e
      BY <1>3, SpecIsRead
    <3>3. ParsedFrom(f, i).ok = ParsedFrom(f, e + 1).ok
      BY <1>3, <2>1, ParseTurn
    <3> HIDE DEF e
    <3>4. Accepts(f)[e + 1] = ParsedFrom(f, i).ok
      BY <1>0, <3>1, <3>3
    <3> QED BY <1>3, <3>1, <3>2, <3>4 DEF FormatAt
  <2>2. CASE Segment(f, i).kind = "error"
    <3>1. ~ \E e \in i + 1..Len(f) : IsSpec(SubSeq(f, i, e))
      BY <1>3, <2>2, SpecIsRead
    <3>2. ~ParsedFrom(f, i).ok
      BY <1>3, <2>2, ParseTurn
    <3> QED BY <1>3, <3>1, <3>2 DEF FormatAt
  <2> QED BY <2>0, <2>1, <2>2
<1> QED BY <1>1, <1>2, <1>3

\* The recursion of IsFormat has a solution: what the parser accepts.
LEMMA GrammarIs ==
  ASSUME NEW f \in Seq(Char)
  PROVE  \A i \in 1..Len(f) + 1 : Grammar(f)[i] <=> FormatAt(f, Grammar(f), i)
<1> DEFINE Solves(from) == from = [i \in 1..Len(f) + 1 |-> FormatAt(f, from, i)]
<1>1. \A i \in 1..Len(f) + 1 : ParsedFrom(f, i).ok = FormatAt(f, Accepts(f), i)
  <2>1. \A i \in 1..Len(f) + 1 :
          ParsedFrom(f, i).ok \in BOOLEAN /\ FormatAt(f, Accepts(f), i) \in BOOLEAN
    BY DEF ParsedFrom, Parsed, FormatAt
  <2> QED BY <2>1, AcceptsIsGrammatical
<1>2. Solves(Accepts(f))
  <2>1. Accepts(f) = [i \in 1..Len(f) + 1 |-> ParsedFrom(f, i).ok]
    BY DEF Accepts
  <2> QED BY <1>1, <2>1
<1>3. Grammar(f) = CHOOSE from : Solves(from)
  BY DEF Grammar
<1> DEFINE g == Grammar(f)
<1>4. Solves(g)
  <2> HIDE DEF Solves
  <2> QED BY <1>2, <1>3
<1> HIDE DEF g
<1>5. \A i \in 1..Len(f) + 1 : g[i] <=> FormatAt(f, g, i)
  BY <1>4
<1> QED BY <1>5 DEF g

\* It has no other, from the last position down.
LEMMA AcceptsTheGrammar ==
  ASSUME NEW f \in Seq(Char)
  PROVE  \A i \in 1..Len(f) + 1 : Grammar(f)[i] <=> ParsedFrom(f, i).ok
<1> DEFINE n == Len(f) + 1
           g == Grammar(f)
           T == {i \in 1..n : g[i] <=> ParsedFrom(f, i).ok}
<1>0. n \in Nat
  OBVIOUS
<1>1. ASSUME NEW i \in 1..n, \A j \in i + 1..n : j \in T PROVE i \in T
  <2>1. g[i] <=> FormatAt(f, g, i)
    BY GrammarIs
  <2>2. ParsedFrom(f, i).ok <=> FormatAt(f, Accepts(f), i)
    BY AcceptsIsGrammatical
  <2>3. \A j \in i + 1..n : g[j] <=> Accepts(f)[j]
    BY <1>1 DEF Accepts
  <2> HIDE DEF g
  <2>4. FormatAt(f, g, i) <=> FormatAt(f, Accepts(f), i)
    <3>1. i <= Len(f) => i + 1 \in i + 1..n
      OBVIOUS
    <3>2. \A e \in i + 1..Len(f) : e + 1 \in i + 1..n
      OBVIOUS
    <3> QED BY <2>3, <3>1, <3>2 DEF FormatAt
  <2> QED BY <2>1, <2>2, <2>4
<1>2. \A i \in 1..n : i \in T
  <2> HIDE DEF T, n
  <2> QED BY <1>0, <1>1, Downward
<1> QED BY <1>2

\* parse_format decides each specifier's parts from left to right and never goes
\* back, yet it accepts a format exactly when there is some way to divide it into
\* text and specifiers of printf's grammar, and what it calls a specifier is one:
\* ParsesTheGrammar, for every format.
THEOREM GrammarIsParsed == Spec => []ParsesTheGrammar
<1>1. TypeInv => ParsesTheGrammar
  <2> SUFFICES ASSUME TypeInv PROVE ParsesTheGrammar
    OBVIOUS
  <2>1. fmt \in Seq(Char) /\ parsed = ParsedFrom(fmt, 1) /\ 1 \in 1..Len(fmt) + 1
    BY ParseIs DEF TypeInv, ParsedFrom
  <2>2. parsed.ok <=> IsFormat(fmt)
    BY <2>1, IsFormatIs, AcceptsTheGrammar
  <2>3. ASSUME NEW n \in DOMAIN parsed.segments, parsed.segments[n].kind = "spec"
        PROVE  IsSpec(SubSeq(fmt, parsed.segments[n].from, parsed.segments[n].to))
    <3>1. parsed.segments \in Seq(Segments(fmt))
      BY <2>1, ParseTiles DEF Tiles
    <3>2. PICK i \in 1..Len(fmt) : parsed.segments[n] = Segment(fmt, i)
      <4>1. parsed.segments[n] \in Segments(fmt)
        BY <2>3, <3>1
      <4> QED BY <4>1 DEF Segments
    <3> QED BY <2>1, <2>3, <3>2, ReadIsSpec
  <2> QED BY <2>2, <2>3 DEF ParsesTheGrammar
<1> QED BY <1>1, TypesHold, PTL

-----------------------------------------------------------------------------
(* The numbers of a specifier, and specifiers that move.                   *)

\* One more digit.
More(v, c) == 10 * v + Value(c)

\* The recursion of Number: the value of the digits from i up to each n.
NumberTo(f, i, e) ==
  CHOOSE u : u = [n \in i - 1..e - 1 |-> IF n < i THEN 0 ELSE More(u[n - 1], f[n])]

\* The recursion has a solution, so its value at n is what it says.
LEMMA NumberToIs ==
  ASSUME NEW f, NEW i \in Int, NEW e \in Int, i <= e
  PROVE  /\ NumberTo(f, i, e)[i - 1] = 0
         /\ \A n \in i..e - 1 : NumberTo(f, i, e)[n] = More(NumberTo(f, i, e)[n - 1], f[n])
<1> DEFINE Body(u, n) == IF n < i THEN 0 ELSE More(u[n - 1], f[n])
           Solves(u, m) == u = [n \in i - 1..m |-> Body(u, n)]
           T == {k \in 0..e - i : \E u : Solves(u, i - 1 + k)}
<1>1. 0 \in T
  <2> DEFINE u == [n \in i - 1..i - 1 |-> 0]
  <2>1. \A n \in i - 1..i - 1 : Body(u, n) = 0
    OBVIOUS
  <2>2. Solves(u, i - 1)
    BY <2>1
  <2>3. i - 1 + 0 = i - 1 /\ 0 \in 0..e - i
    OBVIOUS
  <2> HIDE DEF Solves, u
  <2> QED BY <2>2, <2>3
<1>2. ASSUME NEW k \in 1..e - i, k - 1 \in T PROVE k \in T
  <2> DEFINE m == i - 1 + k
  <2>0. m \in Int /\ m >= i /\ i - 1 + (k - 1) = m - 1
    OBVIOUS
  <2>1. PICK u : Solves(u, m - 1)
    BY <1>2, <2>0
  <2> HIDE DEF m
  <2> DEFINE v == [n \in i - 1..m |-> IF n = m THEN Body(u, m) ELSE u[n]]
  <2>2. \A n \in i - 1..m - 1 : u[n] = Body(u, n)
    BY <2>1
  <2> HIDE DEF Solves
  <2>3. ASSUME NEW n \in i - 1..m PROVE Body(v, n) = Body(u, n)
    <3>1. CASE n < i
      BY <3>1
    <3>2. CASE n >= i
      <4>1. v[n - 1] = u[n - 1]
        BY <2>0, <3>2
      <4> HIDE DEF v
      <4> QED BY <4>1
    <3> QED BY <2>0, <3>1, <3>2
  <2> HIDE DEF Body
  <2>4. \A n \in i - 1..m : v[n] = Body(v, n)
    <3> SUFFICES ASSUME NEW n \in i - 1..m PROVE v[n] = Body(v, n)
      OBVIOUS
    <3>1. n = m \/ n \in i - 1..m - 1
      BY <2>0
    <3> QED BY <2>2, <2>3, <3>1
  <2>5. v = [n \in i - 1..m |-> v[n]]
    OBVIOUS
  <2> HIDE DEF v
  <2>6. Solves(v, m)
    BY <2>4, <2>5 DEF Solves
  <2> QED BY <2>6 DEF m
<1>3. \E u : Solves(u, e - 1)
  <2> HIDE DEF Solves
  <2>1. e - i \in Nat /\ e - i \in 0..e - i /\ i - 1 + (e - i) = e - 1
    OBVIOUS
  <2>2. \A k \in 0..e - i : k \in T
    <3> HIDE DEF T
    <3> QED BY <1>1, <1>2, <2>1, Upward
  <2> QED BY <2>1, <2>2
<1> DEFINE u == NumberTo(f, i, e)
<1>4. Solves(u, e - 1)
  <2>1. u = CHOOSE x : Solves(x, e - 1)
    BY DEF NumberTo
  <2> HIDE DEF Solves, u
  <2> QED BY <1>3, <2>1
<1>5. \A n \in i - 1..e - 1 : u[n] = Body(u, n)
  <2> HIDE DEF u
  <2> QED BY <1>4
<1> QED
  <2> HIDE DEF u
  <2>1. u[i - 1] = 0
    BY <1>5
  <2>2. \A n \in i..e - 1 : u[n] = More(u[n - 1], f[n])
    BY <1>5
  <2> QED BY <2>1, <2>2 DEF u

\* Number is that recursion at the last digit.
LEMMA NumberIs ==
  ASSUME NEW f, NEW i, NEW e
  PROVE  Number(f, i, e) = NumberTo(f, i, e)[e - 1]
BY DEF Number, NumberTo, More

\* The characters of f from i up to e stand in g, d places on.
Copied(f, g, i, e, d) == \A n \in i..e - 1 : g[n + d] = f[n]

\* The same digits at another place make the same number.
LEMMA NumberMoves ==
  ASSUME NEW f, NEW g, NEW i \in Int, NEW e \in Int, i <= e, NEW d \in Int,
         Copied(f, g, i, e, d), NEW j, NEW h, j = i + d, h = e + d
  PROVE  Number(g, j, h) = Number(f, i, e)
<1> USE DEF Copied
<1> DEFINE u == NumberTo(f, i, e)
           v == NumberTo(g, i + d, e + d)
           T == {k \in 0..e - i : v[i - 1 + d + k] = u[i - 1 + k]}
<1>1. u[i - 1] = 0 /\ \A n \in i..e - 1 : u[n] = More(u[n - 1], f[n])
  BY NumberToIs
<1>2. v[i + d - 1] = 0 /\ \A n \in i + d..e + d - 1 : v[n] = More(v[n - 1], g[n])
  <2>1. i + d \in Int /\ e + d \in Int /\ i + d <= e + d
    OBVIOUS
  <2> QED BY <2>1, NumberToIs
<1> HIDE DEF u, v
<1>3. 0 \in T
  BY <1>1, <1>2
<1>4. ASSUME NEW k \in 1..e - i, k - 1 \in T PROVE k \in T
  <2> DEFINE n == i - 1 + k
  <2>1. n \in i..e - 1 /\ n + d \in i + d..e + d - 1 /\ n + d - 1 = i - 1 + d + (k - 1)
        /\ n - 1 = i - 1 + (k - 1) /\ n + d = i - 1 + d + k /\ n = i - 1 + k
    OBVIOUS
  <2>2. v[n + d - 1] = u[n - 1]
    BY <1>4, <2>1
  <2> HIDE DEF n
  <2>3. u[n] = More(u[n - 1], f[n]) /\ v[n + d] = More(v[n + d - 1], g[n + d]) /\ g[n + d] = f[n]
    BY <1>1, <1>2, <2>1
  <2>4. v[n + d] = u[n]
    BY <2>2, <2>3
  <2> QED BY <2>1, <2>4
<1>5. e - i \in Nat /\ e - i \in 0..e - i /\ i - 1 + d + (e - i) = e + d - 1
      /\ i - 1 + (e - i) = e - 1
  OBVIOUS
<1>6. \A k \in 0..e - i : k \in T
  <2> HIDE DEF T
  <2> QED BY <1>3, <1>4, <1>5, Upward
<1>7. v[e + d - 1] = u[e - 1]
  BY <1>5, <1>6
<1> QED BY <1>7, NumberIs DEF u, v

-----------------------------------------------------------------------------
(* A specifier reads the same wherever it stands.                          *)

\* A specifier's parts divide it in the same way wherever it stands.
LEMMA DivisionMoves ==
  ASSUME NEW f, NEW g, NEW i \in Int, NEW e \in Int, i < e, NEW d \in Int,
         \A n \in i..e : g[n + d] = f[n],
         NEW a, NEW b, NEW c, Divides(f, i, a, b, c, e),
         NEW j, NEW x, NEW y, NEW z, NEW h,
         j = i + d, x = a + d, y = b + d, z = c + d, h = e + d
  PROVE  Divides(g, j, x, y, z, h)
<1>1. /\ f[i] = "%" /\ f[e] \in Conversions
      /\ a \in i + 1..e /\ b \in a..e /\ c \in b..e
      /\ \A n \in i + 1..a - 1 : f[n] \in Flags
      /\ AmountAt(f, a, b) /\ DottedAt(f, b, c) /\ ModifierAt(f, c, e)
  BY DEF Divides
<1>2. /\ g[i + d] = "%" /\ g[e + d] \in Conversions
      /\ a + d \in i + d + 1..e + d /\ b + d \in a + d..e + d /\ c + d \in b + d..e + d
  BY <1>1
<1>0. /\ x \in Int /\ y \in Int /\ z \in Int /\ a \in Int /\ b \in Int /\ c \in Int
      /\ a = x - d /\ b = y - d /\ c = z - d
      /\ x \in i + d + 1..e + d /\ y \in x..e + d /\ z \in y..e + d
  BY <1>1
<1>3. \A n \in i + d..e + d : n - d \in i..e /\ g[n] = f[n - d]
  <2> SUFFICES ASSUME NEW n \in i + d..e + d PROVE n - d \in i..e /\ g[n] = f[n - d]
    OBVIOUS
  <2>1. n - d \in i..e /\ n - d + d = n
    OBVIOUS
  <2> QED BY <2>1
<1>4. \A n \in i + d + 1..x - 1 : g[n] \in Flags
  <2> SUFFICES ASSUME NEW n \in i + d + 1..x - 1 PROVE g[n] \in Flags
    OBVIOUS
  <2>1. n \in i + d..e + d /\ n - d \in i + 1..a - 1
    BY <1>0
  <2> QED BY <1>1, <1>3, <2>1
<1>5. AmountAt(g, x, y)
  <2>0. g[x] = f[a]
    BY <1>0, <1>3
  <2>1. CASE b = a
    BY <1>0, <2>1 DEF AmountAt
  <2>2. CASE b = a + 1 /\ f[a] = "*"
    <3>1. y = x + 1
      BY <1>0, <2>2
    <3> QED BY <2>0, <2>2, <3>1 DEF AmountAt
  <2>3. CASE f[a] # "0" /\ \A n \in a..b - 1 : f[n] \in Digits
    <3>1. \A n \in x..y - 1 : g[n] \in Digits
      <4> SUFFICES ASSUME NEW n \in x..y - 1 PROVE g[n] \in Digits
        OBVIOUS
      <4>1. n \in i + d..e + d /\ n - d \in a..b - 1
        BY <1>0
      <4> QED BY <1>3, <2>3, <4>1
    <3> QED BY <2>0, <2>3, <3>1 DEF AmountAt
  <2> QED BY <1>1, <2>1, <2>2, <2>3 DEF AmountAt
<1>6. DottedAt(g, y, z)
  <2>0. g[y] = f[b]
    BY <1>0, <1>3
  <2>1. CASE c = b
    BY <1>0, <2>1 DEF DottedAt
  <2>2. CASE c = b + 2 /\ f[b] = "." /\ f[b + 1] = "*"
    <3>1. y + 1 \in i + d..e + d /\ y + 1 - d = b + 1 /\ z = y + 2
      BY <1>0, <2>2
    <3>2. g[y + 1] = "*"
      <4>1. ASSUME NEW m, m = y + 1 PROVE g[m] = "*"
        <5>1. m \in i + d..e + d /\ m - d = b + 1
          BY <1>0, <3>1, <4>1
        <5> QED BY <1>3, <2>2, <5>1
      <4> QED BY <4>1
    <3> QED BY <2>0, <2>2, <3>1, <3>2 DEF DottedAt
  <2>3. CASE c > b /\ f[b] = "." /\ \A n \in b + 1..c - 1 : f[n] \in Digits
    <3>1. \A n \in y + 1..z - 1 : g[n] \in Digits
      <4> SUFFICES ASSUME NEW n \in y + 1..z - 1 PROVE g[n] \in Digits
        OBVIOUS
      <4>1. n \in i + d..e + d /\ n - d \in b + 1..c - 1
        BY <1>0
      <4> QED BY <1>3, <2>3, <4>1
    <3>2. z > y
      BY <1>0, <2>3
    <3> QED BY <2>0, <2>3, <3>1, <3>2 DEF DottedAt
  <2> QED BY <1>1, <2>1, <2>2, <2>3 DEF DottedAt
<1>7. ModifierAt(g, z, e + d)
  <2>0. g[z] = f[c]
    BY <1>0, <1>3
  <2>1. CASE e = c
    <3>1. e + d = z
      BY <1>0, <2>1
    <3> QED BY <3>1 DEF ModifierAt
  <2>2. CASE e = c + 1 /\ f[c] \in OneLetterLengths
    <3>1. e + d = z + 1
      BY <1>0, <2>2
    <3> QED BY <2>0, <2>2, <3>1 DEF ModifierAt
  <2>3. CASE e = c + 2 /\ <<f[c], f[c + 1]>> \in TwoLetterLengths
    <3>1. z + 1 \in i + d..e + d /\ z + 1 - d = c + 1 /\ e + d = z + 2
      BY <1>0, <2>3
    <3>2. g[z + 1] = f[c + 1]
      <4>1. ASSUME NEW m, m = z + 1 PROVE g[m] = f[c + 1]
        <5>1. m \in i + d..e + d /\ m - d = c + 1
          BY <1>0, <3>1, <4>1
        <5> QED BY <1>3, <5>1
      <4> QED BY <4>1
    <3> QED BY <2>0, <2>3, <3>1, <3>2 DEF ModifierAt
  <2> QED BY <1>1, <2>1, <2>2, <2>3 DEF ModifierAt
<1>8. Divides(g, i + d, x, y, z, e + d)
  BY <1>0, <1>2, <1>4, <1>5, <1>6, <1>7 DEF Divides
<1> QED BY <1>8

\* What is read of a specifier whose parts end there.
LEMMA SpecHolds ==
  ASSUME NEW f \in Seq(Char), NEW i \in 1..Len(f), NEW e \in i + 1..Len(f),
         NEW a, NEW b, NEW c, Divides(f, i, a, b, c, e)
  PROVE  LET g == Segment(f, i) IN
         /\ g.kind = "spec" /\ g.from = i /\ g.to = e
         /\ g.flags = {f[n] : n \in i + 1..a - 1}
         /\ g.width = IF b = a THEN kFormatWidthUnset ELSE Amount(f, a, b)
         /\ g.precision = IF c = b THEN kFormatWidthUnset ELSE Amount(f, b + 1, c)
         /\ g.length = LengthModifier(f, c) /\ g.conversion = f[e]
<1> DEFINE end == PartEnds(f, i)
           g == ReadSpec(f, i)
<1>1. /\ end.start = i + 1 /\ end.flags = a /\ end.width = b /\ end.precision = c
      /\ end.length = e
  BY DivisionIsGreedy
<1>2. f[i] = "%" /\ f[e] \in Conversions
  BY DEF Divides
<1>3. At(f, e) = f[e]
  BY DEF At
<1>4. g = SpecOf(f, end)
  BY DEF ReadSpec
<1> HIDE DEF end, g
<1>5. /\ g.kind = "spec" /\ g.from = i /\ g.to = e
      /\ g.flags = {f[n] : n \in i + 1..a - 1}
      /\ g.width = IF b = a THEN kFormatWidthUnset ELSE Amount(f, a, b)
      /\ g.precision = IF c = b THEN kFormatWidthUnset ELSE Amount(f, b + 1, c)
      /\ g.length = LengthModifier(f, c) /\ g.conversion = f[e]
  BY <1>1, <1>3, <1>4 DEF SpecOf
<1>6. Segment(f, i) = SpecOrError(f, g)
  BY <1>2 DEF Segment, g
<1>7. Segment(f, i) = g
  BY <1>2, <1>5, <1>6 DEF SpecOrError
<1> QED BY <1>5, <1>7

\* What the length modifier is, by the places that it takes.
LEMMA ModifierIs ==
  ASSUME NEW f, NEW e \in DOMAIN f, NEW c \in DOMAIN f, c \in Int,
         c + 1 <= e => c + 1 \in DOMAIN f,
         ModifierAt(f, c, e), f[e] \in Conversions
  PROVE  LengthModifier(f, c) = IF e = c THEN <<>> ELSE IF e = c + 1 THEN <<f[c]>>
                                ELSE <<f[c], f[c + 1]>>
<1>0. At(f, c) = f[c]
  BY DEF At
<1>1. CASE e = c
  <2>1. f[c] \notin OneLetterLengths /\ \A x : <<f[c], x>> \notin TwoLetterLengths
    BY <1>1, Characters DEF OneLetterLengths, TwoLetterLengths
  <2> QED BY <1>0, <1>1, <2>1 DEF LengthModifier
<1>2. CASE e = c + 1 /\ f[c] \in OneLetterLengths
  <2>1. At(f, c + 1) = f[e] /\ e # c
    BY <1>2 DEF At
  <2>2. \A x : <<x, f[e]>> \notin TwoLetterLengths
    BY Characters DEF TwoLetterLengths
  <2> QED BY <1>0, <1>2, <2>1, <2>2 DEF LengthModifier
<1>3. CASE e = c + 2 /\ <<f[c], f[c + 1]>> \in TwoLetterLengths
  <2>1. At(f, c + 1) = f[c + 1] /\ e # c /\ e # c + 1
    BY <1>3 DEF At
  <2> QED BY <1>0, <1>3, <2>1 DEF LengthModifier
<1> QED BY <1>1, <1>2, <1>3 DEF ModifierAt

\* A specifier reads the same wherever it stands, but for where it is.
LEMMA SpecMoves ==
  ASSUME NEW f \in Seq(Char), NEW g \in Seq(Char), NEW d \in Int,
         NEW i \in 1..Len(f), NEW e \in i + 1..Len(f),
         i + d \in 1..Len(g), e + d \in 1..Len(g),
         \A n \in i..e : g[n + d] = f[n], IsSpec(SubSeq(f, i, e))
  PROVE  LET s == Segment(f, i)
             t == Segment(g, i + d)
         IN /\ s.kind = "spec" /\ s.to = e /\ t.kind = "spec" /\ t.to = e + d
            /\ format_specs_equivalent(t, s)
<1>1. PICK a, b, c : Divides(f, i, a, b, c, e)
  BY SpecIff
<1>2. /\ f[e] \in Conversions /\ a \in i + 1..e /\ b \in a..e /\ c \in b..e
      /\ ModifierAt(f, c, e)
  BY <1>1 DEF Divides
<1> DEFINE x == a + d
           y == b + d
           z == c + d
           j == i + d
           h == e + d
           s == Segment(f, i)
           t == Segment(g, j)
<1>a. j = i + d /\ x = a + d /\ y = b + d /\ z = c + d /\ h = e + d
  OBVIOUS
<1>3. Divides(g, j, x, y, z, h)
  <2>1. i \in Int /\ e \in Int /\ i < e
    OBVIOUS
  <2> HIDE DEF x, y, z, j, h
  <2> QED BY <1>1, <1>a, <2>1, DivisionMoves
<1>4. /\ x \in Int /\ y \in Int /\ z \in Int /\ j \in Int /\ h \in Int
      /\ a \in Int /\ b \in Int /\ c \in Int /\ e \in Int /\ i \in Int
      /\ x \in j + 1..h /\ y \in x..h /\ z \in y..h
      /\ j \in 1..Len(g) /\ h \in j + 1..Len(g)
      /\ a = x - d /\ b = y - d /\ c = z - d /\ i = j - d /\ e = h - d
  BY <1>2
<1>5. /\ s.kind = "spec" /\ s.to = e
      /\ s.flags = {f[n] : n \in i + 1..a - 1}
      /\ s.width = IF b = a THEN kFormatWidthUnset ELSE Amount(f, a, b)
      /\ s.precision = IF c = b THEN kFormatWidthUnset ELSE Amount(f, b + 1, c)
      /\ s.length = LengthModifier(f, c) /\ s.conversion = f[e]
  BY <1>1, SpecHolds
<1> HIDE DEF x, y, z, j, h
<1>b. j \in 1..Len(g) /\ h \in j + 1..Len(g) /\ Divides(g, j, x, y, z, h)
  BY <1>3, <1>4
<1>6. /\ t.kind = "spec" /\ t.to = h
      /\ t.flags = {g[n] : n \in j + 1..x - 1}
      /\ t.width = IF y = x THEN kFormatWidthUnset ELSE Amount(g, x, y)
      /\ t.precision = IF z = y THEN kFormatWidthUnset ELSE Amount(g, y + 1, z)
      /\ t.length = LengthModifier(g, z) /\ t.conversion = g[h]
  BY <1>b, SpecHolds
<1>7. /\ \A n \in i..e : n + d \in j..h /\ g[n + d] = f[n]
      /\ \A n \in j..h : n - d \in i..e /\ g[n] = f[n - d]
  <2>1. ASSUME NEW n \in i..e PROVE n + d \in j..h /\ g[n + d] = f[n]
    BY <1>4
  <2>2. ASSUME NEW n \in j..h PROVE n - d \in i..e /\ g[n] = f[n - d]
    <3>1. n - d \in i..e /\ n - d + d = n
      BY <1>4
    <3> QED BY <3>1
  <2> QED BY <2>1, <2>2
<1> HIDE DEF s, t
<1>8. t.flags = s.flags
  <2>1. ASSUME NEW n \in i + 1..a - 1 PROVE f[n] \in t.flags
    <3>1. n \in i..e /\ n + d \in j + 1..x - 1
      BY ONLY <1>2, <1>4, d \in Int, n \in i + 1..a - 1
    <3>2. g[n + d] \in t.flags
      BY <1>6, <3>1
    <3> QED BY <1>7, <3>1, <3>2
  <2>2. ASSUME NEW n \in j + 1..x - 1 PROVE g[n] \in s.flags
    <3>1. n \in j..h /\ n - d \in i + 1..a - 1
      BY ONLY <1>4, d \in Int, n \in j + 1..x - 1
    <3>2. f[n - d] \in s.flags
      BY <1>5, <3>1
    <3> QED BY <1>7, <3>1, <3>2
  <2>3. s.flags \subseteq t.flags
    BY <1>5, <2>1
  <2>4. t.flags \subseteq s.flags
    BY <1>6, <2>2
  <2> QED BY <2>3, <2>4
<1>9. ASSUME NEW p \in Int, NEW q \in Int, i <= p, p <= q, q <= e,
            NEW P, NEW Q, P = p + d, Q = q + d
      PROVE  Amount(g, P, Q) = Amount(f, p, q)
  <2>1. At(g, P) = At(f, p)
    <3>1. p \in DOMAIN f /\ P \in DOMAIN g /\ p \in i..e
      BY <1>4, <1>9
    <3>2. g[P] = f[p]
      BY <1>7, <1>9, <3>1
    <3> QED BY <3>1, <3>2 DEF At
  <2>2. Number(g, P, Q) = Number(f, p, q)
    <3>1. Copied(f, g, p, q, d)
      BY <1>4, <1>7, <1>9 DEF Copied
    <3> QED BY <1>9, <3>1, NumberMoves
  <2> QED BY <1>9, <2>1, <2>2 DEF Amount
<1>10. t.width = s.width
  <2>1. y = x <=> b = a
    BY ONLY <1>4, d \in Int
  <2>2. Amount(g, x, y) = Amount(f, a, b)
    <3>1. i <= a /\ a <= b /\ b <= e /\ x = a + d /\ y = b + d
      BY <1>2, <1>4
    <3> QED BY <1>4, <1>9, <3>1
  <2> QED BY <1>5, <1>6, <2>1, <2>2
<1>11. t.precision = s.precision
  <2>1. z = y <=> c = b
    BY ONLY <1>4, d \in Int
  <2>2. c # b => Amount(g, y + 1, z) = Amount(f, b + 1, c)
    <3>1. ASSUME c # b PROVE Amount(g, y + 1, z) = Amount(f, b + 1, c)
      <4> DEFINE p == b + 1
                 P == y + 1
      <4>1. p \in Int /\ i <= p /\ p <= c /\ c <= e /\ P = p + d /\ z = c + d
        BY <1>2, <1>4, <3>1
      <4> HIDE DEF p, P
      <4>2. Amount(g, P, z) = Amount(f, p, c)
        BY <1>4, <1>9, <4>1
      <4> QED BY <4>2 DEF p, P
    <3> QED BY <3>1
  <2> QED BY <1>5, <1>6, <2>1, <2>2
<1>12. t.length = s.length
  <2>1. g[z] = f[c] /\ g[h] = f[e] /\ (c + 1 <= e => g[z + 1] = f[c + 1])
    <3>1. z \in j..h /\ h \in j..h
      BY <1>4
    <3>2. ASSUME c + 1 <= e, NEW m, m = z + 1 PROVE g[m] = f[c + 1]
      <4>1. m \in j..h /\ m - d = c + 1
        BY <1>2, <1>4, <3>2
      <4> QED BY <1>7, <4>1
    <3> QED BY <1>4, <1>7, <3>1, <3>2
  <2>2. LengthModifier(f, c) = IF e = c THEN <<>> ELSE IF e = c + 1 THEN <<f[c]>>
                               ELSE <<f[c], f[c + 1]>>
    <3>1. e \in DOMAIN f /\ c \in DOMAIN f /\ (c + 1 <= e => c + 1 \in DOMAIN f)
      BY ONLY <1>2, <1>4, f \in Seq(Char), i \in 1..Len(f), e \in i + 1..Len(f)
    <3> QED BY <1>2, <1>4, <3>1, ModifierIs
  <2>3. LengthModifier(g, z) = IF h = z THEN <<>> ELSE IF h = z + 1 THEN <<g[z]>>
                               ELSE <<g[z], g[z + 1]>>
    <3>1. h \in DOMAIN g /\ z \in DOMAIN g /\ (z + 1 <= h => z + 1 \in DOMAIN g)
      BY ONLY <1>4, g \in Seq(Char)
    <3>2. ModifierAt(g, z, h) /\ g[h] \in Conversions
      BY <1>3 DEF Divides
    <3> QED BY <1>4, <3>1, <3>2, ModifierIs
  <2>4. (h = z <=> e = c) /\ (h = z + 1 <=> e = c + 1) /\ (e = c \/ c + 1 <= e)
    BY <1>2, <1>4
  <2> QED BY <1>5, <1>6, <2>1, <2>2, <2>3, <2>4
<1>13. t.conversion = s.conversion
  <2>1. h \in j..h /\ h - d = e
    BY ONLY <1>4
  <2> QED BY <1>5, <1>6, <1>7, <2>1
<1>14. format_specs_equivalent(t, s)
  BY <1>8, <1>10, <1>11, <1>12, <1>13 DEF format_specs_equivalent
<1> QED BY <1>5, <1>6, <1>14 DEF s, t, h, j

-----------------------------------------------------------------------------
(* Text between the specifiers.                                            *)

\* Two results agree on what the checks look at.
Agrees(p, q) ==
  /\ p.ok = q.ok /\ Len(p.specs) = Len(q.specs)
  /\ \A n \in 1..Len(q.specs) : format_specs_equivalent(p.specs[n], q.specs[n])

\* The specifiers of a format are segments of it.
LEMMA SpecsAreSegments ==
  ASSUME NEW f \in Seq(Char), NEW i \in 1..Len(f) + 1
  PROVE  ParsedFrom(f, i).specs \in Seq(Segments(f))
<1>1. From(f, i) \in Seq(Segments(f))
  BY FromIsSeq
<1>2. Select(From(f, i), Arguments(From(f, i))) \in Seq(Segments(f))
  BY <1>1, SelectIsSeq
<1> QED BY <1>2 DEF ParsedFrom, Parsed

\* A result agrees with itself.
LEMMA AgreesItself ==
  ASSUME NEW p
  PROVE  Agrees(p, p)
BY DEF Agrees, format_specs_equivalent

\* Equivalent specifiers in front of lists that agree.
LEMMA ConsAgrees ==
  ASSUME NEW S, NEW T, NEW a \in Seq(S), NEW b \in Seq(T), NEW t \in S, NEW u \in T,
         Len(a) = Len(b), \A n \in 1..Len(b) : format_specs_equivalent(a[n], b[n]),
         format_specs_equivalent(t, u)
  PROVE  /\ Len(Cons(t, a)) = Len(Cons(u, b))
         /\ \A n \in 1..Len(Cons(u, b)) :
              format_specs_equivalent(Cons(t, a)[n], Cons(u, b)[n])
<1>1. /\ Len(Cons(t, a)) = Len(a) + 1 /\ Cons(t, a)[1] = t /\ Len(a) \in Nat
      /\ \A n \in 1..Len(a) : Cons(t, a)[n + 1] = a[n]
  BY ConsIs
<1>2. /\ Len(Cons(u, b)) = Len(b) + 1 /\ Cons(u, b)[1] = u /\ Len(b) \in Nat
      /\ \A n \in 1..Len(b) : Cons(u, b)[n + 1] = b[n]
  BY ConsIs
<1>3. ASSUME NEW n \in 1..Len(Cons(u, b))
      PROVE  format_specs_equivalent(Cons(t, a)[n], Cons(u, b)[n])
  <2>1. CASE n = 1
    BY <1>1, <1>2, <2>1
  <2>2. CASE n # 1
    <3>1. n - 1 \in 1..Len(b) /\ n - 1 + 1 = n
      BY <1>2, <2>2
    <3>2. Cons(t, a)[n] = a[n - 1] /\ Cons(u, b)[n] = b[n - 1]
      BY <1>1, <1>2, <3>1
    <3> QED BY <3>1, <3>2
  <2> QED BY <2>1, <2>2
<1> QED BY <1>1, <1>2, <1>3

\* The same for the results that hold them.
LEMMA AgreesCons ==
  ASSUME NEW S, NEW T, NEW p, NEW q, NEW r, NEW s, NEW t \in S, NEW u \in T,
         r.specs \in Seq(S), s.specs \in Seq(T), Agrees(r, s),
         format_specs_equivalent(t, u),
         p.ok = r.ok, p.specs = Cons(t, r.specs), q.ok = s.ok, q.specs = Cons(u, s.specs)
  PROVE  Agrees(p, q)
<1>1. /\ Len(r.specs) = Len(s.specs) /\ p.ok = q.ok
      /\ \A n \in 1..Len(s.specs) : format_specs_equivalent(r.specs[n], s.specs[n])
  BY DEF Agrees
<1>2. /\ Len(Cons(t, r.specs)) = Len(Cons(u, s.specs))
      /\ \A n \in 1..Len(Cons(u, s.specs)) :
           format_specs_equivalent(Cons(t, r.specs)[n], Cons(u, s.specs)[n])
  BY <1>1, ConsAgrees
<1> QED BY <1>1, <1>2 DEF Agrees

\* Agreement looks at ok and the specifiers only.
LEMMA AgreesWith ==
  ASSUME NEW p, NEW q, NEW r, NEW s,
         p.ok = r.ok, p.specs = r.specs, q.ok = s.ok, q.specs = s.specs, Agrees(r, s)
  PROVE  Agrees(p, q)
BY DEF Agrees

\* Text is skipped, however long.
LEMMA TextRun ==
  ASSUME NEW f \in Seq(Char), NEW i \in 1..Len(f) + 1, NEW e \in i..Len(f) + 1,
         \A n \in i..e - 1 : f[n] # "%"
  PROVE  /\ ParsedFrom(f, i).ok = ParsedFrom(f, e).ok
         /\ ParsedFrom(f, i).specs = ParsedFrom(f, e).specs
<1> DEFINE T == {k \in 0..e - i : /\ ParsedFrom(f, i).ok = ParsedFrom(f, i + k).ok
                                  /\ ParsedFrom(f, i).specs = ParsedFrom(f, i + k).specs}
<1>1. 0 \in T
  <2>1. i + 0 = i /\ 0 \in 0..e - i
    OBVIOUS
  <2> QED BY <2>1
<1>2. ASSUME NEW k \in 1..e - i, k - 1 \in T PROVE k \in T
  <2> DEFINE m == i + (k - 1)
  <2>1. m \in 1..Len(f) /\ m \in i..e - 1 /\ i + k = m + 1
    OBVIOUS
  <2>2. /\ ParsedFrom(f, i).ok = ParsedFrom(f, m).ok
        /\ ParsedFrom(f, i).specs = ParsedFrom(f, m).specs
    BY <1>2
  <2> HIDE DEF m
  <2>3. /\ ParsedFrom(f, m).ok = ParsedFrom(f, m + 1).ok
        /\ ParsedFrom(f, m).specs = ParsedFrom(f, m + 1).specs
    BY <2>1, LiteralGoesOn
  <2> QED BY <2>1, <2>2, <2>3
<1>3. e - i \in Nat /\ e - i \in 0..e - i /\ i + (e - i) = e
  OBVIOUS
<1>4. \A k \in 0..e - i : k \in T
  <2> HIDE DEF T
  <2> QED BY <1>1, <1>2, <1>3, Upward
<1> QED BY <1>3, <1>4

\* The characters of f from i to e stand in g, d places on.
Stands(f, g, i, e, d) == \A n \in i..e : g[n + d] = f[n]

\* A specifier adds the same to both, when what follows it agrees.
LEMMA SpecAgrees ==
  ASSUME NEW f \in Seq(Char), NEW g \in Seq(Char), NEW d \in Int,
         NEW i \in 1..Len(f), Segment(f, i).kind = "spec", NEW e, e = Segment(f, i).to,
         NEW j \in 1..Len(g), NEW h \in 1..Len(g), j = i + d, h = e + d,
         Stands(f, g, i, e, d),
         Agrees(ParsedFrom(g, h + 1), ParsedFrom(f, e + 1))
  PROVE  Agrees(ParsedFrom(g, j), ParsedFrom(f, i))
<1> DEFINE s == Segment(f, i)
           t == Segment(g, j)
<1>1. e \in i + 1..Len(f) /\ IsSpec(SubSeq(f, i, e))
  BY ReadIsSpec
<1>2. i + d \in 1..Len(g) /\ e + d \in 1..Len(g)
  OBVIOUS
<1>3. /\ s.kind = "spec" /\ s.to = e /\ t.kind = "spec" /\ t.to = h
      /\ format_specs_equivalent(t, s)
  BY <1>1, <1>2, SpecMoves DEF Stands
<1>4. s \in Segments(f) /\ t \in Segments(g)
  BY DEF Segments
<1> DEFINE p == ParsedFrom(g, j)
           r == ParsedFrom(g, h + 1)
           q == ParsedFrom(f, i)
           v == ParsedFrom(f, e + 1)
<1>5. p.ok = r.ok /\ p.specs = IF t.conversion # "%" THEN Cons(t, r.specs) ELSE r.specs
  BY <1>3, ParseTurn
<1>6. q.ok = v.ok /\ q.specs = IF s.conversion # "%" THEN Cons(s, v.specs) ELSE v.specs
  BY <1>3, ParseTurn
<1>7. r.specs \in Seq(Segments(g)) /\ v.specs \in Seq(Segments(f))
  <2>1. h + 1 \in 1..Len(g) + 1 /\ e + 1 \in 1..Len(f) + 1
    BY <1>1
  <2> QED BY <2>1, SpecsAreSegments
<1>8. t.conversion = s.conversion
  BY <1>3 DEF format_specs_equivalent
<1>9. Agrees(r, v)
  OBVIOUS
<1> HIDE DEF s, t, p, q, r, v
<1>10. Agrees(p, q)
  <2>1. CASE s.conversion = "%"
    BY <1>5, <1>6, <1>8, <1>9, <2>1, AgreesWith
  <2>2. CASE s.conversion # "%"
    BY <1>3, <1>4, <1>5, <1>6, <1>7, <1>8, <1>9, <2>2, AgreesCons
  <2> QED BY <2>1, <2>2
<1> QED BY <1>10 DEF p, q

\* What follows the place.
LEMMA RestAgrees ==
  ASSUME NEW f \in Seq(Char), NEW g \in Seq(Char), NEW d \in Nat, Len(g) = Len(f) + d,
         NEW place \in 1..Len(f) + 1, \A n \in place..Len(f) : g[n + d] = f[n]
  PROVE  \A i \in place..Len(f) + 1 :
           ParsedFrom(f, i).ok => Agrees(ParsedFrom(g, i + d), ParsedFrom(f, i))
<1> DEFINE n == Len(f) + 1
           T == {i \in 1..n : i >= place /\ ParsedFrom(f, i).ok
                                => Agrees(ParsedFrom(g, i + d), ParsedFrom(f, i))}
<1>0. n \in Nat /\ n = Len(f) + 1 /\ Len(f) \in Nat /\ Len(g) \in Nat
  OBVIOUS
<1> HIDE DEF n
<1>1. ASSUME NEW i \in 1..n, \A j \in i + 1..n : j \in T PROVE i \in T
  <2> SUFFICES ASSUME i >= place, ParsedFrom(f, i).ok
               PROVE  Agrees(ParsedFrom(g, i + d), ParsedFrom(f, i))
    OBVIOUS
  <2> DEFINE k == i + d
  <2>0. k \in 1..Len(g) + 1 /\ (i <= Len(f) => k \in 1..Len(g)) /\ k = i + d
        /\ i \in 1..Len(f) + 1
    BY <1>0
  <2> HIDE DEF k
  <2>1. CASE i = n
    <3>1. /\ ParsedFrom(f, i).ok /\ ParsedFrom(f, i).specs = <<>>
      BY <1>0, <2>0, <2>1, ParseTurn
    <3>2. k > Len(g)
      BY <1>0, <2>0, <2>1
    <3>3. ParsedFrom(g, k).ok /\ ParsedFrom(g, k).specs = <<>>
      BY <2>0, <3>2, ParseTurn
    <3>4. ParsedFrom(g, k).ok \in BOOLEAN /\ ParsedFrom(f, i).ok \in BOOLEAN
      BY DEF ParsedFrom, Parsed
    <3>5. Agrees(ParsedFrom(g, k), ParsedFrom(f, i))
      <4>1. ParsedFrom(g, k).ok = ParsedFrom(f, i).ok
              /\ ParsedFrom(g, k).specs = ParsedFrom(f, i).specs
        BY <3>1, <3>3, <3>4
      <4>2. Agrees(ParsedFrom(f, i), ParsedFrom(f, i))
        BY AgreesItself
      <4> QED BY <4>1, <4>2, AgreesWith
    <3> QED BY <2>0, <3>5
  <2>2. CASE i <= Len(f) /\ f[i] # "%"
    <3>1. g[k] # "%" /\ k \in 1..Len(g) /\ i \in 1..Len(f)
      BY <1>0, <2>0, <2>2
    <3>2. ParsedFrom(f, i).ok = ParsedFrom(f, i + 1).ok
            /\ ParsedFrom(f, i).specs = ParsedFrom(f, i + 1).specs
      BY <2>2, <3>1, LiteralGoesOn
    <3>3. ParsedFrom(g, k).ok = ParsedFrom(g, k + 1).ok
            /\ ParsedFrom(g, k).specs = ParsedFrom(g, k + 1).specs
      BY <3>1, LiteralGoesOn
    <3>4. Agrees(ParsedFrom(g, k + 1), ParsedFrom(f, i + 1))
      <4>1. i + 1 \in T /\ i + 1 >= place /\ i + 1 + d = k + 1
        BY <1>0, <1>1, <2>0, <2>2
      <4>2. ParsedFrom(f, i + 1).ok
        BY <3>2
      <4> QED BY <4>1, <4>2
    <3> QED BY <2>0, <3>2, <3>3, <3>4, AgreesWith
  <2>3. CASE i <= Len(f) /\ f[i] = "%"
    <3> DEFINE e == Segment(f, i).to
               h == e + d
    <3>1. Segment(f, i).kind = "spec"
      <4>1. Segment(f, i).kind # "error"
        BY <2>0, <2>3, ParseTurn
      <4> QED BY <2>3, <4>1 DEF Segment, SpecOrError, ReadSpec, SpecOf, Error
    <3>2. e \in i + 1..Len(f) /\ i \in 1..Len(f) /\ ParsedFrom(f, i).ok = ParsedFrom(f, e + 1).ok
      <4>1. i \in 1..Len(f) /\ i <= Len(f) /\ i \in 1..Len(f) + 1
        BY <1>0, <2>3
      <4>2. e \in i + 1..Len(f)
        BY <3>1, <4>1, ReadIsSpec
      <4>3. ParsedFrom(f, i).ok = ParsedFrom(f, e + 1).ok
        BY <2>0, <3>1, <4>1, ParseTurn
      <4> QED BY <4>1, <4>2, <4>3
    <3>3. Agrees(ParsedFrom(g, e + 1 + d), ParsedFrom(f, e + 1))
      <4> HIDE DEF e
      <4>1. e + 1 \in i + 1..n /\ e + 1 >= place
        BY <1>0, <3>2
      <4>2. e + 1 \in T
        BY <1>1, <4>1
      <4> QED BY <3>2, <4>1, <4>2
    <3>4. e + 1 + d = h + 1 /\ h \in 1..Len(g) /\ h = e + d /\ k \in 1..Len(g)
      <4> HIDE DEF e
      <4> QED BY <1>0, <2>0, <2>3, <3>2
    <3>5. Stands(f, g, i, e, d)
      <4> HIDE DEF e
      <4> QED BY <3>2 DEF Stands
    <3> HIDE DEF h
    <3>6. e = Segment(f, i).to
      OBVIOUS
    <3> HIDE DEF e
    <3>7. d \in Int /\ k = i + d /\ Agrees(ParsedFrom(g, h + 1), ParsedFrom(f, e + 1))
      BY <2>0, <3>3, <3>4
    <3>8. Agrees(ParsedFrom(g, k), ParsedFrom(f, i))
      BY <3>1, <3>2, <3>4, <3>5, <3>6, <3>7, SpecAgrees, Zenon
    <3> QED BY <2>0, <3>8
  <2> QED BY <1>0, <2>1, <2>2, <2>3
<1>2. \A i \in 1..n : i \in T
  <2> HIDE DEF T
  <2> QED BY <1>0, <1>1, Downward
<1> QED BY <1>0, <1>2

\* Where the segments from position i on start.
Starts(f, i) ==
  {ParsedFrom(f, i).segments[n].from : n \in DOMAIN ParsedFrom(f, i).segments}

\* A later segment starts where the segments after the first do.
LEMMA StartsFollow ==
  ASSUME NEW f \in Seq(Char), NEW i \in 1..Len(f), Segment(f, i).kind # "error",
         NEW place \in Starts(f, i)
  PROVE  place = i \/ place \in Starts(f, Segment(f, i).to + 1)
<1> DEFINE g == Segment(f, i)
           next == g.to + 1
           r == ParsedFrom(f, next)
           s == ParsedFrom(f, i).segments
           t == r.segments
<1>1. g.from = i /\ next \in i + 1..Len(f) + 1 /\ s = Cons(g, t) /\ g \in Segments(f)
  BY ParseTurn DEF Segments
<1>2. t \in Seq(Segments(f))
  <2>1. next \in 1..Len(f) + 1
    BY <1>1
  <2> QED BY <2>1, ParseTiles DEF Tiles
<1>3. PICK n \in DOMAIN s : place = s[n].from
  BY DEF Starts
<1>4. /\ DOMAIN Cons(g, t) = 1..Len(t) + 1 /\ Cons(g, t)[1] = g
      /\ \A k \in 1..Len(t) : Cons(g, t)[k + 1] = t[k]
      /\ DOMAIN t = 1..Len(t) /\ Len(t) \in Nat
  <2> HIDE DEF g, t
  <2> QED BY <1>1, <1>2, ConsIs
<1>5. Starts(f, next) = {t[k].from : k \in DOMAIN t}
  BY DEF Starts
<1> HIDE DEF g, next, r, s, t
<1>6. CASE n = 1
  BY <1>1, <1>3, <1>4, <1>6
<1>7. CASE n # 1
  <2>1. n - 1 \in 1..Len(t) /\ n - 1 + 1 = n
    BY <1>1, <1>3, <1>4, <1>7
  <2>2. s[n] = t[n - 1]
    BY <1>1, <1>4, <2>1
  <2>3. place \in Starts(f, next)
    BY <1>3, <1>4, <1>5, <2>1, <2>2
  <2> QED BY <2>3 DEF next, g
<1> QED BY <1>6, <1>7

\* f with some text inserted before its character at that place.
LEMMA InsertionAgrees ==
  ASSUME NEW f \in Seq(Char), NEW g \in Seq(Char), NEW d \in Nat, Len(g) = Len(f) + d,
         ParsedFrom(f, 1).ok,
         NEW place \in 1..Len(f) + 1, place \in {1, Len(f) + 1} \cup Starts(f, 1),
         \A n \in 1..place - 1 : g[n] = f[n],
         \A n \in place..place + d - 1 : g[n] # "%",
         \A n \in place..Len(f) : g[n + d] = f[n]
  PROVE  Agrees(ParsedFrom(g, 1), ParsedFrom(f, 1))
<1> DEFINE n == Len(f) + 1
           Comes(i) == place = i \/ place \in Starts(f, i) \/ place = n
           T == {i \in 1..n : ParsedFrom(f, i).ok /\ Comes(i)
                   => place >= i /\ Agrees(ParsedFrom(g, i), ParsedFrom(f, i))}
<1>0. n \in Nat /\ n = Len(f) + 1 /\ Len(f) \in Nat /\ Len(g) \in Nat /\ place \in 1..n
  OBVIOUS
<1>1. ParsedFrom(f, place).ok => Agrees(ParsedFrom(g, place), ParsedFrom(f, place))
  <2> SUFFICES ASSUME ParsedFrom(f, place).ok
               PROVE  Agrees(ParsedFrom(g, place), ParsedFrom(f, place))
    OBVIOUS
  <2>1. Agrees(ParsedFrom(g, place + d), ParsedFrom(f, place))
    BY RestAgrees
  <2>2. /\ ParsedFrom(g, place).ok = ParsedFrom(g, place + d).ok
        /\ ParsedFrom(g, place).specs = ParsedFrom(g, place + d).specs
    <3> DEFINE e == place + d
    <3>1. place \in 1..Len(g) + 1 /\ e \in place..Len(g) + 1 /\ \A k \in place..e - 1 : g[k] # "%"
      OBVIOUS
    <3> HIDE DEF e
    <3>2. /\ ParsedFrom(g, place).ok = ParsedFrom(g, e).ok
          /\ ParsedFrom(g, place).specs = ParsedFrom(g, e).specs
      BY <3>1, TextRun
    <3> QED BY <3>2 DEF e
  <2> QED BY <2>1, <2>2, AgreesWith
<1> HIDE DEF n
<1>2. ASSUME NEW i \in 1..n, \A j \in i + 1..n : j \in T PROVE i \in T
  <2> SUFFICES ASSUME ParsedFrom(f, i).ok, Comes(i)
               PROVE  place >= i /\ Agrees(ParsedFrom(g, i), ParsedFrom(f, i))
    OBVIOUS
  <2>1. CASE place = i
    BY <1>0, <1>1, <2>1
  <2>2. CASE i = n
    <3>1. ParsedFrom(f, i).segments = <<>>
      BY <1>0, <2>2, ParseTurn
    <3>2. place = n
      <4>1. DOMAIN <<>> = {}
        OBVIOUS
      <4> QED BY <2>2, <3>1, <4>1 DEF Starts
    <3> QED BY <1>0, <1>1, <2>2, <3>2
  <2>3. CASE place # i /\ i # n
    <3> DEFINE s == Segment(f, i)
               next == s.to + 1
    <3>0. i \in 1..Len(f) /\ i \in 1..Len(f) + 1 /\ i <= Len(f)
      BY <1>0, <2>3
    <3>1. s.kind # "error"
      BY <3>0, ParseTurn
    <3>2. next \in i + 1..n /\ ParsedFrom(f, i).ok = ParsedFrom(f, next).ok
      BY <1>0, <3>0, <3>1, ParseTurn
    <3>3. Comes(next)
      BY <2>3, <3>0, <3>1, StartsFollow
    <3> HIDE DEF Comes
    <3>4. place >= next /\ Agrees(ParsedFrom(g, next), ParsedFrom(f, next))
      <4>1. next \in T /\ ParsedFrom(f, next).ok
        BY <1>2, <3>2
      <4> HIDE DEF next
      <4> QED BY <3>3, <4>1
    <3>5. s.kind \in {"literal", "spec"}
      BY <3>0, <3>1, SegmentStays
    <3>6. CASE s.kind = "spec"
      <4> DEFINE e == s.to
      <4>1. e \in Int /\ next = e + 1 /\ e \in 1..Len(g) /\ i \in 1..Len(g) /\ e < place
        <5>1. e \in i + 1..Len(f)
          BY <3>0, <3>6, ReadIsSpec
        <5> HIDE DEF s
        <5> QED BY <1>0, <3>0, <3>4, <5>1
      <4>2. Stands(f, g, i, e, 0)
        <5> SUFFICES ASSUME NEW k \in i..e PROVE g[k + 0] = f[k]
          BY DEF Stands
        <5>1. k \in 1..place - 1 /\ k + 0 = k
          <6> HIDE DEF e
          <6> QED BY <1>0, <4>1
        <5> QED BY <5>1
      <4>3. Agrees(ParsedFrom(g, e + 1), ParsedFrom(f, e + 1))
        BY <3>4
      <4>4. /\ i = i + 0 /\ e = e + 0 /\ 0 \in Int
            /\ e = Segment(f, i).to /\ Segment(f, i).kind = "spec"
        <5>1. e \in Int
          BY <4>1
        <5> HIDE DEF e
        <5>2. i = i + 0 /\ e = e + 0
          BY <5>1
        <5> QED BY <3>6, <5>2 DEF e
      <4> HIDE DEF e
      <4>5. Agrees(ParsedFrom(g, i), ParsedFrom(f, i))
        BY <3>0, <4>1, <4>2, <4>3, <4>4, SpecAgrees, Zenon
      <4> QED BY <1>0, <3>2, <3>4, <4>5
    <3>7. CASE s.kind = "literal"
      <4>1. f[i] # "%" /\ s = Literal(i, TextEnd(f, i))
        BY <3>7 DEF Segment, SpecOrError, ReadSpec, SpecOf, Error, TextEnd
      <4>2. EndsAt(f, i, Text, next)
        <5>1. EndsAt(f, i, Text, TextEnd(f, i))
          BY <3>0, TextEndAt
        <5>2. next = TextEnd(f, i)
          BY <4>1, <5>1 DEF Literal, EndsAt
        <5> QED BY <5>1, <5>2
      <4> HIDE DEF next
      <4>3. /\ i \in 1..Len(g) + 1 /\ next \in i..Len(g) + 1
            /\ \A k \in i..next - 1 : g[k] # "%"
        <5>1. ASSUME NEW k \in i..next - 1 PROVE g[k] # "%"
          <6>1. k \in 1..place - 1 /\ f[k] \in Text
            BY <1>0, <3>0, <3>2, <3>4, <4>2 DEF EndsAt
          <6> QED BY <6>1 DEF Text
        <5> QED BY <1>0, <3>0, <3>2, <5>1
      <4>4. ParsedFrom(g, i).ok = ParsedFrom(g, next).ok
              /\ ParsedFrom(g, i).specs = ParsedFrom(g, next).specs
        BY <4>3, TextRun
      <4>5. ParsedFrom(f, i).specs = ParsedFrom(f, next).specs
        BY <3>0, <3>1, <3>7, ParseTurn DEF next
      <4>6. Agrees(ParsedFrom(g, i), ParsedFrom(f, i))
        BY <3>2, <3>4, <4>4, <4>5, AgreesWith
      <4> QED BY <1>0, <3>2, <3>4, <4>6
    <3> QED BY <3>5, <3>6, <3>7
  <2> QED BY <2>1, <2>2, <2>3
<1>3. \A i \in 1..n : i \in T
  <2> HIDE DEF T
  <2> QED BY <1>0, <1>2, Downward
<1>4. 1 \in 1..n /\ Comes(1)
  BY <1>0
<1> QED BY <1>3, <1>4

\* What a specifier reads depends on its conversion and its length alone.
ArgType(conversion, length) ==
  CASE conversion \in IntegerConversions  -> IntegerType(length, TRUE)
    [] conversion \in UnsignedConversions -> IntegerType(length, FALSE)
    [] conversion \in FloatConversions    -> FloatType(length)
    [] conversion = "c" -> IF length = <<"l">> THEN "Int32" ELSE "Char"
    [] conversion = "s" -> "String"
    [] conversion \in {"p", "n"} -> "Pointer"
    [] conversion = "%" -> "None"

\* It is all that expected_arg_type looks at.
LEMMA ArgTypeIs ==
  ASSUME NEW spec
  PROVE  expected_arg_type(spec) = ArgType(spec.conversion, spec.length)
BY Zenon DEF expected_arg_type, ArgType

\* Equivalent specifiers read arguments of the same type.
LEMMA SameArgType ==
  ASSUME NEW a, NEW b, format_specs_equivalent(a, b)
  PROVE  expected_arg_type(a) = expected_arg_type(b)
BY ArgTypeIs DEF format_specs_equivalent

\* One or two characters other than %.
LEMMA NoSpecifier ==
  ASSUME NEW x \in Text, NEW y \in Text
  PROVE  /\ <<x>> \in Seq(Char) /\ \A n \in 1..Len(<<x>>) : <<x>>[n] # "%"
         /\ <<x, y>> \in Seq(Char) /\ \A n \in 1..Len(<<x, y>>) : <<x, y>>[n] # "%"
BY DEF Text

\* The texts of SpacingIgnored are such.
LEMMA InsertedTexts ==
  ASSUME NEW text \in {<<" ">>, <<"l", "d">>, <<"0">>}
  PROVE  text \in Seq(Char) /\ \A n \in 1..Len(text) : text[n] # "%"
<1>1. " " \in Text
  BY Zenon DEF Text, Char
<1>2. "l" \in Text
  BY Zenon DEF Text, Char, OneLetterLengths
<1>3. "d" \in Text /\ "0" \in Text
  <2>1. "d" \in Conversions /\ "0" \in Digits
    BY Characters, Zenon
  <2> QED BY <2>1, Zenon DEF Text, Char
<1> QED BY <1>1, <1>2, <1>3, NoSpecifier, Zenon

\* g is a, b and c, one after the other.
Joins(g, a, b, c) ==
  /\ Len(g) = Len(a) + Len(b) + Len(c)
  /\ \A n \in 1..Len(a) : g[n] = a[n]
  /\ \A n \in 1..Len(b) : g[Len(a) + n] = b[n]
  /\ \A n \in 1..Len(c) : g[Len(a) + Len(b) + n] = c[n]

\* The concatenation of three sequences.
LEMMA ThreeParts ==
  ASSUME NEW S, NEW a \in Seq(S), NEW b \in Seq(S), NEW c \in Seq(S),
         NEW g, g = a \o b \o c
  PROVE  g \in Seq(S) /\ Joins(g, a, b, c)
BY DEF Joins

\* g is f with some text before its character at that place.
Inserts(g, f, text, place) ==
  /\ Len(g) = Len(f) + Len(text)
  /\ \A n \in 1..place - 1 : g[n] = f[n]
  /\ \A n \in 1..Len(text) : g[place - 1 + n] = text[n]
  /\ \A n \in place..Len(f) : g[n + Len(text)] = f[n]

\* The piece of f from i up to before e.
IsPiece(w, f, i, e) == Len(w) = e - i /\ \A k \in 1..e - i : w[k] = f[i + k - 1]

\* SubSeq takes it out.
LEMMA PieceOf ==
  ASSUME NEW S, NEW f \in Seq(S), NEW i \in 1..Len(f) + 1, NEW e \in i..Len(f) + 1,
         NEW d, d = e - 1, NEW w, w = SubSeq(f, i, d)
  PROVE  w \in Seq(S) /\ IsPiece(w, f, i, e)
BY PieceIs DEF IsPiece

\* Some text between the pieces before and after a place is inserted there.
LEMMA BetweenIs ==
  ASSUME NEW S, NEW f \in Seq(S), NEW text \in Seq(S), NEW place \in 1..Len(f) + 1,
         NEW a \in Seq(S), IsPiece(a, f, 1, place),
         NEW b \in Seq(S), IsPiece(b, f, place, Len(f) + 1),
         NEW g, Joins(g, a, text, b)
  PROVE  Inserts(g, f, text, place)
<1>1. /\ Len(text) \in Nat /\ Len(f) \in Nat /\ place \in 1..Len(f) + 1
      /\ Len(a) = place - 1 /\ Len(b) = Len(f) + 1 - place
      /\ \A k \in 1..place - 1 : a[k] = f[1 + k - 1]
      /\ \A k \in 1..Len(f) + 1 - place : b[k] = f[place + k - 1]
  BY DEF IsPiece
<1>2. /\ Len(g) = Len(a) + Len(text) + Len(b)
      /\ \A n \in 1..Len(a) : g[n] = a[n]
      /\ \A n \in 1..Len(text) : g[Len(a) + n] = text[n]
      /\ \A n \in 1..Len(b) : g[Len(a) + Len(text) + n] = b[n]
  BY DEF Joins
<1>3. Len(g) = Len(f) + Len(text)
  BY <1>1, <1>2
<1>4. ASSUME NEW n \in 1..place - 1 PROVE g[n] = f[n]
  <2>1. n \in 1..Len(a) /\ 1 + n - 1 = n
    BY <1>1
  <2> QED BY <1>1, <1>2, <2>1
<1>5. ASSUME NEW n \in place..Len(f) PROVE g[n + Len(text)] = f[n]
  <2>1. n - place + 1 \in 1..Len(b) /\ place + (n - place + 1) - 1 = n
        /\ Len(a) + Len(text) + (n - place + 1) = n + Len(text)
        /\ Len(b) = Len(f) + 1 - place
    BY <1>1
  <2>2. g[Len(a) + Len(text) + (n - place + 1)] = b[n - place + 1]
    BY <1>2, <2>1
  <2>3. b[n - place + 1] = f[place + (n - place + 1) - 1]
    BY <1>1, <2>1
  <2> QED BY <2>1, <2>2, <2>3
<1> QED BY <1>1, <1>2, <1>3, <1>4, <1>5 DEF Inserts

\* So is the text that With writes.
LEMMA InsertedIs ==
  ASSUME NEW S, NEW f \in Seq(S), NEW text \in Seq(S), NEW place \in 1..Len(f) + 1,
         NEW g, g = SubSeq(f, 1, place - 1) \o text \o SubSeq(f, place, Len(f))
  PROVE  g \in Seq(S) /\ Inserts(g, f, text, place)
<1>1. PICK a : a = SubSeq(f, 1, place - 1)
  OBVIOUS
<1>2. PICK b : b = SubSeq(f, place, Len(f))
  OBVIOUS
<1>3. g = a \o text \o b
  BY <1>1, <1>2
<1> DEFINE e == Len(f) + 1
<1>4. /\ 1 \in 1..Len(f) + 1 /\ place \in 1..Len(f) + 1 /\ place \in 1..place
      /\ e \in place..Len(f) + 1 /\ Len(f) = e - 1 /\ e = Len(f) + 1
  OBVIOUS
<1> HIDE DEF e
<1>5. a \in Seq(S) /\ IsPiece(a, f, 1, place)
  BY ONLY f \in Seq(S), <1>1, <1>4, PieceOf
<1>6. b \in Seq(S) /\ IsPiece(b, f, place, e)
  BY ONLY f \in Seq(S), <1>2, <1>4, PieceOf
<1>7. g \in Seq(S) /\ Joins(g, a, text, b)
  BY ONLY text \in Seq(S), <1>3, <1>5, <1>6, ThreeParts
<1> QED BY ONLY f \in Seq(S), text \in Seq(S), <1>4, <1>5, <1>6, <1>7, BetweenIs

\* Any text without a %, at any place where a segment starts: neither verdict changes.
LEMMA TextAt ==
  ASSUME TypeInv, parsed.ok, NEW place \in Places,
         NEW text \in Seq(Char), \A n \in 1..Len(text) : text[n] # "%"
  PROVE  LET longer == parse_format(With(text, place)) IN
         /\ expect_format(longer, expected) = expect_format(parsed, expected)
         /\ expect_arg_types(longer, Types)
<1>1. /\ fmt \in Seq(Char) /\ parsed = ParsedFrom(fmt, 1) /\ 1 \in 1..Len(fmt) + 1
      /\ Len(fmt) \in Nat
  BY ParseIs DEF TypeInv, ParsedFrom
<1>2. place \in 1..Len(fmt) + 1 /\ place \in {1, Len(fmt) + 1} \cup Starts(fmt, 1)
  <2>1. place \in {1, Len(fmt) + 1} \cup Starts(fmt, 1)
    BY <1>1 DEF Starts, Places
  <2>2. Starts(fmt, 1) \subseteq 1..Len(fmt)
    <3>1. parsed.segments \in Seq(Segments(fmt))
      BY <1>1, ParseTiles DEF Tiles
    <3>2. \A n \in DOMAIN parsed.segments : parsed.segments[n].from \in 1..Len(fmt)
      <4> SUFFICES ASSUME NEW n \in DOMAIN parsed.segments
                   PROVE  parsed.segments[n].from \in 1..Len(fmt)
        OBVIOUS
      <4>1. parsed.segments[n] \in Segments(fmt)
        BY <3>1
      <4> QED BY <1>1, <4>1, SegmentStays DEF Segments
    <3> QED BY <1>1, <3>2 DEF Starts
  <2> QED BY <1>1, <2>1, <2>2
<1>3. text \in Seq(Char) /\ \A n \in 1..Len(text) : text[n] # "%"
  OBVIOUS
<1> DEFINE g == With(text, place)
           longer == parse_format(g)
<1>g. g = SubSeq(fmt, 1, place - 1) \o text \o SubSeq(fmt, place, Len(fmt))
  BY Zenon DEF With
<1> HIDE DEF g
<1>4. /\ g \in Seq(Char) /\ Len(g) = Len(fmt) + Len(text)
      /\ \A n \in 1..place - 1 : g[n] = fmt[n]
      /\ \A n \in 1..Len(text) : g[place - 1 + n] = text[n]
      /\ \A n \in place..Len(fmt) : g[n + Len(text)] = fmt[n]
  <2>1. g \in Seq(Char) /\ Inserts(g, fmt, text, place)
    BY ONLY <1>1, <1>2, <1>3, <1>g, InsertedIs
  <2> QED BY <2>1 DEF Inserts
<1>5. \A n \in place..place + Len(text) - 1 : g[n] # "%"
  <2> SUFFICES ASSUME NEW n \in place..place + Len(text) - 1 PROVE g[n] # "%"
    OBVIOUS
  <2>1. n - place + 1 \in 1..Len(text) /\ place - 1 + (n - place + 1) = n
    BY <1>2, <1>3
  <2>2. g[place - 1 + (n - place + 1)] = text[n - place + 1]
    BY <1>4, <2>1
  <2> QED BY <1>3, <2>1, <2>2
<1>6. longer = ParsedFrom(g, 1)
  BY ParseIs DEF ParsedFrom
<1>7. Agrees(longer, parsed)
  <2>1. Len(text) \in Nat /\ ParsedFrom(fmt, 1).ok
    BY <1>1, <1>3
  <2> DEFINE d == Len(text)
  <2> HIDE DEF d
  <2>2. /\ d \in Nat /\ Len(g) = Len(fmt) + d
        /\ \A n \in place..place + d - 1 : g[n] # "%"
        /\ \A n \in place..Len(fmt) : g[n + d] = fmt[n]
    BY <1>4, <1>5, <2>1 DEF d
  <2>3. Agrees(ParsedFrom(g, 1), ParsedFrom(fmt, 1))
    BY <1>1, <1>2, <1>4, <2>1, <2>2, InsertionAgrees
  <2> QED BY <1>1, <1>6, <2>3
<1>8. /\ longer.specs \in Seq(Segments(g)) /\ parsed.specs \in Seq(Segments(fmt))
      /\ longer.ok \in BOOLEAN /\ parsed.ok \in BOOLEAN
  <2>1. 1 \in 1..Len(g) + 1
    BY <1>4
  <2>2. longer.specs \in Seq(Segments(g)) /\ parsed.specs \in Seq(Segments(fmt))
    BY <1>1, <1>4, <1>6, <2>1, SpecsAreSegments
  <2> QED BY <1>1, <1>6, <2>2 DEF ParsedFrom, Parsed
<1> DEFINE a == longer.specs
           b == parsed.specs
<1>9. /\ DOMAIN a = 1..Len(a) /\ DOMAIN b = 1..Len(b) /\ Len(a) \in Nat /\ Len(a) = Len(b)
      /\ longer.ok = parsed.ok
      /\ \A n \in 1..Len(b) : format_specs_equivalent(a[n], b[n])
  BY <1>7, <1>8 DEF Agrees
<1>10. expect_arg_types(longer, Types)
  <2>1. DOMAIN Types = 1..Len(b) /\ Len(Types) = Len(b)
    <3>1. DOMAIN Types = 1..Len(b)
      BY ONLY <1>9, Zenon DEF Types
    <3> HIDE DEF Types
    <3> QED BY <1>9, <3>1
  <2>2. \A n \in DOMAIN Types : expected_arg_type(a[n]) = Types[n]
    <3> SUFFICES ASSUME NEW n \in DOMAIN Types PROVE expected_arg_type(a[n]) = Types[n]
      OBVIOUS
    <3>1. n \in 1..Len(b)
      BY <2>1
    <3>2. expected_arg_type(a[n]) = expected_arg_type(b[n])
      BY <1>9, <3>1, SameArgType
    <3>3. Types[n] = expected_arg_type(b[n])
      BY ONLY <1>9, <3>1, Zenon DEF Types
    <3> QED BY <3>2, <3>3
  <2> HIDE DEF longer
  <2> QED BY <1>9, <2>1, <2>2 DEF expect_arg_types
<1>11. expect_format(longer, expected) = expect_format(parsed, expected)
  <2> HIDE DEF longer
  <2>1. (\A n \in DOMAIN a : format_specs_equivalent(expected.specs[n], a[n]))
          <=> (\A n \in DOMAIN b : format_specs_equivalent(expected.specs[n], b[n]))
    BY <1>9 DEF format_specs_equivalent
  <2>2. format_matches(expected, longer) = format_matches(expected, parsed)
    BY <1>9, <2>1 DEF format_matches
  <2> QED BY <2>2 DEF expect_format
<1> QED BY <1>10, <1>11 DEF g

\* Spaces before, between or after the specifiers of a format that parses do not
\* change what expect_format says of it, and no text there, a length modifier or a
\* digit, what expect_arg_types says (expectations.cpp): SpacingIgnored, for every
\* format and whatever format is required.
THEOREM SpacingIsIgnored == Spec => []SpacingIgnored
<1>1. TypeInv => SpacingIgnored
  <2>1. ASSUME TypeInv, parsed.ok, NEW place \in Places,
               NEW text \in {<<" ">>, <<"l", "d">>, <<"0">>}
        PROVE  /\ expect_format(parse_format(With(text, place)), expected)
                    = expect_format(parsed, expected)
               /\ expect_arg_types(parse_format(With(text, place)), Types)
    BY <2>1, InsertedTexts, TextAt, Zenon
  <2>2. <<" ">> \in {<<" ">>, <<"l", "d">>, <<"0">>}
    BY Zenon
  <2> QED BY <2>1, <2>2, Zenon DEF SpacingIgnored
<1> QED BY <1>1, TypesHold, PTL

-----------------------------------------------------------------------------
(* Numbers and their decimal digits.                                       *)

\* The characters for the digits stand for their values,
LEMMA DigitsHaveValues ==
  \A v \in 0..9 : /\ DigitOrder[v + 1] \in Digits /\ Value(DigitOrder[v + 1]) = v
                  /\ v # 0 => DigitOrder[v + 1] # "0"
<1>1. /\ DigitOrder[1] = "0" /\ DigitOrder[2] = "1" /\ DigitOrder[3] = "2"
      /\ DigitOrder[4] = "3" /\ DigitOrder[5] = "4" /\ DigitOrder[6] = "5"
      /\ DigitOrder[7] = "6" /\ DigitOrder[8] = "7" /\ DigitOrder[9] = "8"
      /\ DigitOrder[10] = "9"
  BY DEF DigitOrder
<1>2. \A v \in 0..9 : v \in {0, 1, 2, 3, 4, 5, 6, 7, 8, 9}
  OBVIOUS
<1>3. \A v, w \in 0..9 : DigitOrder[v + 1] = DigitOrder[w + 1] => v = w
  BY <1>1, <1>2
<1>4. \A v \in 0..9 : DigitOrder[v + 1] \in Digits /\ (v # 0 => DigitOrder[v + 1] # "0")
  <2> SUFFICES ASSUME NEW v \in 0..9
               PROVE  DigitOrder[v + 1] \in Digits /\ (v # 0 => DigitOrder[v + 1] # "0")
    OBVIOUS
  <2>1. DOMAIN DigitOrder = 1..10
    BY DEF DigitOrder
  <2>2. v + 1 \in DOMAIN DigitOrder
    BY <2>1
  <2>3. DigitOrder[v + 1] \in Digits
    BY <2>2 DEF Digits, Elements
  <2>4. DigitOrder[v + 1] = "0" => v = 0
    BY <1>1, <1>2
  <2> QED BY <2>3, <2>4
<1>5. ASSUME NEW v \in 0..9 PROVE Value(DigitOrder[v + 1]) = v
  BY <1>3 DEF Value
<1> QED BY <1>4, <1>5

\* and no others do.
LEMMA ValuesOfDigits ==
  \A c \in Digits : Value(c) \in 0..9 /\ (c # "0" => Value(c) # 0)
<1>1. /\ DigitOrder[1] = "0" /\ DigitOrder[2] = "1" /\ DigitOrder[3] = "2"
      /\ DigitOrder[4] = "3" /\ DigitOrder[5] = "4" /\ DigitOrder[6] = "5"
      /\ DigitOrder[7] = "6" /\ DigitOrder[8] = "7" /\ DigitOrder[9] = "8"
      /\ DigitOrder[10] = "9"
  BY DEF DigitOrder
<1>2. \A c \in Digits : \E v \in 0..9 : DigitOrder[v + 1] = c
  <2> SUFFICES ASSUME NEW c \in Digits PROVE \E v \in 0..9 : DigitOrder[v + 1] = c
    OBVIOUS
  <2>1. \E k \in {1, 2, 3, 4, 5, 6, 7, 8, 9, 10} : DigitOrder[k] = c
    BY <1>1, Characters
  <2>2. PICK k \in 1..10 : DigitOrder[k] = c
    BY <2>1
  <2>3. k - 1 \in 0..9 /\ k - 1 + 1 = k
    OBVIOUS
  <2> QED BY <2>2, <2>3
<1> QED BY <1>1, <1>2, DigitsHaveValues

\* One more digit.
LEMMA NumberGrows ==
  ASSUME NEW f, NEW i \in Int, NEW e \in Int, i <= e, NEW h, h = e + 1
  PROVE  Number(f, i, i) = 0 /\ Number(f, i, h) = More(Number(f, i, e), f[e])
<1> DEFINE u == NumberTo(f, i, e)
           v == NumberTo(f, i, h)
           T == {k \in 0..e - i : v[i - 1 + k] = u[i - 1 + k]}
<1>1. u[i - 1] = 0 /\ \A n \in i..e - 1 : u[n] = More(u[n - 1], f[n])
  BY NumberToIs
<1>2. v[i - 1] = 0 /\ \A n \in i..e : v[n] = More(v[n - 1], f[n])
  <2>1. h \in Int /\ i <= h /\ h - 1 = e
    OBVIOUS
  <2> QED BY <2>1, NumberToIs
<1>0. Number(f, i, i) = 0
  <2>1. NumberTo(f, i, i)[i - 1] = 0
    BY NumberToIs
  <2> QED BY <2>1, NumberIs
<1> HIDE DEF u, v
<1>3. 0 \in T
  BY <1>1, <1>2
<1>4. ASSUME NEW k \in 1..e - i, k - 1 \in T PROVE k \in T
  <2> DEFINE n == i - 1 + k
  <2>1. n \in i..e - 1 /\ n - 1 = i - 1 + (k - 1) /\ n = i - 1 + k /\ n \in i..e
    OBVIOUS
  <2> HIDE DEF n
  <2>2. v[n - 1] = u[n - 1]
    BY <1>4, <2>1
  <2>3. v[n] = u[n]
    BY <1>1, <1>2, <2>1, <2>2
  <2> QED BY <2>1, <2>3
<1>5. e - i \in Nat /\ e - i \in 0..e - i /\ i - 1 + (e - i) = e - 1 /\ e \in i..e
  OBVIOUS
<1>6. \A k \in 0..e - i : k \in T
  <2> HIDE DEF T
  <2> QED BY <1>3, <1>4, <1>5, Upward
<1>7. v[e - 1] = u[e - 1]
  BY <1>5, <1>6
<1>8. v[e] = More(u[e - 1], f[e])
  BY <1>2, <1>5, <1>7
<1>9. h - 1 = e
  OBVIOUS
<1> QED BY <1>0, <1>8, <1>9, NumberIs DEF u, v

\* Digits are a number, and a positive one when the first is not 0.
LEMMA NumberIsNat ==
  ASSUME NEW f, NEW i \in Int, NEW e \in Int, i <= e, \A n \in i..e - 1 : f[n] \in Digits
  PROVE  Number(f, i, e) \in Nat /\ (i < e /\ f[i] # "0" => Number(f, i, e) > 0)
<1> DEFINE T == {k \in 0..e - i : /\ Number(f, i, i + k) \in Nat
                                  /\ k > 0 /\ f[i] # "0" => Number(f, i, i + k) > 0}
<1>1. 0 \in T
  <2>1. i + 0 = i /\ 0 \in 0..e - i
    OBVIOUS
  <2>2. Number(f, i, i) = 0
    BY NumberGrows
  <2> QED BY <2>1, <2>2
<1>2. ASSUME NEW k \in 1..e - i, k - 1 \in T PROVE k \in T
  <2> DEFINE m == i + (k - 1)
             h == i + k
  <2>1. m \in Int /\ i <= m /\ h = m + 1 /\ m \in i..e - 1 /\ (k = 1 => m = i)
    OBVIOUS
  <2>2. Number(f, i, m) \in Nat /\ (k - 1 > 0 /\ f[i] # "0" => Number(f, i, m) > 0)
    BY <1>2
  <2> HIDE DEF m, h
  <2>3. Number(f, i, h) = More(Number(f, i, m), f[m])
    BY <2>1, NumberGrows
  <2>4. Value(f[m]) \in 0..9 /\ (k = 1 /\ f[i] # "0" => Value(f[m]) > 0)
    BY <2>1, ValuesOfDigits
  <2>5. Number(f, i, h) \in Nat /\ (f[i] # "0" => Number(f, i, h) > 0)
    BY <2>2, <2>3, <2>4 DEF More
  <2> QED BY <2>5 DEF h
<1>3. e - i \in Nat /\ e - i \in 0..e - i /\ i + (e - i) = e /\ (i < e => e - i > 0)
  OBVIOUS
<1>4. \A k \in 0..e - i : k \in T
  <2> HIDE DEF T
  <2> QED BY <1>1, <1>2, <1>3, Upward
<1> QED BY <1>3, <1>4

\* The digits of a number.
IsDecimal(w, k) ==
  /\ w \in Seq(Digits) /\ Len(w) >= 1
  /\ Number(w, 1, Len(w) + 1) = k
  /\ k > 0 => w[1] # "0"

\* One digit is a number in decimal.
LEMMA OneDigit ==
  ASSUME NEW v \in 0..9
  PROVE  IsDecimal(<<DigitOrder[v + 1]>>, v)
<1> DEFINE w == <<DigitOrder[v + 1]>>
<1>1. w \in Seq(Digits) /\ Len(w) = 1 /\ w[1] = DigitOrder[v + 1] /\ Value(w[1]) = v
      /\ (v > 0 => w[1] # "0")
  BY DigitsHaveValues
<1> HIDE DEF w
<1>2. Number(w, 1, 1) = 0 /\ Number(w, 1, 2) = More(Number(w, 1, 1), w[1])
  <2>1. 1 \in Int /\ 2 = 1 + 1
    OBVIOUS
  <2> QED BY <2>1, NumberGrows
<1>3. Number(w, 1, 2) = v /\ Len(w) + 1 = 2
  BY <1>1, <1>2 DEF More
<1> QED BY <1>1, <1>3 DEF IsDecimal, w

\* A digit after a number makes ten times the number and its value.
LEMMA NextDigit ==
  ASSUME NEW w, NEW q \in Nat, q > 0, IsDecimal(w, q), NEW v \in 0..9, NEW k, k = 10 * q + v
  PROVE  IsDecimal(Append(w, DigitOrder[v + 1]), k)
<1> DEFINE c == DigitOrder[v + 1]
           z == Snoc(w, c)
           e == Len(w) + 1
           h == Len(z) + 1
<1>0. /\ w \in Seq(Digits) /\ Len(w) >= 1 /\ Number(w, 1, e) = q /\ w[1] # "0"
      /\ c \in Digits /\ Value(c) = v
  BY DigitsHaveValues DEF IsDecimal
<1>1. /\ z \in Seq(Digits) /\ Len(z) = Len(w) + 1 /\ z[Len(w) + 1] = c
      /\ \A n \in 1..Len(w) : z[n] = w[n]
  <2> HIDE DEF c
  <2> QED BY <1>0, SnocIs
<1>2. Append(w, DigitOrder[v + 1]) = z
  BY DEF Snoc
<1> HIDE DEF z, c
<1>3. e \in Int /\ h = e + 1 /\ 1 <= e /\ 1 \in 1..Len(w) /\ z[e] = c /\ e - 1 = Len(w)
      /\ e = e + 0 /\ 1 = 1 + 0
  BY <1>0, <1>1
<1> HIDE DEF e, h
<1>4. Copied(w, z, 1, e, 0)
  BY <1>1, <1>3 DEF Copied
<1>5. Number(z, 1, e) = Number(w, 1, e)
  BY <1>3, <1>4, NumberMoves
<1>6. Number(z, 1, h) = More(Number(z, 1, e), z[e])
  BY <1>3, NumberGrows
<1>7. Number(z, 1, h) = k
  BY <1>0, <1>3, <1>5, <1>6 DEF More
<1> QED BY <1>0, <1>1, <1>2, <1>3, <1>7 DEF IsDecimal, h

\* The digits of k, given those of every smaller number.
DigitsOf(u, k) ==
  IF k < 10 THEN <<DigitOrder[k + 1]>>
  ELSE Append(u[k \div 10], DigitOrder[(k % 10) + 1])

\* The recursion of Decimal.
DecimalTo(n) == CHOOSE u : u = [k \in 0..n |-> DigitsOf(u, k)]

\* The division by ten.
LEMMA Tenth ==
  ASSUME NEW k \in Nat, k >= 10
  PROVE  /\ k \div 10 \in 1..k - 1 /\ k % 10 \in 0..9 /\ k = 10 * (k \div 10) + (k % 10)
OBVIOUS

\* The recursion has a solution, so its value at k is what it says.
LEMMA DecimalToIs ==
  ASSUME NEW n \in Nat
  PROVE  \A k \in 0..n : DecimalTo(n)[k] = DigitsOf(DecimalTo(n), k)
<1> DEFINE Solves(u, m) == u = [k \in 0..m |-> DigitsOf(u, k)]
           T == {m \in 0..n : \E u : Solves(u, m)}
<1>1. 0 \in T
  <2> DEFINE u == [k \in 0..0 |-> <<DigitOrder[k + 1]>>]
  <2>1. \A k \in 0..0 : DigitsOf(u, k) = <<DigitOrder[k + 1]>>
    BY DEF DigitsOf
  <2>2. Solves(u, 0)
    BY <2>1
  <2> HIDE DEF Solves
  <2> QED BY <2>2
<1>2. ASSUME NEW m \in 1..n, m - 1 \in T PROVE m \in T
  <2>1. PICK u : Solves(u, m - 1)
    BY <1>2
  <2> DEFINE v == [k \in 0..m |-> IF k = m THEN DigitsOf(u, m) ELSE u[k]]
  <2>a. m \in Nat
    OBVIOUS
  <2>2. \A k \in 0..m - 1 : u[k] = DigitsOf(u, k)
    BY <2>1
  <2> HIDE DEF Solves
  <2>3. ASSUME NEW k \in 0..m PROVE DigitsOf(v, k) = DigitsOf(u, k)
    <3>1. CASE k < 10
      BY <3>1 DEF DigitsOf
    <3>2. CASE k >= 10
      <4>1. k \div 10 \in 1..k - 1
        BY <3>2, Tenth
      <4>2. v[k \div 10] = u[k \div 10]
        BY <4>1
      <4> HIDE DEF v
      <4> QED BY <4>2, <3>2 DEF DigitsOf
    <3> QED BY <3>1, <3>2
  <2>4. \A k \in 0..m : v[k] = DigitsOf(v, k)
    <3> SUFFICES ASSUME NEW k \in 0..m PROVE v[k] = DigitsOf(v, k)
      OBVIOUS
    <3>1. k = m \/ k \in 0..m - 1
      OBVIOUS
    <3> QED BY <2>2, <2>3, <3>1
  <2>5. v = [k \in 0..m |-> v[k]]
    OBVIOUS
  <2> HIDE DEF v
  <2>6. Solves(v, m)
    BY <2>4, <2>5 DEF Solves
  <2> QED BY <2>6
<1>3. \E u : Solves(u, n)
  <2> HIDE DEF Solves
  <2>1. n \in 0..n
    OBVIOUS
  <2>2. \A k \in 0..n : k \in T
    <3> HIDE DEF T
    <3> QED BY <1>1, <1>2, Upward
  <2> QED BY <2>1, <2>2
<1> DEFINE u == DecimalTo(n)
<1>4. Solves(u, n)
  <2>1. u = CHOOSE x : Solves(x, n)
    BY DEF DecimalTo
  <2> HIDE DEF Solves, u
  <2> QED BY <1>3, <2>1
<1>5. \A k \in 0..n : u[k] = DigitsOf(u, k)
  <2> HIDE DEF u
  <2> QED BY <1>4
<1> QED BY <1>5

\* A number below 10 is one digit,
LEMMA FirstDigits ==
  ASSUME NEW u, NEW k \in 0..9, NEW w, w = DigitsOf(u, k)
  PROVE  w = <<DigitOrder[k + 1]>>
BY DEF DigitsOf

\* and any other has one more than its tenth.
LEMMA MoreDigits ==
  ASSUME NEW u, NEW k \in Nat, k >= 10, NEW q, NEW r, q = k \div 10, r = k % 10,
         NEW w, w = DigitsOf(u, k)
  PROVE  w = Append(u[q], DigitOrder[r + 1])
<1>1. ~(k < 10)
  OBVIOUS
<1> QED BY ONLY <1>1, q = k \div 10, r = k % 10, w = DigitsOf(u, k) DEF DigitsOf

\* Decimal writes the digits of its number, without a leading 0.
LEMMA DecimalIs ==
  ASSUME NEW n \in Nat
  PROVE  IsDecimal(Decimal(n), n)
<1>1. PICK u : u = DecimalTo(n)
  OBVIOUS
<1>2. \A k \in 0..n : u[k] = DigitsOf(u, k)
  BY <1>1, DecimalToIs
<1>3. Decimal(n) = u[n]
  BY <1>1 DEF Decimal, DecimalTo, DigitsOf
<1> DEFINE Good(m) == \A k \in 0..m : IsDecimal(u[k], k)
           T == {m \in 0..n : Good(m)}
<1>4. ASSUME NEW k \in 0..n, k <= 9 PROVE IsDecimal(u[k], k)
  <2>1. k \in 0..9 /\ u[k] = DigitsOf(u, k)
    BY <1>2, <1>4
  <2>2. u[k] = <<DigitOrder[k + 1]>>
    BY ONLY <2>1, FirstDigits
  <2> QED BY ONLY <2>1, <2>2, OneDigit
<1>5. 0 \in T
  <2>1. 0 \in 0..n /\ 0 <= 9 /\ \A k \in 0..0 : k = 0
    OBVIOUS
  <2> QED BY <1>4, <2>1
<1>6. ASSUME NEW m \in 1..n, m - 1 \in T PROVE m \in T
  <2>1. \A k \in 0..m - 1 : IsDecimal(u[k], k)
    BY <1>6
  <2>0. m \in 0..n /\ m \in Nat
    OBVIOUS
  <2>2. IsDecimal(u[m], m)
    <3>1. CASE m <= 9
      BY <1>4, <2>0, <3>1
    <3>2. CASE m >= 10
      <4>1. /\ m \div 10 \in 1..m - 1 /\ m % 10 \in 0..9 /\ m = 10 * (m \div 10) + (m % 10)
        BY ONLY <2>0, <3>2, Tenth
      <4>2. PICK q, r : q = m \div 10 /\ r = m % 10
        OBVIOUS
      <4>3. q \in 1..m - 1 /\ r \in 0..9 /\ m = 10 * q + r
        BY ONLY <4>1, <4>2
      <4>4. q \in Nat /\ q > 0 /\ q \in 0..m - 1
        BY ONLY <4>3, <2>0
      <4>5. u[m] = DigitsOf(u, m)
        BY <1>2, <2>0
      <4>6. u[m] = Append(u[q], DigitOrder[r + 1])
        BY ONLY <2>0, <3>2, <4>2, <4>5, MoreDigits
      <4>7. IsDecimal(u[q], q)
        BY <2>1, <4>4
      <4>8. IsDecimal(Append(u[q], DigitOrder[r + 1]), m)
        BY ONLY <4>3, <4>4, <4>7, NextDigit
      <4> QED BY <4>6, <4>8
    <3>3. m <= 9 \/ m >= 10
      OBVIOUS
    <3> QED BY <3>1, <3>2, <3>3
  <2>3. \A k \in 0..m : k = m \/ k \in 0..m - 1
    OBVIOUS
  <2> QED BY <2>0, <2>1, <2>2, <2>3
<1>7. \A m \in 0..n : m \in T
  <2> HIDE DEF T
  <2> QED BY <1>5, <1>6, Upward
<1>8. Good(n)
  <2>1. n \in 0..n
    OBVIOUS
  <2> QED BY <1>7, <2>1
<1>9. IsDecimal(u[n], n)
  <2>1. n \in 0..n
    OBVIOUS
  <2> QED BY <1>8, <2>1
<1> QED BY <1>3, <1>9

-----------------------------------------------------------------------------
(* What a specifier is shown as.                                           *)

\* s stands in g from the place at on.
Stretch(g, s, at) == \A n \in 1..Len(s) : g[at - 1 + n] = s[n]

\* g is p and then q, which starts at place n; k is the place after it.
Extended(g, p, q, n, k) ==
  /\ g \in Seq(Char) /\ Len(g) = k - 1 /\ k = n + Len(q) /\ Stretch(g, q, n)
  /\ \A m \in 1..n - 1 : g[m] = p[m]

\* One sequence after another.
LEMMA TwoParts ==
  ASSUME NEW S, NEW a \in Seq(S), NEW b \in Seq(S), NEW g, g = a \o b
  PROVE  /\ g \in Seq(S) /\ Len(g) = Len(a) + Len(b)
         /\ \A n \in 1..Len(a) : g[n] = a[n]
         /\ \A n \in 1..Len(b) : g[Len(a) + n] = b[n]
OBVIOUS

\* The concatenation of two is such a sequence.
LEMMA OneMore ==
  ASSUME NEW p \in Seq(Char), NEW q \in Seq(Char), NEW g, g = p \o q,
         NEW n, n \in Int, Len(p) = n - 1, NEW k, k = n + Len(q)
  PROVE  Extended(g, p, q, n, k)
<1>1. /\ g \in Seq(Char) /\ Len(g) = Len(p) + Len(q)
      /\ \A m \in 1..Len(p) : g[m] = p[m]
      /\ \A m \in 1..Len(q) : g[Len(p) + m] = q[m]
  BY ONLY p \in Seq(Char), q \in Seq(Char), g = p \o q, TwoParts
<1>2. Len(q) \in Nat
  OBVIOUS
<1> QED BY ONLY <1>1, <1>2, n \in Int, Len(p) = n - 1, k = n + Len(q) DEF Extended, Stretch

\* What stands in p still does in g.
LEMMA StretchStays ==
  ASSUME NEW p, NEW q, NEW g, NEW n \in Int, NEW k, Extended(g, p, q, n, k),
         NEW s \in Seq(Char), NEW at \in Int, 1 <= at, at + Len(s) <= n, Stretch(p, s, at)
  PROVE  Stretch(g, s, at)
<1>1. \A m \in 1..n - 1 : g[m] = p[m]
  BY DEF Extended
<1>2. \A m \in 1..Len(s) : at - 1 + m \in 1..n - 1
  OBVIOUS
<1> QED BY <1>1, <1>2 DEF Stretch

\* So does the first character, and q follows.
LEMMA FirstStays ==
  ASSUME NEW p, NEW q, NEW g, NEW n \in Int, 2 <= n, NEW k, Extended(g, p, q, n, k)
  PROVE  g[1] = p[1] /\ Stretch(g, q, n)
BY DEF Extended

\* g is a %, the four parts and the conversion letter, which start there.
IsShown(g, F, W, D, L, x, a, b, c, e) ==
  /\ g \in Seq(Char) /\ Len(g) = e /\ g[1] = "%" /\ g[e] = x
  /\ Stretch(g, F, 2) /\ Stretch(g, W, a) /\ Stretch(g, D, b) /\ Stretch(g, L, c)

\* Part after part, nothing that was written moves.
LEMMA FiveJoined ==
  ASSUME NEW F \in Seq(Char), NEW W \in Seq(Char), NEW D \in Seq(Char), NEW L \in Seq(Char),
         NEW x \in Char, NEW z \in Seq(Char), Len(z) = 1, z[1] = x,
         NEW p \in Seq(Char), Len(p) = 1, p[1] = "%",
         NEW p1, NEW p2, NEW p3, NEW p4, NEW g,
         NEW a \in Int, NEW b \in Int, NEW c \in Int, NEW e \in Int,
         NEW h \in Int, 2 <= a, a <= b, b <= c, c <= e, h = e + 1,
         a = 2 + Len(F), b = a + Len(W), c = b + Len(D), e = c + Len(L),
         Extended(p1, p, F, 2, a), Extended(p2, p1, W, a, b), Extended(p3, p2, D, b, c),
         Extended(p4, p3, L, c, e), Extended(g, p4, z, e, h)
  PROVE  IsShown(g, F, W, D, L, x, a, b, c, e)
<1>0. 2 \in Int /\ 2 <= 2 /\ 2 <= b /\ 2 <= c /\ 2 <= e
  BY ONLY a \in Int, b \in Int, c \in Int, e \in Int, 2 <= a, a <= b, b <= c, c <= e
<1>1. p1[1] = "%" /\ Stretch(p1, F, 2)
  BY ONLY <1>0, p[1] = "%", Extended(p1, p, F, 2, a), FirstStays
<1>2. p2[1] = "%" /\ Stretch(p2, F, 2) /\ Stretch(p2, W, a)
  <2>1. p2[1] = "%" /\ Stretch(p2, W, a)
    BY ONLY <1>1, a \in Int, 2 <= a, Extended(p2, p1, W, a, b), FirstStays
  <2>2. Stretch(p2, F, 2)
    BY <1>1, StretchStays
  <2> QED BY <2>1, <2>2
<1>3. p3[1] = "%" /\ Stretch(p3, F, 2) /\ Stretch(p3, W, a) /\ Stretch(p3, D, b)
  <2>1. p3[1] = "%" /\ Stretch(p3, D, b)
    BY ONLY <1>0, <1>2, b \in Int, Extended(p3, p2, D, b, c), FirstStays
  <2>2. Stretch(p3, F, 2) /\ Stretch(p3, W, a)
    BY <1>2, StretchStays
  <2> QED BY <2>1, <2>2
<1>4. /\ p4[1] = "%" /\ Stretch(p4, F, 2) /\ Stretch(p4, W, a) /\ Stretch(p4, D, b)
      /\ Stretch(p4, L, c)
  <2>1. p4[1] = "%" /\ Stretch(p4, L, c)
    BY ONLY <1>0, <1>3, c \in Int, Extended(p4, p3, L, c, e), FirstStays
  <2>2. Stretch(p4, F, 2) /\ Stretch(p4, W, a) /\ Stretch(p4, D, b)
    BY <1>3, StretchStays
  <2> QED BY <2>1, <2>2
<1>5. /\ g[1] = "%" /\ Stretch(g, F, 2) /\ Stretch(g, W, a) /\ Stretch(g, D, b)
      /\ Stretch(g, L, c)
  <2>1. g[1] = "%"
    BY ONLY <1>0, <1>4, e \in Int, Extended(g, p4, z, e, h), FirstStays
  <2>2. Stretch(g, F, 2) /\ Stretch(g, W, a) /\ Stretch(g, D, b) /\ Stretch(g, L, c)
    BY <1>4, StretchStays
  <2> QED BY <2>1, <2>2
<1>6. g \in Seq(Char) /\ Len(g) = e
  BY DEF Extended
<1>7. g[e] = x
  <2>1. 1 \in 1..Len(z) /\ e - 1 + 1 = e
    OBVIOUS
  <2>2. Stretch(g, z, e)
    BY DEF Extended
  <2>3. g[e - 1 + 1] = z[1]
    BY <2>1, <2>2 DEF Stretch
  <2> QED BY <2>1, <2>3
<1> QED BY <1>5, <1>6, <1>7 DEF IsShown

\* So is the concatenation of the parts.
LEMMA ShownIs ==
  ASSUME NEW F \in Seq(Char), NEW W \in Seq(Char), NEW D \in Seq(Char), NEW L \in Seq(Char),
         NEW x \in Char, NEW g, g = <<"%">> \o F \o W \o D \o L \o <<x>>,
         NEW a, NEW b, NEW c, NEW e,
         a = 2 + Len(F), b = a + Len(W), c = b + Len(D), e = c + Len(L)
  PROVE  IsShown(g, F, W, D, L, x, a, b, c, e)
<1>0. /\ a \in Int /\ b \in Int /\ c \in Int /\ e \in Int
      /\ 2 <= a /\ a <= b /\ b <= c /\ c <= e
  <2>1. Len(F) \in Nat /\ Len(W) \in Nat /\ Len(D) \in Nat /\ Len(L) \in Nat
    OBVIOUS
  <2> QED BY ONLY <2>1, a = 2 + Len(F), b = a + Len(W), c = b + Len(D), e = c + Len(L)
<1>1. PICK p : p = <<"%">>
  OBVIOUS
<1>2. PICK p1 : p1 = p \o F
  OBVIOUS
<1>3. PICK p2 : p2 = p1 \o W
  OBVIOUS
<1>4. PICK p3 : p3 = p2 \o D
  OBVIOUS
<1>5. PICK p4 : p4 = p3 \o L
  OBVIOUS
<1>6. PICK z : z = <<x>>
  OBVIOUS
<1>7. g = p4 \o z
  BY ONLY <1>1, <1>2, <1>3, <1>4, <1>5, <1>6, g = <<"%">> \o F \o W \o D \o L \o <<x>>
<1>8. p \in Seq(Char) /\ Len(p) = 1 /\ p[1] = "%"
  <2>1. "%" \in Char
    BY ONLY DEF Char
  <2> QED BY ONLY <1>1, <2>1
<1>9. z \in Seq(Char) /\ Len(z) = 1 /\ z[1] = x
  BY ONLY <1>6, x \in Char
<1>10. Extended(p1, p, F, 2, a)
  <2>1. 2 \in Int /\ Len(p) = 2 - 1
    BY <1>8
  <2> QED BY ONLY <1>0, <1>2, <1>8, <2>1, F \in Seq(Char), a = 2 + Len(F), OneMore
<1>11. Extended(p2, p1, W, a, b)
  <2>1. p1 \in Seq(Char) /\ Len(p1) = a - 1
    BY ONLY <1>10 DEF Extended
  <2> QED BY ONLY <1>0, <1>3, <2>1, W \in Seq(Char), b = a + Len(W), OneMore
<1>12. Extended(p3, p2, D, b, c)
  <2>1. p2 \in Seq(Char) /\ Len(p2) = b - 1
    BY ONLY <1>11 DEF Extended
  <2> QED BY ONLY <1>0, <1>4, <2>1, D \in Seq(Char), c = b + Len(D), OneMore
<1>13. Extended(p4, p3, L, c, e)
  <2>1. p3 \in Seq(Char) /\ Len(p3) = c - 1
    BY ONLY <1>12 DEF Extended
  <2> QED BY ONLY <1>0, <1>5, <2>1, L \in Seq(Char), e = c + Len(L), OneMore
<1>14. PICK h : h = e + 1
  OBVIOUS
<1>15. Extended(g, p4, z, e, h)
  <2>1. p4 \in Seq(Char) /\ Len(p4) = e - 1 /\ h = e + Len(z)
    BY ONLY <1>9, <1>13, <1>14 DEF Extended
  <2> QED BY ONLY <1>0, <1>7, <1>9, <2>1, OneMore
<1>16. h \in Int
  BY ONLY <1>0, <1>14
<1> QED BY ONLY F \in Seq(Char), W \in Seq(Char), D \in Seq(Char), L \in Seq(Char), x \in Char,
      a = 2 + Len(F), b = a + Len(W), c = b + Len(D), e = c + Len(L),
      <1>0, <1>8, <1>9, <1>10, <1>11, <1>12, <1>13, <1>14, <1>15, <1>16, FiveJoined

-----------------------------------------------------------------------------
(* A specifier reads as it is shown, part by part.                         *)

\* A number is read back.
LEMMA NumberReads ==
  ASSUME NEW W, NEW m \in Nat, IsDecimal(W, m), NEW g \in Seq(Char), NEW a \in Int, 1 <= a,
         NEW b, b = a + Len(W), b <= Len(g), Stretch(g, W, a)
  PROVE  /\ b \in Int /\ a < b /\ \A n \in a..b - 1 : g[n] \in Digits
         /\ Amount(g, a, b) = m /\ (m > 0 => g[a] # "0")
<1> DEFINE h == Len(W) + 1
           d == a - 1
<1>1. /\ W \in Seq(Digits) /\ Len(W) >= 1 /\ Len(W) \in Nat /\ Number(W, 1, h) = m
      /\ m > 0 => W[1] # "0"
  BY DEF IsDecimal
<1>2. /\ h \in Int /\ d \in Int /\ 1 <= h /\ a = 1 + d /\ b = h + d /\ h - 1 = Len(W)
      /\ b \in Int /\ a < b /\ 1 \in Int
  BY <1>1
<1> HIDE DEF h, d
<1>3. \A n \in 1..Len(W) : g[a - 1 + n] = W[n]
  BY DEF Stretch
<1>4. Copied(W, g, 1, h, d)
  <2>1. ASSUME NEW n \in 1..h - 1 PROVE g[n + d] = W[n]
    <3>1. n \in 1..Len(W) /\ n + d = a - 1 + n
      BY <1>2
    <3> QED BY <1>3, <3>1
  <2> QED BY <2>1 DEF Copied
<1>5. Number(g, a, b) = m
  BY ONLY <1>1, <1>2, <1>4, NumberMoves
<1>6. ASSUME NEW n \in a..b - 1 PROVE g[n] \in Digits
  <2>1. PICK k : k = n - a + 1
    OBVIOUS
  <2>2. k \in 1..Len(W) /\ a - 1 + k = n
    BY <1>1, <2>1
  <2>3. g[n] = W[k]
    BY <1>3, <2>2
  <2>4. W[k] \in Digits
    BY ONLY <1>1, <2>2
  <2> QED BY <2>3, <2>4
<1>7. g[a] = W[1]
  <2>1. 1 \in 1..Len(W) /\ a - 1 + 1 = a
    BY <1>1
  <2> QED BY <1>3, <2>1
<1>8. At(g, a) # "*"
  <2>1. a \in a..b - 1 /\ a \in DOMAIN g
    BY <1>2
  <2>2. g[a] \in Digits /\ At(g, a) = g[a]
    BY <1>6, <2>1 DEF At
  <2> QED BY <2>2, Characters
<1>9. Amount(g, a, b) = m
  BY <1>5, <1>8 DEF Amount
<1> QED BY <1>1, <1>2, <1>6, <1>7, <1>9

\* How an amount is written.
Written(w, m) ==
  \/ m = kFormatWidthUnset /\ Len(w) = 0
  \/ m = kFormatWidthStar /\ Len(w) = 1 /\ w[1] = "*"
  \/ m \in Nat /\ IsDecimal(w, m)

\* Shown writes it so.
LEMMA ShownIsWritten ==
  ASSUME NEW m, m \in Nat \/ m = kFormatWidthUnset \/ m = kFormatWidthStar,
         NEW w, w = Shown(m)
  PROVE  w \in Seq(Char) /\ Written(w, m)
<1>0. kFormatWidthUnset = -1 /\ kFormatWidthStar = -2
  BY DEF kFormatWidthUnset, kFormatWidthStar
<1>1. CASE m = kFormatWidthUnset
  <2>1. w = <<>>
    BY <1>1 DEF Shown
  <2> QED BY <1>1, <2>1 DEF Written
<1>2. CASE m = kFormatWidthStar
  <2>1. w = <<"*">> /\ "*" \in Char
    BY <1>0, <1>2 DEF Shown, Char
  <2>2. w \in Seq(Char) /\ Len(w) = 1 /\ w[1] = "*"
    BY ONLY <2>1
  <2> QED BY <1>2, <2>2 DEF Written
<1>3. CASE m \in Nat
  <2>1. w = Decimal(m)
    BY <1>0, <1>3 DEF Shown
  <2>2. IsDecimal(w, m)
    BY <1>3, <2>1, DecimalIs
  <2>3. Digits \subseteq Char
    BY DEF Char
  <2>4. w \in Seq(Digits)
    BY <2>2 DEF IsDecimal
  <2>5. w \in Seq(Char)
    BY ONLY <2>3, <2>4, SeqMonotonic
  <2> QED BY <1>3, <2>2, <2>5 DEF Written
<1> QED BY <1>1, <1>2, <1>3

\* A width is read back.
LEMMA WidthReads ==
  ASSUME NEW W \in Seq(Char), NEW m, m # 0, Written(W, m), NEW g \in Seq(Char),
         NEW a \in Int, 1 <= a, NEW b, b = a + Len(W), b <= Len(g), Stretch(g, W, a)
  PROVE  AmountAt(g, a, b) /\ (IF b = a THEN kFormatWidthUnset ELSE Amount(g, a, b)) = m
<1>1. CASE m = kFormatWidthUnset /\ Len(W) = 0
  <2>1. b = a
    BY <1>1
  <2> QED BY <1>1, <2>1 DEF AmountAt
<1>2. CASE m = kFormatWidthStar /\ Len(W) = 1 /\ W[1] = "*"
  <2>1. b = a + 1 /\ b # a /\ 1 \in 1..Len(W) /\ a - 1 + 1 = a /\ a \in DOMAIN g
    BY <1>2
  <2>2. g[a] = "*"
    BY <1>2, <2>1 DEF Stretch
  <2>3. At(g, a) = "*"
    BY <2>1, <2>2 DEF At
  <2> QED BY <1>2, <2>1, <2>2, <2>3 DEF AmountAt, Amount
<1>3. CASE m \in Nat /\ IsDecimal(W, m)
  <2>1. /\ b \in Int /\ a < b /\ \A n \in a..b - 1 : g[n] \in Digits
        /\ Amount(g, a, b) = m /\ (m > 0 => g[a] # "0")
    BY <1>3, NumberReads
  <2>2. m > 0 /\ b # a
    BY <1>3, <2>1
  <2> QED BY <2>1, <2>2 DEF AmountAt
<1> QED BY <1>1, <1>2, <1>3 DEF Written

\* A precision is written after a dot.
Dotted(m) == IF m = kFormatWidthUnset THEN <<>> ELSE <<".">> \o Shown(m)

\* After the dot comes the amount.
LEMMA DottedIs ==
  ASSUME NEW m, m \in Nat \/ m = kFormatWidthUnset \/ m = kFormatWidthStar,
         NEW D, D = Dotted(m)
  PROVE  /\ D \in Seq(Char)
         /\ \/ m = kFormatWidthUnset /\ Len(D) = 0
            \/ /\ m # kFormatWidthUnset
               /\ \E w \in Seq(Char) : Written(w, m) /\ Adds(D, ".", w)
<1>1. CASE m = kFormatWidthUnset
  <2>1. D = <<>>
    BY <1>1 DEF Dotted
  <2> QED BY <1>1, <2>1
<1>2. CASE m # kFormatWidthUnset
  <2>1. PICK w : w = Shown(m)
    OBVIOUS
  <2>2. w \in Seq(Char) /\ Written(w, m)
    BY <2>1, ShownIsWritten
  <2>3. D = Cons(".", w)
    BY <1>2, <2>1 DEF Dotted, Cons
  <2>4. "." \in Char
    BY DEF Char
  <2>5. D \in Seq(Char) /\ Adds(D, ".", w)
    BY ONLY <2>2, <2>3, <2>4, ConsAdds
  <2> QED BY <1>2, <2>2, <2>5
<1> QED BY <1>1, <1>2

\* A precision is read back.
LEMMA PrecisionReads ==
  ASSUME NEW m, m \in Nat \/ m = kFormatWidthUnset \/ m = kFormatWidthStar,
         NEW D, D = Dotted(m), NEW g \in Seq(Char),
         NEW b \in Int, 1 <= b, NEW c, c = b + Len(D), c <= Len(g), Stretch(g, D, b)
  PROVE  /\ DottedAt(g, b, c)
         /\ (IF c = b THEN kFormatWidthUnset ELSE Amount(g, b + 1, c)) = m
<1>1. CASE m = kFormatWidthUnset /\ Len(D) = 0
  <2>1. c = b
    BY <1>1
  <2> QED BY <1>1, <2>1 DEF DottedAt
<1>2. CASE m # kFormatWidthUnset /\ \E w \in Seq(Char) : Written(w, m) /\ Adds(D, ".", w)
  <2>1. PICK w \in Seq(Char) : Written(w, m) /\ Adds(D, ".", w)
    BY <1>2
  <2>2. PICK h : h = b + 1
    OBVIOUS
  <2>3. /\ h \in Int /\ 1 <= h /\ c = h + Len(w) /\ c # b /\ c > b /\ c \in Int
        /\ Len(w) \in Nat /\ D[1] = "." /\ 1 \in 1..Len(D) /\ b - 1 + 1 = b
        /\ Len(D) = Len(w) + 1
    BY <2>1, <2>2 DEF Adds
  <2>4. g[b] = "."
    BY <2>3 DEF Stretch
  <2>5. Stretch(g, w, h)
    <3>1. ASSUME NEW n \in 1..Len(w) PROVE g[h - 1 + n] = w[n]
      <4>1. n + 1 \in 1..Len(D) /\ b - 1 + (n + 1) = h - 1 + n
        BY <2>2, <2>3
      <4>2. D[n + 1] = w[n]
        BY <2>1 DEF Adds
      <4>3. g[b - 1 + (n + 1)] = D[n + 1]
        BY <4>1 DEF Stretch
      <4> QED BY <4>1, <4>2, <4>3
    <3> QED BY <3>1 DEF Stretch
  <2>6. CASE m = kFormatWidthStar /\ Len(w) = 1 /\ w[1] = "*"
    <3>1. c = b + 2 /\ h - 1 + 1 = h /\ 1 \in 1..Len(w) /\ h \in DOMAIN g
      BY <2>2, <2>3, <2>6
    <3>2. g[h] = "*"
      BY <2>5, <2>6, <3>1 DEF Stretch
    <3>3. At(g, h) = "*"
      BY <3>1, <3>2 DEF At
    <3> QED BY <2>2, <2>3, <2>4, <2>6, <3>1, <3>2, <3>3 DEF DottedAt, Amount
  <2>7. CASE m \in Nat /\ IsDecimal(w, m)
    <3>1. (\A n \in h..c - 1 : g[n] \in Digits) /\ Amount(g, h, c) = m
      BY <2>3, <2>5, <2>7, NumberReads
    <3> QED BY <2>2, <2>3, <2>4, <3>1 DEF DottedAt
  <2> QED BY <1>2, <2>1, <2>6, <2>7 DEF Written
<1> QED BY <1>1, <1>2, DottedIs

\* A length modifier is read back.
LEMMA ModifierReads ==
  ASSUME NEW L \in Seq(Char), IsModifier(L), NEW g \in Seq(Char),
         NEW c \in Int, NEW e, e = c + Len(L), Stretch(g, L, c)
  PROVE  /\ ModifierAt(g, c, e)
         /\ L = IF e = c THEN <<>> ELSE IF e = c + 1 THEN <<g[c]>> ELSE <<g[c], g[c + 1]>>
<1>0. \A n \in 1..Len(L) : g[c - 1 + n] = L[n]
  BY DEF Stretch
<1>1. CASE L = <<>>
  <2>1. e = c
    BY <1>1
  <2> QED BY <1>1, <2>1 DEF ModifierAt
<1>2. ASSUME NEW x \in OneLetterLengths, L = <<x>>
      PROVE  ModifierAt(g, c, e)
               /\ L = IF e = c THEN <<>> ELSE IF e = c + 1 THEN <<g[c]>> ELSE <<g[c], g[c + 1]>>
  <2>1. Len(L) = 1 /\ L[1] = x
    BY ONLY <1>2
  <2>2. e = c + 1 /\ e # c /\ c - 1 + 1 = c /\ 1 \in 1..Len(L)
    BY <2>1
  <2>3. g[c] = x
    BY <1>0, <2>1, <2>2
  <2> QED BY <1>2, <2>2, <2>3 DEF ModifierAt
<1>3. ASSUME NEW x, NEW y, <<x, y>> \in TwoLetterLengths, L = <<x, y>>
      PROVE  ModifierAt(g, c, e)
               /\ L = IF e = c THEN <<>> ELSE IF e = c + 1 THEN <<g[c]>> ELSE <<g[c], g[c + 1]>>
  <2>1. Len(L) = 2 /\ L[1] = x /\ L[2] = y
    BY ONLY <1>3
  <2>2. /\ e = c + 2 /\ e # c /\ e # c + 1 /\ c - 1 + 1 = c /\ c - 1 + 2 = c + 1
        /\ 1 \in 1..Len(L) /\ 2 \in 1..Len(L)
    BY <2>1
  <2>3. g[c] = x /\ g[c + 1] = y
    BY <1>0, <2>1, <2>2
  <2> QED BY <1>3, <2>2, <2>3 DEF ModifierAt
<1> QED BY <1>1, <1>2, <1>3 DEF IsModifier, TwoLetterLengths

-----------------------------------------------------------------------------
(* The flags that are shown.                                               *)

\* The elements of s at the places P up to k.
Chosen(s, P, k) == {s[n] : n \in {m \in 1..k : m \in P}}

\* One more element at the end.
LEMMA ElementsOfSnoc ==
  ASSUME NEW S, NEW w \in Seq(S), NEW x \in S, NEW R, R = Elements(w),
         NEW v, v = Snoc(w, x)
  PROVE  Elements(v) = R \cup {x}
<1>1. /\ v \in Seq(S) /\ Len(v) = Len(w) + 1 /\ v[Len(w) + 1] = x
      /\ \A n \in 1..Len(w) : v[n] = w[n]
  BY SnocIs
<1>2. /\ DOMAIN v = 1..Len(w) + 1 /\ DOMAIN w = 1..Len(w) /\ Len(w) \in Nat
  BY <1>1
<1>3. ASSUME NEW n \in DOMAIN v PROVE v[n] \in R \cup {x}
  <2>1. n = Len(w) + 1 \/ n \in DOMAIN w
    BY <1>2
  <2> QED BY <1>1, <1>2, <2>1 DEF Elements
<1>4. ASSUME NEW n \in DOMAIN w PROVE w[n] \in Elements(v)
  <2>1. n \in DOMAIN v /\ v[n] = w[n]
    BY <1>1, <1>2
  <2> QED BY ONLY <2>1 DEF Elements
<1>5. x \in Elements(v)
  <2>1. Len(w) + 1 \in DOMAIN v
    BY <1>2
  <2> QED BY ONLY <1>1, <2>1 DEF Elements
<1>6. Elements(v) \subseteq R \cup {x}
  BY <1>3 DEF Elements
<1>7. R \subseteq Elements(v)
  BY <1>4 DEF Elements
<1> QED BY <1>5, <1>6, <1>7

\* They are what the recursion of Select collects.
LEMMA UpToElements ==
  ASSUME NEW S, NEW s \in Seq(S), NEW P
  PROVE  \A k \in 0..Len(s) : Elements(UpTo(s, P)[k]) = Chosen(s, P, k)
<1> DEFINE T == {k \in 0..Len(s) : Elements(UpTo(s, P)[k]) = Chosen(s, P, k)}
<1>0. Len(s) \in Nat
  OBVIOUS
<1>1. 0 \in T
  <2>1. UpTo(s, P)[0] = <<>>
    BY UpToIs
  <2>2. Elements(<<>>) = {}
    BY DEF Elements
  <2>3. Chosen(s, P, 0) = {}
    BY DEF Chosen
  <2>4. Elements(UpTo(s, P)[0]) = Chosen(s, P, 0)
    BY ONLY <2>1, <2>2, <2>3, Zenon
  <2>5. 0 \in 0..Len(s)
    BY ONLY <1>0
  <2> QED BY ONLY <2>4, <2>5
<1>2. ASSUME NEW k \in 1..Len(s), k - 1 \in T PROVE k \in T
  <2>1. PICK j : j = k - 1
    OBVIOUS
  <2>2. j \in 0..Len(s) /\ k \in 0..Len(s)
    BY <1>0, <2>1
  <2>3. PICK w : w = UpTo(s, P)[j]
    OBVIOUS
  <2>4. PICK v : v = UpTo(s, P)[k]
    OBVIOUS
  <2>5. w \in Seq(S)
    BY <2>2, <2>3, UpToIsSeq
  <2>6. Elements(w) = Chosen(s, P, j)
    BY <1>2, <2>1, <2>3
  <2>7. v = IF k \in P THEN Snoc(w, s[k]) ELSE w
    BY <2>1, <2>3, <2>4, UpToIs
  <2>8. s[k] \in S
    OBVIOUS
  <2>9. {m \in 1..k : m \in P} = {m \in 1..j : m \in P} \cup (IF k \in P THEN {k} ELSE {})
    BY <1>0, <2>1
  <2>10. Chosen(s, P, k) = Chosen(s, P, j) \cup (IF k \in P THEN {s[k]} ELSE {})
    BY ONLY <2>9 DEF Chosen
  <2>11. Elements(v) = Chosen(s, P, k)
    <3>1. CASE k \in P
      <4>1. Elements(v) = Chosen(s, P, j) \cup {s[k]}
        BY ONLY <2>5, <2>6, <2>7, <2>8, <3>1, ElementsOfSnoc
      <4> QED BY <2>10, <3>1, <4>1
    <3>2. CASE k \notin P
      BY <2>6, <2>7, <2>10, <3>2
    <3> QED BY <3>1, <3>2
  <2> QED BY <2>2, <2>4, <2>11
<1>3. \A k \in 0..Len(s) : k \in T
  <2> HIDE DEF T
  <2> QED BY ONLY <1>0, <1>1, <1>2, Upward
<1> QED BY <1>3

\* Select keeps exactly the elements at the places.
LEMMA SelectElements ==
  ASSUME NEW S, NEW s \in Seq(S), NEW P
  PROVE  Elements(Select(s, P)) = {s[n] : n \in {m \in DOMAIN s : m \in P}}
<1>1. Len(s) \in 0..Len(s) /\ DOMAIN s = 1..Len(s)
  OBVIOUS
<1>2. Elements(UpTo(s, P)[Len(s)]) = Chosen(s, P, Len(s))
  BY <1>1, UpToElements
<1>3. Select(s, P) = UpTo(s, P)[Len(s)]
  BY SelectIs
<1> QED BY ONLY <1>1, <1>2, <1>3 DEF Chosen

\* The order of the flags is a sequence of flags.
LEMMA FlagOrderIs == FlagOrder \in Seq(Flags)
<1>1. ASSUME NEW a, NEW b, NEW c, NEW d, NEW e, NEW f, NEW t, t = <<a, b, c, d, e, f>>,
             NEW R, R = Elements(t)
      PROVE  t \in Seq(R)
  <2>1. DOMAIN t = 1..6 /\ t \in Seq({a, b, c, d, e, f})
    BY ONLY <1>1
  <2>2. R = {a, b, c, d, e, f}
    <3>1. DOMAIN t = {1, 2, 3, 4, 5, 6}
      BY <2>1
    <3> QED BY ONLY <1>1, <3>1 DEF Elements
  <2> QED BY ONLY <2>1, <2>2
<1> QED BY ONLY <1>1, Zenon DEF FlagOrder, Flags

\* The flags that are shown are those of the specifier.
LEMMA FlagsShownIs ==
  ASSUME NEW spec, spec.flags \subseteq Flags, NEW F, F = FlagsShown(spec)
  PROVE  F \in Seq(Char) /\ Elements(F) = spec.flags
<1> DEFINE P == {n \in DOMAIN FlagOrder : FlagOrder[n] \in spec.flags}
<1>1. F = Select(FlagOrder, P)
  BY DEF FlagsShown
<1> HIDE DEF P
<1>2. F \in Seq(Flags)
  BY ONLY <1>1, FlagOrderIs, SelectIsSeq
<1>3. Elements(F) = {FlagOrder[n] : n \in {m \in DOMAIN FlagOrder : m \in P}}
  BY ONLY <1>1, FlagOrderIs, SelectElements
<1>4. {m \in DOMAIN FlagOrder : m \in P} = P
  BY ONLY DEF P
<1>5. \A c \in Flags : \E n \in DOMAIN FlagOrder : FlagOrder[n] = c
  BY ONLY DEF Flags, Elements
<1>6. Elements(F) = spec.flags
  BY ONLY <1>3, <1>4, <1>5, spec.flags \subseteq Flags DEF P
<1>7. Flags \subseteq Char
  BY ONLY Zenon DEF Char
<1> QED BY ONLY <1>2, <1>6, <1>7, SeqMonotonic

-----------------------------------------------------------------------------
(* A specifier reads as it is shown.                                       *)

\* What the fields of a specifier of the grammar can be.
IsGood(s) ==
  /\ s.flags \subseteq Flags
  /\ s.width \in Nat \/ s.width = kFormatWidthUnset \/ s.width = kFormatWidthStar
  /\ s.width # 0
  /\ s.precision \in Nat \/ s.precision = kFormatWidthUnset \/ s.precision = kFormatWidthStar
  /\ s.length \in Seq(Char) /\ IsModifier(s.length)
  /\ s.conversion \in Conversions

\* A specifier's form, by its parts.
LEMMA CanonicalIs ==
  ASSUME NEW s, IsGood(s), NEW g, g = format_spec_canonical(s)
  PROVE  \E F, W, D, a, b, c, e :
           /\ F \in Seq(Char) /\ Elements(F) = s.flags
           /\ W \in Seq(Char) /\ Written(W, s.width)
           /\ D \in Seq(Char) /\ D = Dotted(s.precision)
           /\ a = 2 + Len(F) /\ b = a + Len(W) /\ c = b + Len(D) /\ e = c + Len(s.length)
           /\ IsShown(g, F, W, D, s.length, s.conversion, a, b, c, e)
<1>1. PICK F : F = FlagsShown(s)
  OBVIOUS
<1>2. PICK W : W = Shown(s.width)
  OBVIOUS
<1>3. PICK D : D = Dotted(s.precision)
  OBVIOUS
<1>4. PICK L : L = s.length
  OBVIOUS
<1>5. PICK x : x = s.conversion
  OBVIOUS
<1>6. g = <<"%">> \o F \o W \o D \o L \o <<x>>
  BY ONLY <1>1, <1>2, <1>3, <1>4, <1>5, g = format_spec_canonical(s), Zenon
     DEF format_spec_canonical, Dotted
<1>7. F \in Seq(Char) /\ Elements(F) = s.flags
  BY <1>1, FlagsShownIs DEF IsGood
<1>8. W \in Seq(Char) /\ Written(W, s.width)
  BY <1>2, ShownIsWritten DEF IsGood
<1>9. D \in Seq(Char)
  BY <1>3, DottedIs DEF IsGood
<1>10. L \in Seq(Char) /\ x \in Char
  BY <1>4, <1>5, Zenon DEF IsGood, Char
<1>11. PICK a, b, c, e : a = 2 + Len(F) /\ b = a + Len(W) /\ c = b + Len(D) /\ e = c + Len(L)
  OBVIOUS
<1>12. IsShown(g, F, W, D, L, x, a, b, c, e)
  BY ONLY <1>6, <1>7, <1>8, <1>9, <1>10, <1>11, ShownIs
<1> QED BY ONLY <1>3, <1>4, <1>5, <1>7, <1>8, <1>9, <1>11, <1>12

\* The flags of the form, as places.
LEMMA FlagsRead ==
  ASSUME NEW F \in Seq(Char), NEW g, Stretch(g, F, 2), NEW a, a = 2 + Len(F)
  PROVE  {g[n] : n \in 1 + 1..a - 1} = Elements(F)
<1>1. /\ Len(F) \in Nat /\ DOMAIN F = 1..Len(F)
      /\ \A n \in 1..Len(F) : g[2 - 1 + n] = F[n]
  BY DEF Stretch
<1>2. ASSUME NEW n \in 1 + 1..a - 1 PROVE g[n] \in Elements(F)
  <2>1. PICK k : k = n - 1
    OBVIOUS
  <2>2. k \in 1..Len(F) /\ 2 - 1 + k = n
    BY <1>1, <2>1
  <2>3. g[n] = F[k] /\ k \in DOMAIN F
    BY <1>1, <2>2
  <2> QED BY ONLY <2>3 DEF Elements
<1>3. ASSUME NEW k \in DOMAIN F PROVE F[k] \in {g[n] : n \in 1 + 1..a - 1}
  <2>1. k \in 1..Len(F) /\ 2 - 1 + k \in 1 + 1..a - 1
    BY <1>1
  <2>2. g[2 - 1 + k] = F[k]
    BY <1>1, <2>1
  <2> QED BY <2>1, <2>2
<1>4. {g[n] : n \in 1 + 1..a - 1} \subseteq Elements(F)
  BY ONLY <1>2
<1>5. Elements(F) \subseteq {g[n] : n \in 1 + 1..a - 1}
  BY ONLY <1>3 DEF Elements
<1> QED BY <1>4, <1>5

\* What is shown reads back as an equivalent specifier, the only one.
ReadsBack(g, s) ==
  /\ g \in Seq(Char) /\ Len(g) >= 2 /\ Segment(g, 1).kind = "spec" /\ Segment(g, 1).to = Len(g)
  /\ format_specs_equivalent(Segment(g, 1), s)

\* The form of every such specifier does.
LEMMA CanonicalReads ==
  ASSUME NEW s, IsGood(s)
  PROVE  ReadsBack(format_spec_canonical(s), s)
<1>0. PICK g : g = format_spec_canonical(s)
  OBVIOUS
<1>1. PICK F, W, D, a, b, c, e :
           /\ F \in Seq(Char) /\ Elements(F) = s.flags
           /\ W \in Seq(Char) /\ Written(W, s.width)
           /\ D \in Seq(Char) /\ D = Dotted(s.precision)
           /\ a = 2 + Len(F) /\ b = a + Len(W) /\ c = b + Len(D) /\ e = c + Len(s.length)
           /\ IsShown(g, F, W, D, s.length, s.conversion, a, b, c, e)
  BY <1>0, CanonicalIs
<1>2. PICK L : L = s.length
  OBVIOUS
<1>3. /\ g \in Seq(Char) /\ Len(g) = e /\ g[1] = "%" /\ g[e] = s.conversion
      /\ Stretch(g, F, 2) /\ Stretch(g, W, a) /\ Stretch(g, D, b) /\ Stretch(g, L, c)
  BY <1>1, <1>2 DEF IsShown
<1>4. /\ L \in Seq(Char) /\ IsModifier(L) /\ g[e] \in Conversions /\ s.width # 0
      /\ s.flags \subseteq Flags
      /\ s.precision \in Nat \/ s.precision = kFormatWidthUnset \/ s.precision = kFormatWidthStar
  BY <1>2, <1>3 DEF IsGood
<1>5. /\ a \in Int /\ b \in Int /\ c \in Int /\ e \in Int /\ 1 <= a /\ 1 <= b
      /\ 2 <= a /\ a <= b /\ b <= c /\ c <= e /\ c <= Len(g) /\ b <= Len(g)
      /\ a = 2 + Len(F) /\ b = a + Len(W) /\ c = b + Len(D) /\ e = c + Len(L)
      /\ e \in 1 + 1..Len(g) /\ 1 \in 1..Len(g) /\ Len(g) = e
      /\ a \in 1 + 1..e /\ b \in a..e /\ c \in b..e
  <2>1. Len(F) \in Nat /\ Len(W) \in Nat /\ Len(D) \in Nat /\ Len(L) \in Nat
    BY <1>1, <1>4
  <2>2. /\ a = 2 + Len(F) /\ b = a + Len(W) /\ c = b + Len(D) /\ e = c + Len(L)
    BY <1>1, <1>2
  <2> QED BY ONLY <1>3, <2>1, <2>2
<1>6. {g[n] : n \in 1 + 1..a - 1} = s.flags
  BY ONLY <1>1, <1>3, <1>5, FlagsRead
<1>7. AmountAt(g, a, b) /\ (IF b = a THEN kFormatWidthUnset ELSE Amount(g, a, b)) = s.width
  <2>1. PICK m : m = s.width
    OBVIOUS
  <2>2. W \in Seq(Char) /\ m # 0 /\ Written(W, m)
    BY ONLY <1>1, <1>4, <2>1
  <2>3. /\ g \in Seq(Char) /\ a \in Int /\ 1 <= a /\ b = a + Len(W) /\ b <= Len(g)
        /\ Stretch(g, W, a)
    BY ONLY <1>3, <1>5
  <2>4. AmountAt(g, a, b) /\ (IF b = a THEN kFormatWidthUnset ELSE Amount(g, a, b)) = m
    BY ONLY <2>2, <2>3, WidthReads
  <2> QED BY ONLY <2>1, <2>4
<1>8. /\ DottedAt(g, b, c)
      /\ (IF c = b THEN kFormatWidthUnset ELSE Amount(g, b + 1, c)) = s.precision
  <2>1. PICK m : m = s.precision
    OBVIOUS
  <2>2. D = Dotted(m) /\ (m \in Nat \/ m = kFormatWidthUnset \/ m = kFormatWidthStar)
    BY ONLY <1>1, <1>4, <2>1
  <2>3. /\ g \in Seq(Char) /\ b \in Int /\ 1 <= b /\ c = b + Len(D) /\ c <= Len(g)
        /\ Stretch(g, D, b)
    BY ONLY <1>3, <1>5
  <2>4. /\ DottedAt(g, b, c)
        /\ (IF c = b THEN kFormatWidthUnset ELSE Amount(g, b + 1, c)) = m
    BY ONLY <2>2, <2>3, PrecisionReads
  <2> QED BY ONLY <2>1, <2>4
<1>9. /\ ModifierAt(g, c, e)
      /\ L = IF e = c THEN <<>> ELSE IF e = c + 1 THEN <<g[c]>> ELSE <<g[c], g[c + 1]>>
  <2>1. /\ L \in Seq(Char) /\ IsModifier(L) /\ g \in Seq(Char) /\ c \in Int
        /\ e = c + Len(L) /\ Stretch(g, L, c)
    BY ONLY <1>3, <1>4, <1>5
  <2> QED BY ONLY <2>1, ModifierReads
<1>10. \A n \in 1 + 1..a - 1 : g[n] \in Flags
  BY ONLY <1>4, <1>6
<1>11. Divides(g, 1, a, b, c, e)
  BY ONLY <1>3, <1>4, <1>5, <1>7, <1>8, <1>9, <1>10 DEF Divides
<1>12. LengthModifier(g, c) = L
  <2>1. /\ e \in DOMAIN g /\ c \in DOMAIN g /\ (c + 1 <= e => c + 1 \in DOMAIN g)
    BY ONLY <1>3, <1>5
  <2> QED BY ONLY <1>4, <1>5, <1>9, <2>1, ModifierIs
<1>13. PICK t : t = Segment(g, 1)
  OBVIOUS
<1>14. /\ t.kind = "spec" /\ t.to = e
       /\ t.flags = {g[n] : n \in 1 + 1..a - 1}
       /\ t.width = IF b = a THEN kFormatWidthUnset ELSE Amount(g, a, b)
       /\ t.precision = IF c = b THEN kFormatWidthUnset ELSE Amount(g, b + 1, c)
       /\ t.length = LengthModifier(g, c) /\ t.conversion = g[e]
  <2>1. PICK i : i = 1
    OBVIOUS
  <2>2. /\ g \in Seq(Char) /\ i \in 1..Len(g) /\ e \in i + 1..Len(g)
        /\ Divides(g, i, a, b, c, e) /\ t = Segment(g, i)
    BY ONLY <1>3, <1>5, <1>11, <1>13, <2>1
  <2>3. /\ t.kind = "spec" /\ t.to = e
        /\ t.flags = {g[n] : n \in i + 1..a - 1}
        /\ t.width = IF b = a THEN kFormatWidthUnset ELSE Amount(g, a, b)
        /\ t.precision = IF c = b THEN kFormatWidthUnset ELSE Amount(g, b + 1, c)
        /\ t.length = LengthModifier(g, c) /\ t.conversion = g[e]
    BY ONLY <2>2, SpecHolds
  <2> QED BY ONLY <2>1, <2>3
<1>15. format_specs_equivalent(t, s)
  BY ONLY <1>2, <1>3, <1>6, <1>7, <1>8, <1>12, <1>14 DEF format_specs_equivalent
<1> QED BY ONLY <1>0, <1>3, <1>5, <1>13, <1>14, <1>15 DEF ReadsBack

-----------------------------------------------------------------------------
(* The specifiers of a format.                                             *)

\* What Amount reads.
LEMMA AmountIs ==
  ASSUME NEW f \in Seq(Char), NEW a \in 1..Len(f), NEW b \in Int, a <= b,
         f[a] = "*" \/ \A n \in a..b - 1 : f[n] \in Digits,
         NEW m, m = Amount(f, a, b)
  PROVE  /\ m \in Nat \/ m = kFormatWidthStar
         /\ a < b /\ f[a] # "0" => m # 0
<1>0. At(f, a) = f[a] /\ a \in Int
  BY DEF At
<1>1. CASE f[a] = "*"
  <2>1. m = kFormatWidthStar
    BY <1>0, <1>1 DEF Amount
  <2> QED BY <2>1 DEF kFormatWidthStar
<1>2. CASE f[a] # "*" /\ \A n \in a..b - 1 : f[n] \in Digits
  <2>1. m = Number(f, a, b)
    BY <1>0, <1>2 DEF Amount
  <2>2. Number(f, a, b) \in Nat /\ (a < b /\ f[a] # "0" => Number(f, a, b) > 0)
    BY ONLY <1>0, <1>2, b \in Int, a <= b, NumberIsNat
  <2> QED BY ONLY <2>1, <2>2
<1> QED BY <1>1, <1>2

\* What the width of a specifier can be.
LEMMA WidthIsGood ==
  ASSUME NEW f \in Seq(Char), NEW a \in 1..Len(f), NEW b \in Int, a <= b, AmountAt(f, a, b),
         NEW m, m = IF b = a THEN kFormatWidthUnset ELSE Amount(f, a, b)
  PROVE  (m \in Nat \/ m = kFormatWidthUnset \/ m = kFormatWidthStar) /\ m # 0
<1>1. CASE b = a
  BY <1>1 DEF kFormatWidthUnset
<1>2. CASE b # a
  <2>1. a < b /\ f[a] # "0" /\ (f[a] = "*" \/ \A n \in a..b - 1 : f[n] \in Digits)
    BY <1>2 DEF AmountAt
  <2>2. m = Amount(f, a, b)
    BY <1>2
  <2> QED BY <2>1, <2>2, AmountIs
<1> QED BY <1>1, <1>2

\* What a precision can be,
LEMMA PrecisionIsGood ==
  ASSUME NEW f \in Seq(Char), NEW b \in Int, 1 <= b, NEW c \in 1..Len(f), b <= c,
         DottedAt(f, b, c),
         NEW m, m = IF c = b THEN kFormatWidthUnset ELSE Amount(f, b + 1, c)
  PROVE  m \in Nat \/ m = kFormatWidthUnset \/ m = kFormatWidthStar
<1>1. CASE c = b
  BY <1>1
<1>2. CASE c # b
  <2>1. PICK h : h = b + 1
    OBVIOUS
  <2>2. /\ h \in 1..Len(f) /\ h <= c /\ c \in Int
    BY <1>2, <2>1
  <2>3. f[h] = "*" \/ \A n \in h..c - 1 : f[n] \in Digits
    BY <1>2, <2>1 DEF DottedAt
  <2>4. m = Amount(f, h, c)
    BY <1>2, <2>1
  <2> QED BY ONLY <2>2, <2>3, <2>4, f \in Seq(Char), AmountIs
<1> QED BY <1>1, <1>2

\* and a length modifier.
LEMMA LengthIsGood ==
  ASSUME NEW f \in Seq(Char), NEW c \in 1..Len(f), NEW e \in c..Len(f), ModifierAt(f, c, e),
         f[e] \in Conversions, NEW L, L = LengthModifier(f, c)
  PROVE  L \in Seq(Char) /\ IsModifier(L)
<1>1. L = IF e = c THEN <<>> ELSE IF e = c + 1 THEN <<f[c]>> ELSE <<f[c], f[c + 1]>>
  <2>1. e \in DOMAIN f /\ c \in DOMAIN f /\ c \in Int /\ (c + 1 <= e => c + 1 \in DOMAIN f)
    OBVIOUS
  <2> QED BY ONLY <2>1, ModifierAt(f, c, e), f[e] \in Conversions, L = LengthModifier(f, c),
             ModifierIs
<1>2. CASE e = c
  BY ONLY <1>1, <1>2 DEF IsModifier
<1>3. CASE e = c + 1 /\ f[c] \in OneLetterLengths
  <2>1. L = <<f[c]>> /\ f[c] \in Char
    BY <1>1, <1>3
  <2> QED BY ONLY <1>3, <2>1 DEF IsModifier
<1>4. CASE e = c + 2 /\ <<f[c], f[c + 1]>> \in TwoLetterLengths
  <2>1. L = <<f[c], f[c + 1]>> /\ f[c] \in Char /\ f[c + 1] \in Char
    BY <1>1, <1>4
  <2> QED BY ONLY <1>4, <2>1 DEF IsModifier
<1> QED BY <1>2, <1>3, <1>4 DEF ModifierAt

\* The specifiers that the parser reads are such.
LEMMA SpecIsGood ==
  ASSUME NEW f \in Seq(Char), NEW i \in 1..Len(f), NEW s, s = Segment(f, i), s.kind = "spec"
  PROVE  IsGood(s)
<1>1. PICK e : e = s.to
  OBVIOUS
<1>2. e \in i + 1..Len(f) /\ IsSpec(SubSeq(f, i, e))
  BY <1>1, ReadIsSpec
<1>3. PICK a, b, c : Divides(f, i, a, b, c, e)
  BY <1>2, SpecIff
<1>4. /\ s.flags = {f[n] : n \in i + 1..a - 1}
      /\ s.width = IF b = a THEN kFormatWidthUnset ELSE Amount(f, a, b)
      /\ s.precision = IF c = b THEN kFormatWidthUnset ELSE Amount(f, b + 1, c)
      /\ s.length = LengthModifier(f, c) /\ s.conversion = f[e]
  BY ONLY f \in Seq(Char), i \in 1..Len(f), s = Segment(f, i), <1>2, <1>3, SpecHolds
<1>5. /\ f[e] \in Conversions
      /\ a \in i + 1..e /\ b \in a..e /\ c \in b..e
      /\ \A n \in i + 1..a - 1 : f[n] \in Flags
      /\ AmountAt(f, a, b) /\ DottedAt(f, b, c) /\ ModifierAt(f, c, e)
  BY <1>3 DEF Divides
<1>6. /\ f \in Seq(Char) /\ a \in 1..Len(f) /\ b \in Int /\ a <= b /\ 1 <= b
      /\ c \in 1..Len(f) /\ b <= c /\ e \in c..Len(f)
  BY ONLY f \in Seq(Char), i \in 1..Len(f), <1>2, <1>5
<1>7. s.flags \subseteq Flags
  BY ONLY <1>4, <1>5
<1>8. (s.width \in Nat \/ s.width = kFormatWidthUnset \/ s.width = kFormatWidthStar) /\ s.width # 0
  <2>1. PICK m : m = s.width
    OBVIOUS
  <2>2. m = IF b = a THEN kFormatWidthUnset ELSE Amount(f, a, b)
    BY ONLY <1>4, <2>1
  <2>3. (m \in Nat \/ m = kFormatWidthUnset \/ m = kFormatWidthStar) /\ m # 0
    BY ONLY <1>5, <1>6, <2>2, WidthIsGood
  <2> QED BY ONLY <2>1, <2>3
<1>9. s.precision \in Nat \/ s.precision = kFormatWidthUnset \/ s.precision = kFormatWidthStar
  <2>1. PICK m : m = s.precision
    OBVIOUS
  <2>2. m = IF c = b THEN kFormatWidthUnset ELSE Amount(f, b + 1, c)
    BY ONLY <1>4, <2>1
  <2>3. m \in Nat \/ m = kFormatWidthUnset \/ m = kFormatWidthStar
    BY ONLY <1>5, <1>6, <2>2, PrecisionIsGood
  <2> QED BY ONLY <2>1, <2>3
<1>10. s.length \in Seq(Char) /\ IsModifier(s.length)
  <2>1. PICK L : L = s.length
    OBVIOUS
  <2>2. L = LengthModifier(f, c)
    BY ONLY <1>4, <2>1
  <2>3. L \in Seq(Char) /\ IsModifier(L)
    BY ONLY <1>5, <1>6, <2>2, LengthIsGood
  <2> QED BY ONLY <2>1, <2>3
<1> QED BY ONLY <1>4, <1>5, <1>7, <1>8, <1>9, <1>10 DEF IsGood

\* The specifiers of a format that take an argument.
LEMMA SpecsAreGood ==
  ASSUME NEW f \in Seq(Char), NEW p, p = parse_format(f), NEW n \in DOMAIN p.specs
  PROVE  IsGood(p.specs[n]) /\ p.specs[n].conversion # "%"
<1>1. PICK found : found = From(f, 1)
  OBVIOUS
<1>2. found \in Seq(Segments(f))
  <2>1. 1 \in 1..Len(f) + 1
    OBVIOUS
  <2> QED BY <1>1, <2>1, FromIsSeq
<1>3. PICK w : w = Select(found, Arguments(found))
  OBVIOUS
<1>4. p.specs = w
  BY <1>1, <1>3, ParseIs DEF Parsed
<1>5. Elements(w) = {found[m] : m \in {k \in DOMAIN found : k \in Arguments(found)}}
  BY ONLY <1>2, <1>3, SelectElements
<1>6. w[n] \in Elements(w)
  BY <1>4 DEF Elements
<1>7. PICK m \in DOMAIN found : m \in Arguments(found) /\ w[n] = found[m]
  BY ONLY <1>5, <1>6
<1>8. w[n].kind = "spec" /\ w[n].conversion # "%"
  BY ONLY <1>7 DEF Arguments
<1>9. w[n] \in Segments(f)
  BY ONLY <1>2, <1>7
<1>10. PICK i \in 1..Len(f) : w[n] = Segment(f, i)
  BY ONLY <1>9 DEF Segments
<1>11. IsGood(w[n])
  BY ONLY <1>8, <1>10, f \in Seq(Char), SpecIsGood
<1> QED BY ONLY <1>4, <1>8, <1>11

\* What reads back is parsed as the one specifier.
LEMMA ReadsBackAlone ==
  ASSUME NEW g, NEW s, ReadsBack(g, s), s.conversion # "%", NEW p, p = parse_format(g)
  PROVE  /\ p.ok /\ Len(p.specs) = 1 /\ DOMAIN p.specs = {1}
         /\ format_specs_equivalent(p.specs[1], s)
<1>1. PICK t : t = Segment(g, 1)
  OBVIOUS
<1>2. /\ g \in Seq(Char) /\ Len(g) >= 2 /\ t.kind = "spec" /\ t.to = Len(g)
      /\ format_specs_equivalent(t, s)
  BY ONLY <1>1, ReadsBack(g, s) DEF ReadsBack
<1>3. t.conversion # "%"
  BY ONLY <1>2, s.conversion # "%" DEF format_specs_equivalent
<1>4. PICK r : r = ParsedFrom(g, t.to + 1)
  OBVIOUS
<1>5. r.ok /\ r.specs = <<>>
  <2>1. PICK i : i = t.to + 1
    OBVIOUS
  <2>2. i \in 1..Len(g) + 1 /\ i > Len(g)
    BY ONLY <1>2, <2>1
  <2>3. r = ParsedFrom(g, i)
    BY ONLY <1>4, <2>1
  <2> QED BY ONLY <1>2, <2>2, <2>3, ParseTurn
<1>6. p = ParsedFrom(g, 1)
  BY ONLY p = parse_format(g), ParseIs DEF ParsedFrom
<1>7. p.ok = r.ok /\ p.specs = Cons(t, r.specs)
  <2>1. PICK i : i = 1
    OBVIOUS
  <2>2. i \in 1..Len(g) + 1 /\ i <= Len(g) /\ t = Segment(g, i) /\ p = ParsedFrom(g, i)
    BY ONLY <1>1, <1>2, <1>6, <2>1
  <2> QED BY ONLY <1>2, <1>3, <1>4, <2>2, ParseTurn
<1>8. p.specs = <<t>>
  BY ONLY <1>5, <1>7 DEF Cons
<1>9. PICK w : w = p.specs
  OBVIOUS
<1>10. Len(w) = 1 /\ DOMAIN w = {1} /\ w[1] = t
  BY ONLY <1>8, <1>9
<1>11. p.ok
  BY ONLY <1>5, <1>7
<1>12. format_specs_equivalent(w[1], s)
  BY ONLY <1>2, <1>10, Zenon
<1> QED BY ONLY <1>9, <1>10, <1>11, <1>12

\* Equivalent specifiers are shown in the same form.
LEMMA SameForm ==
  ASSUME NEW s, NEW t, format_specs_equivalent(s, t)
  PROVE  format_spec_canonical(s) = format_spec_canonical(t)
<1>1. FlagsShown(s) = FlagsShown(t)
  BY ONLY format_specs_equivalent(s, t), Zenon DEF format_specs_equivalent, FlagsShown
<1> QED BY ONLY <1>1, format_specs_equivalent(s, t), Zenon
          DEF format_specs_equivalent, format_spec_canonical

\* The form of a specifier that the messages of expect_format show
\* (format_spec_canonical) reads back, through the same parser, as one equivalent
\* specifier, and two specifiers show the same form exactly when
\* format_specs_equivalent accepts them: a student whose specifier is rejected sees a
\* difference.  MismatchesShow, for every format; its numbers are unbounded here.
THEOREM MismatchesAreVisible == Spec => []MismatchesShow
<1>1. TypeInv => MismatchesShow
  <2> SUFFICES ASSUME TypeInv PROVE MismatchesShow
    OBVIOUS
  <2>1. /\ fmt \in Seq(Char) /\ parsed = parse_format(fmt)
        /\ required \in Seq(Char) /\ expected = parse_format(required)
    <3>1. required \in Seq(STRING)
      BY FragmentsAssumption DEF TypeInv
    <3> QED BY <3>1, StringsAreFormats DEF TypeInv
  <2>2. ASSUME NEW n \in DOMAIN parsed.specs
        PROVE  LET again == parse_format(format_spec_canonical(parsed.specs[n])) IN
               again.ok /\ Len(again.specs) = 1
                 /\ format_specs_equivalent(again.specs[1], parsed.specs[n])
    <3>1. PICK s : s = parsed.specs[n]
      OBVIOUS
    <3>2. IsGood(s) /\ s.conversion # "%"
      BY ONLY <2>1, <3>1, n \in DOMAIN parsed.specs, SpecsAreGood
    <3>3. PICK g : g = format_spec_canonical(s)
      OBVIOUS
    <3>4. ReadsBack(g, s)
      BY ONLY <3>2, <3>3, CanonicalReads
    <3>5. PICK again : again = parse_format(g)
      OBVIOUS
    <3>6. again.ok /\ Len(again.specs) = 1 /\ format_specs_equivalent(again.specs[1], s)
      BY ONLY <3>2, <3>4, <3>5, ReadsBackAlone
    <3> QED BY ONLY <3>1, <3>3, <3>5, <3>6
  <2>3. ASSUME NEW n \in DOMAIN parsed.specs, NEW k \in DOMAIN expected.specs
        PROVE  format_specs_equivalent(parsed.specs[n], expected.specs[k])
                 <=> format_spec_canonical(parsed.specs[n])
                       = format_spec_canonical(expected.specs[k])
    <3>1. PICK s : s = parsed.specs[n]
      OBVIOUS
    <3>2. PICK t : t = expected.specs[k]
      OBVIOUS
    <3>3. IsGood(s) /\ IsGood(t)
      BY ONLY <2>1, <3>1, <3>2, n \in DOMAIN parsed.specs, k \in DOMAIN expected.specs,
              SpecsAreGood
    <3>4. ASSUME format_spec_canonical(s) = format_spec_canonical(t)
          PROVE  format_specs_equivalent(s, t)
      <4>1. PICK g : g = format_spec_canonical(s)
        OBVIOUS
      <4>2. ReadsBack(g, s) /\ ReadsBack(g, t)
        BY ONLY <3>3, <3>4, <4>1, CanonicalReads
      <4> QED BY ONLY <4>2 DEF ReadsBack, format_specs_equivalent
    <3>5. format_specs_equivalent(s, t) => format_spec_canonical(s) = format_spec_canonical(t)
      BY ONLY SameForm
    <3> QED BY ONLY <3>1, <3>2, <3>4, <3>5
  <2> QED BY ONLY <2>2, <2>3 DEF MismatchesShow
<1> QED BY <1>1, TypesHold, PTL

-----------------------------------------------------------------------------
(* The specifiers that the suites' models name.                            *)

\* The precision, the length modifier's letter and the conversion of each name.
Names(name, p, k, x) ==
  \/ name = "%d" /\ p = -1 /\ k = "none" /\ x = "d"
  \/ name = "%i" /\ p = -1 /\ k = "none" /\ x = "i"
  \/ name = "%ld" /\ p = -1 /\ k = "l" /\ x = "d"
  \/ name = "%li" /\ p = -1 /\ k = "l" /\ x = "i"
  \/ name = "%u" /\ p = -1 /\ k = "none" /\ x = "u"
  \/ name = "%x" /\ p = -1 /\ k = "none" /\ x = "x"
  \/ name = "%lu" /\ p = -1 /\ k = "l" /\ x = "u"
  \/ name = "%lx" /\ p = -1 /\ k = "l" /\ x = "x"
  \/ name = "%f" /\ p = -1 /\ k = "none" /\ x = "f"
  \/ name = "%.0f" /\ p = 0 /\ k = "none" /\ x = "f"
  \/ name = "%.2f" /\ p = 2 /\ k = "none" /\ x = "f"
  \/ name = "%.3f" /\ p = 3 /\ k = "none" /\ x = "f"
  \/ name = "%g" /\ p = -1 /\ k = "none" /\ x = "g"
  \/ name = "%lf" /\ p = -1 /\ k = "l" /\ x = "f"
  \/ name = "%Lf" /\ p = -1 /\ k = "L" /\ x = "f"
  \/ name = "%s" /\ p = -1 /\ k = "none" /\ x = "s"
  \/ name = "%c" /\ p = -1 /\ k = "none" /\ x = "c"

\* The modifier of a letter.
Letters(k) == IF k = "none" THEN <<>> ELSE <<k>>

\* The specifier with these fields and no others.
Plain(p, k, x) ==
  [flags |-> {}, width |-> kFormatWidthUnset, precision |-> p, length |-> Letters(k),
   conversion |-> x]

\* Different names stand for different fields.
LEMMA NamesAreUnique ==
  ASSUME NEW a, NEW b, NEW p, NEW k, NEW x, Names(a, p, k, x), Names(b, p, k, x)
  PROVE  a = b
BY DEF Names

\* Every name has fields.
LEMMA NamesAreKnown ==
  ASSUME NEW name \in DOMAIN Spellings
  PROVE  \E p, k, x : Names(name, p, k, x)
BY DEF Names, Spellings

\* Short sequences joined.
LEMMA ShortJoins ==
  ASSUME NEW a, NEW b, NEW c
  PROVE  /\ <<a>> \o <<b>> = <<a, b>>
         /\ <<a, b>> \o <<c>> = <<a, b, c>>
         /\ <<a>> \o <<b, c>> = <<a, b, c>>
<1>1. PICK S : S = {a, b, c}
  OBVIOUS
<1>2. /\ <<a>> \in Seq(S) /\ Len(<<a>>) = 1 /\ <<b>> \in Seq(S) /\ Len(<<b>>) = 1
      /\ <<c>> \in Seq(S) /\ Len(<<c>>) = 1
      /\ <<a, b>> \in Seq(S) /\ Len(<<a, b>>) = 2 /\ <<b, c>> \in Seq(S) /\ Len(<<b, c>>) = 2
      /\ <<a, b, c>> \in Seq(S) /\ Len(<<a, b, c>>) = 3
  BY <1>1
<1>3. <<a>> \o <<b>> = <<a, b>>
  <2>1. PICK z : z = <<a>> \o <<b>>
    OBVIOUS
  <2>2. z \in Seq(S) /\ Len(z) = 2 /\ z[1] = a /\ z[2] = b
    BY <1>2, <2>1
  <2>3. z = <<a, b>>
    BY ONLY <1>2, <2>2
  <2> QED BY <2>1, <2>3
<1>4. <<a, b>> \o <<c>> = <<a, b, c>>
  <2>1. PICK z : z = <<a, b>> \o <<c>>
    OBVIOUS
  <2>2. z \in Seq(S) /\ Len(z) = 3 /\ z[1] = a /\ z[2] = b /\ z[3] = c
    BY <1>2, <2>1
  <2>3. z = <<a, b, c>>
    BY ONLY <1>2, <2>2
  <2> QED BY <2>1, <2>3
<1>5. <<a>> \o <<b, c>> = <<a, b, c>>
  <2>1. PICK z : z = <<a>> \o <<b, c>>
    OBVIOUS
  <2>2. z \in Seq(S) /\ Len(z) = 3 /\ z[1] = a /\ z[2] = b /\ z[3] = c
    BY <1>2, <2>1
  <2>3. z = <<a, b, c>>
    BY ONLY <1>2, <2>2
  <2> QED BY <2>1, <2>3
<1> QED BY <1>3, <1>4, <1>5

\* And one of three with one more.
LEMMA ThreeAndOne ==
  ASSUME NEW a, NEW b, NEW c, NEW d
  PROVE  <<a, b, c>> \o <<d>> = <<a, b, c, d>>
<1>1. PICK S : S = {a, b, c, d}
  OBVIOUS
<1>2. /\ <<a, b, c>> \in Seq(S) /\ Len(<<a, b, c>>) = 3 /\ <<d>> \in Seq(S) /\ Len(<<d>>) = 1
      /\ <<a, b, c, d>> \in Seq(S) /\ Len(<<a, b, c, d>>) = 4
  BY <1>1
<1>3. PICK z : z = <<a, b, c>> \o <<d>>
  OBVIOUS
<1>4. z \in Seq(S) /\ Len(z) = 4 /\ z[1] = a /\ z[2] = b /\ z[3] = c /\ z[4] = d
  BY <1>2, <1>3
<1>5. z = <<a, b, c, d>>
  BY ONLY <1>2, <1>4
<1> QED BY <1>3, <1>5

\* Nothing joined to a short sequence.
LEMMA JoinsNothing ==
  ASSUME NEW a, NEW b, NEW c
  PROVE  <<a>> \o <<>> = <<a>> /\ <<a, b, c>> \o <<>> = <<a, b, c>>
OBVIOUS

\* A number of one digit in decimal.
LEMMA DecimalDigit ==
  ASSUME NEW n \in 0..9
  PROVE  Decimal(n) = <<DigitOrder[n + 1]>>
<1>1. PICK u : u = DecimalTo(n)
  OBVIOUS
<1>2. u[n] = DigitsOf(u, n)
  BY <1>1, DecimalToIs
<1>3. u[n] = <<DigitOrder[n + 1]>>
  BY ONLY <1>2, n \in 0..9, FirstDigits
<1>4. Decimal(n) = u[n]
  BY <1>1 DEF Decimal, DecimalTo, DigitsOf
<1> QED BY <1>3, <1>4

\* The precisions of the names, as they are written.
LEMMA DottedDigit ==
  /\ Dotted(-1) = <<>>
  /\ Dotted(0) = <<".", "0">> /\ Dotted(2) = <<".", "2">> /\ Dotted(3) = <<".", "3">>
<1>0. kFormatWidthUnset = -1 /\ kFormatWidthStar = -2
  BY DEF kFormatWidthUnset, kFormatWidthStar
<1>1. Dotted(-1) = <<>>
  BY <1>0 DEF Dotted
<1>2. ASSUME NEW n \in 0..9
      PROVE  Dotted(n) = <<".", DigitOrder[n + 1]>>
  <2>1. Dotted(n) = <<".">> \o Decimal(n)
    BY <1>0 DEF Dotted, Shown
  <2>2. PICK x, y : x = "." /\ y = DigitOrder[n + 1]
    OBVIOUS
  <2>3. Decimal(n) = <<y>>
    BY <2>2, DecimalDigit
  <2>4. <<x>> \o <<y>> = <<x, y>>
    BY ShortJoins
  <2> QED BY ONLY <2>1, <2>2, <2>3, <2>4, Zenon
<1>3. DigitOrder[0 + 1] = "0" /\ DigitOrder[2 + 1] = "2" /\ DigitOrder[3 + 1] = "3"
  BY DEF DigitOrder
<1>4. 0 \in 0..9 /\ 2 \in 0..9 /\ 3 \in 0..9
  OBVIOUS
<1> QED BY ONLY <1>1, <1>2, <1>3, <1>4, Zenon

\* What the fields of the names can be.
LEMMA NamesAreGood ==
  ASSUME NEW name, NEW p, NEW k, NEW x, Names(name, p, k, x)
  PROVE  IsGood(Plain(p, k, x)) /\ Plain(p, k, x).conversion # "%"
<1>1. PICK s : s = Plain(p, k, x)
  OBVIOUS
<1>2. PICK L : L = Letters(k)
  OBVIOUS
<1>3. /\ s.flags = {} /\ s.width = kFormatWidthUnset /\ s.precision = p /\ s.length = L
      /\ s.conversion = x
  BY ONLY <1>1, <1>2 DEF Plain
<1>4. p \in {-1, 0, 2, 3} /\ k \in {"none", "l", "L"} /\ x \in {"d", "i", "u", "x", "f", "g", "s", "c"}
  BY DEF Names
<1>5. p \in Nat \/ p = kFormatWidthUnset
  BY ONLY <1>4 DEF kFormatWidthUnset
<1>6. x \in Conversions /\ x # "%"
  BY ONLY <1>4, Characters
<1>7. k \in OneLetterLengths \/ k = "none"
  BY ONLY <1>4 DEF OneLetterLengths
<1>8. OneLetterLengths \subseteq Char
  BY ONLY Zenon DEF Char
<1>9. L \in Seq(Char) /\ IsModifier(L)
  <2>1. CASE k = "none"
    <3>1. L = <<>>
      BY ONLY <1>2, <2>1 DEF Letters
    <3>2. L \in Seq(Char)
      BY ONLY <3>1
    <3> QED BY ONLY <3>1, <3>2 DEF IsModifier
  <2>2. CASE k # "none"
    <3>1. L = <<k>> /\ k \in OneLetterLengths
      BY ONLY <1>2, <1>7, <2>2 DEF Letters
    <3>2. L \in Seq(Char)
      BY ONLY <3>1, <1>8
    <3> QED BY ONLY <3>1, <3>2 DEF IsModifier
  <2> QED BY ONLY <2>1, <2>2
<1>10. s.width # 0 /\ s.width = kFormatWidthUnset
  BY ONLY <1>3 DEF kFormatWidthUnset
<1> QED BY ONLY <1>1, <1>3, <1>5, <1>6, <1>9, <1>10 DEF IsGood

\* How such a specifier is shown.
LEMMA PlainForm ==
  ASSUME NEW p, NEW k, NEW x
  PROVE  format_spec_canonical(Plain(p, k, x)) = <<"%">> \o Dotted(p) \o Letters(k) \o <<x>>
<1>1. PICK s : s = Plain(p, k, x)
  OBVIOUS
<1>2. PICK F : F = FlagsShown(s)
  OBVIOUS
<1>3. s.flags = {} /\ s.width = kFormatWidthUnset /\ s.precision = p
      /\ s.length = Letters(k) /\ s.conversion = x
  BY ONLY <1>1 DEF Plain
<1>4. F = <<>>
  <2>1. s.flags \subseteq Flags
    BY ONLY <1>3
  <2>2. F \in Seq(Char) /\ Elements(F) = {}
    BY ONLY <1>2, <1>3, <2>1, FlagsShownIs
  <2>3. \A n \in DOMAIN F : F[n] \in Elements(F)
    BY DEF Elements
  <2>4. DOMAIN F = {}
    BY ONLY <2>2, <2>3
  <2> QED BY ONLY <2>2, <2>4
<1>5. Shown(s.width) = <<>>
  BY ONLY <1>3 DEF Shown
<1>6. format_spec_canonical(s) = <<"%">> \o <<>> \o <<>> \o Dotted(p) \o Letters(k) \o <<x>>
  BY ONLY <1>2, <1>3, <1>4, <1>5, Zenon DEF format_spec_canonical, Dotted
<1>7. <<"%">> \o <<>> = <<"%">>
  <2>1. PICK a : a = "%"
    OBVIOUS
  <2>2. <<a>> \o <<>> = <<a>>
    BY ONLY JoinsNothing
  <2> QED BY ONLY <2>1, <2>2, Zenon
<1> QED BY ONLY <1>1, <1>6, <1>7, Zenon

\* The pieces of a name's spelling, joined.
LEMMA PiecesJoined ==
  ASSUME NEW a, NEW b, NEW c
  PROVE  /\ <<a>> \o <<>> \o <<>> \o <<b>> = <<a, b>>
         /\ <<a>> \o <<>> \o <<b>> \o <<c>> = <<a, b, c>>
<1>1. <<a>> \o <<>> = <<a>>
  BY ONLY JoinsNothing
<1>2. <<a>> \o <<b>> = <<a, b>> /\ <<a, b>> \o <<c>> = <<a, b, c>>
  BY ONLY ShortJoins
<1> QED BY ONLY <1>1, <1>2, Zenon

\* The same with a precision.
LEMMA DottedJoined ==
  ASSUME NEW a, NEW b, NEW c, NEW d
  PROVE  <<a>> \o <<b, c>> \o <<>> \o <<d>> = <<a, b, c, d>>
<1>1. <<a, b, c>> \o <<>> = <<a, b, c>>
  BY ONLY JoinsNothing
<1>2. <<a>> \o <<b, c>> = <<a, b, c>>
  BY ONLY ShortJoins, Zenon
<1>3. <<a, b, c>> \o <<d>> = <<a, b, c, d>>
  BY ONLY ThreeAndOne
<1> QED BY ONLY <1>1, <1>2, <1>3, Zenon

\* The names are spelled as their specifiers are shown.
LEMMA NamesAreShown ==
  ASSUME NEW name, NEW p, NEW k, NEW x, Names(name, p, k, x)
  PROVE  name \in DOMAIN Spellings /\ Spellings[name] = format_spec_canonical(Plain(p, k, x))
<1>1. Letters("none") = <<>> /\ Letters("l") = <<"l">> /\ Letters("L") = <<"L">>
  BY Zenon DEF Letters
<1>2. name \in DOMAIN Spellings
  BY Zenon DEF Names, Spellings
<1>3. \/ p = -1 /\ k = "none" /\ Spellings[name] = <<"%", x>>
      \/ p = -1 /\ k = "l" /\ Spellings[name] = <<"%", "l", x>>
      \/ p = -1 /\ k = "L" /\ Spellings[name] = <<"%", "L", x>>
      \/ p = 0 /\ k = "none" /\ Spellings[name] = <<"%", ".", "0", x>>
      \/ p = 2 /\ k = "none" /\ Spellings[name] = <<"%", ".", "2", x>>
      \/ p = 3 /\ k = "none" /\ Spellings[name] = <<"%", ".", "3", x>>
  BY ZenonT(60) DEF Names, Spellings
<1>4. Spellings[name] = <<"%">> \o Dotted(p) \o Letters(k) \o <<x>>
  <2>1. CASE p = -1 /\ k = "none" /\ Spellings[name] = <<"%", x>>
    <3>1. <<"%">> \o <<>> \o <<>> \o <<x>> = <<"%", x>>
      BY ONLY PiecesJoined, Zenon
    <3> QED BY ONLY <1>1, <2>1, <3>1, DottedDigit, Zenon
  <2>2. CASE p = -1 /\ k = "l" /\ Spellings[name] = <<"%", "l", x>>
    <3>1. <<"%">> \o <<>> \o <<"l">> \o <<x>> = <<"%", "l", x>>
      BY ONLY PiecesJoined, Zenon
    <3> QED BY ONLY <1>1, <2>2, <3>1, DottedDigit, Zenon
  <2>3. CASE p = -1 /\ k = "L" /\ Spellings[name] = <<"%", "L", x>>
    <3>1. <<"%">> \o <<>> \o <<"L">> \o <<x>> = <<"%", "L", x>>
      BY ONLY PiecesJoined, Zenon
    <3> QED BY ONLY <1>1, <2>3, <3>1, DottedDigit, Zenon
  <2>4. CASE p = 0 /\ k = "none" /\ Spellings[name] = <<"%", ".", "0", x>>
    <3>1. <<"%">> \o <<".", "0">> \o <<>> \o <<x>> = <<"%", ".", "0", x>>
      BY ONLY DottedJoined, Zenon
    <3> QED BY ONLY <1>1, <2>4, <3>1, DottedDigit, Zenon
  <2>5. CASE p = 2 /\ k = "none" /\ Spellings[name] = <<"%", ".", "2", x>>
    <3>1. <<"%">> \o <<".", "2">> \o <<>> \o <<x>> = <<"%", ".", "2", x>>
      BY ONLY DottedJoined, Zenon
    <3> QED BY ONLY <1>1, <2>5, <3>1, DottedDigit, Zenon
  <2>6. CASE p = 3 /\ k = "none" /\ Spellings[name] = <<"%", ".", "3", x>>
    <3>1. <<"%">> \o <<".", "3">> \o <<>> \o <<x>> = <<"%", ".", "3", x>>
      BY ONLY DottedJoined, Zenon
    <3> QED BY ONLY <1>1, <2>6, <3>1, DottedDigit, Zenon
  <2> QED BY ONLY <1>3, <2>1, <2>2, <2>3, <2>4, <2>5, <2>6, Zenon
<1> QED BY ONLY <1>2, <1>4, PlainForm, Zenon

\* Different letters make different modifiers.
LEMMA LettersDiffer ==
  ASSUME NEW j \in {"none", "h", "l", "j", "z", "t", "L"},
         NEW k \in {"none", "h", "l", "j", "z", "t", "L"}, Letters(j) = Letters(k)
  PROVE  j = k
<1>1. CASE j = "none" /\ k = "none"
  BY <1>1
<1>2. CASE j # "none" /\ k # "none"
  <2>1. <<j>> = <<k>>
    BY ONLY <1>2, Letters(j) = Letters(k) DEF Letters
  <2> QED BY ONLY <2>1
<1>3. CASE (j = "none") # (k = "none")
  <2>1. \E x : <<x>> = <<>>
    BY ONLY <1>3, Letters(j) = Letters(k) DEF Letters
  <2>2. \A x : Len(<<x>>) = 1 /\ Len(<<>>) = 0
    OBVIOUS
  <2> QED BY ONLY <2>1, <2>2
<1> QED BY <1>1, <1>2, <1>3

\* The types of argument by the modifier's letter.
LEMMA TypesByLetter ==
  /\ IntegerType(<<>>, TRUE) = "Int16" /\ IntegerType(<<"l">>, TRUE) = "Int32"
  /\ IntegerType(<<>>, FALSE) = "UInt16" /\ IntegerType(<<"l">>, FALSE) = "UInt32"
  /\ FloatType(<<>>) = "Float" /\ FloatType(<<"l">>) = "Double" /\ FloatType(<<"L">>) = "Double"
<1>1. PICK h, l, z, t, L, j : h = <<"h">> /\ l = <<"l">> /\ z = <<"z">> /\ t = <<"t">>
                            /\ L = <<"L">> /\ j = <<"j">>
  OBVIOUS
<1>2. PICK hh, ll, e : hh = <<"h", "h">> /\ ll = <<"l", "l">> /\ e = <<>>
  OBVIOUS
<1>3. l \notin {e, h, hh} /\ e # l /\ L # e
  BY ONLY <1>1, <1>2
<1> QED BY ONLY <1>1, <1>2, <1>3, Zenon DEF IntegerType, FloatType

\* The models of the suites give the names the types of argument that the code gives
\* their fields.
LEMMA NamesHaveTypes ==
  ASSUME NEW name, NEW p, NEW k, NEW x, Names(name, p, k, x)
  PROVE  ArgType(x, Letters(k)) = Suites!expected_arg_type(name)
<1>1. Letters("none") = <<>> /\ Letters("l") = <<"l">> /\ Letters("L") = <<"L">>
  BY Zenon DEF Letters
<1>2. CASE x \in {"d", "i"}
  <2>0. /\ x \in IntegerConversions /\ x \notin UnsignedConversions /\ x \notin FloatConversions
        /\ x # "c" /\ x # "s" /\ x \notin {"p", "n"} /\ x # "%"
    BY ONLY <1>2 DEF IntegerConversions, UnsignedConversions, FloatConversions
  <2>1. ArgType(x, Letters(k)) = IntegerType(Letters(k), TRUE)
    BY ONLY <2>0, Zenon DEF ArgType
  <2>2. \/ name \in {"%d", "%i"} /\ k = "none"
        \/ name \in {"%ld", "%li"} /\ k = "l"
    BY <1>2 DEF Names
  <2> QED BY ONLY <1>1, <2>1, <2>2, TypesByLetter, Zenon DEF Suites!expected_arg_type
<1>3. CASE x \in {"u", "x"}
  <2>0. /\ x \notin IntegerConversions /\ x \in UnsignedConversions /\ x \notin FloatConversions
        /\ x # "c" /\ x # "s" /\ x \notin {"p", "n"} /\ x # "%"
    BY ONLY <1>3 DEF IntegerConversions, UnsignedConversions, FloatConversions
  <2>1. ArgType(x, Letters(k)) = IntegerType(Letters(k), FALSE)
    BY ONLY <2>0, Zenon DEF ArgType
  <2>2. \/ name \in {"%u", "%x"} /\ k = "none"
        \/ name \in {"%lu", "%lx"} /\ k = "l"
    BY <1>3 DEF Names
  <2> QED BY ONLY <1>1, <2>1, <2>2, TypesByLetter, Zenon DEF Suites!expected_arg_type
<1>4. CASE x \in {"f", "g"}
  <2>1. ArgType(x, Letters(k)) = FloatType(Letters(k))
    BY ONLY <1>4, Zenon
       DEF ArgType, IntegerConversions, UnsignedConversions, FloatConversions
  <2>2. \/ name \in {"%f", "%.0f", "%.2f", "%.3f", "%g"} /\ k = "none"
        \/ name = "%lf" /\ k = "l"
        \/ name = "%Lf" /\ k = "L"
    BY ONLY <1>4, Names(name, p, k, x), Zenon DEF Names
  <2> QED BY ONLY <1>1, <2>1, <2>2, TypesByLetter, Zenon DEF Suites!expected_arg_type
<1>5. CASE x = "s" /\ name = "%s"
  BY ONLY <1>5, Zenon
     DEF ArgType, IntegerConversions, UnsignedConversions, FloatConversions,
         Suites!expected_arg_type
<1>6. CASE x = "c" /\ name = "%c" /\ k = "none"
  <2>1. Letters(k) # <<"l">>
    BY ONLY <1>6, <1>1, LettersDiffer
  <2> QED BY ONLY <1>6, <2>1, Zenon
             DEF ArgType, IntegerConversions, UnsignedConversions, FloatConversions,
                 Suites!expected_arg_type
<1> QED BY <1>2, <1>3, <1>4, <1>5, <1>6 DEF Names

\* The specifier with the fields of name is the only one of the format f.
MeansAlone(f, p, k, x) ==
  LET q == parse_format(f) IN
  /\ q.ok /\ Len(q.specs) = 1 /\ DOMAIN q.specs = {1}
  /\ format_specs_equivalent(q.specs[1], Plain(p, k, x))

\* So a name's spelling is parsed.
LEMMA NamesAreRead ==
  ASSUME NEW name, NEW p, NEW k, NEW x, Names(name, p, k, x)
  PROVE  MeansAlone(Spellings[name], p, k, x)
<1>1. PICK s : s = Plain(p, k, x)
  OBVIOUS
<1>2. PICK g : g = Spellings[name]
  OBVIOUS
<1>3. IsGood(s) /\ s.conversion # "%"
  BY ONLY <1>1, Names(name, p, k, x), NamesAreGood
<1>4. g = format_spec_canonical(s)
  BY ONLY <1>1, <1>2, Names(name, p, k, x), NamesAreShown
<1>5. ReadsBack(g, s)
  BY ONLY <1>3, <1>4, CanonicalReads
<1>6. PICK q : q = parse_format(g)
  OBVIOUS
<1>7. /\ q.ok /\ Len(q.specs) = 1 /\ DOMAIN q.specs = {1}
      /\ format_specs_equivalent(q.specs[1], s)
  BY ONLY <1>3, <1>5, <1>6, ReadsBackAlone
<1> QED BY ONLY <1>1, <1>2, <1>6, <1>7 DEF MeansAlone

\* The verdict on the arguments.
LEMMA NamedArguments ==
  ASSUME NEW name, NEW p, NEW k, NEW x, Names(name, p, k, x)
  PROVE  expect_arg_types(parse_format(Spellings[name]), <<Suites!expected_arg_type(name)>>)
<1>1. PICK q : q = parse_format(Spellings[name])
  OBVIOUS
<1>2. PICK w : w = q.specs
  OBVIOUS
<1>3. PICK type : type = Suites!expected_arg_type(name)
  OBVIOUS
<1>4. PICK s : s = Plain(p, k, x)
  OBVIOUS
<1>5. q.ok /\ Len(w) = 1 /\ DOMAIN w = {1} /\ format_specs_equivalent(w[1], s)
  BY ONLY <1>1, <1>2, <1>4, Names(name, p, k, x), NamesAreRead DEF MeansAlone
<1>6. expected_arg_type(w[1]) = expected_arg_type(s)
  BY ONLY <1>5, SameArgType
<1>7. s.conversion = x /\ s.length = Letters(k)
  BY ONLY <1>4 DEF Plain
<1>8. expected_arg_type(s) = type
  BY ONLY <1>3, <1>7, Names(name, p, k, x), NamesHaveTypes, ArgTypeIs
<1>9. PICK types : types = <<type>>
  OBVIOUS
<1>10. Len(types) = 1 /\ DOMAIN types = {1} /\ types[1] = type
  BY ONLY <1>9
<1>11. expect_arg_types(q, types)
  BY ONLY <1>2, <1>5, <1>6, <1>8, <1>10 DEF expect_arg_types
<1> QED BY ONLY <1>1, <1>3, <1>9, <1>11

\* The verdict on the format.
LEMMA NamedFormats ==
  ASSUME NEW a, NEW p, NEW k, NEW x, Names(a, p, k, x),
         NEW b, NEW q, NEW j, NEW y, Names(b, q, j, y)
  PROVE  expect_format(parse_format(Spellings[a]), parse_format(Spellings[b]))
           <=> Suites!expect_format(<<a>>, <<b>>)
<1>1. PICK s, t : s = Plain(p, k, x) /\ t = Plain(q, j, y)
  OBVIOUS
<1>2. PICK f, g : f = parse_format(Spellings[a]) /\ g = parse_format(Spellings[b])
  OBVIOUS
<1>3. PICK v, w : v = f.specs /\ w = g.specs
  OBVIOUS
<1>4. /\ f.ok /\ Len(v) = 1 /\ DOMAIN v = {1} /\ format_specs_equivalent(v[1], s)
      /\ g.ok /\ Len(w) = 1 /\ DOMAIN w = {1} /\ format_specs_equivalent(w[1], t)
  BY ONLY <1>1, <1>2, <1>3, Names(a, p, k, x), Names(b, q, j, y), NamesAreRead DEF MeansAlone
<1>5. expect_format(f, g) <=> \A n \in DOMAIN v : format_specs_equivalent(w[n], v[n])
  BY ONLY <1>3, <1>4 DEF expect_format, format_matches
<1>6. expect_format(f, g) <=> format_specs_equivalent(t, s)
  BY ONLY <1>4, <1>5 DEF format_specs_equivalent
<1>7. /\ s.precision = p /\ s.length = Letters(k) /\ s.conversion = x
      /\ t.precision = q /\ t.length = Letters(j) /\ t.conversion = y
      /\ s.flags = t.flags /\ s.width = t.width
  BY ONLY <1>1 DEF Plain
<1>8. ASSUME format_specs_equivalent(t, s) PROVE a = b
  <2>1. k \in {"none", "l", "L"} /\ j \in {"none", "l", "L"}
    BY DEF Names
  <2>2. p = q /\ x = y /\ Letters(k) = Letters(j)
    BY ONLY <1>7, <1>8 DEF format_specs_equivalent
  <2>3. k = j
    BY ONLY <2>1, <2>2, LettersDiffer
  <2> QED BY ONLY <2>2, <2>3, Names(a, p, k, x), Names(b, q, j, y), NamesAreUnique
<1>9. a = b => format_specs_equivalent(t, s)
  BY ONLY <1>2, <1>3, <1>4 DEF format_specs_equivalent
<1>10. Suites!expect_format(<<a>>, <<b>>) <=> a = b
  BY DEF Suites!expect_format
<1> QED BY ONLY <1>2, <1>6, <1>8, <1>9, <1>10

\* The suites' models compare names of specifiers (expect_format, expect_arg_types and
\* expected_arg_type of Expectations) where the code parses formats and compares their
\* specifiers: whenever the student's format is one of the specifiers that have a
\* name, the parser gives the verdicts which the names give.
THEOREM NamesStandForFormats == Spec => []SuitesAbstraction
<1>1. TypeInv => SuitesAbstraction
  <2> SUFFICES ASSUME TypeInv, NEW name \in DOMAIN Spellings, Spellings[name] = fmt
               PROVE  /\ expect_arg_types(parsed, <<Suites!expected_arg_type(name)>>)
                      /\ \A other \in DOMAIN Spellings :
                           expect_format(parsed, parse_format(Spellings[other]))
                             <=> Suites!expect_format(<<name>>, <<other>>)
    BY Zenon DEF SuitesAbstraction
  <2>1. parsed = parse_format(Spellings[name])
    BY DEF TypeInv
  <2>2. PICK p, k, x : Names(name, p, k, x)
    BY NamesAreKnown
  <2>3. expect_arg_types(parsed, <<Suites!expected_arg_type(name)>>)
    BY ONLY <2>1, <2>2, NamedArguments
  <2>4. ASSUME NEW other \in DOMAIN Spellings
        PROVE  expect_format(parsed, parse_format(Spellings[other]))
                 <=> Suites!expect_format(<<name>>, <<other>>)
    <3>1. PICK q, j, y : Names(other, q, j, y)
      BY NamesAreKnown
    <3> QED BY ONLY <2>1, <2>2, <3>1, NamedFormats
  <2> QED BY <2>3, <2>4
<1> QED BY <1>1, TypesHold, PTL
=============================================================================
