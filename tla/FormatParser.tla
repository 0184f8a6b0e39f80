----------------------------- MODULE FormatParser -----------------------------
(***************************************************************************)
(* How a student's printf format is taken apart and compared with the      *)
(* required one (format_parser.cpp, and expect_format and                  *)
(* expect_arg_types of expectations.cpp).  A format is a sequence of       *)
(* characters, each a string of length one.                                *)
(*                                                                         *)
(* The student's format is written fragment by fragment, and every         *)
(* beginning of it is parsed: wherever the student stops, it is what the   *)
(* parser gets.                                                            *)
(***************************************************************************)
EXTENDS Integers, Sequences

CONSTANTS
  Fragments,       \* what the student may write next
  MaxFragments,    \* bound on how often
  Required         \* the formats the assignments require

ASSUME FragmentsAssumption ==
  Fragments \subseteq Seq(STRING) /\ Required \subseteq Seq(STRING)

VARIABLES
  fmt, parsed,         \* the student's format, and what recordPrintfCall makes of it
  required, expected,  \* the format that is required, and what expect_format makes of it
  written              \* fragments so far

vars == <<fmt, parsed, required, expected, written>>
-----------------------------------------------------------------------------
FlagOrder == <<"-", "+", " ", "#", "0", "'">>
DigitOrder == <<"0", "1", "2", "3", "4", "5", "6", "7", "8", "9">>

Elements(s) == {s[n] : n \in DOMAIN s}

Flags == Elements(FlagOrder)
Digits == Elements(DigitOrder)
TwoLetterLengths == {<<"h", "h">>, <<"l", "l">>}
OneLetterLengths == {"h", "l", "j", "z", "t", "L"}
IntegerConversions == {"d", "i"}
UnsignedConversions == {"o", "u", "x", "X"}
FloatConversions == {"e", "E", "f", "F", "g", "G", "a", "A"}
Conversions ==
  IntegerConversions \cup UnsignedConversions \cup FloatConversions
    \cup {"c", "s", "p", "n", "%"}

kFormatWidthUnset == -1
kFormatWidthStar == -2

At(f, i) == IF i \in DOMAIN f THEN f[i] ELSE "end"

\* The first position from i on whose character does not pass the test.
Skip(f, i, Passes(_)) ==
  CHOOSE e \in i..Len(f) + 1 :
    (\A n \in i..e - 1 : Passes(f[n])) /\ (e <= Len(f) => ~Passes(f[e]))

Value(digit) == CHOOSE v \in 0..9 : DigitOrder[v + 1] = digit

\* The number written in decimal from i up to e.
Number(f, i, e) ==
  LET upTo[n \in i - 1..e - 1] == IF n < i THEN 0 ELSE 10 * upTo[n - 1] + Value(f[n])
  IN upTo[e - 1]

\* A width or, after its dot, a precision.
Amount(f, i, e) == IF At(f, i) = "*" THEN kFormatWidthStar ELSE Number(f, i, e)

\* Mutant: a doubled letter is read as a single one.
LengthModifier_Single(f, i) ==
  IF At(f, i) \in OneLetterLengths THEN <<f[i]>> ELSE <<>>

LengthModifier(f, i) ==
  IF <<At(f, i), At(f, i + 1)>> \in TwoLetterLengths THEN <<f[i], f[i + 1]>>
  ELSE IF At(f, i) \in OneLetterLengths THEN <<f[i]>> ELSE <<>>

\* Where a specifier's flags, width and precision that start at i end.
FlagsEnd(f, i) == Skip(f, i, LAMBDA c : c \in Flags)

WidthEnd(f, i) ==
  IF At(f, i) = "*" THEN i + 1 ELSE Skip(f, i, LAMBDA c : c \in Digits)

PrecisionEnd(f, i) ==
  IF At(f, i) # "." THEN i
  ELSE IF At(f, i + 1) = "*" THEN i + 2 ELSE Skip(f, i + 1, LAMBDA c : c \in Digits)

\* Where the parts of the specifier at the % at position i end.
PartEnds(f, i) ==
  LET flags == FlagsEnd(f, i + 1)
      width == WidthEnd(f, flags)
      precision == PrecisionEnd(f, width)
  IN [start |-> i + 1, flags |-> flags, width |-> width, precision |-> precision,
      length |-> precision + Len(LengthModifier(f, precision))]

\* The specifier whose parts end there.  A dot without digits is a precision of 0.
SpecOf(f, end) ==
  [kind |-> "spec", from |-> end.start - 1, to |-> end.length,
   flags |-> {f[n] : n \in end.start..end.flags - 1},
   width |-> IF end.width = end.flags THEN kFormatWidthUnset
             ELSE Amount(f, end.flags, end.width),
   precision |-> IF end.precision = end.width THEN kFormatWidthUnset
                 ELSE Amount(f, end.width + 1, end.precision),
   length |-> LengthModifier(f, end.precision), conversion |-> At(f, end.length)]

ReadSpec(f, i) == SpecOf(f, PartEnds(f, i))

Literal(i, e) == [kind |-> "literal", from |-> i, to |-> e - 1]
Error(why, i) == [kind |-> "error", from |-> i, why |-> why]

WhyNot(f, spec) ==
  IF spec.from = Len(f) THEN "stray %" ELSE IF spec.to > Len(f) THEN "ended" ELSE "unknown"

SpecOrError(f, spec) ==
  IF spec.to <= Len(f) /\ spec.conversion \in Conversions THEN spec
  ELSE Error(WhyNot(f, spec), spec.from)

\* The text, specifier or error that starts at position i.
Segment(f, i) ==
  IF f[i] = "%" THEN SpecOrError(f, ReadSpec(f, i))
  ELSE Literal(i, Skip(f, i, LAMBDA c : c # "%"))

\* Mutant: the text after the last specifier is not flushed.
SegmentsFrom_NoLastFlush(f, segment) ==
  LET from[i \in 1..Len(f) + 1] ==
        IF i > Len(f) \/ (segment[i].kind = "literal" /\ segment[i].to = Len(f)) THEN <<>>
        ELSE IF segment[i].kind = "error" THEN <<segment[i]>>
        ELSE <<segment[i]>> \o from[segment[i].to + 1]
  IN from[1]

\* Segment after segment, up to the first error.
SegmentsFrom(f, segment) ==
  LET from[i \in 1..Len(f) + 1] ==
        IF i > Len(f) THEN <<>>
        ELSE IF segment[i].kind = "error" THEN <<segment[i]>>
        ELSE <<segment[i]>> \o from[segment[i].to + 1]
  IN from[1]

\* The elements of s at some of its places, in order.
Select(s, places) ==
  LET upTo[n \in 0..Len(s)] ==
        IF n = 0 THEN <<>>
        ELSE IF n \in places THEN Append(upTo[n - 1], s[n]) ELSE upTo[n - 1]
  IN upTo[Len(s)]

Errors(found) == {n \in DOMAIN found : found[n].kind = "error"}

\* %% takes no argument.
Arguments(found) ==
  {n \in DOMAIN found : found[n].kind = "spec" /\ found[n].conversion # "%"}

Parsed(found) ==
  [ok |-> Errors(found) = {},
   segments |-> Select(found, DOMAIN found \ Errors(found)),
   specs |-> Select(found, Arguments(found)),
   errors |-> Select(found, Errors(found))]

parse_format(f) == Parsed(SegmentsFrom(f, [i \in DOMAIN f |-> Segment(f, i)]))
-----------------------------------------------------------------------------
Decimal(n) ==
  LET digits[k \in 0..n] ==
        IF k < 10 THEN <<DigitOrder[k + 1]>>
        ELSE Append(digits[k \div 10], DigitOrder[(k % 10) + 1])
  IN digits[n]

\* An amount as it is written; nothing when it is not set.
Shown(amount) ==
  IF amount = kFormatWidthUnset THEN <<>>
  ELSE IF amount = kFormatWidthStar THEN <<"*">> ELSE Decimal(amount)

\* The flags in the order of the code, not of the student.
FlagsShown(spec) == Select(FlagOrder, {n \in DOMAIN FlagOrder : FlagOrder[n] \in spec.flags})

\* Mutant: a precision of 0 is not written.
format_spec_canonical_NoZero(spec) ==
  <<"%">> \o FlagsShown(spec) \o Shown(spec.width)
    \o (IF spec.precision \in {kFormatWidthUnset, 0} THEN <<>>
        ELSE <<".">> \o Shown(spec.precision))
    \o spec.length \o <<spec.conversion>>

format_spec_canonical(spec) ==
  <<"%">> \o FlagsShown(spec) \o Shown(spec.width)
    \o (IF spec.precision = kFormatWidthUnset THEN <<>>
        ELSE <<".">> \o Shown(spec.precision))
    \o spec.length \o <<spec.conversion>>

format_specs_equivalent(a, b) ==
  /\ a.conversion = b.conversion /\ a.length = b.length
  /\ a.precision = b.precision /\ a.width = b.width /\ a.flags = b.flags

\* Mutant: a long is an int.
IntegerType_NoLong(length, signed) ==
  CASE length \in {<<>>, <<"h">>, <<"h", "h">>, <<"l">>} -> IF signed THEN "Int16" ELSE "UInt16"
    [] length \in {<<"l", "l">>, <<"j">>} -> IF signed THEN "Int64" ELSE "UInt64"
    [] OTHER -> "Unknown"

\* What a specifier reads on the target, where int has 16 bits.
IntegerType(length, signed) ==
  CASE length \in {<<>>, <<"h">>, <<"h", "h">>} -> IF signed THEN "Int16" ELSE "UInt16"
    [] length = <<"l">> -> IF signed THEN "Int32" ELSE "UInt32"
    [] length \in {<<"l", "l">>, <<"j">>} -> IF signed THEN "Int64" ELSE "UInt64"
    [] length = <<"z">> -> "SizeT"
    [] length = <<"t">> -> "PtrDiffT"
    [] OTHER -> "Unknown"

FloatType(length) ==
  CASE length = <<>> -> "Float"
    [] length \in {<<"l">>, <<"L">>} -> "Double"
    [] OTHER -> "Unknown"

expected_arg_type(spec) ==
  CASE spec.conversion \in IntegerConversions  -> IntegerType(spec.length, TRUE)
    [] spec.conversion \in UnsignedConversions -> IntegerType(spec.length, FALSE)
    [] spec.conversion \in FloatConversions    -> FloatType(spec.length)
    [] spec.conversion = "c" -> IF spec.length = <<"l">> THEN "Int32" ELSE "Char"
    [] spec.conversion = "s" -> "String"
    [] spec.conversion \in {"p", "n"} -> "Pointer"
    [] spec.conversion = "%" -> "None"
-----------------------------------------------------------------------------
\* Mutant: the pieces are counted, text included.
format_matches_Segments(wanted, actual) ==
  /\ actual.ok /\ Len(actual.segments) = Len(wanted.segments)
  /\ Len(actual.specs) = Len(wanted.specs)
  /\ \A n \in DOMAIN actual.specs :
       format_specs_equivalent(wanted.specs[n], actual.specs[n])

\* As many specifiers as required, each equivalent; the rest of the text is not
\* looked at.
format_matches(wanted, actual) ==
  /\ actual.ok /\ Len(actual.specs) = Len(wanted.specs)
  /\ \A n \in DOMAIN actual.specs :
       format_specs_equivalent(wanted.specs[n], actual.specs[n])

expect_format(actual, wanted) == wanted.ok /\ format_matches(wanted, actual)

expect_arg_types(actual, types) ==
  /\ actual.ok /\ Len(actual.specs) = Len(types)
  /\ \A n \in DOMAIN types : expected_arg_type(actual.specs[n]) = types[n]
-----------------------------------------------------------------------------
Init ==
  /\ fmt = <<>> /\ parsed = parse_format(<<>>) /\ written = 0
  /\ required \in Required /\ expected = parse_format(required)

Write(fragment) ==
  /\ written < MaxFragments
  /\ fmt' = fmt \o fragment /\ written' = written + 1
  /\ parsed' = parse_format(fmt')
  /\ UNCHANGED <<required, expected>>

Next == \E fragment \in Fragments : Write(fragment)

Spec == Init /\ [][Next]_vars
-----------------------------------------------------------------------------
(* Properties.                                                             *)

\* A specifier of the grammar: some division into its parts.
IsSpec(t) ==
  /\ t[1] = "%"
  /\ \E flags \in 1..Len(t), width, precision, length \in 1..Len(t) :
       /\ flags <= width /\ width <= precision /\ precision <= length
       /\ length = Len(t) - 1
       /\ \A n \in 2..flags : t[n] \in Flags
       /\ LET amount == SubSeq(t, flags + 1, width)
              dotted == SubSeq(t, width + 1, precision)
              modifier == SubSeq(t, precision + 1, length)
          IN /\ \/ amount \in {<<>>, <<"*">>}
                \/ amount[1] # "0" /\ Elements(amount) \subseteq Digits
             /\ \/ dotted \in {<<>>, <<".", "*">>}
                \/ dotted[1] = "." /\ Elements(Tail(dotted)) \subseteq Digits
             /\ modifier \in {<<>>} \cup TwoLetterLengths \cup {<<c>> : c \in OneLetterLengths}
  /\ t[Len(t)] \in Conversions

\* Some division of the format into other characters and specifiers.
IsFormat(f) ==
  LET from[i \in 1..Len(f) + 1] ==
        \/ i > Len(f)
        \/ i <= Len(f) /\ f[i] # "%" /\ from[i + 1]
        \/ \E e \in i + 1..Len(f) : IsSpec(SubSeq(f, i, e)) /\ from[e + 1]
  IN from[1]

\* The parser, which never goes back, accepts exactly the formats that can be
\* divided into text and specifiers in some way.
ParsesTheGrammar ==
  /\ parsed.ok <=> IsFormat(fmt)
  /\ \A n \in DOMAIN parsed.segments :
       parsed.segments[n].kind = "spec"
         => IsSpec(SubSeq(fmt, parsed.segments[n].from, parsed.segments[n].to))

\* Nothing of a format is lost or read twice: the segments follow each other
\* without a gap up to the end, or up to the specifier that could not be read.
SegmentsTile ==
  LET ends == [n \in 0..Len(parsed.segments) |->
                 IF n = 0 THEN 0 ELSE parsed.segments[n].to]
  IN /\ \A n \in DOMAIN parsed.segments :
          parsed.segments[n].from = ends[n - 1] + 1 /\ ends[n] >= parsed.segments[n].from
     /\ ends[Len(parsed.segments)] + 1
          = IF parsed.ok THEN Len(fmt) + 1 ELSE parsed.errors[1].from

\* The form of a specifier that the messages show reads back as an equivalent
\* one, and two specifiers show the same form exactly when they are equivalent: a
\* student whose specifier is rejected sees a difference.
MismatchesShow ==
  /\ \A n \in DOMAIN parsed.specs :
       LET again == parse_format(format_spec_canonical(parsed.specs[n])) IN
         again.ok /\ Len(again.specs) = 1
           /\ format_specs_equivalent(again.specs[1], parsed.specs[n])
  /\ \A n \in DOMAIN parsed.specs, k \in DOMAIN expected.specs :
       format_specs_equivalent(parsed.specs[n], expected.specs[k])
         <=> format_spec_canonical(parsed.specs[n]) = format_spec_canonical(expected.specs[k])

Types == [n \in DOMAIN parsed.specs |-> expected_arg_type(parsed.specs[n])]
Places == {1, Len(fmt) + 1} \cup {parsed.segments[n].from : n \in DOMAIN parsed.segments}
With(text, place) == SubSeq(fmt, 1, place - 1) \o text \o SubSeq(fmt, place, Len(fmt))

\* "Whitespace in the format string is ignored" (common-gotchas.md:26), and
\* expect_arg_types "only checks the typed specifier sequence" (:34): a space before,
\* between or after the specifiers does not change what expect_format says, and no
\* text there, even if it looks like part of a specifier, what expect_arg_types says.
SpacingIgnored ==
  parsed.ok =>
    \A place \in Places :
      /\ expect_format(parse_format(With(<<" ">>, place)), expected)
           = expect_format(parsed, expected)
      /\ \A text \in {<<" ">>, <<"l", "d">>, <<"0">>} :
           expect_arg_types(parse_format(With(text, place)), Types)

Suites == INSTANCE Expectations

\* How the specifiers that Expectations names are written.
Spellings ==
  [name \in {"%d", "%i", "%ld", "%li", "%u", "%x", "%lu", "%lx", "%f", "%.0f", "%.2f",
             "%.3f", "%g", "%lf", "%Lf", "%s", "%c"} |->
     CASE name = "%d" -> <<"%", "d">>           [] name = "%i" -> <<"%", "i">>
       [] name = "%ld" -> <<"%", "l", "d">>     [] name = "%li" -> <<"%", "l", "i">>
       [] name = "%u" -> <<"%", "u">>           [] name = "%x" -> <<"%", "x">>
       [] name = "%lu" -> <<"%", "l", "u">>     [] name = "%lx" -> <<"%", "l", "x">>
       [] name = "%f" -> <<"%", "f">>           [] name = "%.0f" -> <<"%", ".", "0", "f">>
       [] name = "%.2f" -> <<"%", ".", "2", "f">>
       [] name = "%.3f" -> <<"%", ".", "3", "f">>
       [] name = "%g" -> <<"%", "g">>           [] name = "%lf" -> <<"%", "l", "f">>
       [] name = "%Lf" -> <<"%", "L", "f">>     [] name = "%s" -> <<"%", "s">>
       [] name = "%c" -> <<"%", "c">>]

\* The models of the suites name a specifier and compare names: whenever the
\* format is one of those specifiers, the parser gives the verdicts they assume.
SuitesAbstraction ==
  \A name \in DOMAIN Spellings :
    Spellings[name] = fmt =>
      /\ expect_arg_types(parsed, <<Suites!expected_arg_type(name)>>)
      /\ \A other \in DOMAIN Spellings :
           expect_format(parsed, parse_format(Spellings[other])) <=> Suites!expect_format(<<name>>, <<other>>)
=============================================================================
