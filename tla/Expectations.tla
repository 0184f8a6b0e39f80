----------------------------- MODULE Expectations -----------------------------
(***************************************************************************)
(* What the checks of every assignment are built from: the map of expected *)
(* register states (state_checker.h), the assertions on captured prints    *)
(* (expectations.cpp, format_parser.cpp) and the number of prints a driven *)
(* ISR produces.                                                           *)
(*                                                                         *)
(* A register struct is "zero", as "asked" by the assignment, or "other".  *)
(* A format is the sequence of its conversion specifiers.                  *)
(***************************************************************************)
EXTENDS Integers, Sequences

RegisterStates == {"zero", "asked", "other"}

\* A comparison of the tracker: with the struct itself, looked at when validate
\* is called, or with a copy of it taken when the comparison was registered.
ByReference(expected) == [by |-> "reference", expected |-> expected]
ByCopy(actual, expected) == [by |-> "copy", actual |-> actual, expected |-> expected]

Holds(comparison, now) ==
  (IF comparison.by = "copy" THEN comparison.actual ELSE now) = comparison.expected

\* populate_all_zero: every register struct is expected to be zero.
populate_all_zero(registers) == [n \in registers |-> ByReference("zero")]

\* mark_as_used: the struct is no longer compared.
mark_as_used(tracker, names) == [n \in DOMAIN tracker \ names |-> tracker[n]]

\* register_comparison, register_custom: for each name of expected, whatever the
\* tracker held for it before.
register_comparison(tracker, expected) ==
  [n \in DOMAIN tracker \cup DOMAIN expected |->
     IF n \in DOMAIN expected THEN ByReference(expected[n]) ELSE tracker[n]]

\* Mutant: no copy is taken.
register_comparison_copy_Refers(tracker, actual, expected) ==
  register_comparison(tracker, expected)

\* register_comparison_copy, register_custom_copy: the same, with what each
\* struct is now.
register_comparison_copy(tracker, actual, expected) ==
  [n \in DOMAIN tracker \cup DOMAIN expected |->
     IF n \in DOMAIN expected THEN ByCopy(actual[n], expected[n]) ELSE tracker[n]]

\* validate: every comparison is made, as often as it is called.
validate(tracker, regs) == \A n \in DOMAIN tracker : Holds(tracker[n], regs[n])

NoComparisons == populate_all_zero({})

\* What the assignment asks of the structs it names.
Wanted(names) == [n \in names |-> "asked"]
-----------------------------------------------------------------------------
\* expect_print_cadence with a tolerance in percent: the floor of the lower and
\* the ceiling of the upper bound.
CadenceWindow(expected, pct) ==
  (expected * (100 - pct)) \div 100 .. (expected * (100 + pct) + 99) \div 100

\* The type of argument a specifier reads on the target, where int has 16 bits.
expected_arg_type(spec) ==
  CASE spec \in {"%d", "%i"}                           -> "Int16"
    [] spec \in {"%ld", "%li"}                         -> "Int32"
    [] spec \in {"%u", "%x"}                           -> "UInt16"
    [] spec \in {"%lu", "%lx"}                         -> "UInt32"
    [] spec \in {"%f", "%.0f", "%.2f", "%.3f", "%g"}   -> "Float"
    [] spec \in {"%lf", "%Lf"}                         -> "Double"
    [] spec = "%s"                                     -> "String"
    [] spec = "%c"                                     -> "Char"

\* format_matches: as many specifiers, each the same; no other text is compared.
expect_format(fmt, expected) == fmt = expected

expect_arg_types(fmt, types) == [k \in DOMAIN fmt |-> expected_arg_type(fmt[k])] = types

\* Prints of n calls of an ISR that requests one whenever its call counter,
\* which stood at count, reaches a multiple of every.  Each call is followed by
\* one turn of the main loop, so no request is lost or merged with the next.
Requests(count, n, every) == (count + n) \div every - count \div every
-----------------------------------------------------------------------------
(* The servo functions of HW4 and HW5.                                     *)

\* What setEPWM8A_RCServo or setEPWM8B_RCServo writes to its compare register
\* for an angle: a line through (0, zero), limited to -90..90 where the student
\* limits it.
Compare(servo, angle) ==
  LET limited == IF angle > 90 /\ servo.limitsUp THEN 90
                 ELSE IF angle < -90 /\ servo.limitsDown THEN -90 ELSE angle
  IN servo.zero + (limited * servo.span) \div 90

Sweep == [angle \in {0, -90, 90, 200, -200, 45} |->
            CASE angle = 0 -> 5000 [] angle = 45 -> 6250
              [] angle \in {90, 200} -> 7500 [] angle \in {-90, -200} -> 2500]

\* sweep_axis: each angle within two counts.
sweep_axis(servo) ==
  \A angle \in DOMAIN Sweep : Compare(servo, angle) - Sweep[angle] \in -2..2
=============================================================================
