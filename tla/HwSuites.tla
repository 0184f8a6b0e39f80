------------------------------- MODULE HwSuites -------------------------------
(***************************************************************************)
(* The check suites of HW1 to HW5 run by the Validator against a student's *)
(* program.  A build links one suite with one program: `student' is that   *)
(* program, with the number of its assignment in hw, and `machine' the     *)
(* registers and globals the checks share.                                 *)
(***************************************************************************)
EXTENDS Validator

H1 == INSTANCE Hw1Checks
H2 == INSTANCE Hw2Checks
H3 == INSTANCE Hw3Checks
H4 == INSTANCE Hw4Checks
H5 == INSTANCE Hw5Checks

CONSTANT Students

ASSUME SuitesAssumption == 
  Suites = {H1!checker, H2!checker, H3!checker, H4!checker, H5!checker}
ASSUME CodesAssumption == Codes = {0, 1}

\* What a program of each assignment may choose.
IsStudent(s) ==
  \/ s.hw = 1 /\ H1!IsStudent(s)
  \/ s.hw = 2 /\ H2!IsStudent(s)
  \/ s.hw = 3 /\ H3!IsStudent(s)
  \/ s.hw = 4 /\ H4!IsStudent(s)
  \/ s.hw = 5 /\ H5!IsStudent(s)

ASSUME StudentsAssumption == \A s \in Students : IsStudent(s)

VARIABLES student, machine

vars == <<student, machine, validatorVars>>

\* checker(): the suite of the assignment.
checker(hw) ==
  CASE hw = 1 -> H1!checker
    [] hw = 2 -> H2!checker [] hw = 3 -> H3!checker
    [] hw = 4 -> H4!checker [] hw = 5 -> H5!checker

PoweredUp(hw) ==
  CASE hw = 1 -> H1!PoweredUp
    [] hw = 2 -> H2!PoweredUp [] hw = 3 -> H3!PoweredUp
    [] hw = 4 -> H4!PoweredUp [] hw = 5 -> H5!PoweredUp

Run(check, s, m) ==
  CASE s.hw = 1 -> H1!Run(check, s, m)
    [] s.hw = 2 -> H2!Run(check, s, m) [] s.hw = 3 -> H3!Run(check, s, m)
    [] s.hw = 4 -> H4!Run(check, s, m) [] s.hw = 5 -> H5!Run(check, s, m)

\* The check dies of a null pointer instead of returning.
Faults(check, s) == s.hw = 2 /\ H2!DereferencesNull(check, s)

Bit(b) == IF b THEN 1 ELSE 0

Init ==
  /\ ValidatorInit
  /\ student \in Students
  /\ checkFunctions = checker(student.hw)
  /\ machine = PoweredUp(student.hw)

\* The validator calls the next check, which returns 0 or 1.
RunNextCheck ==
  /\ InTheLoop
  /\ ~Faults(checkFunctions[CurrentCheck], student)
  /\ LET outcome == Run(checkFunctions[CurrentCheck], student, machine) IN
       /\ RunCheck(Bit(outcome.ok))
       /\ machine' = outcome.machine
  /\ UNCHANGED student

\* The validator calls the next check and the process dies.
RunFaultyCheck ==
  /\ Crash
  /\ Faults(checkFunctions[CurrentCheck], student)
  /\ UNCHANGED <<student, machine>>

WriteReportAndExit == Finish /\ UNCHANGED <<student, machine>>

Next == RunNextCheck \/ RunFaultyCheck \/ WriteReportAndExit

Spec == Init /\ [][Next]_vars
-----------------------------------------------------------------------------
(* Properties.                                                             *)

Conforms(s) ==
  CASE s.hw = 1 -> H1!Conforms(s)
    [] s.hw = 2 -> H2!Conforms(s) [] s.hw = 3 -> H3!Conforms(s)
    [] s.hw = 4 -> H4!Conforms(s) [] s.hw = 5 -> H5!Conforms(s)

Sound(s) ==
  CASE s.hw = 1 -> H1!Sound(s)
    [] s.hw = 2 -> H2!Sound(s) [] s.hw = 3 -> H3!Sound(s)
    [] s.hw = 4 -> H4!Sound(s) [] s.hw = 5 -> H5!Sound(s)

KnownState(s) ==
  CASE s.hw = 1 -> TRUE
    [] s.hw = 2 -> H2!KnownState(s) [] s.hw = 3 -> H3!KnownState(s)
    [] s.hw = 4 -> H4!KnownState(s) [] s.hw = 5 -> H5!KnownState(s)

AfterInit(s) == Run("check_initialization", s, PoweredUp(s.hw)).machine

\* The types; the registers are only ever those the initialisation leaves.
TypeOK ==
  /\ student \in Students
  /\ checkFunctions = checker(student.hw)
  /\ CASE check_results = <<>> -> machine = PoweredUp(student.hw)
       [] check_results # <<>> /\ student.hw = 1 -> H1!IsMachine(student, machine)
       [] check_results # <<>> /\ student.hw # 1 ->
            /\ DOMAIN machine = DOMAIN PoweredUp(student.hw)
            /\ machine.regs = AfterInit(student).regs
            /\ machine.UARTPrint \in {0, 1} /\ machine.prints \in Nat
  /\ result \in {0, 1}
  /\ check_results \in Seq(CheckResult)
  /\ report \in Seq(CheckResult)
  /\ exitCode \in {Running, 0, 1, Killed}

\* No program that does what the comments of its assignment's checks ask is
\* failed, whatever the earlier checks left in the registers and globals.
ConformingProgramsPass == Conforms(student) => exitCode \in {Running, 0}

\* A program that exits 0 has none of the mistakes its suite is there to find:
\* a struct configured otherwise or besides, swapped channels or a wrong scale,
\* an ISR that does not count, a print rate out of the window, another number
\* of arguments, a button's wrong edge or LEDs, a servo that is not limited.
PassingProgramsAreSound == exitCode = 0 => Sound(student)

\* "Subsequent checks in the list must see the same pre-check state"
\* (four-phase-pattern.md): a check of HW1 after the first, whether it runs to its
\* end or returns early, leaves every register and global as it found it; only
\* the student's private statics and the print capture may differ.
StateRestored ==
  [][student.hw = 1 /\ check_results # <<>> =>
       machine' = [machine EXCEPT !.prev = machine'.prev, !.prints = machine'.prints]]_vars

\* The exit code does not depend on the order of the checks: a program whose
\* counters the checks know exits 0 exactly when each check passes right after
\* the initialisation.  Counters, pins, buffers and the capture are shared by
\* the checks and only partly put back.
VerdictsIndependent ==
  KnownState(student) /\ exitCode \in {0, 1} =>
    (exitCode = 0 <=>
       /\ Run("check_initialization", student, PoweredUp(student.hw)).ok
       /\ \A k \in 2..Len(checkFunctions) :
            Run(checkFunctions[k], student, AfterInit(student)).ok)

\* No hidden coupling between the checks of HW1: each gives the verdict it would
\* give were it the only check to run after the initialisation, although the
\* statics of the student's edge detectors and the capture are never restored.
EachVerdictIndependent ==
  student.hw = 1 =>
    \A k \in 2..Len(check_results) :
      check_results[k].passed <=> Run(checkFunctions[k], student, AfterInit(student)).ok
=============================================================================
