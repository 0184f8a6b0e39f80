------------------------------ MODULE Validator ------------------------------
(***************************************************************************)
(* Validator::check and main (validator.cpp, main.cpp): the list of checks *)
(* is run in order, each return code is and-ed into `result' and recorded, *)
(* then the JSON report is written and the exit code derived.  What a check*)
(* does is left open here: it returns a member of Codes, 0 if it throws,   *)
(* or the student's code it calls kills the process.                       *)
(***************************************************************************)
EXTENDS Integers, Sequences

CONSTANTS
  Suites,  \* the lists checker() may return: one assignment is linked in
  Codes    \* what a check may return

VARIABLES
  checkFunctions, \* the names of the checks of this build, in order
  result,         \* the accumulated return code
  check_results,  \* what was recorded of the checks that have run
  report,         \* the checks in the --report-json file, <<>> if not written
  exitCode        \* exit status of the process, Running before it ends

validatorVars == <<checkFunctions, result, check_results, report, exitCode>>

Running == -1
Killed == 139   \* the shell's status for a segmentation fault

Names == UNION {{checks[k] : k \in 1..Len(checks)} : checks \in Suites}
CheckResult == [name : Names, passed : BOOLEAN]

ValidatorInit ==
  /\ checkFunctions \in Suites
  /\ result = 1
  /\ check_results = <<>>
  /\ report = <<>>
  /\ exitCode = Running

\* Mutant: only the last check counts (the bug the roadmap says was fixed).
BitAnd_LastOnly(bit, rc) == rc

\* result &= rc, for result in {0, 1}.
BitAnd(bit, rc) == bit * (rc % 2)

CurrentCheck == Len(check_results) + 1
InTheLoop == exitCode = Running /\ CurrentCheck \in 1..Len(checkFunctions)

\* One turn of the loop: the check returned rc (0 when it threw).
RunCheck(rc) ==
  /\ InTheLoop
  /\ result' = BitAnd(result, rc)
  /\ check_results' = Append(check_results,
                             [name |-> checkFunctions[CurrentCheck], passed |-> rc # 0])
  /\ UNCHANGED <<checkFunctions, report, exitCode>>

\* The check, or the student's code it called, dies of a signal: the loop's
\* handlers catch C++ exceptions only, and what was recorded is lost.
Crash ==
  /\ InTheLoop
  /\ exitCode' = Killed
  /\ UNCHANGED <<checkFunctions, result, check_results, report>>

\* write_json_report: what the report file can hold.  No path may be given, and
\* a file that cannot be opened only logs a warning.
Written == {<<>>, check_results}

\* main: only the value 1 means success.
ExitStatus == IF result = 1 THEN 0 ELSE 1

Finish ==
  /\ exitCode = Running
  /\ CurrentCheck = Len(checkFunctions) + 1
  /\ report' \in Written
  /\ exitCode' = ExitStatus
  /\ UNCHANGED <<checkFunctions, result, check_results>>

ValidatorNext == (\E rc \in Codes : RunCheck(rc)) \/ Crash \/ Finish

ValidatorSpec == ValidatorInit /\ [][ValidatorNext]_validatorVars

(* The two verdicts the CI pipeline reads, the exit status and the report, *)
(* never disagree: the process succeeds exactly when every check of the    *)
(* list was run and recorded as passed, and a report that is written names *)
(* them all.  They are computed apart, by `result &= rc' and `rc != 0'.    *)
ExitAgreesWithReport ==
  /\ exitCode # Running =>
       (exitCode = 0 <=> /\ Len(check_results) = Len(checkFunctions)
                         /\ \A k \in 1..Len(check_results) : check_results[k].passed)
  /\ report # <<>> =>
       report = check_results /\ Len(report) = Len(checkFunctions)
=============================================================================
