# TLA+ specifications of AutomaticGrader

AutomaticGrader grades embedded-C homework for the TI F28379D on a Linux host.
A student's program is patched, linked with stubs of the processor's
peripherals and with one suite of checks, and run once; on GitHub a workflow
does this for every assignment a push touches and commits a report back to the
student's branch.  This directory holds TLA+ models of that system, the TLC
configurations that check them, and TLAPS proofs.

Paths below are relative to the repository.  `PROJECT.json` maps each
definition to the lines it models.

- [Running](#running)
- [The system](#the-system)
- [The modules](#the-modules)
- [What is checked](#what-is-checked)
- [What is proved](#what-is-proved)
- [Where the code and its documents disagree](#where-the-code-and-its-documents-disagree)
- [What is not modelled](#what-is-not-modelled)
- [Plan](#plan)

## Running

    tlasany MainLoopDriver.tla
    tlc -workers 2 -config GraderProcess.cfg GraderProcess
    tlapm MainLoopDriver_proofs.tla

Every `.cfg` names its module in the table of runs below.  Each run takes
seconds to a minute or two.  A definition `X_Variant` just before `X` is a
plausible mistake in the code behind `X` (a dropped guard, a missing reset, a
swapped order); with `X` replaced by it, the property it is paired with in
`PROJECT.json` fails.  They take no part in the models.

## The system

### Inside the grader process

| component | state | operations |
|---|---|---|
| **main-loop driver** `src/checks/main_loop_driver.cpp`, `include/checks/main_loop_driver.h` | `g_iters`, `g_inited` | `run_student_init`, `step_main_loop`, `reset_student_init`, `set_main_loop_iterations`, `drive_isr_with_main_pump` |
| **patched student program** macros in `include/ti_stubs.h`, `tools/patch_student_source.py` | the static latch in `main`, the loop counter, the student's globals | `GRADER_MAIN_INIT_GUARD`, `GRADER_MAIN_LOOP`; the ISRs, called directly by the checks |
| **synthetic clock, printf capture** `src/checks/synthetic_clock.cpp`, `printf_capture.cpp` | microseconds; a vector of calls | advance, reset; record, clear, reset, latest, count |
| **TI stubs** `src/ti_stubs.cpp` | the register globals | `updateGPIOState`, serial prints, empty timer and PIE functions |
| **stimulus** `src/checks/stimulus.cpp` | the same registers | buttons, ADC results, SPI words, encoders, lidar |
| **hardware-state checker** `include/checks/state_checker.h` | a map from register names to closures | `populate_all_zero`, `mark_as_used`, `register_*`, `validate` |
| **expectations, format parser** `src/checks/expectations.cpp`, `format_parser.cpp` | none | parsing of formats, format and argument comparison, cadence windows |
| **suites** `src/checks/hw1.cpp` … `hw5.cpp` | everything above, shared | the checks of one assignment |
| **validator, main** `src/checks/validator.cpp`, `src/main.cpp` | result, `check_results` | run the list of checks, write the report, exit |
| **course library** `src/SE423Lib.c` and others | peripheral registers; frame and id bookkeeping of the camera | `setupSpib`, servos, encoders, PWM; `UpdateOptitrackStates`, `xy_control`; `MatrixMath.c` |

Everything runs on one thread, in one address space, except while HW3's
initialisation is checked, when a second thread writes the FIFO level the
student's busy-waits poll.  There is no hardware and no real time: an interrupt
is a call a check makes, and time passes when the driver's pump says so.

    validator ──calls──> check ──run_student_init / step──> driver ──> temp_main (the student's main)
                           │  └──calls──> the student's ISRs              │ SerialPrint
                           │ writes, compares                             v
                           └──────> register globals                printf capture <── synthetic clock

### Around it

| component | state | operations |
|---|---|---|
| **workflow** `.github/workflows/grade.reusable.yml` | per run: the jobs and their artifacts | select, one grade leg per row, aggregate, push, conclude |
| **selection** `tools/select_assignments.py` | none | the manifest's rows whose folder changed; naming of slots |
| **renderer** `tools/render_report.py` | the `autograder/` folder: per-id JSON, index, history | attribute results, merge with the previous aggregate, write, exit status |

### What is hard about it, and what makes it correct

- *Driver.* The student's `main` is entered many times.  Its init code must run
  when it is due, the loop body exactly as often as asked, whatever was asked before, and
  the pump must not lose a print the ISR requested.  Two latches and two
  counters, in two translation units, must agree.
- *Patched program.* A regular expression rewrites a program it does not
  understand, a `goto` jumps over its initialisers, and its run is cut into
  entries: it must still show what it shows on the target, and come back.
- *Capture.* Indices and times are reset by different calls; they must stay in
  step.
- *Formats.* A greedy parser decides what the student printed; a rejected
  student must be shown a difference, and one who differs only in spaces
  must not be rejected.
- *SPI-B.* Two threads, a fixed time table, a word shared by bit fields, no
  synchronisation and no `volatile`.
- *Suites.* The checks share one machine with a program they do not control.
  A check must neither fail a program that does as asked nor pass one with the
  mistake it looks for, and its verdict must not depend on what ran before it.
- *Validator.* The exit status and the report are computed differently (bitwise
  and; comparison with 0) and must say the same, also when a check throws or
  dies.
- *Workflow.* Runs overlap, legs fail, pushes are rejected.  What is published
  must be traceable, no published result may be lost, a green run must mean
  something, and every run must end.
- *Navigation.* Encoder counts wrap, headings jump at half a turn or a whole one,
  packets get lost or are seen twice.
- *Renderer.* Partial results are merged into what earlier commits left, under
  names that must not collide.

The hazards, each at its line, are listed in `PROJECT.json`.

## The modules

| module | models | built on |
|---|---|---|
| `MainLoopDriver` | driver, loop macros, clock, capture | |
| `Firmware` | abstract: a student's program as written, on the target | |
| `PatchedProgram` | the patcher, the compiler's label rules, the macros and any sequence of entries | `Firmware` |
| `SpibWatchdog` | `hw3_unblock_setup_spib` against `setupSpib` | |
| `GraderProcess` | the two together: `setupSpib` inside the driver's `run_student_init` | `MainLoopDriver`, `SpibWatchdog` |
| `GradePipeline` | overlapping workflow runs on a branch | `ReportLedger` |
| `ReportLedger` | abstract: an atomic ledger of results | |
| `ReportFolder` | attribution, slots, aggregates and index over changing manifests | |
| `Validator` | the loop over any list of checks | |
| `Expectations` | operators: the tracker's closures, cadence, formats by name, servos | |
| `Hw1Checks` … `Hw5Checks` | the checks of HW1–HW5 as operators, with TI's GPIO stub | `Expectations` |
| `HwSuites` | one of the five suites linked into the grader | `Validator`, `Hw1Checks` … `Hw5Checks` |
| `FormatParser` | `parse_format` and what is decided from it | |
| `Navigation` | encoders, pose filter and way-point controller | |
| `MC*` | small instances for TLC | |
| `*_proofs` | theorems | the module they name |

### MainLoopDriver

`g_iters` and `g_inited` are the driver's; `grader_inited` and `grader_i` are
the static latch and the loop variable that the macros put into the student's
`main`; `InterruptCount` and `UARTPrint` stand for the program: its ISR counts
and requests a print every `PrintEvery` calls, its loop body prints and clears
the request.  `at` says where the thread is (`check`, `drive`, `main`, `init`,
`loop`) and `caller` where `main` returns to.  There is an action per driver
function a check may call, in any order, and one per step of what it starts:
the guard, the init code, an evaluation of the loop condition with its body or
with the return, an ISR call followed by its pump.  A check may also call the
ISR itself, with no pump, and clear or reset the capture.

`initialised`, `asked`, `requests` and `tainted` only record: whether the init code
ran, and if so whether before the last `reset_student_init`, how many bodies the
call under way asked for, how many prints were requested in the window, and
whether the window saw an ISR call that the pump did not make.

### Firmware and PatchedProgram

A program is the sequence of `main`'s statements: effects outside `main`, a variable
of `main`'s own that is cleared or counted, traps (calls that end in an endless loop
of their own, as fault handlers do) and loops, which say how they are spelled.
`Firmware` runs it as the target does: the statements, then the loop for ever.
`PatchedProgram` has an action for the build (what the two substitutions of
`patch_student_source.py` leave, and whether C's label rules accept it), for the
driver's entry with a number of passes, whose frame holds any value, for
the guard, for a statement, for the loop's condition and body under the counter of
`GRADER_MAIN_LOOP`, and for the return.  `meant` records the value that `main`'s variable
has in the program as written; `Written` maps the patched program's position to
`Firmware`'s.

`Conforms` is the contract of `docs/architecture/cooperative-driver.md`, made
precise: one `while(1)` at the end of `main`, no other endless loop, no trap that is
entered, nothing kept in a variable of `main` between passes (which the document does
not say), and no text like `main`'s head in an earlier comment.

### SpibWatchdog

`hw3.cpp:53` starts a thread that writes `RXFFST` = 7, 4, 1, 1, … five times
each and then 0, 2 ms apart, while the test thread runs `setupSpib`: three
writes of bits of the same register, then busy-waits for 7, 4, fourteen times
1, and 0.  A bit-field write is a load and a store (`wd_word` and `st_word` are
what each thread loaded).  Two constants choose the build and the scheduler:
`Reloads` (each turn of a busy-wait reads the register again, as unoptimised
code does) and `Timely` (between two writes, 2 ms apart, the test thread gets
as far as it can).

### GraderProcess

The first check of HW3's grader starts the watchdog (`CheckInitialization`) and then
enters the student's `main` through the driver; `setupSpib` is part of the init code
(`SetupSpib`), the rest of which runs once it has returned (`InitReturns`), and the
check joins the watchdog (`JoinWatchdog`) before other checks call the driver
(`LaterCheck`).  In the graders of the other suites (`suite`) there is no second thread and
the checks call the driver from the start.  The watchdog is started once: if
`reset_student_init` made `main` run its init code again, that would wait for ever.

### GradePipeline and ReportLedger

`pushed[c]` is the source of the c-th commit: which rows (assignments) it
changes and how each row's grading ends (`pass`, `fail`, `crash`, `nobuild`).
`version`, `report` and `history` are the branch's tip; `runs[c]` is the run
that the c-th push started.  Actions: `StudentPush`, `Dispatch` (a run from the web
page, `force-all`), and for each run `Select`, `GradeLeg` (per row),
`CheckoutBranch`, `Render` (merge and history), `PushReport` (the branch has
not moved), `PushRejected`.  `patient` records whether the student has so far
waited for each run to end before pushing.

`Conclusion` is the colour of a run whose push was accepted.  A leg that failed makes it
red; a failed check does not.  `Render reports` has no `shell:` key and so runs under
`bash -e`: when `render_report.py` exits 1 its script ends before it writes the output `rc`,
the step is `continue-on-error`, and `Fail job if any check failed` compares the missing
output with `'0'`.  GitHub evaluates a missing output to null and compares operands of
different types as numbers, where both are 0, so the step is skipped.

`ReportLedger` is what a reader of the report is promised: one atomic action
that merges a run's results into exactly what was published before, appends
one history entry and keeps the last `HISTORY_LIMIT`.  `LedgerSpec` in
`GradePipeline` maps the branch's report and history, and the set of runs whose
push was accepted, to the ledger's variables.

### ReportFolder

The renderer seen by one student whose pushes are graded one at a time, with
the manifest changing between pushes.  A manifest is a sequence of
`(id, folder)` rows; ids may repeat, folders may be equal or have the same
slug.  `SlotOf` is `assign_slots`; `Attribute` is the sidecar, or the fallback
when there is none; `Aggregate` and `Files` are the per-id JSON with its
`runs`; `index` is `index.json`.  `graded` records the gradings that took place.

### Validator, Expectations, the suites

`Validator` has an action per check run (with any return code of `Codes`), one
for a check that dies of a signal, which no C++ handler catches, and one that
writes the report, or fails to open it, and exits.

`HwSuites` gives that loop the checks of one assignment: `student` is a program,
`machine` the registers and globals it shares with the checks.  Each check is an
operator of `Hw1Checks` … `Hw5Checks` that maps the two to a verdict and the machine
it leaves, priming calls, sub-checks, snapshot and restore included.  An HW1 program is
described by what its ISRs and its main loop do (periods, which buttons it looks
at, at which edge and when, which LEDs it drives, how often and in which format it
prints, how `saturate` is wrong, if it is); one of HW2–HW5 also by the
register structs it configures (`zero`, `asked`, `other`) and the weak symbols it
does not define.

`Expectations` has the tracker of `state_checker.h` as a function from names to
comparisons, `ByReference` (looked at when `validate` is called) or `ByCopy` (taken when
registered), so the order of registering, restoring and validating in each check
matters as it does in the code.

`Conforms` is what the assignment asks, as the comments of the suite quote it, and
`PassingProgramsAreSound` names the mistakes the suite is for.

Within a check the main-loop pump is used in closed form
(`Expectations!Requests`, the number of multiples of the print period in a
window).  `PumpLosesNoPrint`, proved in `MainLoopDriver_proofs`, is what allows
it: under the pump every request becomes one captured print or is still pending.

### FormatParser

A format is a sequence of characters, written fragment by fragment (`Write`), and
every beginning of it is a state; `parsed` is what `recordPrintfCall` would then store,
`expected` what `expect_format` makes of the required one.  `Skip` is how far an inner loop
of `parse_format` gets, `PartEnds` where the parts of a specifier end, `Segment` a turn
of the outer loop and `SegmentsFrom` the loop: the segments in order and, last, the
error if there is one.  It is a recursive function of the position.  `format_spec_canonical`, `format_specs_equivalent`, `expected_arg_type`,
`expect_format` and `expect_arg_types` follow the functions of those names.

### Navigation

`heading` is the robot's true heading, in whole degrees, not reduced; `QPOSCNT` the
two 32-bit encoder registers (here of `2 * Half` counts), which `TurnRobot` moves.
`Packet` is Motive's next frame, tracked, on an axis, zeros or NaN.  `Correct` is a call of
`UpdateOptitrackStates` with an estimate that is off by one of `Errors`; the robot may
have turned on and packets may have been lost or be seen twice.  `UsePose` is a
caller that steers by the pose with `xy_control`, whatever the way point.  `calls`,
`measured`, `seen` and `unread` record what was true.

The caller is external to `src/`, and the model assumes three things of it: it clears the
flag before each call (the code only ever sets it), it calls only after a first
packet (else the id 0 is latched), and its estimate is less than a quarter turn off.  Without
the first, `PoseIsMeasured` fails on the uninitialised pose that is returned when the
robot is not tracked (`OptiTrack.c:139,142`); without the second, `AlarmsAreGenuine` fails.

## What is checked

| run | module, configuration | what it shows | distinct states |
|---|---|---|---|
| `process` | `GraderProcess` | HW3's process with every interleaving of its two threads, the others', and any order of driver calls, ISR calls and capture resets | 684 077 |
| `driver_reset` | `MainLoopDriver`, `DriverReset` | violation: see below | |
| `patched` | `MCPatchedProgram` | every shape of program, patched, compiled and entered in any way | 53 449 |
| `spib_release` | `SpibWatchdog`, `SpibRelease` | violation | |
| `pipeline` | `GradePipeline`, `MCGradePipeline` | two overlapping runs, two rows, all outcomes | 164 930 |
| `pipeline_overlap` | `GradePipeline`, `PipelineOverlap` | violation | |
| `pipeline_green` | `GradePipeline`, `PipelineGreen` | violation | |
| `report` | `MCReportFolder` | three commits over five manifests | 1 849 |
| `report_failed_row` | `MCReportFolder`, `ReportFailedRow` | violation | |
| `suites` | `MCHwSuites` | 1 749 programs through the five suites | 14 797 |
| `formats` | `MCFormatParser` | every format of up to five fragments | 354 312 |
| `navigation` | `MCNavigation` | turns, packets, corrections and way points in any order | 2 123 459 |

Each run of a machine checks one type invariant; the properties with content are these.

**process.** `InitRunsWhenDue`: init code that has run does not run again without a
`reset_student_init` in between, has run when the driver
reports it, and comes before every loop body.  `IterationsAsAsked`: each return
from `main` has run the body as often as the driver was asked for this call, not
for an earlier one.  `CaptureInOrder`: indices are positions and times never
run backwards, across resets.  `NoPrintLost`: in a window where only the pump
calls the ISR, requests equal captured prints plus the pending one; it fails
for an ISR called without the pump, which is why the window records that.
`DriverCallsReturn`: every call comes back to the check.  `NotOvertaken`: the level the
watchdog shows has never passed the one `setupSpib` waits for.  `InitCompletes`: init
returns and the watchdog is joined.

**patched.** `RunsAsWritten`: a refinement of `Firmware`, step by
step, for programs that conform.  `EntriesReturn`: a program that builds and spells all
its endless loops `while(1)` returns from every entry; one with a `for(;;)` besides
does not.

**pipeline.** `Traceable`: every entry of the report holds the verdict on the
source of the commit it names, for a row that run graded.  `GreenRunsPublish`:
as a run ends green every row it selected has been built and each verdict it reached is in
the report of the branch.
`PatientReportIsCurrent`: if the student waits for each run to end before
pushing again, the report shows the newest gradable source of every row once
all is quiet.
`LedgerSpec`: the refinement, which excludes lost updates of what was
published.  `RunsEnd`: every run ends.

**report.** `Attributed`: each entry of each file names a slot, folder, commit
and verdict that were graded together.  `SiblingsKept`: an aggregate never loses
a row's result, save to a newer one of that slot.  `IndexShowsManifest`: the
index counts exactly the newest result of each row of the manifest.

**suites.** `ConformingProgramsPass`, `PassingProgramsAreSound`.
`EachVerdictIndependent`: in HW1 each check gives the verdict it would give right
after the initialisation.  `VerdictsIndependent`: in every suite the exit code is
what the checks would give one by one.  It is stated for
programs whose counters the checks know (`KnownState`): a program that counts
in a static of its own meets HW3's format check, which feeds fewer interrupts
than the print period, with whatever phase the cadence check left.
`StateRestored` (HW1): every check after the first leaves the registers and
globals as it found them; the student's own statics and the capture excepted.
`ExitAgreesWithReport`: exit status 0 exactly when a written report records every
check as passed, and never after a crash.

**formats.** `ParsesTheGrammar`: the parser, which never goes back, accepts exactly the
formats that can be divided into text and specifiers in some way; the reference
definition (`IsFormat`, `IsSpec`) quantifies over all divisions.  `SegmentsTile`: no character is lost
or read twice.  `MismatchesShow`: the form shown in a message reads back as an equivalent
specifier, and two specifiers look the same exactly if they are equivalent.
`SpacingIgnored`: a space changes no verdict of `expect_format`, and no text around the
specifiers one of `expect_arg_types`.
`SuitesAbstraction`: the names of specifiers that the suites' models use mean
what the parser makes of them, which ties `Expectations` to `FormatParser`.

**navigation.** `EncodersFollow`: to within a count, through every change of sign.
`PoseIsMeasured`: a flagged pose has the true heading, turns included, of the moment the camera
saw the robot.  `AlarmsAreGenuine`: both counters count what they claim to.
`SteersTheShortWay`: seen from the measured heading, the turn is the shorter one, and a
near way point is approached from the side it lies on.

### Bounds, and why they are enough

- `process`: `PrintEvery` = 2 gives windows with and without a request and a
  counter at both phases; `MaxIters` = 3 lets a left-over count be smaller and
  larger than the next one; `MaxCount` = 4 ISR calls in a window let a
  request be merged and separated.  Resets are unbounded, so calls of every
  kind follow each other in any order.  `Period` only scales times.  The watchdog's table
  and the busy-waits are those of the code.  `driver_reset` needs one iteration.
- `spib_release`: nothing is bounded.
- `pipeline`: two pushes are what a race takes, two rows what a partial regrade
  takes; `HISTORY_LIMIT` = 1 puts every second append at the cap.  The theorems
  drop all three bounds.  `pipeline_green` needs one row.
- `report`: with three commits a row is graded, left alone and graded again, and a
  manifest is edited and edited back.  Repeated ids are covered distinct, with
  equal folders, and with folders of one slug.  In the passing run edits remove
  rows only where ids are unique, and gradings of repeated ids do not fail: with a
  failure `Attributed` is violated (`report_failed_row`), and with a row of a
  repeated id removed `IndexShowsManifest` would be, since the aggregate keeps
  it (`tools/render_report.py:548`).
- `patched`: loop bodies of two statements have every order of clearing and counting a
  variable; up to two statements before the loop and one after it give every
  position of a second loop, a trap or a missing label; two passes per entry and any number
  of entries.  `Wrap` = 3 tells a stale value from a right one.  The theorems drop the bounds.
- `formats`: five fragments make two whole specifiers, or one with every part
  and text around it; every fragment set contains the characters that fit two
  parts of a specifier (`0`, `h`, `l`).
- `navigation`: headings up to a turn and a half either way, turned by steps that
  land on 0, 60, 120 and 180 degrees; estimates 89 degrees off; two packets and
  three calls, which is what a lost packet, a repeated one and a changed id
  take.  `Half` = 1024 stands for 2^31.  The theorems drop these bounds, except
  that headings stay inside the register's range.
- `suites`, HW1: all 216 timer-ISR designs (level, press and release edges, on every tick
  or at the boundary, either initial static, LED periods inside, on and outside
  the window, wrong LEDs), the products of periods, print rates and formats, and
  the products of the rest; and `student_work/LABstarter_main.c`.
- `suites`, HW2–HW5: every deviation of one register struct, every missing symbol (every
  set of them for HW5), both sides of every window's edge, and the
  products of the variations that meet in one check.
- `CHECK_DEADLOCK FALSE` wherever the program may stop: a grader exits, a thread
  is joined, a student stops pushing or writing, a program is rejected by the
  compiler.  `process` checks deadlock.

### Fairness

- `process`: weak fairness of `CheckThread` and of `Watchdog`, as the host's scheduler
  gives to two threads.  `CheckThread` is HW3's first check, which
  the validator always runs, and the steps of the thread inside a driver call; which call a
  later check makes is not fair: it may make none.  The watchdog's
  2 ms sleeps are not fairness but the assumption `Timely`: with
  `Timely` = FALSE `NotOvertaken` fails, since a test
  thread descheduled for 10 ms misses a level.
- `patched`: weak fairness of `InMain`: the same single thread, inside `temp_main`.  The
  next entry is not fair.
- `spib_release`: weak fairness of each thread.
- `pipeline`: weak fairness of each run's steps: GitHub runs the jobs it queued.
  Pushes are not fair.
- The rest is safety only.

## What is proved

TLAPS checks 45 theorems, for every value of the constants.  They state every invariant
and every safety property over steps that the passing runs check.  For each of the
four liveness properties, which the prover cannot state a proof of, a theorem gives a
measure that every step under way lowers (the idle turns of a busy-wait leave it).

| theorem | statement |
|---|---|
| `MainLoopDriver_proofs`: `TypeCorrect`, `InitWhenDue`, `CaptureOrdered`, `PumpLosesNoPrint`, `BodiesAsAsked` | the driver's invariants and its action property, for every period, print rate, iteration count and window |
| `MainLoopDriver_proofs`: `CallsAreBounded` | a call makes at most 5n + 3 steps, each leaves fewer, and the thread is in the check exactly when none is left |
| `PatchedProgram_proofs`: `TypeCorrect` | the types, for any set of programs of any length |
| `PatchedProgram_proofs`: `RunsAsOnTheTarget` | `Spec => RunsAsWritten`: the refinement of `Firmware` |
| `PatchedProgram_proofs`: `EntriesAreBounded` | if every loop of `main` is spelled `while(1)`, each step of an entry lowers a lexicographic measure, for any program |
| `SpibWatchdog_proofs`: `TypeCorrect`, `NeverOvertaken` | the types for every build and scheduler; `NotOvertaken` under `Reloads` and `Timely` |
| `SpibWatchdog_proofs`: `ProcessImplementsDriver` | `ProcessSpec => Spec`: a process with the second thread is a `MainLoopDriver`, and has all its properties |
| `SpibWatchdog_proofs`: `ProcessNeverOvertaken` | `NotOvertaken` in the whole process, under `Reloads` and `Timely` |
| `SpibWatchdog_proofs`: `InitIsBounded` | under the same two, 126 steps besides idle turns of a busy-wait end the check's wait, and such turns happen only while the watchdog has a write to make |
| `SpibWatchdog_proofs`: `OptimisedNeverReturns` | without `Reloads`, `setupSpib` returns in no behaviour |
| `GradePipeline_proofs`: `TypeCorrect`, `EntriesAreTraceable` | the pipeline's invariants, for any rows and any number of overlapping runs |
| `GradePipeline_proofs`: `ImplementsLedger` | `Spec => LedgerSpec`, the refinement |
| `GradePipeline_proofs`: `PatientSeesCurrent`, `PatientNeverRejected` | `PatientReportIsCurrent`, and that no push of such a student's runs is rejected, for any number of pushes and rows |
| `GradePipeline_proofs`: `RunsAreBounded` | if the manifest is finite, a run makes at most a step per row and four more, whatever runs it overlaps |
| `GradePipeline_proofs`: `GreenMeansDelivered` | `GreenRunsPublish`, for any overlap of any number of runs |
| `ReportFolder_proofs`: `TypeCorrect` | the types of the report's folder, for any manifests, edits and outcomes |
| `ReportFolder_proofs`: `EntriesAreAttributed` | if rows of a repeated id do not fail, `Attributed`, likewise |
| `ReportFolder_proofs`: `SiblingsAreKept` | if edits leave repeated ids repeated, `SiblingsKept`, likewise |
| `ReportFolder_proofs`: `IndexFollowsManifest` | `IndexShowsManifest`, under three hypotheses given below |
| `HwSuites_proofs`: `ExitAgrees` | if the checks return 0 or 1, `ExitAgreesWithReport`, for any list of checks |
| `HwSuites_proofs`: `SuitesImplementValidator`, `SuitesExitAgree` | each of the five suites' runs refines the validator's loop, hence inherits `ExitAgrees`, for any set of programs, crashes included |
| `HwSuites_proofs`: `SuitesTypeCorrect` | the machine stays one of its assignment, whatever a check does to it |
| `HwSuites_proofs`: `ConformingPass`, `PassingSound` | no suite fails a program that conforms or passes one with the mistakes it is for |
| `HwSuites_proofs`: `OrderDoesNotMatter`, `NoHiddenCoupling`, `ChecksRestore` | `VerdictsIndependent`, `EachVerdictIndependent`, `StateRestored` |
| `FormatParser_proofs`: `NothingIsLost`, `GrammarIsParsed`, `SpacingIsIgnored`, `MismatchesAreVisible`, `NamesStandForFormats` | `SegmentsTile`, `ParsesTheGrammar`, `SpacingIgnored`, `MismatchesShow`, `SuitesAbstraction`, for every format of any length |
| `Navigation_proofs`: `TypeCorrect`, `EncodersFollowTheWheels`, `PosesAreMeasured`, `AlarmsCountGenuinely`, `SteersRight` | the invariants of the course library, for any turns, bodies, way points, thresholds and register width |

**Driver.** Assumptions: `Period` and `PrintEvery` positive, bounds natural.
The inductive invariant is `IInv` = `TypeOK` ∧ `LatchInv` ∧ `LoopInv` ∧
`HandshakeInv` ∧ `CaptureInOrder`.  `InitRunsWhenDue` alone is not inductive:
`LatchInv` adds that the student's latch is set exactly from the first passage
of the guard on, and where the thread is meanwhile.  `LoopInv` relates the
loop variable to what was asked while `main` runs; `HandshakeInv` says that in an
untainted window a request is pending only between the ISR and the body that
serves it, without which the ISR could overwrite one.

`CallsAreBounded` counts the steps of the call under way: `StepsOfDriving`, five for each
turn the ISR driver has left and one for the end of its loop, and `StepsOfMain`, from
`LoopInv`, for the entry in progress.  It needs `DrivingInv`: between calls no ISR is being
driven, so that a `ticks` left over counts for nothing.

**Patched program.** Assumptions: `ProgramsAssumption` (`main` is a sequence of
statements), `Wrap` positive, `MaxIters` natural.  `IInv` = `TypeOK` ∧ `BuiltInv` ∧
(`Conforms` ⇒ `Standing` ∧ `ClearedIsMeant`).  The refinement alone is not inductive: a
step shows the value of `main`'s variable, which is right only because a conforming
program has cleared it in this entry or this pass.  `ClearedIsMeant` says so for each
position, and `Standing` that the init guard is set whenever `main` is past it, so
that an entry resumes at the loop and nowhere else.

`EntriesAreBounded` needs no contract, only the hypothesis of `EntriesReturn` (`Spelled`).
The measure is lexicographic, the statements of `main` left (`Place`), the passes of the
loop (`Passes`), the statements of the pass (`Rest`), because a loop's end resets the
count of passes.  `PassInv` keeps `Passes` a natural number: a pass once begun is one
of those asked for.

**SPI-B.** `NeverOvertaken` assumes `Reloads` = `Timely` = TRUE.  `IInv` = `TInv` ∧
`FirstWrite` ∧ `FedOnDemand` ∧ `NotPast`: of the 51 writes only the first may come before
the busy-waits (the only one the setup's bit fields can undo, and it is repeated four times); a
write under way finds `setupSpib` waiting for another level; and the level it
waits for was written last or is still to come.

`InitIsBounded` adds up both threads' loads and stores, the turns that end a busy-wait and the
join (`StepsLeft`); a turn that finds another level (`Spin`) leaves the sum as it is.
By `NotPast` no such turn is left once the watchdog has exited (`NoneToSpin`), so a
spinning test thread always has a write to wait for.  `OptimisedNeverReturns` is the
converse for `Reloads` = FALSE: `ReadOnce` says that the second busy-wait compares
with the 7 that ended the first.

A step of `GraderProcess` is one of `MainLoopDriver` and none of the threads, or one of
`SpibWatchdog` and none of the driver (`StepOfOne`).  Hence the refinement; and hence the
invariants of the threads, which `ThreadsOver` satisfies as well (`TimelyAtFirst`,
`TimelyStep`), hold in the process.

**Pipeline.** Assumptions: `HISTORY_LIMIT` positive, `MaxPushes` natural,
`NoResult` not a result.  `IInv` = `TypeOK` ∧ `Started` ∧ `Traceable` ∧
`RunOK(c)` for every run.  `Traceable` needs `RunOK`: a run's working copy and its
rendered report must be traceable before the push makes them the branch's, and a
working copy whose version equals the branch's holds the branch's report and
history.  The last part is what the refinement uses: at an accepted push the
merge was done into exactly what is published.

`PatientReportIsCurrent` speaks of quiet moments only, so `PatientInv` says what holds
before: for a patient student only the newest commit's run is under way, the branch waits
between its checkout and its push, and `Shown`: a row whose newest finished run gave
it a verdict shows that verdict.  When all is quiet the newest finished run of a row is the run of its
last change.  The run of a push keeps a row's old result only if the row was
not selected or its grading gave none, which is what `Complete` is for: a run selects exactly the rows the
commit changed (all, after a dispatch) and renders only when every one is graded.

`RunsAreBounded` assumes `IsFiniteSet(Row)`.  Its measure counts the queued legs
(`StepsOf`); `OneLegLess` is the step that needs it, and `AnothersStep` and `StartOfRun` say
that nobody else's step touches a run.  `GreenMeansDelivered` has `LegsAreOver`: every
selected row has a leg, and none is queued once the report is rendered.  A run that becomes green
has either selected nothing or had its push accepted, and then its working copy was the branch's report
with its verdicts merged in.

**Report.** `TypeCorrect` has no hypothesis.  `EntriesAreAttributed` assumes
`RepeatedNeverFail`, that a row fails only in manifests without repeated ids: there the
fallback of a missing sidecar finds the row itself.
`report_failed_row` shows the hypothesis is needed.  `SiblingsAreKept` holds for repeated
ids as well, with `RepeatedStayRepeated`: `AggregateInv` says that `<id>.json` is an aggregate
only while the id has several rows (otherwise the next slot file of that name
would overwrite it) and that its results are of this id and of no later push.

`IndexFollowsManifest` adds two hypotheses about edits.  `RepeatedStand`: a manifest
with repeated ids is not edited, since an aggregate keeps the rows that are gone.
`IdsKeepFolders`: among the others an id stays with its folder, since `<id>.json` of
an id that moves to another folder is not removed, and as long as no grading of the new folder leaves
a JSON the index counts the old folder's result.  `report`'s instance satisfies
all three.  `IndexInv` has, for every id, exactly which gradings the file's `runs` are
(`Latest`: the newest of each slot of the manifest), and that a slot belongs to one
folder; the index then is a count of it.

**Validator** (in `HwSuites_proofs`). `ValidatorInv` = `Progress` ∧ `ResultIsConjunction` ∧
`ReportComesLast` ∧ `ExitAgreesWithReport`.  The assumption `Codes` ⊆ {0, 1} is
what makes the bitwise and of the codes the conjunction of the verdicts; every
check in the suites returns 0 or 1.

**Suites.** `StudentsAssumption` is the shape of the programs (`IsStudent` of each of
`Hw1Checks` … `Hw5Checks`): any natural period, range and full scale, any positive print
rate, any set of pins, any format, any class of every register struct, any set of missing symbols.  Nothing
else is assumed of them.  The argument has two halves.

- *What one check decides.*  For HW1, the state after n calls of an ISR is found in a
  closed form.  `CallsEnd` says that a chain of machines, each of which one call takes to
  the next, ends where the calls end; it rests on `LeastElement` (two
  sequences that first differ at k do not differ at k - 1), since the library's induction takes an
  operator as a parameter.  From it follow the state and the verdict of each of the
  seven checks; for HW2–HW5, where the interrupt's effect is already in closed
  form, the same check by check.
- *What a run of checks does.*  `Passes(student, k)` is the verdict of the k-th check
  as a condition on the program alone, and `Reaches(student, k, m)` what the first k
  checks may leave.  `CheckGives` joins the halves: in a machine that k checks reach, check k + 1
  gives `Passes` and leaves a machine that k + 1 checks reach.  `SuiteInv` =
  `ValidatorInv` ∧ `MachineReached` ∧ `VerdictsRecorded` ∧ `EndsAsItShould` is then
  inductive, and the theorems compare `Passes` with `Conforms`, with `Sound` and with
  the verdict after the initialisation.

Not every verdict is a condition on the program: where a program of HW2 or HW3 lacks a
symbol that the scaling check reads, that check fails (or dies) early, and what the print checks
after it say is not `Decided`.  The exit code is, since one check failed.

**Navigation.** `NavigationAssumption`: estimates less than a quarter turn off, headings
inside half the register's range.  `IInv` = `TypeOK` ∧ `EncoderInv` ∧ `PacketInv` ∧
`PoseIsMeasured`: the registers hold the heading modulo their range, and the last
packet, if usable, reads `measured` up to whole turns.  `AlarmInv` relates the
filter's statics to the calls so far: the last frame read is the present packet's exactly
if that packet has been read (`unread`), and the latched id is the first call's.  `UnwrapIsExact` does the sixteen
cases of the pose filter, `TurnErrorIsShort` the controller's wrap.

**Formats.** `FragmentsAssumption`: fragments and required formats are sequences of
strings.  (The provers do not know that `"%"` is a string; `Char` adds the
characters the model names.)  The invariant `TypeInv` only says that `parsed` and `expected` are what
`parse_format` makes of `fmt` and `required`; the rest is about what `parse_format`
computes, by induction over the positions of the format.  The library's induction
theorems take an operator as a parameter, so each induction argues from the least position
that would be a counterexample (`LeastElement`, `Upward`, `Downward`).  The same argument
shows that each recursive function the model uses has a solution, without which
nothing can be said of its values (`LoopEnds`, `UpToIs`, `NumberToIs`, `DecimalToIs`).

- `SegmentsTile`: a segment is never empty and ends inside the format (`SegmentStays`), so the
  loop ends, and what it collects from a position on tiles the format from there
  (`ParseTiles`).
- `ParsesTheGrammar`: `DivisionIsGreedy` is the reason the parser need not go back: what follows
  a part of a specifier is none of that part's characters, so there is one division,
  and the parser finds it.  `Accepts`, the positions from which the parser succeeds,
  then solves the recursive equation of the grammar, and the equation has one solution
  (`GrammarIs`, `AcceptsTheGrammar`).
- `SpacingIgnored`: a specifier reads the same wherever it stands (`SpecMoves`); text
  inserted where a segment starts only lengthens a literal (`TextRun`) or adds one; so the
  lists of specifiers agree (`InsertionAgrees`), and the two checks look at nothing else.
  `TextAt` says it for any text without a `%`.
- `MismatchesShow`: the decimal digits of a number read as that number and start with a 0
  only for 0 itself (`DecimalIs`), which matters because a 0 before a width is a flag.  The
  fields of every specifier the parser reads lie in the ranges the grammar allows
  (`SpecIsGood`), so each part of the canonical form divides where it was written
  (`WidthReads`, `PrecisionReads`, `ModifierReads`), and by `DivisionIsGreedy` the parser finds
  that division (`CanonicalReads`).  Two specifiers of the same form are then both
  equivalent to what it reads as.
- `SuitesAbstraction`: `Names` relates a name to its precision, length and conversion; its spelling
  is the canonical form of these fields (`NamesAreShown`), which therefore reads back as them
  and nothing else (`NamesAreRead`).  No two names have the same fields (`NamesAreUnique`), so
  comparing names is comparing specifiers.

Left to TLC: liveness as such (`DriverCallsReturn`, `EntriesReturn`, `InitCompletes`, `RunsEnd`).
That a step which may be taken is taken is fairness, and that one may be taken is ENABLED, and both
are out of this prover's reach; what is proved is that there cannot be infinitely many
steps, the idle turns of a busy-wait apart.  No module uses a `RECURSIVE` operator.

## Where the code and its documents disagree

Each of these is a run whose property states what a document or comment says and
which TLC violates.

| run | what happens |
|---|---|
| `driver_reset` | `reset_student_init` clears the driver's flag, not the latch in the student's `main`: the next `run_student_init` reports the program initialised without re-running its init code |
| `spib_release` | `SpibRegs` is not volatile and the workflow builds with `Release`: the busy-waits of `setupSpib` may never see the watchdog's writes |
| `pipeline_overlap` | a push during a run: the run's report is rejected and dropped, or a slow old run overwrites a newer result; no later run repairs it |
| `pipeline_green` | failures do not turn a run red, in two ways, of which the trace has one run each: the status of `render_report.py` is lost under `bash -e` exactly when a check failed, and nobody reads the status of a grader that dies before writing its JSON (whose row also keeps its old report) |
| `report_failed_row` | the grade step runs under `bash -e`: a failing grader writes no sidecar, and a failing row of a repeated id is attributed to the id's first row |

`pipeline_green` rests on GitHub's comparison of a missing output, as described under
[GradePipeline](#gradepipeline-and-reportledger).

Met while modelling, without a run of their own; the modules follow the code:

- `hw3.cpp:270`: the window [4, 14] does not cover "5 events × {1, 2, 3} prints each".
- `docs/contributing/common-gotchas.md:28` wants static text other than whitespace to match; the code
  and `docs/contributing/using-expectations.md:17` do not.  `SpacingIgnored` leaves out that
  disputed case, the verdict of `expect_format` on a format whose text differs in more than spaces.
- `docs/contributing/common-gotchas.md:85`: a fixture that writes `for(;;)` "will compile"; the
  guard's `goto` then has no label, and it does not (`Compiles`).
- `OptiTrack.c:43`: "check if x,y,yaw all equal 0.0"; the code drops a pose when one of them does.
- `SE423Lib.c:148`: "never true" is true of every negative count, and 2^32 − 1, not 2^32, is
  subtracted: what `EncodersFollow` allows is that one count.

## What is not modelled

- *Text.* Messages, hints, markdown, badges, JSON escaping: conversions without
  state, and no property is about them.
- *Floating point.* `MatrixMath.c`, the PI controllers and the motor PWM of `SE423Lib.c`:
  no check calls them, and TLA+ has no floats.  Where the suites or `Navigation` compare
  or add floats (ADC and IMU scaling, `saturate`, servo duty, headings) the models use scaled
  integers and exact arithmetic; rounding is outside them, as is the arctangent of
  `xy_control`.
- *Generated code.* `generated.cpp` and `compare_generated.cpp`, 45 000 lines, compare
  registers field by field; they appear as equality of a struct's class in
  `Expectations`.  They and the vendored `lib/` are nine tenths of the code in the repository.
- *Formats.* A width beyond an `int` (`format_parser.cpp:110`); the argument that a `*` takes
  is not counted, as it is not in the code.
- *Rendered prints* and their truncation at the buffer's size, the filters of the
  capture by port, lidar frames and FIFO depth in the stimulus, LED patterns, lidar globals.
- *The self test*, the unit tests, the code generators, argument parsing, caching and
  dependency installation in the workflow.

## Plan

Done, in this order:

1. `MainLoopDriver` and its proofs: everything else rests on it.
2. `SpibWatchdog`, the only true concurrency inside the process, `GraderProcess`, and their
   proofs.
3. `GradePipeline`, `ReportLedger` and the refinement.
4. `ReportFolder`: repeated ids and changing manifests.
5. `Validator` and its proofs.
6. `Hw1Checks` … `Hw5Checks` over `Expectations`, with the tracker by reference and by copy;
   `HwSuites`, refined to `Validator`.
7. `Firmware`, `PatchedProgram` and the refinement.
8. `Navigation`: encoders, pose filter, way points, and its proofs.
9. `FormatParser`, against a declarative definition of a specifier.

Left:

10. Selection: unknown or unreachable previous commit, first push, rewritten history.
