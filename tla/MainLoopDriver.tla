--------------------------- MODULE MainLoopDriver ---------------------------
(***************************************************************************)
(* The cooperative main-loop driver (main_loop_driver.cpp) together with   *)
(* the two macros that tools/patch_student_source.py weaves into the       *)
(* student's main (ti_stubs.h), the student's print handshake (UARTPrint   *)
(* set by an ISR, consumed by the main loop), the synthetic clock and the  *)
(* printf capture.                                                         *)
(*                                                                         *)
(* Everything runs on one thread.  `at' says where that thread is:         *)
(*   "check"  in the body of a check, between two calls of the driver      *)
(*   "drive"  in the for loop of drive_isr_with_main_pump or of            *)
(*            run_isr_for_us                                               *)
(*   "main"   on entry of temp_main, at GRADER_MAIN_INIT_GUARD             *)
(*   "init"   in the student's initialisation code                        *)
(*   "loop"   at the head of GRADER_MAIN_LOOP                              *)
(* A check may make any call in any order: the properties are about every  *)
(* client of the driver, not about one list of checks.                     *)
(***************************************************************************)
EXTENDS Naturals, Sequences

CONSTANTS
  Period,     \* microseconds between two calls of the ISR
  PrintEvery, \* the student's ISR sets UARTPrint on every PrintEvery-th call
  MaxIters,   \* bound: largest argument of step_main_loop and of the pump
  MaxCount    \* bound: largest value of the timer's InterruptCount

ASSUME PeriodAssumption     == Period \in Nat \ {0}
ASSUME PrintEveryAssumption == PrintEvery \in Nat \ {0}
ASSUME BoundsAssumption     == MaxIters \in Nat /\ MaxCount \in Nat

VARIABLES
  g_iters,        \* the iteration count the student's loop reads
  g_inited,       \* run_student_init has completed
  grader_inited,  \* the static latch inside the student's main
  grader_i,       \* loop variable of GRADER_MAIN_LOOP
  at,             \* where the thread is, see above
  caller,         \* which driver function entered temp_main
  driving,        \* which of the two ISR drivers is active
  ticks,          \* ISR calls it still has to make
  InterruptCount, \* the timer's counter
  UARTPrint,      \* the print request flag
  clock,          \* the synthetic clock, in microseconds
  calls,          \* g_printfCalls
  (* history variables: read by properties only *)
  initialised,    \* the student's init code: "no", it never ran; "yes", it ran;
                  \* "stale", it ran before the last reset_student_init
  asked,          \* loop bodies the active driver function asks for
  requests,       \* print requests raised since the capture was cleared
  tainted         \* since then, an ISR ran outside the pump, or a request was
                  \* already pending when the capture was cleared

control == <<at, caller, driving, ticks>>
student == <<grader_inited, grader_i, InterruptCount, UARTPrint>>
capture == <<clock, calls>>
history == <<initialised, asked, requests, tainted>>
vars == <<g_iters, g_inited, control, student, capture, history>>

Locations == {"check", "drive", "main", "init", "loop"}
PrintfCall == [synthetic_timestamp_us : Nat, sequence_index : Nat]

Init ==
  /\ g_iters = 0 /\ g_inited = FALSE
  /\ grader_inited = FALSE /\ grader_i = 0
  /\ at = "check" /\ caller = "none" /\ driving = "none" /\ ticks = 0
  /\ InterruptCount = 0 /\ UARTPrint = 0
  /\ clock = 0 /\ calls = <<>>
  /\ initialised = "no" /\ asked = 0
  /\ requests = 0 /\ tainted = FALSE

-----------------------------------------------------------------------------
(* The driver's interface, called by a check. *)

EnterTempMain(by, iters) ==
  /\ g_iters' = iters /\ asked' = iters
  /\ at' = "main" /\ caller' = by

\* Mutant: run_student_init forgets `g_iters = 0'.
RunStudentInit_KeepsIters ==
  /\ at = "check" /\ ~g_inited
  /\ asked' = 0 /\ at' = "main" /\ caller' = "run_student_init"
  /\ UNCHANGED <<g_iters, g_inited, driving, ticks, student, capture,
                 initialised, requests, tainted>>

\* run_student_init() returns at once when the driver's own flag is set.
RunStudentInit ==
  /\ at = "check" /\ ~g_inited
  /\ EnterTempMain("run_student_init", 0)
  /\ UNCHANGED <<g_inited, driving, ticks, student, capture,
                 initialised, requests, tainted>>

StepMainLoop(n) ==
  /\ at = "check" /\ n > 0
  /\ EnterTempMain("step_main_loop", n)
  /\ UNCHANGED <<g_inited, driving, ticks, student, capture,
                 initialised, requests, tainted>>

ResetStudentInit ==
  /\ at = "check"
  /\ g_inited' = FALSE
  /\ initialised' = IF initialised = "no" THEN "no" ELSE "stale"
  /\ UNCHANGED <<g_iters, control, student, capture, asked, requests, tainted>>

SetMainLoopIterations(n) ==
  /\ at = "check"
  /\ g_iters' = n
  /\ UNCHANGED <<g_inited, control, student, capture, history>>

\* drive_isr_with_main_pump (by = "pump"), run_isr_calls and run_isr_for_us
\* (by = "isr_only") start their for loop of n turns.
StartDriving(by, n) ==
  /\ at = "check" /\ InterruptCount + n <= MaxCount
  /\ at' = "drive" /\ driving' = by /\ ticks' = n
  /\ UNCHANGED <<g_iters, g_inited, caller, student, capture, history>>

-----------------------------------------------------------------------------
(* The two ISR drivers. *)

\* Mutant: the ISR counts its requests instead of raising a flag.
TimerIsr_CountsRequests ==
  /\ InterruptCount' = InterruptCount + 1
  /\ IF InterruptCount' % PrintEvery = 0
       THEN UARTPrint' = UARTPrint + 1 /\ requests' = requests + 1
       ELSE UNCHANGED <<UARTPrint, requests>>

\* The student's timer ISR, as much of it as the print handshake needs.
TimerIsr ==
  /\ InterruptCount' = InterruptCount + 1
  /\ IF InterruptCount' % PrintEvery = 0
       THEN UARTPrint' = 1 /\ requests' = requests + 1
       ELSE UNCHANGED <<UARTPrint, requests>>

\* Mutant: the turn steps the main loop zero times.
PumpTick_NoStep ==
  /\ at = "drive" /\ driving = "pump" /\ ticks > 0
  /\ ticks' = ticks - 1
  /\ clock' = clock + Period
  /\ TimerIsr
  /\ UNCHANGED <<g_iters, g_inited, at, caller, driving, grader_inited,
                 grader_i, calls, initialised, asked, tainted>>

\* One turn of drive_isr_with_main_pump: clock, ISR, one main-loop iteration.
PumpTick ==
  /\ at = "drive" /\ driving = "pump" /\ ticks > 0
  /\ ticks' = ticks - 1
  /\ clock' = clock + Period
  /\ TimerIsr
  /\ EnterTempMain("step_main_loop", 1)
  /\ UNCHANGED <<g_inited, driving, grader_inited, grader_i, calls,
                 initialised, tainted>>

\* One turn of run_isr_for_us: the main loop does not run.
IsrOnlyTick ==
  /\ at = "drive" /\ driving = "isr_only" /\ ticks > 0
  /\ ticks' = ticks - 1
  /\ clock' = clock + Period
  /\ TimerIsr
  /\ tainted' = TRUE
  /\ UNCHANGED <<g_iters, g_inited, at, caller, driving, grader_inited,
                 grader_i, calls, initialised, asked>>

StopDriving ==
  /\ at = "drive" /\ ticks = 0
  /\ at' = "check" /\ driving' = "none"
  /\ UNCHANGED <<g_iters, g_inited, caller, ticks, student, capture, history>>

\* A check calls the ISR itself, without touching the clock (check_timer0..2).
CallIsr ==
  /\ at = "check" /\ InterruptCount < MaxCount
  /\ TimerIsr
  /\ tainted' = TRUE
  /\ UNCHANGED <<g_iters, g_inited, control, grader_inited, grader_i, capture,
                 initialised, asked>>

-----------------------------------------------------------------------------
(* The patched student program. *)

\* Mutant: the latch is an automatic variable, so it never survives a call.
GraderMainInitGuard_NoLatch ==
  /\ at = "main"
  /\ at' = "init" /\ grader_i' = 0
  /\ UNCHANGED <<g_iters, g_inited, caller, driving, ticks, grader_inited,
                 InterruptCount, UARTPrint, capture, history>>

GraderMainInitGuard ==
  /\ at = "main"
  /\ grader_inited' = TRUE
  /\ at' = IF grader_inited THEN "loop" ELSE "init"
  /\ grader_i' = 0
  /\ UNCHANGED <<g_iters, g_inited, caller, driving, ticks, InterruptCount,
                 UARTPrint, capture, history>>

\* ConfigCpuTimer, called by the init code, clears the timer's counter.
StudentInit ==
  /\ at = "init"
  /\ InterruptCount' = 0
  /\ initialised' = "yes"
  /\ at' = "loop"
  /\ UNCHANGED <<g_iters, g_inited, caller, driving, ticks, grader_inited,
                 grader_i, UARTPrint, capture, asked, requests,
                 tainted>>

RecordPrintfCall ==
  calls' = Append(calls, [synthetic_timestamp_us |-> clock,
                          sequence_index |-> Len(calls)])

\* Mutant: a loop the patch script did not rewrite goes round for ever.
LoopBody_Unpatched ==
  /\ at = "loop"
  /\ IF UARTPrint = 1
       THEN UARTPrint' = 0 /\ RecordPrintfCall
       ELSE UNCHANGED <<UARTPrint, calls>>
  /\ UNCHANGED <<g_iters, g_inited, control, grader_inited, grader_i,
                 InterruptCount, clock, history>>

\* One pass of the student's while(1) body.
LoopBody ==
  /\ at = "loop" /\ grader_i < g_iters
  /\ grader_i' = grader_i + 1
  /\ IF UARTPrint = 1
       THEN UARTPrint' = 0 /\ RecordPrintfCall
       ELSE UNCHANGED <<UARTPrint, calls>>
  /\ UNCHANGED <<g_iters, g_inited, control, grader_inited, InterruptCount,
                 clock, initialised, asked, requests, tainted>>

\* The loop ends, temp_main returns, and its caller finishes.
ReturnFromMain ==
  /\ at = "loop" /\ grader_i >= g_iters
  /\ IF caller = "run_student_init"
       THEN g_inited' = TRUE /\ UNCHANGED g_iters
       ELSE g_iters' = 0 /\ UNCHANGED g_inited
  /\ at' = IF driving = "none" THEN "check" ELSE "drive"
  /\ caller' = "none"
  /\ UNCHANGED <<driving, ticks, student, capture, history>>

-----------------------------------------------------------------------------
(* The capture, as a check uses it. *)

\* Mutant: the clock is reset but the calls of the last window are kept.
OpenPrintWindow_KeepsCalls ==
  /\ at = "check"
  /\ clock' = 0
  /\ UARTPrint' = 0 /\ InterruptCount' = 0
  /\ requests' = 0 /\ tainted' = FALSE
  /\ UNCHANGED <<g_iters, g_inited, control, grader_inited, grader_i, calls,
                 initialised, asked>>

\* What a print check does first: resetPrintfCapture() clears the calls and
\* the clock, then the check zeroes the flag and the counter.
OpenPrintWindow ==
  /\ at = "check"
  /\ calls' = <<>> /\ clock' = 0
  /\ UARTPrint' = 0 /\ InterruptCount' = 0
  /\ requests' = 0 /\ tainted' = FALSE
  /\ UNCHANGED <<g_iters, g_inited, control, grader_inited, grader_i,
                 initialised, asked>>

\* clearPrintfCalls() leaves the clock and the pending request alone.
ClearPrintfCalls ==
  /\ at = "check"
  /\ calls' = <<>>
  /\ requests' = 0 /\ tainted' = (UARTPrint = 1)
  /\ UNCHANGED <<g_iters, g_inited, control, student, clock,
                 initialised, asked>>

-----------------------------------------------------------------------------

Check ==
  \/ RunStudentInit \/ ResetStudentInit
  \/ \E n \in 0..MaxIters : \/ StepMainLoop(n)
                            \/ SetMainLoopIterations(n)
                            \/ \E by \in {"pump", "isr_only"} :
                                 StartDriving(by, n)
  \/ CallIsr \/ OpenPrintWindow \/ ClearPrintfCalls

\* The steps that follow from a call already made.
Run ==
  \/ PumpTick \/ IsrOnlyTick \/ StopDriving
  \/ GraderMainInitGuard \/ StudentInit \/ LoopBody \/ ReturnFromMain

Next == Check \/ Run

Spec == Init /\ [][Next]_vars

\* The thread keeps running; a check need not make another call.
FairSpec == Spec /\ WF_vars(Run)
-----------------------------------------------------------------------------
(* Properties. *)

\* Every variable keeps the type its declaration in the code gives it.
TypeOK ==
  /\ g_iters \in Nat /\ g_inited \in BOOLEAN
  /\ grader_inited \in BOOLEAN /\ grader_i \in Nat
  /\ at \in Locations
  /\ caller \in {"none", "run_student_init", "step_main_loop"}
  /\ driving \in {"none", "pump", "isr_only"} /\ ticks \in Nat
  /\ InterruptCount \in Nat /\ UARTPrint \in {0, 1}
  /\ clock \in Nat /\ calls \in Seq(PrintfCall)
  /\ initialised \in {"no", "stale", "yes"} /\ asked \in Nat
  /\ requests \in Nat /\ tainted \in BOOLEAN

\* Whatever the checks call and in whatever order (step before init, reset and
\* init again), init code that has run is not run again unless a reset came in
\* between, and no loop body runs, nor does the driver report the program
\* initialised, before it has run at all.
InitRunsWhenDue ==
  /\ at = "init" => initialised # "yes"
  /\ g_inited \/ at = "loop" => initialised # "no"

\* What the driver's header says of reset_student_init: "Force the next call to
\* run_student_init() to actually re-run init" (main_loop_driver.h:17).  Whenever
\* the driver reports the program initialised, its init code has run since the
\* last reset.
ResetRerunsInit == g_inited => initialised = "yes"

\* When temp_main returns to the driver, the student's loop body has run
\* exactly as often as that driver function asks for: never for
\* run_student_init, even after a stray set_main_loop_iterations, and n times
\* for step_main_loop(n).
IterationsAsAsked ==
  [][at = "loop" /\ at' # "loop" => grader_i = asked]_vars

\* The captured calls are numbered by their position and their timestamps
\* never run backwards nor ahead of the clock, across any resets a check makes
\* (expect_print_cadence and the cadence hints rely on one time base).
CaptureInOrder ==
  /\ \A k \in DOMAIN calls :
       /\ calls[k].sequence_index = k - 1
       /\ calls[k].synthetic_timestamp_us <= clock
  /\ \A j, k \in DOMAIN calls :
       j < k => calls[j].synthetic_timestamp_us <= calls[k].synthetic_timestamp_us

\* As long as the ISR runs under the pump only, every print request of the ISR
\* is either pending or captured: the main loop serves each request before the
\* next one is raised, for every modulus of the student's ISR.
NoPrintLost == ~tainted => requests = Len(calls) + UARTPrint

\* Every call of the driver comes back to the check.
DriverCallsReturn == (at # "check") ~> (at = "check")
=============================================================================
