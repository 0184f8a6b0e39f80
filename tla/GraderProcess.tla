---------------------------- MODULE GraderProcess ----------------------------
(***************************************************************************)
(* A grader process: the driver and the student's program of               *)
(* MainLoopDriver and, in HW3's grader, the two threads of SpibWatchdog.   *)
(*                                                                         *)
(* HW3's first check starts the watchdog and then lets the driver enter    *)
(* the student's main, whose init code is in setupSpib's busy-waits until  *)
(* the watchdog has fed them.  The watchdog is never started again: init   *)
(* code entered a second time would wait for ever.  In the other suites    *)
(* the first check may call anything, and init does not wait for the SPI.  *)
(***************************************************************************)
EXTENDS MainLoopDriver, SpibWatchdog

VARIABLE suite \* whose checks are linked in: "hw3", or "other"

process == <<vars, threads, suite>>

\* No setupSpib, and no watchdog: as if both were over.
ThreadsOver ==
  /\ SPIFFRX = [RXFFST |-> 0, setup |-> 0]
  /\ wd_pc = "exit" /\ wd_write = LastWrite + 1 /\ wd_word = SPIFFRX
  /\ st_pc = "check" /\ st_step = Len(RxWaits) /\ st_word = SPIFFRX
  /\ st_level = NoLevel

ProcessInit ==
  /\ Init
  /\ \/ suite = "hw3" /\ ThreadsInit
     \/ suite = "other" /\ ThreadsOver

-----------------------------------------------------------------------------

\* HW3's first check constructs the watchdog thread, which runs from here on, and
\* calls run_student_init.
CheckInitialization ==
  /\ st_pc = "setup" /\ RunStudentInit
  /\ UNCHANGED <<threads, suite>>

\* setupSpib is part of the init code.
SetupSpib ==
  /\ at = "init"
  /\ SetupLoad \/ SetupStore \/ Poll
  /\ UNCHANGED <<vars, suite>>

\* The rest of it runs once setupSpib has returned.
InitReturns ==
  /\ st_pc = IF suite = "hw3" THEN "join" ELSE "check"
  /\ StudentInit
  /\ UNCHANGED <<threads, suite>>

\* The thread's other steps inside a call of the driver.
DriverStep ==
  /\ PumpTick \/ IsrOnlyTick \/ StopDriving
     \/ GraderMainInitGuard \/ LoopBody \/ ReturnFromMain
  /\ UNCHANGED <<threads, suite>>

\* After run_student_init has returned, the check joins the watchdog.
JoinWatchdog ==
  /\ at = "check" /\ Join
  /\ UNCHANGED <<vars, suite>>

\* What checks may call later, and in the other suites from the start.
LaterCheck ==
  /\ st_pc = "check" /\ Check
  /\ UNCHANGED <<threads, suite>>

Watchdog ==
  /\ at = "check" => st_pc = "join"
  /\ WatchdogThread
  /\ UNCHANGED <<vars, suite>>

\* What the thread of the checks does of itself: the first check of HW3 is always
\* run, what it and the later ones have started goes on.
CheckThread ==
  CheckInitialization \/ SetupSpib \/ InitReturns \/ DriverStep \/ JoinWatchdog

ProcessNext == CheckThread \/ LaterCheck \/ Watchdog

\* Both threads keep running; a later check need not make another call.
ProcessSpec ==
  ProcessInit /\ [][ProcessNext]_process /\ WF_process(CheckThread) /\ WF_process(Watchdog)
=============================================================================
