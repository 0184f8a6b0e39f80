---------------------------- MODULE SpibWatchdog ----------------------------
(***************************************************************************)
(* HW3's check_initialization starts a watchdog thread                     *)
(* (hw3_unblock_setup_spib, hw3.cpp) and then runs the student's init code *)
(* on the test thread.  That code is setupSpib() of SE423Lib.c: it         *)
(* configures SPIFFRX and then busy-waits for the receive FIFO level       *)
(* RXFFST to reach 7, 4, fourteen times 1, and finally 0.  No SPI hardware *)
(* exists on the host, so the watchdog writes those levels itself.         *)
(*                                                                         *)
(* RXFFST is a bit field: writing it, or a setup bit beside it, loads the  *)
(* register, changes the field and stores the register back, and neither   *)
(* thread synchronises with the other.                                     *)
(***************************************************************************)
EXTENDS Naturals, Sequences

CONSTANTS
  Reloads, \* TRUE: the build reads SpibRegs again on each turn of a busy-wait
           \* (-O0).  SpibRegs is not volatile (global_defs.h), so an
           \* optimised build may load it once and reuse the value: FALSE
  Timely   \* TRUE: between two writes of the watchdog (2 ms apart) the test
           \* thread runs until it has to wait.  FALSE: it may be descheduled

ASSUME ScheduleAssumption == Reloads \in BOOLEAN /\ Timely \in BOOLEAN

VARIABLES
  SPIFFRX,  \* the register: FIFO level and how much of the setup it shows
  wd_pc,    \* the watchdog: "load", "store" or "exit"
  wd_write, \* number of its next write
  wd_word,  \* the register as the watchdog loaded it
  st_pc,    \* the test thread: "setup", "setup_store", "wait", "join", "check"
  st_step,  \* its next setup write, or the busy-wait it is in
  st_word,  \* the register as setupSpib loaded it
  st_level  \* the level its busy-waits have read, NoLevel before the first

watchdog == <<wd_pc, wd_write, wd_word>>
test == <<st_pc, st_step, st_word, st_level>>
threads == <<SPIFFRX, watchdog, test>>

\* The values hw3_unblock_setup_spib goes through, each written Retries times.
FeedSequence == <<7, 4, 1, 1, 1, 1, 1, 1, 1, 1>>
\* Mutant: each level is written once.
Retries_Once == 1
Retries == 5

\* Mutant: the last write, RXFFST = 0, is forgotten.
LastWrite_NoZero == Len(FeedSequence) * Retries
LastWrite == Len(FeedSequence) * Retries + 1

Feed(w) == IF w <= Len(FeedSequence) * Retries
             THEN FeedSequence[(w - 1) \div Retries + 1]
             ELSE 0

\* The levels setupSpib waits for.
RxWaits == <<7, 4>> \o [k \in 1..14 |-> 1] \o <<0>>

\* The setup bits that share a byte with RXFFST: RXFIFORESET = 0,
\* RXFFOVFCLR = 1, RXFIFORESET = 1.
SetupWrites == 3

NoLevel == 99
Register == [RXFFST : 0..16, setup : 0..SetupWrites]

ThreadsInit ==
  /\ SPIFFRX = [RXFFST |-> 0, setup |-> 0]
  /\ wd_pc = "load" /\ wd_write = 1 /\ wd_word = SPIFFRX
  /\ st_pc = "setup" /\ st_step = 1 /\ st_word = SPIFFRX
  /\ st_level = NoLevel

-----------------------------------------------------------------------------
(* The test thread: setupSpib(), then jthread::join(). *)

SetupLoad ==
  /\ st_pc = "setup"
  /\ st_word' = SPIFFRX
  /\ st_pc' = "setup_store"
  /\ UNCHANGED <<SPIFFRX, watchdog, st_step, st_level>>

SetupStore ==
  /\ st_pc = "setup_store"
  /\ SPIFFRX' = [st_word EXCEPT !.setup = st_step]
  /\ IF st_step < SetupWrites
       THEN st_step' = st_step + 1 /\ st_pc' = "setup"
       ELSE st_step' = 1 /\ st_pc' = "wait"
  /\ UNCHANGED <<watchdog, st_word, st_level>>

\* The level a turn of the current busy-wait compares with.
LevelRead == IF Reloads \/ st_level = NoLevel THEN SPIFFRX.RXFFST ELSE st_level

\* One turn of `while (SpibRegs.SPIFFRX.bit.RXFFST != RxWaits[st_step]);'
Poll ==
  /\ st_pc = "wait"
  /\ st_level' = LevelRead
  /\ IF LevelRead # RxWaits[st_step]
       THEN UNCHANGED <<st_pc, st_step>>
       ELSE IF st_step < Len(RxWaits)
              THEN st_step' = st_step + 1 /\ UNCHANGED st_pc
              ELSE st_pc' = "join" /\ UNCHANGED st_step
  /\ UNCHANGED <<SPIFFRX, watchdog, st_word>>

Join ==
  /\ st_pc = "join" /\ wd_pc = "exit"
  /\ st_pc' = "check"
  /\ UNCHANGED <<SPIFFRX, watchdog, st_step, st_word, st_level>>

\* The test thread is spinning: it can do nothing until RXFFST changes.
Spinning == st_pc = "wait" /\ LevelRead # RxWaits[st_step]

-----------------------------------------------------------------------------
(* The watchdog thread. *)

WatchdogLoad ==
  /\ wd_pc = "load"
  /\ Timely /\ wd_write > 1 => Spinning \/ st_pc = "join"
  /\ wd_word' = SPIFFRX
  /\ wd_pc' = "store"
  /\ UNCHANGED <<SPIFFRX, wd_write, test>>

\* Mutant: the loop goes on for one write too many.
WatchdogStore_OneMore ==
  /\ wd_pc = "store"
  /\ SPIFFRX' = [wd_word EXCEPT !.RXFFST = Feed(wd_write)]
  /\ wd_write' = wd_write + 1
  /\ wd_pc' = IF wd_write > LastWrite THEN "exit" ELSE "load"
  /\ UNCHANGED <<wd_word, test>>

WatchdogStore ==
  /\ wd_pc = "store"
  /\ SPIFFRX' = [wd_word EXCEPT !.RXFFST = Feed(wd_write)]
  /\ wd_write' = wd_write + 1
  /\ wd_pc' = IF wd_write = LastWrite THEN "exit" ELSE "load"
  /\ UNCHANGED <<wd_word, test>>

-----------------------------------------------------------------------------

TestThread == SetupLoad \/ SetupStore \/ Poll \/ Join
WatchdogThread == WatchdogLoad \/ WatchdogStore

ThreadsNext == TestThread \/ WatchdogThread

\* Both threads keep running.
ThreadsSpec == ThreadsInit /\ [][ThreadsNext]_threads /\ WF_threads(TestThread) /\ WF_threads(WatchdogThread)

-----------------------------------------------------------------------------
(* Properties. *)

\* The registers hold what a register can hold and both loops stay in range.
ThreadsTypeOK ==
  /\ SPIFFRX \in Register /\ wd_word \in Register /\ st_word \in Register
  /\ wd_pc \in {"load", "store", "exit"} /\ wd_write \in 1 .. LastWrite + 1
  /\ st_pc \in {"setup", "setup_store", "wait", "join", "check"}
  /\ st_step \in 1 .. Len(RxWaits)
  /\ st_level \in 0..16 \cup {NoLevel}

\* The watchdog never runs ahead of setupSpib: the level setupSpib is waiting
\* for is in the register or in a write that is still to come, even when a
\* setup write of setupSpib has wiped out the write before.
NotOvertaken ==
  st_pc = "wait" => \/ SPIFFRX.RXFFST = RxWaits[st_step]
                    \/ \E w \in wd_write..LastWrite : Feed(w) = RxWaits[st_step]

\* The student's init code returns and the watchdog is joined, so that
\* check_initialization comes to compare the post-init registers.
InitCompletes == <>(st_pc = "check")
=============================================================================
