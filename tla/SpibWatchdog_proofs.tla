------------------------ MODULE SpibWatchdog_proofs ------------------------
(***************************************************************************)
(* The watchdog's writes stay in range and, when it runs as timely as its  *)
(* pauses are long and the busy-waits read the register, it never gets     *)
(* ahead of setupSpib, which then returns in a bounded number of steps.    *)
(* Where the build may read the register once, it never returns.           *)
(* The same of HW3's whole process, which runs the driver as specified.    *)
(***************************************************************************)
EXTENDS GraderProcess, SequenceTheorems, TLAPS

\* What is fed: four levels, each last at one of these writes.
LEMMA Fed ==
  /\ LastWrite = 51
  /\ Feed(5) = 7 /\ Feed(10) = 4 /\ Feed(50) = 1 /\ Feed(51) = 0
  /\ \A w \in 1..LastWrite : Feed(w) \in 0..16
<1>1. /\ Len(FeedSequence) = 10 /\ Retries = 5
      /\ FeedSequence[1] = 7 /\ FeedSequence[2] = 4 /\ FeedSequence[10] = 1
      /\ \A n \in 1..10 : FeedSequence[n] \in 0..16
  BY DEF FeedSequence, Retries
<1>2. LastWrite = 51
  BY <1>1 DEF LastWrite
<1>3. \A w \in 1..50 : (w - 1) \div 5 + 1 \in 1..10
  OBVIOUS
<1>4. \A w \in 1..51 : Feed(w) \in 0..16
  BY <1>1, <1>3 DEF Feed
<1>5. /\ (5 - 1) \div 5 + 1 = 1 /\ (10 - 1) \div 5 + 1 = 2 /\ (50 - 1) \div 5 + 1 = 10
  OBVIOUS
<1>6. Feed(5) = 7 /\ Feed(10) = 4 /\ Feed(50) = 1 /\ Feed(51) = 0
  BY <1>1, <1>5 DEF Feed
<1> QED
  BY <1>2, <1>4, <1>6

\* What is waited for.
LEMMA Waited ==
  /\ Len(RxWaits) = 17
  /\ RxWaits[1] = 7 /\ RxWaits[2] = 4 /\ RxWaits[17] = 0
  /\ \A n \in 3..16 : RxWaits[n] = 1
<1> DEFINE ones == [k \in 1..14 |-> 1]
<1>1. ones \in Seq(Nat) /\ Len(ones) = 14
  OBVIOUS
<1>2. <<7, 4>> \in Seq(Nat) /\ Len(<<7, 4>>) = 2 /\ <<0>> \in Seq(Nat) /\ Len(<<0>>) = 1
  OBVIOUS
<1> DEFINE front == <<7, 4>> \o ones
<1>3. front \in Seq(Nat) /\ Len(front) = 16
  BY <1>1, <1>2
<1>4. /\ front[1] = 7 /\ front[2] = 4
      /\ \A n \in 3..16 : front[n] = ones[n - 2]
  BY <1>1, <1>2
<1>5. \A n \in 3..16 : front[n] = 1
  BY <1>4
<1> HIDE DEF ones
<1>6. RxWaits = front \o <<0>>
  BY DEF RxWaits, ones
<1> HIDE DEF front
<1> DEFINE last == <<0>>
<1>7. last \in Seq(Nat) /\ Len(last) = 1 /\ last[1] = 0
  OBVIOUS
<1>8. RxWaits = front \o last
  BY <1>6
<1> HIDE DEF last
<1>9. /\ Len(front \o last) = Len(front) + Len(last)
      /\ \A n \in 1..Len(front) + Len(last) :
           (front \o last)[n] = IF n <= Len(front) THEN front[n] ELSE last[n - Len(front)]
  <2>1. front \in Seq(Nat) /\ last \in Seq(Nat)
    BY <1>3, <1>7
  <2> QED
    BY <2>1, ConcatProperties, Zenon
<1> DEFINE both == front \o last
<1>10. /\ Len(both) = 17
       /\ \A n \in 1..17 : both[n] = IF n <= 16 THEN front[n] ELSE last[n - 16]
  <2>1. /\ Len(both) = Len(front) + Len(last)
        /\ \A n \in 1..Len(front) + Len(last) :
             both[n] = IF n <= Len(front) THEN front[n] ELSE last[n - Len(front)]
    BY <1>9
  <2> HIDE DEF both
  <2>2. Len(front) = 16 /\ Len(last) = 1
    BY <1>3, <1>7
  <2> QED
    BY <2>1, <2>2
<1>11. RxWaits = both
  BY <1>8
<1> HIDE DEF both
<1>12. RxWaits[17] = 0
  BY <1>7, <1>10, <1>11
<1>13. \A n \in 1..16 : RxWaits[n] = front[n]
  BY <1>10, <1>11
<1> QED
  BY <1>4, <1>5, <1>10, <1>11, <1>12, <1>13

-----------------------------------------------------------------------------
InLoops ==
  /\ st_pc \in {"setup", "setup_store"} => st_step \in 1..SetupWrites
  /\ wd_pc # "exit" => wd_write \in 1..LastWrite
  /\ wd_pc = "exit" => wd_write = LastWrite + 1

TInv == ThreadsTypeOK /\ InLoops

LEMMA TypesKept == TInv /\ [ThreadsNext]_threads => TInv'
<1> USE Fed, Waited DEF TInv, ThreadsTypeOK, InLoops, Register, SetupWrites, NoLevel
<1> SUFFICES ASSUME TInv, [ThreadsNext]_threads PROVE TInv'
  OBVIOUS
<1>1. CASE SetupLoad
  BY <1>1 DEF SetupLoad, watchdog
<1>2. CASE SetupStore
  BY <1>2 DEF SetupStore, watchdog
<1>3. CASE Poll
  <2>1. LevelRead \in 0..16 \cup {NoLevel}
    BY DEF LevelRead
  <2> QED
    BY <1>3, <2>1 DEF Poll, watchdog
<1>4. CASE Join
  BY <1>4 DEF Join, watchdog
<1>5. CASE WatchdogLoad
  BY <1>5 DEF WatchdogLoad, test
<1>6. CASE WatchdogStore
  BY <1>6 DEF WatchdogStore, test
<1>7. CASE UNCHANGED threads
  BY <1>7 DEF threads, watchdog, test
<1> QED
  BY <1>1, <1>2, <1>3, <1>4, <1>5, <1>6, <1>7 DEF ThreadsNext, TestThread, WatchdogThread

(* Both threads stay within their loops and the register within its width, *)
(* whatever the build and the scheduler.                                   *)
THEOREM TypeCorrect == ThreadsSpec => []ThreadsTypeOK
<1>1. ThreadsInit => TInv
  BY Fed, Waited DEF ThreadsInit, TInv, ThreadsTypeOK, InLoops, Register, SetupWrites, NoLevel
<1>2. TInv => ThreadsTypeOK
  BY DEF TInv
<1> QED
  BY <1>1, <1>2, TypesKept, PTL DEF ThreadsSpec

-----------------------------------------------------------------------------
\* The last write of the level that a busy-wait is for.
LastOf(step) == CASE step = 1 -> 5 [] step = 2 -> 10 [] step \in 3..16 -> 50 [] OTHER -> 51

\* Before the busy-waits only the first write can have happened.
FirstWrite ==
  /\ st_pc \in {"setup", "setup_store"} =>
       wd_write = 1 \/ (wd_write = 2 /\ wd_pc = "load")
  /\ wd_write = 1 => /\ SPIFFRX.RXFFST = 0
                     /\ st_pc = "setup_store" => st_word.RXFFST = 0
                     /\ st_pc = "wait" => st_step = 1
                     /\ st_pc \in {"setup", "setup_store", "wait"}

\* A write under way finds setupSpib waiting for another level.
FedOnDemand ==
  st_pc = "wait" /\ wd_pc = "store" => SPIFFRX.RXFFST # RxWaits[st_step]

\* The awaited level is still to be written, or was the last thing written.
NotPast ==
  st_pc = "wait" =>
    \/ wd_write <= LastOf(st_step)
    \/ wd_write = LastOf(st_step) + 1 /\ SPIFFRX.RXFFST = RxWaits[st_step]

IInv == TInv /\ FirstWrite /\ FedOnDemand /\ NotPast

LEMMA LastFed ==
  \A step \in 1..17 : /\ LastOf(step) \in 5..51
                      /\ Feed(LastOf(step)) = RxWaits[step]
                      /\ step < 17 => \/ LastOf(step) + 1 <= LastOf(step + 1)
                                      \/ LastOf(step) = LastOf(step + 1)
  BY Fed, Waited DEF LastOf

\* It holds at first, before the first write and where there is no watchdog,
LEMMA TimelyAtFirst == ThreadsInit \/ ThreadsOver => IInv
<1> USE Fed, Waited DEF SetupWrites
<1> SUFFICES ASSUME ThreadsInit \/ ThreadsOver PROVE IInv
  OBVIOUS
<1>1. TInv
  BY DEF ThreadsInit, ThreadsOver, TInv, ThreadsTypeOK, InLoops, Register, NoLevel
<1> QED
  BY <1>1 DEF ThreadsInit, ThreadsOver, IInv, FirstWrite, FedOnDemand, NotPast

\* and it stays so.
LEMMA TimelyStep ==
  ASSUME Reloads = TRUE, Timely = TRUE
  PROVE  IInv /\ [ThreadsNext]_threads => IInv'
<1> USE DEF SetupWrites
<1> SUFFICES ASSUME IInv, [ThreadsNext]_threads PROVE IInv'
  OBVIOUS
<1>1. TInv'
  BY TypesKept DEF IInv
<1>2. TInv /\ FirstWrite /\ FedOnDemand /\ NotPast
  BY DEF IInv
<1>3. /\ SPIFFRX \in Register /\ wd_word \in Register /\ st_word \in Register
      /\ wd_write \in 1..52 /\ st_step \in 1..17 /\ wd_pc \in {"load", "store", "exit"}
      /\ wd_pc # "exit" => wd_write \in 1..51
  BY <1>2, Fed, Waited DEF TInv, ThreadsTypeOK, InLoops
<1>4. LevelRead = SPIFFRX.RXFFST
  BY DEF LevelRead
<1> SUFFICES FirstWrite' /\ FedOnDemand' /\ NotPast'
  BY <1>1 DEF IInv
<1>5. CASE SetupLoad
  BY <1>2, <1>5 DEF SetupLoad, watchdog, FirstWrite, FedOnDemand, NotPast
<1>6. CASE SetupStore
  <2>1. SPIFFRX'.RXFFST = st_word.RXFFST
    BY <1>3, <1>6 DEF SetupStore, Register
  <2>2. FirstWrite' /\ FedOnDemand'
    BY <1>2, <1>3, <1>6, <2>1, Waited DEF SetupStore, watchdog, FirstWrite, FedOnDemand
  <2>3. NotPast'
    BY <1>2, <1>6, LastFed DEF SetupStore, watchdog, FirstWrite, NotPast
  <2> QED
    BY <2>2, <2>3
<1>7. CASE Poll
  BY <1>2, <1>3, <1>4, <1>7, Waited, LastFed
  DEF Poll, watchdog, FirstWrite, FedOnDemand, NotPast
<1>8. CASE Join
  BY <1>2, <1>3, <1>8 DEF Join, FirstWrite, FedOnDemand, NotPast, watchdog
<1>9. CASE WatchdogLoad
  BY <1>2, <1>3, <1>4, <1>9, Waited
  DEF WatchdogLoad, Spinning, test, FirstWrite, FedOnDemand, NotPast
<1>10. CASE WatchdogStore
  <2>1. SPIFFRX'.RXFFST = Feed(wd_write)
    BY <1>3, <1>10 DEF WatchdogStore, Register
  <2>2. /\ wd_write' = wd_write + 1 /\ wd_pc' # "store"
        /\ UNCHANGED <<st_pc, st_step, st_word>>
        /\ wd_pc = "store" /\ wd_write \in 1..51
        /\ wd_write = 1 => wd_pc' = "load"
    BY <1>3, <1>10, Fed DEF WatchdogStore, test
  <2>3. FirstWrite' /\ FedOnDemand'
    BY <1>2, <2>2 DEF FirstWrite, FedOnDemand
  <2>4. NotPast'
    <3> SUFFICES ASSUME st_pc = "wait"
                 PROVE  \/ wd_write + 1 <= LastOf(st_step)
                        \/ wd_write + 1 = LastOf(st_step) + 1 /\ Feed(wd_write) = RxWaits[st_step]
      BY <2>1, <2>2 DEF NotPast
    <3>1. wd_write <= LastOf(st_step)
      BY <1>2, <2>2 DEF NotPast, FedOnDemand
    <3>2. LastOf(st_step) \in Nat /\ Feed(LastOf(st_step)) = RxWaits[st_step]
      BY <1>3, LastFed
    <3> QED
      BY <2>2, <3>1, <3>2
  <2> QED
    BY <2>3, <2>4
<1>11. CASE UNCHANGED threads
  BY <1>2, <1>11 DEF threads, watchdog, test, FirstWrite, FedOnDemand, NotPast
<1> QED
  BY <1>5, <1>6, <1>7, <1>8, <1>9, <1>10, <1>11 DEF ThreadsNext, TestThread, WatchdogThread

LEMMA TimelyInvariance ==
  ASSUME Reloads = TRUE, Timely = TRUE
  PROVE  ThreadsSpec => []IInv
BY TimelyAtFirst, TimelyStep, PTL DEF ThreadsSpec

LEMMA AwaitedIsToCome == IInv => NotOvertaken
<1> SUFFICES ASSUME IInv, st_pc = "wait"
             PROVE  \/ SPIFFRX.RXFFST = RxWaits[st_step]
                    \/ \E w \in wd_write..LastWrite : Feed(w) = RxWaits[st_step]
  BY DEF NotOvertaken
<1>1. st_step \in 1..17 /\ wd_write \in 1..52 /\ LastWrite = 51
  BY Fed, Waited DEF IInv, TInv, ThreadsTypeOK
<1>2. LastOf(st_step) \in 5..51 /\ Feed(LastOf(st_step)) = RxWaits[st_step]
  BY <1>1, LastFed
<1>3. CASE wd_write <= LastOf(st_step)
  <2>1. LastOf(st_step) \in wd_write..LastWrite
    BY <1>1, <1>2, <1>3
  <2> QED
    BY <1>2, <2>1
<1> QED
  BY <1>3 DEF IInv, NotPast

(* Where the build reads the register in each busy-wait and the test thread *)
(* gets as far as it can between two writes, the level setupSpib waits for  *)
(* is in the register or still to come, however the two threads' loads and  *)
(* stores of the register undo each other (hw3.cpp:53, SE423Lib.c:208).     *)
THEOREM NeverOvertaken ==
  ASSUME Reloads = TRUE, Timely = TRUE
  PROVE  ThreadsSpec => []NotOvertaken
BY AwaitedIsToCome, TimelyInvariance, PTL

\* A step of the process is one of the driver's or one of the two threads'.
LEMMA StepOfOne ==
  [ProcessNext]_process => [Next]_vars /\ [ThreadsNext]_threads
BY DEF ProcessNext, CheckThread, LaterCheck, Watchdog, CheckInitialization, SetupSpib,
       InitReturns, DriverStep, JoinWatchdog, process, Next, Check, Run, ThreadsNext,
       TestThread, threads

(* What is proved of the driver holds in every process, HW3's included: the *)
(* watchdog and the busy-waits only delay it (hw3.cpp:90).                  *)
THEOREM ProcessImplementsDriver == ProcessSpec => Spec
<1>1. ProcessInit => Init
  BY DEF ProcessInit
<1> QED
  BY <1>1, StepOfOne, PTL DEF ProcessSpec, Spec

(* In the whole process too the level setupSpib waits for is in the register *)
(* or still to come, whatever the later checks call.                         *)
THEOREM ProcessNeverOvertaken ==
  ASSUME Reloads = TRUE, Timely = TRUE
  PROVE  ProcessSpec => []NotOvertaken
<1>1. ProcessInit => IInv
  BY TimelyAtFirst DEF ProcessInit
<1>2. IInv /\ [ProcessNext]_process => IInv'
  BY StepOfOne, TimelyStep
<1> QED
  BY <1>1, <1>2, AwaitedIsToCome, PTL DEF ProcessSpec

-----------------------------------------------------------------------------
(* How long the check takes.                                               *)

\* The loads and stores that the watchdog still has to make.
StepsOfWatchdog ==
  IF wd_pc = "load" THEN 2 * (LastWrite - wd_write) + 2
  ELSE IF wd_pc = "store" THEN 2 * (LastWrite - wd_write) + 1 ELSE 0

\* The steps of the test thread that get it further: the loads and stores of its setup,
\* the last turn of each busy-wait, and the join.
StepsOfTest ==
  IF st_pc = "setup" THEN 2 * (SetupWrites - st_step) + Len(RxWaits) + 3
  ELSE IF st_pc = "setup_store" THEN 2 * (SetupWrites - st_step) + Len(RxWaits) + 2
  ELSE IF st_pc = "wait" THEN Len(RxWaits) - st_step + 2
  ELSE IF st_pc = "join" THEN 1 ELSE 0

StepsLeft == StepsOfWatchdog + StepsOfTest

\* A turn of a busy-wait that finds another level.
Spin == Poll /\ Spinning

\* Both counts are numbers, and nothing is left exactly when both threads are done.
LEMMA StepsAreCounted ==
  ASSUME TInv
  PROVE  /\ StepsOfWatchdog \in Nat /\ StepsOfTest \in Nat /\ StepsLeft \in Nat
         /\ StepsLeft = 0 <=> wd_pc = "exit" /\ st_pc = "check"
BY Fed, Waited DEF TInv, ThreadsTypeOK, InLoops, SetupWrites, StepsLeft, StepsOfWatchdog, StepsOfTest

\* Every step but a spin is one less to make, and a spin takes none back.
LEMMA StepsDecrease ==
  ASSUME TInv, ThreadsNext
  PROVE  IF Spin THEN StepsLeft' = StepsLeft ELSE StepsLeft' < StepsLeft
<1> USE Fed, Waited DEF TInv, ThreadsTypeOK, InLoops, SetupWrites
<1>1. CASE SetupLoad
  BY <1>1 DEF SetupLoad, watchdog, StepsLeft, StepsOfWatchdog, StepsOfTest, Spin, Poll
<1>2. CASE SetupStore
  BY <1>2 DEF SetupStore, watchdog, StepsLeft, StepsOfWatchdog, StepsOfTest, Spin, Poll
<1>3. CASE Poll
  <2>1. CASE LevelRead # RxWaits[st_step]
    BY <1>3, <2>1
       DEF Poll, watchdog, StepsLeft, StepsOfWatchdog, StepsOfTest, Spin, Spinning
  <2>2. CASE LevelRead = RxWaits[st_step]
    BY <1>3, <2>2
       DEF Poll, watchdog, StepsLeft, StepsOfWatchdog, StepsOfTest, Spin, Spinning
  <2> QED
    BY <2>1, <2>2
<1>4. CASE Join
  BY <1>4 DEF Join, watchdog, StepsLeft, StepsOfWatchdog, StepsOfTest, Spin, Poll
<1>5. CASE WatchdogLoad
  <2>1. ~Spin
    BY <1>5 DEF WatchdogLoad, Spin, Poll, watchdog
  <2> QED
    BY <1>5, <2>1 DEF WatchdogLoad, test, StepsLeft, StepsOfWatchdog, StepsOfTest
<1>6. CASE WatchdogStore
  <2>1. ~Spin
    BY <1>6 DEF WatchdogStore, Spin, Poll, watchdog
  <2> QED
    BY <1>6, <2>1 DEF WatchdogStore, test, StepsLeft, StepsOfWatchdog, StepsOfTest
<1> QED
  BY <1>1, <1>2, <1>3, <1>4, <1>5, <1>6 DEF ThreadsNext, TestThread, WatchdogThread

\* Once the watchdog has made its last write, what it wrote is what is awaited.
LEMMA NoneToSpin ==
  ASSUME IInv, Reloads = TRUE, wd_pc = "exit"
  PROVE  ~Spinning
<1> SUFFICES ASSUME st_pc = "wait" PROVE LevelRead = RxWaits[st_step]
  BY DEF Spinning
<1>1. wd_write = 52 /\ st_step \in 1..17
  BY Fed, Waited DEF IInv, TInv, ThreadsTypeOK, InLoops
<1>2. LastOf(st_step) \in 5..51
  BY <1>1, LastFed
<1>3. SPIFFRX.RXFFST = RxWaits[st_step]
  BY <1>1, <1>2 DEF IInv, NotPast
<1> QED
  BY <1>3 DEF LevelRead

\* Where the watchdog is as timely as its pauses are long and the busy-waits read the
\* register, check_initialization cannot be kept from its comparison for ever: 126 steps
\* of the two threads lead to it, not counting turns of a busy-wait that find another
\* level, and as long as there are such turns the watchdog has writes to make.  With the
\* fairness of the two threads, InitCompletes follows.
THEOREM InitIsBounded ==
  ASSUME Reloads = TRUE, Timely = TRUE
  PROVE  ThreadsSpec => /\ StepsLeft = 126
                 /\ [](/\ StepsLeft \in Nat
                       /\ StepsLeft = 0 <=> wd_pc = "exit" /\ st_pc = "check"
                       /\ Spinning => wd_pc # "exit")
                 /\ [][IF Spin THEN StepsLeft' = StepsLeft ELSE StepsLeft' < StepsLeft]_threads
<1>1. ThreadsInit => StepsLeft = 126
  BY Fed, Waited DEF ThreadsInit, StepsLeft, StepsOfWatchdog, StepsOfTest, SetupWrites
<1>2. IInv => /\ StepsLeft \in Nat
              /\ StepsLeft = 0 <=> wd_pc = "exit" /\ st_pc = "check"
              /\ Spinning => wd_pc # "exit"
  BY StepsAreCounted, NoneToSpin DEF IInv
<1>3. IInv /\ [ThreadsNext]_threads
        => [IF Spin THEN StepsLeft' = StepsLeft ELSE StepsLeft' < StepsLeft]_threads
  BY StepsDecrease DEF IInv
<1> QED
  BY TimelyInvariance, <1>1, <1>2, <1>3, PTL DEF ThreadsSpec

-----------------------------------------------------------------------------
\* What an optimised build has read: nothing yet, and then one level for good.
ReadOnce ==
  /\ st_pc \in {"setup", "setup_store"} => st_level = NoLevel
  /\ st_pc \in {"setup", "setup_store", "wait"}
  /\ st_pc = "wait" => \/ st_step = 1 /\ st_level \in 0..16 \cup {NoLevel}
                       \/ st_step = 2 /\ st_level = 7

\* In a build that may reuse what it has read (SpibRegs is not volatile, and the workflow
\* builds Release) the init code never returns, whatever the watchdog writes and however
\* the two threads are scheduled: the level that ends the first busy-wait is not the one
\* that the second waits for.  It is the counterexample of spib_release, for every run.
THEOREM OptimisedNeverReturns ==
  ASSUME Reloads = FALSE
  PROVE  ThreadsSpec => [](st_pc \notin {"join", "check"})
<1>1. ThreadsInit => TInv /\ ReadOnce
  BY Fed, Waited
  DEF ThreadsInit, TInv, ThreadsTypeOK, InLoops, Register, SetupWrites, NoLevel, ReadOnce
<1>2. TInv /\ ReadOnce /\ [ThreadsNext]_threads => TInv' /\ ReadOnce'
  <2> SUFFICES ASSUME TInv, ReadOnce, [ThreadsNext]_threads PROVE ReadOnce'
    BY TypesKept
  <2> USE Waited DEF ReadOnce, NoLevel
  <2>1. SPIFFRX.RXFFST \in 0..16
    BY DEF TInv, ThreadsTypeOK, Register
  <2>2. CASE SetupLoad
    BY <2>2 DEF SetupLoad
  <2>3. CASE SetupStore
    BY <2>3 DEF SetupStore
  <2>4. CASE Poll
    <3>1. LevelRead \in 0..16 /\ (st_level = 7 => LevelRead = 7)
      BY <2>1, <2>4 DEF LevelRead, Poll
    <3>2. st_pc = "wait" /\ st_step \in {1, 2} /\ (st_step = 2 => st_level = 7)
      BY <2>4 DEF Poll
    <3>3. CASE st_step = 1
      BY <2>4, <3>1, <3>2, <3>3 DEF Poll
    <3>4. CASE st_step = 2
      <4>1. LevelRead = 7 /\ LevelRead # RxWaits[st_step]
        BY <3>1, <3>2, <3>4
      <4>2. st_level' = LevelRead /\ st_pc' = st_pc /\ st_step' = st_step
        BY <2>4, <4>1 DEF Poll
      <4> QED
        BY <3>2, <3>4, <4>1, <4>2
    <3> QED
      BY <3>2, <3>3, <3>4
  <2>5. CASE Join
    BY <2>5 DEF Join
  <2>6. CASE WatchdogLoad
    BY <2>6 DEF WatchdogLoad, test
  <2>7. CASE WatchdogStore
    BY <2>7 DEF WatchdogStore, test
  <2>8. CASE UNCHANGED threads
    BY <2>8 DEF threads, test
  <2> QED
    BY <2>2, <2>3, <2>4, <2>5, <2>6, <2>7, <2>8 DEF ThreadsNext, TestThread, WatchdogThread
<1>3. ReadOnce => st_pc \notin {"join", "check"}
  BY DEF ReadOnce
<1> QED
  BY <1>1, <1>2, <1>3, PTL DEF ThreadsSpec
=============================================================================
