----------------------- MODULE MainLoopDriver_proofs -----------------------
(***************************************************************************)
(* Proofs about MainLoopDriver, for every period, print modulus and bound. *)
(* The argument: temp_main is entered with g_iters = asked and runs its    *)
(* init code exactly on the entry that finds the latch clear; and while    *)
(* only the pump calls the ISR, a raised UARTPrint exists only between the *)
(* ISR call of a pump turn and the first loop body of the same turn.  The  *)
(* second part counts the steps of a call.                                 *)
(***************************************************************************)
EXTENDS MainLoopDriver, TLAPS

USE PeriodAssumption, PrintEveryAssumption, BoundsAssumption

\* The state of the two latches, the driver's and the student's, at each
\* point of temp_main.
LatchInv ==
  /\ ~grader_inited => initialised = "no" /\ at \notin {"init", "loop"}
  /\ grader_inited => (initialised = "no" <=> at = "init")
  /\ g_inited => grader_inited /\ at # "init"

\* The loop counter never passes the count asked for.
LoopInv ==
  /\ at \in {"main", "init", "loop"} => g_iters = asked
  /\ at = "init" => grader_i = 0
  /\ at = "loop" => grader_i <= g_iters

\* Where a print request may be pending in a window driven by the pump.
HandshakeInv ==
  ~tainted =>
    /\ requests = Len(calls) + UARTPrint
    /\ UARTPrint = 1 => /\ at \in {"main", "init", "loop"}
                        /\ g_iters > 0
                        /\ at = "loop" => grader_i = 0

IInv == TypeOK /\ LatchInv /\ LoopInv /\ HandshakeInv /\ CaptureInOrder

-----------------------------------------------------------------------------

\* An empty capture is a capture.
LEMMA EmptyCapture == <<>> \in Seq(PrintfCall) /\ Len(<<>>) = 0
  OBVIOUS

\* A process starts in a state that satisfies the inductive invariant.
LEMMA InitEstablishesIInv == Init => IInv
<1> SUFFICES ASSUME Init PROVE IInv
  OBVIOUS
<1>1. TypeOK
  BY EmptyCapture DEF Init, TypeOK, Locations
<1>2. LatchInv /\ LoopInv
  BY DEF Init, LatchInv, LoopInv
<1>3. HandshakeInv
  BY EmptyCapture DEF Init, HandshakeInv
<1>4. CaptureInOrder
  BY DEF Init, CaptureInOrder
<1> QED
  BY <1>1, <1>2, <1>3, <1>4 DEF IInv

\* Every operation keeps the variables in their types.
LEMMA TypeStep == TypeOK /\ [Next]_vars => TypeOK'
<1> SUFFICES ASSUME TypeOK, [Next]_vars PROVE TypeOK'
  OBVIOUS
<1> USE DEF TypeOK, Locations, control, student, capture, history
<1>1. CASE RunStudentInit
  BY <1>1 DEF RunStudentInit, EnterTempMain
<1>2. CASE ResetStudentInit
  BY <1>2 DEF ResetStudentInit
<1>3. ASSUME NEW n \in 0..MaxIters, StepMainLoop(n) PROVE TypeOK'
  BY <1>3 DEF StepMainLoop, EnterTempMain
<1>4. ASSUME NEW n \in 0..MaxIters, SetMainLoopIterations(n) PROVE TypeOK'
  BY <1>4 DEF SetMainLoopIterations
<1>5. ASSUME NEW n \in 0..MaxIters, NEW by \in {"pump", "isr_only"},
             StartDriving(by, n)
      PROVE  TypeOK'
  BY <1>5 DEF StartDriving
<1>6. CASE CallIsr
  BY <1>6 DEF CallIsr, TimerIsr
<1>7. CASE OpenPrintWindow
  BY <1>7, EmptyCapture DEF OpenPrintWindow
<1>8. CASE ClearPrintfCalls
  BY <1>8 DEF ClearPrintfCalls
<1>9. CASE PumpTick
  BY <1>9 DEF PumpTick, TimerIsr, EnterTempMain
<1>10. CASE IsrOnlyTick
  BY <1>10 DEF IsrOnlyTick, TimerIsr
<1>11. CASE StopDriving
  BY <1>11 DEF StopDriving
<1>12. CASE GraderMainInitGuard
  BY <1>12 DEF GraderMainInitGuard
<1>13. CASE StudentInit
  BY <1>13 DEF StudentInit
<1>14. CASE LoopBody
  <2>1. CASE UARTPrint = 1
    <3> DEFINE call == [synthetic_timestamp_us |-> clock,
                        sequence_index |-> Len(calls)]
    <3>1. call \in PrintfCall
      BY DEF PrintfCall
    <3>2. Append(calls, call) \in Seq(PrintfCall)
      BY <3>1
    <3> QED
      BY <1>14, <2>1, <3>2 DEF LoopBody, RecordPrintfCall
  <2>2. CASE UARTPrint # 1
    BY <1>14, <2>2 DEF LoopBody
  <2> QED
    BY <2>1, <2>2
<1>15. CASE ReturnFromMain
  <2>1. CASE caller = "run_student_init"
    BY <1>15, <2>1 DEF ReturnFromMain
  <2>2. CASE caller # "run_student_init"
    BY <1>15, <2>2 DEF ReturnFromMain
  <2> QED
    BY <2>1, <2>2
<1>16. CASE UNCHANGED vars
  BY <1>16 DEF vars
<1> QED
  BY <1>1, <1>2, <1>3, <1>4, <1>5, <1>6, <1>7, <1>8, <1>9, <1>10, <1>11,
     <1>12, <1>13, <1>14, <1>15, <1>16 DEF Next, Check, Run

\* Every operation keeps the latches, the loop counter and the print
\* handshake in step.
LEMMA ControlStep ==
  TypeOK /\ LatchInv /\ LoopInv /\ HandshakeInv /\ [Next]_vars
    => LatchInv' /\ LoopInv' /\ HandshakeInv'
<1> SUFFICES ASSUME TypeOK, LatchInv, LoopInv, HandshakeInv, [Next]_vars
             PROVE  LatchInv' /\ LoopInv' /\ HandshakeInv'
  OBVIOUS
<1> USE DEF TypeOK, Locations, LatchInv, LoopInv, HandshakeInv,
            control, student, capture, history
<1>1. CASE RunStudentInit
  BY <1>1 DEF RunStudentInit, EnterTempMain
<1>2. CASE ResetStudentInit
  BY <1>2 DEF ResetStudentInit
<1>3. ASSUME NEW n \in 0..MaxIters, StepMainLoop(n)
      PROVE  LatchInv' /\ LoopInv' /\ HandshakeInv'
  BY <1>3 DEF StepMainLoop, EnterTempMain
<1>4. ASSUME NEW n \in 0..MaxIters, SetMainLoopIterations(n)
      PROVE  LatchInv' /\ LoopInv' /\ HandshakeInv'
  BY <1>4 DEF SetMainLoopIterations
<1>5. ASSUME NEW n \in 0..MaxIters, NEW by \in {"pump", "isr_only"},
             StartDriving(by, n)
      PROVE  LatchInv' /\ LoopInv' /\ HandshakeInv'
  BY <1>5 DEF StartDriving
<1>6. CASE CallIsr
  BY <1>6 DEF CallIsr, TimerIsr
<1>7. CASE OpenPrintWindow
  BY <1>7 DEF OpenPrintWindow
<1>8. CASE ClearPrintfCalls
  BY <1>8 DEF ClearPrintfCalls
<1>9. CASE PumpTick
  BY <1>9 DEF PumpTick, TimerIsr, EnterTempMain
<1>10. CASE IsrOnlyTick
  BY <1>10 DEF IsrOnlyTick, TimerIsr
<1>11. CASE StopDriving
  BY <1>11 DEF StopDriving
<1>12. CASE GraderMainInitGuard
  BY <1>12 DEF GraderMainInitGuard
<1>13. CASE StudentInit
  BY <1>13 DEF StudentInit
<1>14. CASE LoopBody
  BY <1>14 DEF LoopBody, RecordPrintfCall, PrintfCall
<1>15. CASE ReturnFromMain
  BY <1>15 DEF ReturnFromMain
<1>16. CASE UNCHANGED vars
  BY <1>16 DEF vars
<1> QED
  BY <1>1, <1>2, <1>3, <1>4, <1>5, <1>6, <1>7, <1>8, <1>9, <1>10, <1>11,
     <1>12, <1>13, <1>14, <1>15, <1>16 DEF Next, Check, Run

\* What the type of the capture says of its elements.
LEMMA CaptureElements ==
  TypeOK => /\ DOMAIN calls = 1 .. Len(calls) /\ Len(calls) \in Nat
            /\ \A k \in DOMAIN calls :
                 calls[k].synthetic_timestamp_us \in Nat
<1> SUFFICES ASSUME TypeOK
             PROVE  /\ DOMAIN calls = 1 .. Len(calls) /\ Len(calls) \in Nat
                    /\ \A k \in DOMAIN calls :
                         calls[k].synthetic_timestamp_us \in Nat
  OBVIOUS
<1>1. calls \in Seq(PrintfCall)
  BY DEF TypeOK
<1>2. DOMAIN calls = 1 .. Len(calls) /\ Len(calls) \in Nat
  BY <1>1
<1>3. \A k \in DOMAIN calls : calls[k] \in PrintfCall
  BY <1>1, <1>2
<1> QED
  BY <1>2, <1>3 DEF PrintfCall

\* Appending the newest call keeps the capture numbered and ordered; nothing
\* else moves a captured call, and the clock only goes back when the capture
\* is emptied with it.
LEMMA CaptureStep ==
  TypeOK /\ CaptureInOrder /\ [Next]_vars => CaptureInOrder'
<1> SUFFICES ASSUME TypeOK, CaptureInOrder, [Next]_vars
             PROVE  CaptureInOrder'
  OBVIOUS
<1> USE DEF control, student, capture, history
<1>1. CASE /\ calls' = calls
           /\ clock' \in Nat /\ clock' >= clock
  BY <1>1, CaptureElements DEF TypeOK, CaptureInOrder
<1>2. CASE calls' = <<>>
  BY <1>2 DEF CaptureInOrder
<1>3. CASE LoopBody /\ UARTPrint = 1
  <2> DEFINE call == [synthetic_timestamp_us |-> clock,
                      sequence_index |-> Len(calls)]
  <2>1. calls' = Append(calls, call) /\ clock' = clock
    BY <1>3 DEF LoopBody, RecordPrintfCall
  <2>2. /\ call.synthetic_timestamp_us = clock
        /\ call.sequence_index = Len(calls)
    OBVIOUS
  <2>3. /\ Len(calls') = Len(calls) + 1
        /\ DOMAIN calls' = 1 .. Len(calls) + 1
        /\ \A k \in 1 .. Len(calls) : calls'[k] = calls[k]
        /\ calls'[Len(calls) + 1] = call
    <3> HIDE DEF call
    <3> QED
      BY <2>1 DEF TypeOK
  <2>4. DOMAIN calls = 1 .. Len(calls) /\ Len(calls) \in Nat
    BY DEF TypeOK
  <2>5. \A k \in DOMAIN calls :
          /\ calls[k].sequence_index = k - 1
          /\ calls[k].synthetic_timestamp_us <= clock
          /\ calls[k].synthetic_timestamp_us \in Nat
    BY CaptureElements DEF CaptureInOrder
  <2>6. clock \in Nat
    BY DEF TypeOK
  <2> HIDE DEF call
  <2>7. \A k \in DOMAIN calls' :
          /\ calls'[k].sequence_index = k - 1
          /\ calls'[k].synthetic_timestamp_us <= clock'
    BY <2>1, <2>2, <2>3, <2>4, <2>5, <2>6
  <2>8. ASSUME NEW j \in DOMAIN calls', NEW k \in DOMAIN calls', j < k
        PROVE  calls'[j].synthetic_timestamp_us
                 <= calls'[k].synthetic_timestamp_us
    <3>1. CASE k = Len(calls) + 1
      BY <2>2, <2>3, <2>4, <2>5, <2>6, <2>8, <3>1
    <3>2. CASE k # Len(calls) + 1
      BY <2>3, <2>4, <2>8, <3>2 DEF CaptureInOrder
    <3> QED
      BY <3>1, <3>2
  <2> QED
    BY <2>7, <2>8 DEF CaptureInOrder
<1>4. CASE PumpTick \/ IsrOnlyTick
  <2>1. clock' = clock + Period /\ calls' = calls
    BY <1>4 DEF PumpTick, IsrOnlyTick
  <2> QED
    BY <1>1, <2>1 DEF TypeOK
<1>5. CASE OpenPrintWindow \/ ClearPrintfCalls
  BY <1>2, <1>5 DEF OpenPrintWindow, ClearPrintfCalls
<1>6. CASE LoopBody /\ UARTPrint # 1
  BY <1>1, <1>6 DEF LoopBody, TypeOK
<1>7. CASE UNCHANGED <<clock, calls>>
  BY <1>1, <1>7 DEF TypeOK
<1>8. CASE \/ RunStudentInit \/ ResetStudentInit \/ CallIsr \/ StopDriving
           \/ GraderMainInitGuard \/ StudentInit \/ ReturnFromMain
           \/ UNCHANGED vars
  BY <1>7, <1>8
     DEF RunStudentInit, ResetStudentInit, CallIsr, StopDriving, vars,
         GraderMainInitGuard, StudentInit, ReturnFromMain
<1>9. ASSUME NEW n \in 0..MaxIters,
             \/ StepMainLoop(n) \/ SetMainLoopIterations(n)
             \/ \E by \in {"pump", "isr_only"} : StartDriving(by, n)
      PROVE  CaptureInOrder'
  BY <1>7, <1>9 DEF StepMainLoop, SetMainLoopIterations, StartDriving
<1> QED
  BY <1>3, <1>4, <1>5, <1>6, <1>8, <1>9 DEF Next, Check, Run

-----------------------------------------------------------------------------

\* The inductive invariant holds in every reachable state.
THEOREM IInvariance == Spec => []IInv
<1>1. IInv /\ [Next]_vars => IInv'
  BY TypeStep, ControlStep, CaptureStep DEF IInv
<1> QED
  BY InitEstablishesIInv, <1>1, PTL DEF Spec

\* Type correctness.
THEOREM TypeCorrect == Spec => []TypeOK
<1>1. IInv => TypeOK
  BY DEF IInv
<1> QED
  BY IInvariance, <1>1, PTL

\* The student's init code is not run again without a reset, has run when the
\* driver reports it, and runs before any loop body: for every client of the driver.
THEOREM InitWhenDue == Spec => []InitRunsWhenDue
<1>1. IInv => InitRunsWhenDue
  BY DEF IInv, TypeOK, LatchInv, InitRunsWhenDue
<1> QED
  BY IInvariance, <1>1, PTL

\* The capture is numbered and its timestamps never run backwards.
THEOREM CaptureOrdered == Spec => []CaptureInOrder
<1>1. IInv => CaptureInOrder
  BY DEF IInv
<1> QED
  BY IInvariance, <1>1, PTL

\* The pump serves every print request, whatever the student's modulus.
THEOREM PumpLosesNoPrint == Spec => []NoPrintLost
<1>1. IInv => NoPrintLost
  BY DEF IInv, HandshakeInv, NoPrintLost
<1> QED
  BY IInvariance, <1>1, PTL

\* Each entry of temp_main runs the loop body exactly as often as asked.
THEOREM BodiesAsAsked == Spec => IterationsAsAsked
<1>1. IInv /\ [Next]_vars
        => [at = "loop" /\ at' # "loop" => grader_i = asked]_vars
  <2> SUFFICES ASSUME IInv, Next, at = "loop", at' # "loop"
               PROVE  grader_i = asked
    BY DEF IInv
  <2>1. ReturnFromMain
    BY DEF Next, Check, Run, RunStudentInit, ResetStudentInit, StepMainLoop,
           SetMainLoopIterations, StartDriving, CallIsr, OpenPrintWindow,
           ClearPrintfCalls, PumpTick, IsrOnlyTick, StopDriving,
           GraderMainInitGuard, StudentInit, LoopBody, control
  <2> QED
    BY <2>1 DEF ReturnFromMain, IInv, TypeOK, LoopInv
<1> QED
  BY IInvariance, <1>1, PTL DEF Spec, IterationsAsAsked

-----------------------------------------------------------------------------
(* How long a call takes.                                                  *)

\* The turns that an ISR driver still has to make after the present one: the tick,
\* the guard, the init code, one loop body and the return, and at last the end of the
\* for loop.
StepsOfDriving == IF driving = "none" THEN 0 ELSE 5 * ticks + 1

\* The steps that the present entry of temp_main still has to make.
StepsOfMain ==
  IF at = "main" THEN g_iters + 3
  ELSE IF at = "init" THEN g_iters + 2
  ELSE IF at = "loop" THEN g_iters - grader_i + 1 ELSE 0

\* The most that the call under way can still take.
StepsLeft == IF at = "check" THEN 0 ELSE StepsOfDriving + StepsOfMain

\* Between calls no ISR is being driven, and in a driver's loop one is.
DrivingInv == (at = "check" => driving = "none") /\ (at = "drive" => driving # "none")

\* It stays so.
LEMMA DrivingStep == TypeOK /\ DrivingInv /\ [Next]_vars => DrivingInv'
<1> SUFFICES ASSUME TypeOK, DrivingInv, [Next]_vars PROVE DrivingInv'
  OBVIOUS
<1> USE DEF TypeOK, DrivingInv, control, student, capture, history
<1>1. CASE RunStudentInit \/ ResetStudentInit \/ CallIsr \/ OpenPrintWindow \/ ClearPrintfCalls
  BY <1>1 DEF RunStudentInit, EnterTempMain, ResetStudentInit, CallIsr, OpenPrintWindow,
              ClearPrintfCalls
<1>2. ASSUME NEW n \in 0..MaxIters, StepMainLoop(n) \/ SetMainLoopIterations(n)
      PROVE  DrivingInv'
  BY <1>2 DEF StepMainLoop, EnterTempMain, SetMainLoopIterations
<1>3. ASSUME NEW n \in 0..MaxIters, NEW by \in {"pump", "isr_only"}, StartDriving(by, n)
      PROVE  DrivingInv'
  BY <1>3 DEF StartDriving
<1>4. CASE PumpTick \/ IsrOnlyTick \/ StopDriving
  BY <1>4 DEF PumpTick, EnterTempMain, IsrOnlyTick, StopDriving
<1>5. CASE GraderMainInitGuard \/ StudentInit \/ LoopBody \/ ReturnFromMain
  BY <1>5 DEF GraderMainInitGuard, StudentInit, LoopBody, ReturnFromMain
<1>6. CASE UNCHANGED vars
  BY <1>6 DEF vars
<1> QED
  BY <1>1, <1>2, <1>3, <1>4, <1>5, <1>6 DEF Next, Check, Run

\* A call is under way exactly when some of its steps are left.
LEMMA StepsAreCounted ==
  ASSUME TypeOK, LoopInv, DrivingInv
  PROVE  StepsLeft \in Nat /\ (at = "check" <=> StepsLeft = 0)
<1> USE DEF TypeOK, LoopInv, DrivingInv, StepsLeft, StepsOfDriving, StepsOfMain, Locations
<1>1. CASE at = "check"
  BY <1>1
<1>2. CASE at = "drive"
  BY <1>2
<1>3. CASE at \in {"main", "init", "loop"}
  BY <1>3
<1> QED
  BY <1>1, <1>2, <1>3

\* Every step of a call is one less to make.
LEMMA StepsDecrease ==
  ASSUME TypeOK, LoopInv, DrivingInv, Next, at # "check"
  PROVE  StepsLeft' < StepsLeft
<1> USE DEF TypeOK, DrivingInv, StepsLeft, StepsOfDriving, StepsOfMain
<1>1. CASE PumpTick
  BY <1>1 DEF PumpTick, EnterTempMain
<1>2. CASE IsrOnlyTick
  BY <1>2 DEF IsrOnlyTick
<1>3. CASE StopDriving
  BY <1>3 DEF StopDriving
<1>4. CASE GraderMainInitGuard
  BY <1>4 DEF GraderMainInitGuard
<1>5. CASE StudentInit
  BY <1>5 DEF StudentInit, LoopInv
<1>6. CASE LoopBody
  BY <1>6 DEF LoopBody, control
<1>7. CASE ReturnFromMain
  BY <1>7 DEF ReturnFromMain, LoopInv
<1>8. ~Check
  BY DEF Check, RunStudentInit, ResetStudentInit, StepMainLoop, SetMainLoopIterations,
         StartDriving, CallIsr, OpenPrintWindow, ClearPrintfCalls
<1> QED
  BY <1>1, <1>2, <1>3, <1>4, <1>5, <1>6, <1>7, <1>8 DEF Next, Run

\* A call starts with so many.
LEMMA StepsOfACall ==
  ASSUME TypeOK, DrivingInv, Next, at = "check"
  PROVE  StepsLeft' <= 5 * MaxIters + 3
<1> USE DEF TypeOK, DrivingInv, StepsLeft, StepsOfDriving, StepsOfMain
<1>1. CASE RunStudentInit
  BY <1>1 DEF RunStudentInit, EnterTempMain
<1>2. CASE ResetStudentInit \/ CallIsr \/ OpenPrintWindow \/ ClearPrintfCalls
  BY <1>2 DEF ResetStudentInit, CallIsr, OpenPrintWindow, ClearPrintfCalls, control
<1>3. ASSUME NEW n \in 0..MaxIters, StepMainLoop(n) PROVE StepsLeft' <= 5 * MaxIters + 3
  BY <1>3 DEF StepMainLoop, EnterTempMain
<1>4. ASSUME NEW n \in 0..MaxIters, SetMainLoopIterations(n)
      PROVE  StepsLeft' <= 5 * MaxIters + 3
  BY <1>4 DEF SetMainLoopIterations, control
<1>5. ASSUME NEW n \in 0..MaxIters, NEW by \in {"pump", "isr_only"}, StartDriving(by, n)
      PROVE  StepsLeft' <= 5 * MaxIters + 3
  BY <1>5 DEF StartDriving
<1>6. ~Run
  BY DEF Run, PumpTick, IsrOnlyTick, StopDriving, GraderMainInitGuard, StudentInit, LoopBody,
         ReturnFromMain
<1> QED
  BY <1>1, <1>2, <1>3, <1>4, <1>5, <1>6 DEF Next, Check

\* No call of the driver is endless, whatever calls came before it: n turns of the pump
\* (drive_isr_with_main_pump) or n iterations (step_main_loop) make at most 5n + 3 steps,
\* each of which leaves fewer to make, and only when none is left is the thread back in
\* the check.  With the thread's fairness, DriverCallsReturn follows.
THEOREM CallsAreBounded ==
  Spec => /\ [](StepsLeft \in Nat /\ (at = "check" <=> StepsLeft = 0))
          /\ [][IF at = "check" THEN StepsLeft' <= 5 * MaxIters + 3
                                ELSE StepsLeft' < StepsLeft]_vars
<1>1. Init => DrivingInv
  BY DEF Init, DrivingInv
<1>2. IInv /\ DrivingInv /\ [Next]_vars => DrivingInv'
  BY DrivingStep DEF IInv
<1>3. IInv /\ DrivingInv => StepsLeft \in Nat /\ (at = "check" <=> StepsLeft = 0)
  BY StepsAreCounted DEF IInv
<1>4. IInv /\ DrivingInv /\ [Next]_vars
        => [IF at = "check" THEN StepsLeft' <= 5 * MaxIters + 3
                            ELSE StepsLeft' < StepsLeft]_vars
  BY StepsDecrease, StepsOfACall DEF IInv
<1> QED
  BY IInvariance, <1>1, <1>2, <1>3, <1>4, PTL DEF Spec
=============================================================================
