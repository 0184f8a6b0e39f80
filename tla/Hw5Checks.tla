------------------------------ MODULE Hw5Checks ------------------------------
(***************************************************************************)
(* The checks of HW5 (hw5.cpp): the DMA channel behind the microphone with *)
(* its two buffers, and the servos of HW4.  A program s is the register    *)
(* states its initialisation leaves (s.init), the period of its timer 2,   *)
(* the symbols it does not define, its servos, its DMA_isr and its prints. *)
(***************************************************************************)
EXTENDS Expectations

Symbols == {"setEPWM8A_RCServo", "setEPWM8B_RCServo", "DMA_isr", "ADCA_isr",
            "DMAcount", "pingFFT", "pongFFT", "iPingPong"}

Compared == {"CpuTimer0", "CpuTimer1", "CpuTimer2"}
FieldsRead == {"EPwm8Regs", "EPwm7Regs", "DmaRegs", "DmaClaSrcSelRegs",
               "PieVectTable", "PieCtrlRegs"}
Used == FieldsRead \cup Compared
          \cup {"AdcaRegs", "AdcaResultRegs", "AdcbRegs", "AdcbResultRegs", "AdccRegs",
                "AdcdRegs", "EPwm4Regs", "EPwm12Regs", "GpioCtrlRegs", "GpioDataRegs",
                "DacaRegs", "CpuTimer0Regs", "CpuTimer1Regs", "CpuTimer2Regs"}
ZeroChecked == Used \cup {"others"}
Registers == ZeroChecked

PoweredUp ==
  [regs |-> [n \in Registers |-> "zero"], period |-> 0, CMPA |-> 0, CMPB |-> 0,
   DMAcount |-> 0, pingFFT |-> 0, pongFFT |-> 0, iPingPong |-> 0,
   InterruptCount |-> 0, UARTPrint |-> 0, prints |-> 0]

IsServo(servo) ==
  {servo.zero, servo.span} \subseteq Int /\ {servo.limitsUp, servo.limitsDown} \subseteq BOOLEAN

\* What a program of this shape may choose.
IsStudent(s) ==
  /\ s.init \in [Registers -> RegisterStates] /\ s.missing \subseteq Symbols
  /\ s.period \in Nat /\ s.printEvery \in Nat \ {0}
  /\ IsServo(s.servoA) /\ IsServo(s.servoB)
  /\ s.dma \in {"alternates", "pingOnly", "pongOnly", "both", "never"} /\ s.counts \in BOOLEAN
  /\ s.format \in Seq(STRING)

TimerState(period) ==
  CASE period = 0 -> "zero" [] period = 40000 -> "asked" [] OTHER -> "other"

StudentInit(s, m) ==
  [m EXCEPT !.regs = [s.init EXCEPT !["CpuTimer2"] = TimerState(s.period)],
            !.period = s.period,
            !.CMPA = Compare(s.servoA, 0), !.CMPB = Compare(s.servoB, 0)]

\* DMA_isr: the buffer that was filled is handed to the main loop, the other
\* one is filled next; or always the same one, or none, or both.
DMA_isr(s, m) ==
  LET ping == CASE s.dma = "alternates" -> m.iPingPong = 0
                [] OTHER -> s.dma \in {"pingOnly", "both"}
      pong == CASE s.dma = "alternates" -> m.iPingPong = 1
                [] OTHER -> s.dma \in {"pongOnly", "both"}
  IN [m EXCEPT !.DMAcount = IF s.counts THEN @ + 1 ELSE @,
               !.pingFFT = IF ping THEN 1 ELSE @,
               !.pongFFT = IF pong THEN 1 ELSE @,
               !.iPingPong = IF s.dma = "alternates" THEN 1 - @ ELSE @]

Drive(s, m, n) ==
  [m EXCEPT !.InterruptCount = @ + n,
            !.UARTPrint = 0,
            !.prints = Requests(m.InterruptCount, n, s.printEvery)]
-----------------------------------------------------------------------------
Outcome(ok, m) == [ok |-> ok, machine |-> m]

\* The vectors are only compared for the ISRs the student defines.
check_initialization(s, m) ==
  LET before == mark_as_used(populate_all_zero(ZeroChecked), Used)
      started == StudentInit(s, m)
      read == IF {"DMA_isr", "ADCA_isr"} \subseteq s.missing
              THEN FieldsRead \ {"PieVectTable"} ELSE FieldsRead
  IN Outcome(/\ validate(before, m.regs)
             /\ validate(register_comparison(before, Wanted(Compared)), started.regs)
             /\ \A n \in read : started.regs[n] = "asked",
             started)

\* Both axes; the compare registers are put back.
check_servo_carryover(s, m) ==
  Outcome(/\ {"setEPWM8A_RCServo", "setEPWM8B_RCServo"} \cap s.missing = {}
          /\ sweep_axis(s.servoA) /\ sweep_axis(s.servoB),
          m)

\* The globals the checks can see, zeroed.
Zeroed(s, m) ==
  [m EXCEPT !.DMAcount = IF "DMAcount" \in s.missing THEN @ ELSE 0,
            !.pingFFT = IF "pingFFT" \in s.missing THEN @ ELSE 0,
            !.pongFFT = IF "pongFFT" \in s.missing THEN @ ELSE 0,
            !.iPingPong = IF "iPingPong" \in s.missing THEN @ ELSE 0]

Restored(s, m, saved) ==
  [m EXCEPT !.DMAcount = IF "DMAcount" \in s.missing THEN @ ELSE saved.DMAcount,
            !.pingFFT = IF "pingFFT" \in s.missing THEN @ ELSE saved.pingFFT,
            !.pongFFT = IF "pongFFT" \in s.missing THEN @ ELSE saved.pongFFT,
            !.iPingPong = IF "iPingPong" \in s.missing THEN @ ELSE saved.iPingPong]

\* Three transfers: counted, and one of the two buffers was handed over.
check_pingpong_swap(s, m) ==
  IF "DMA_isr" \in s.missing THEN Outcome(FALSE, m)
  ELSE LET after == DMA_isr(s, DMA_isr(s, DMA_isr(s, Zeroed(s, m)))) IN
       Outcome(/\ "DMAcount" \in s.missing \/ after.DMAcount = 3
               /\ \/ {"pingFFT", "pongFFT"} \cap s.missing # {}
                  \/ after.pingFFT = 1 \/ after.pongFFT = 1,
               Restored(s, after, m))

\* Eight seconds of timer 2: a program that does not print is accepted.
check_print_format(s, m) ==
  LET reset == [m EXCEPT !.prints = 0, !.UARTPrint = 0] IN
  IF m.period = 0 THEN Outcome(FALSE, reset)
  ELSE LET driven == Drive(s, m, 8000000 \div m.period) IN
       Outcome(\/ driven.prints = 0
               \/ expect_arg_types(s.format, <<"Float", "Float">>)
               \/ expect_arg_types(s.format, [k \in 1..4 |-> "Float"]),
               driven)

checker == <<"check_initialization", "check_servo_carryover",
             "check_pingpong_swap", "check_print_format">>

Run(check, s, m) ==
  CASE check = "check_initialization"  -> check_initialization(s, m)
    [] check = "check_servo_carryover" -> check_servo_carryover(s, m)
    [] check = "check_pingpong_swap"   -> check_pingpong_swap(s, m)
    [] check = "check_print_format"    -> check_print_format(s, m)
-----------------------------------------------------------------------------
InitAsAsked(s) ==
  /\ s.period = 40000
  /\ \A n \in (Compared \cup FieldsRead) \ {"CpuTimer2"} : s.init[n] = "asked"
  /\ s.init["others"] = "zero"

ServoAsAsked(servo) ==
  servo.zero = 5000 /\ servo.span = 2500 /\ servo.limitsUp /\ servo.limitsDown

Conforms(s) ==
  /\ InitAsAsked(s)
  /\ s.missing \subseteq {"ADCA_isr", "iPingPong"}
  /\ ServoAsAsked(s.servoA) /\ ServoAsAsked(s.servoB)
  /\ s.dma = "alternates" /\ s.counts
  /\ s.format \in {<<"%.3f", "%.0f">>, <<"%.3f", "%.0f", "%.3f", "%.3f">>}

\* What a passing program cannot get wrong; that the buffers alternate is not
\* part of it.
Sound(s) ==
  /\ InitAsAsked(s)
  /\ {"setEPWM8A_RCServo", "setEPWM8B_RCServo", "DMA_isr"} \cap s.missing = {}
  /\ \A servo \in {s.servoA, s.servoB} :
       /\ servo.zero \in 4998..5002 /\ servo.span \in 2496..2504
       /\ servo.limitsUp /\ servo.limitsDown
  /\ s.counts \/ "DMAcount" \in s.missing
  /\ s.dma # "never" \/ {"pingFFT", "pongFFT"} \cap s.missing # {}
  /\ s.printEvery <= 200 => Len(s.format) \in {2, 4}

KnownState(s) == TRUE
=============================================================================
