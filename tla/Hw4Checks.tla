------------------------------ MODULE Hw4Checks ------------------------------
(***************************************************************************)
(* The checks of HW4 (hw4.cpp): the RC servos and the external interrupts. *)
(* A program s is the register states its initialisation leaves (s.init),  *)
(* the period of its timer 2, the symbols it does not define (s.missing),  *)
(* its servo functions, its button interrupts and its prints.              *)
(***************************************************************************)
EXTENDS Expectations

Symbols == {"setEPWM8A_RCServo", "setEPWM8B_RCServo", "xint1_isr", "Xint1Count",
            "xint2_isr", "Xint2Count"}

PB3 == 6
PB4 == 7

\* "GpioSetup" stands for the four pins looked at, "others" for every struct
\* that no part of HW4 configures.  CpuTimer2's state follows from its period.
Compared == {"CpuTimer0", "CpuTimer1", "CpuTimer2"}
FieldsRead == {"EPwm8Regs", "GpioSetup", "xintPinMap", "XintRegs", "GpioCtrlRegs",
               "PieVectTable", "PieCtrlRegs"}
Used == (FieldsRead \ {"GpioSetup", "xintPinMap"}) \cup Compared
          \cup {"AdcaRegs", "AdcaResultRegs", "EPwm4Regs", "EPwm12Regs", "GpioDataRegs",
                "DacaRegs", "InputXbarRegs", "CpuTimer0Regs", "CpuTimer1Regs",
                "CpuTimer2Regs"}
ZeroChecked == Used \cup {"others"}
Registers == ZeroChecked \cup {"GpioSetup", "xintPinMap"}

PoweredUp ==
  [regs |-> [n \in Registers |-> "zero"], period |-> 0, DAT |-> {},
   CMPA |-> 0, CMPB |-> 0, XintCount |-> <<0, 0>>, InterruptCount |-> 0,
   UARTPrint |-> 0, prints |-> 0]

IsServo(servo) ==
  {servo.zero, servo.span} \subseteq Int /\ {servo.limitsUp, servo.limitsDown} \subseteq BOOLEAN

\* What a program of this shape may choose.
IsStudent(s) ==
  /\ s.init \in [Registers -> RegisterStates] /\ s.missing \subseteq Symbols
  /\ s.period \in Nat /\ s.printEvery \in Nat \ {0}
  /\ IsServo(s.servoA) /\ IsServo(s.servoB)
  /\ s.xint \in {"always", "pressed", "released", "twice"}
  /\ s.format \in Seq(STRING)

TimerState(period) ==
  CASE period = 0 -> "zero" [] period = 40000 -> "asked" [] OTHER -> "other"

\* The servos start at 0 degrees.
StudentInit(s, m) ==
  [m EXCEPT !.regs = [s.init EXCEPT !["CpuTimer2"] = TimerState(s.period)],
            !.period = s.period,
            !.CMPA = Compare(s.servoA, 0), !.CMPB = Compare(s.servoB, 0)]

\* The interrupt of button k, on pin p: it counts, unconditionally or looking
\* at the level of its pin, once or twice.
xint_isr(s, m, k, p) ==
  LET sees == CASE s.xint = "pressed" -> p \notin m.DAT
                [] s.xint = "released" -> p \in m.DAT
                [] OTHER -> TRUE
  IN [m EXCEPT !.XintCount[k] = IF ~sees THEN @ ELSE IF s.xint = "twice" THEN @ + 2 ELSE @ + 1]

\* drive_isr_with_main_pump(cpu_timer2_isr, period, n) with the capture cleared.
Drive(s, m, n) ==
  [m EXCEPT !.InterruptCount = @ + n,
            !.UARTPrint = 0,
            !.prints = Requests(m.InterruptCount, n, s.printEvery)]
-----------------------------------------------------------------------------
Outcome(ok, m) == [ok |-> ok, machine |-> m]

press_button(m, p) == [m EXCEPT !.DAT = @ \ {p}]
release_button(m, p) == [m EXCEPT !.DAT = @ \cup {p}]

\* As for the other assignments, with the compare registers within the servo's
\* range; a vector is only compared when the student defines its ISR.
check_initialization(s, m) ==
  LET before == mark_as_used(populate_all_zero(ZeroChecked), Used)
      started == StudentInit(s, m)
      read == IF {"xint1_isr", "xint2_isr"} \subseteq s.missing
              THEN FieldsRead \ {"PieVectTable"} ELSE FieldsRead
  IN Outcome(/\ validate(before, m.regs)
             /\ validate(register_comparison(before, Wanted(Compared)), started.regs)
             /\ \A n \in read : started.regs[n] = "asked"
             /\ {started.CMPA, started.CMPB} \subseteq 2500..7500,
             started)

\* The sweep writes the compare register; it is put back.
check_setEPWM8A_RCServo(s, m) ==
  Outcome("setEPWM8A_RCServo" \notin s.missing /\ sweep_axis(s.servoA), m)

check_setEPWM8B_RCServo(s, m) ==
  Outcome("setEPWM8B_RCServo" \notin s.missing /\ sweep_axis(s.servoB), m)

\* One press of button k: pressed, the interrupt, released.
PressAndRelease(s, m, k, p) ==
  release_button(xint_isr(s, press_button(m, p), k, p), p)

\* Five presses advance the count by five.  Neither the count nor the level of
\* the pin is put back.
CheckButton(s, m, k, p, symbols) ==
  IF symbols \cap s.missing # {} THEN Outcome(FALSE, m)
  ELSE LET press[i \in 0..5] == IF i = 0 THEN m ELSE PressAndRelease(s, press[i - 1], k, p)
       IN Outcome(press[5].XintCount[k] - m.XintCount[k] = 5, press[5])

check_xint1_button(s, m) == CheckButton(s, m, 1, PB3, {"xint1_isr", "Xint1Count"})
check_xint2_button(s, m) == CheckButton(s, m, 2, PB4, {"xint2_isr", "Xint2Count"})

\* Eight seconds of timer 2: a program that does not print is accepted.
check_print_format(s, m) ==
  LET reset == [m EXCEPT !.prints = 0, !.UARTPrint = 0] IN
  IF m.period = 0 THEN Outcome(FALSE, reset)
  ELSE LET driven == Drive(s, m, 8000000 \div m.period) IN
       Outcome(driven.prints = 0 \/ expect_arg_types(s.format, <<"Int32", "Int32">>),
               driven)

checker == <<"check_initialization", "check_setEPWM8A_RCServo", "check_setEPWM8B_RCServo",
             "check_xint1_button", "check_xint2_button", "check_print_format">>

Run(check, s, m) ==
  CASE check = "check_initialization"    -> check_initialization(s, m)
    [] check = "check_setEPWM8A_RCServo" -> check_setEPWM8A_RCServo(s, m)
    [] check = "check_setEPWM8B_RCServo" -> check_setEPWM8B_RCServo(s, m)
    [] check = "check_xint1_button"      -> check_xint1_button(s, m)
    [] check = "check_xint2_button"      -> check_xint2_button(s, m)
    [] check = "check_print_format"      -> check_print_format(s, m)
-----------------------------------------------------------------------------
InitAsAsked(s) ==
  /\ s.period = 40000
  /\ \A n \in (Compared \cup FieldsRead) \ {"CpuTimer2"} : s.init[n] = "asked"
  /\ s.init["others"] = "zero"

\* A servo as asked: -90 to 2500, 0 to 5000, 90 to 7500, limited both ways.
ServoAsAsked(servo) ==
  servo.zero = 5000 /\ servo.span = 2500 /\ servo.limitsUp /\ servo.limitsDown

Conforms(s) ==
  /\ s.missing = {} /\ InitAsAsked(s)
  /\ ServoAsAsked(s.servoA) /\ ServoAsAsked(s.servoB)
  /\ s.xint \in {"always", "pressed"}
  /\ s.format = <<"%ld", "%ld">>

\* What a passing program cannot get wrong: what it prints only if it prints
\* within the 200 ticks.
Sound(s) ==
  /\ s.missing = {} /\ InitAsAsked(s)
  /\ \A servo \in {s.servoA, s.servoB} :
       /\ servo.zero \in 4998..5002 /\ servo.span \in 2496..2504
       /\ servo.limitsUp /\ servo.limitsDown
  /\ s.xint \in {"always", "pressed"}
  /\ s.printEvery <= 200 => Len(s.format) = 2

KnownState(s) == TRUE
=============================================================================
