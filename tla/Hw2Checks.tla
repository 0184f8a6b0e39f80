------------------------------ MODULE Hw2Checks ------------------------------
(***************************************************************************)
(* The checks of HW2 (hw2.cpp): the ADC interrupt.  A program s is what the*)
(* checks can tell apart of it: the register states its initialisation     *)
(* leaves (s.init), the symbols it does not define (s.missing), and what   *)
(* its ADCA_ISR does.  Voltages are in tenths of a millivolt.              *)
(***************************************************************************)
EXTENDS Expectations

Symbols == {"ADCA_ISR", "Adca4result", "JoystickXresult", "JoystickYresult",
            "Adca4voltage", "JoystickXvoltage", "JoystickYvoltage",
            "AdcaInterruptCount"}

\* The register structs that are looked at; "others" stands for every struct
\* of populate_all_zero that no part of HW2 configures.
Compared == {"GpioSetup", "CpuTimer0", "CpuTimer1", "CpuTimer2", "CpuTimer0Regs",
             "CpuTimer1Regs", "CpuTimer2Regs", "IER", "PieCtrlRegs", "PieVectTable"}
FieldsRead == {"EPwm12Regs", "EPwm4Regs", "AdcaRegs"}
Used == FieldsRead \cup {"AdcaResultRegs", "GpioCtrlRegs", "GpioDataRegs", "DacaRegs"}
ZeroChecked == (Compared \ {"GpioSetup", "IER"}) \cup Used \cup {"others"}
Registers == ZeroChecked \cup {"GpioSetup", "IER"}

PoweredUp ==
  [regs |-> [n \in Registers |-> "zero"], ADCRESULT |-> <<0, 0, 0>>, flag |-> 0,
   results |-> <<0, 0, 0>>, voltages |-> <<0, 0, 0>>,
   AdcaInterruptCount |-> 0, hidden |-> 0, UARTPrint |-> 0, prints |-> 0]

\* What a program of this shape may choose.
IsStudent(s) ==
  /\ s.init \in [Registers -> RegisterStates] /\ s.missing \subseteq Symbols
  /\ s.order \in [1..3 -> 1..3] /\ s.fullScale \in Nat
  /\ s.flagInInit \in {0, 1} /\ {s.counts, s.flagInIsr} \subseteq BOOLEAN
  /\ s.countsIn \in {"global", "own"} /\ s.printEvery \in Nat \ {0}
  /\ s.format \in Seq(STRING)

StudentInit(s, m) == [m EXCEPT !.regs = s.init, !.flag = s.flagInInit]

\* result * fullScale / 4096
Volts(fullScale, r) == (r * fullScale) \div 4096

\* The counter the student's print logic looks at: the global the checks know,
\* or one of the student's own that no check saves.
Counter(s, m) == IF s.countsIn = "global" THEN m.AdcaInterruptCount ELSE m.hidden

ADCA_ISR(s, m) ==
  LET read == [k \in 1..3 |-> m.ADCRESULT[s.order[k]]]
      called == [m EXCEPT !.AdcaInterruptCount = IF s.counts THEN @ + 1 ELSE @,
                          !.hidden = @ + 1]
  IN [called EXCEPT !.results = read,
                    !.voltages = [k \in 1..3 |-> Volts(s.fullScale, read[k])],
                    !.flag = IF s.flagInIsr THEN 1 ELSE @,
                    !.UARTPrint = IF Counter(s, called) % s.printEvery = 0 THEN 1 ELSE @]

\* drive_isr_with_main_pump(ADCA_ISR, 100, n) after the capture and the request
\* flag were reset.
Drive(s, m, n) ==
  LET stuck == s.countsIn = "global" /\ ~s.counts IN
  [m EXCEPT !.results = [k \in 1..3 |-> m.ADCRESULT[s.order[k]]],
            !.voltages = [k \in 1..3 |-> Volts(s.fullScale, m.ADCRESULT[s.order[k]])],
            !.flag = IF s.flagInIsr THEN 1 ELSE @,
            !.AdcaInterruptCount = IF s.counts THEN @ + n ELSE @,
            !.hidden = @ + n,
            !.UARTPrint = 0,
            !.prints = IF ~stuck THEN Requests(Counter(s, m), n, s.printEvery)
                       ELSE IF m.AdcaInterruptCount % s.printEvery = 0 THEN n ELSE 0]
-----------------------------------------------------------------------------
Outcome(ok, m) == [ok |-> ok, machine |-> m]

\* Mutant: the second validation uses a map of its own.
check_initialization_FreshMap(s, m) ==
  LET before == mark_as_used(populate_all_zero(ZeroChecked), Used)
      started == StudentInit(s, m)
      after == register_comparison(NoComparisons, Wanted(Compared))
  IN Outcome(/\ validate(before, m.regs)
             /\ validate(after, started.regs)
             /\ \A n \in FieldsRead : started.regs[n] = "asked",
             started)

\* The structs are zero before main; after it the compared ones are as asked,
\* the fields of the PWM and ADC structs too, and the others still zero.
check_initialization(s, m) ==
  LET before == mark_as_used(populate_all_zero(ZeroChecked), Used)
      started == StudentInit(s, m)
      after == register_comparison(before, Wanted(Compared))
  IN Outcome(/\ validate(before, m.regs)
             /\ validate(after, started.regs)
             /\ \A n \in FieldsRead : started.regs[n] = "asked",
             started)

Cases == <<<<4095, 2048, 0>>, <<0, 4095, 2048>>, <<1024, 1024, 1024>>>>

Injected(m, r) == [m EXCEPT !.ADCRESULT = r]

approx_eq(a, b, tolerance) == a - b \in -tolerance..tolerance

\* run_case on the machine before (injected) and after the one call of the ISR.
CaseHolds(before, after) ==
  /\ after.results = before.ADCRESULT
  /\ \A k \in 1..3 : approx_eq(after.voltages[k], Volts(30000, before.ADCRESULT[k]), 50)
  /\ after.AdcaInterruptCount = before.AdcaInterruptCount + 1
  /\ after.flag = 1

RequiredSymbols == Symbols \ {"AdcaInterruptCount"}

\* run_case reads AdcaInterruptCount without the guard the snapshot has: when
\* the student does not define it, the weak symbol is a null pointer.
DereferencesNull(check, s) ==
  /\ check = "check_adc_isr_scaling"
  /\ RequiredSymbols \cap s.missing = {}
  /\ "AdcaInterruptCount" \in s.missing

\* Mutant: the snapshot is the state before the initialisation.
RestoreStudent_FromReset(m, snap) ==
  [PoweredUp EXCEPT !.ADCRESULT = m.ADCRESULT, !.flag = m.flag, !.hidden = m.hidden]

\* Results, voltages and the counter are put back; the injected results, the
\* interrupt flag and the request flag stay.
RestoreStudent(m, snap) ==
  [m EXCEPT !.results = snap.results, !.voltages = snap.voltages,
            !.AdcaInterruptCount = snap.AdcaInterruptCount]

check_adc_isr_scaling(s, m) ==
  IF RequiredSymbols \cap s.missing # {} THEN Outcome(FALSE, m)
  ELSE LET first  == ADCA_ISR(s, Injected(m, Cases[1]))
           second == ADCA_ISR(s, Injected(first, Cases[2]))
           third  == ADCA_ISR(s, Injected(second, Cases[3]))
       IN Outcome(/\ CaseHolds(Injected(m, Cases[1]), first)
                  /\ CaseHolds(Injected(first, Cases[2]), second)
                  /\ CaseHolds(Injected(second, Cases[3]), third),
                  RestoreStudent(third, m))

RestoreCount(s, m, count) ==
  IF "AdcaInterruptCount" \in s.missing THEN m ELSE [m EXCEPT !.AdcaInterruptCount = count]

check_print_cadence(s, m) ==
  IF "ADCA_ISR" \in s.missing THEN Outcome(FALSE, m)
  ELSE LET driven == Drive(s, Injected(m, <<1000, 1500, 2500>>), 1000) IN
       Outcome(driven.prints \in CadenceWindow(10, 10),
               RestoreCount(s, driven, m.AdcaInterruptCount))

check_print_format(s, m) ==
  IF "ADCA_ISR" \in s.missing THEN Outcome(FALSE, m)
  ELSE LET driven == Drive(s, Injected(m, <<1234, 2345, 3456>>), 200) IN
       Outcome(/\ driven.prints > 0
               /\ expect_arg_types(s.format, <<"Float", "Float", "Float">>),
               RestoreCount(s, driven, m.AdcaInterruptCount))

checker == <<"check_initialization", "check_adc_isr_scaling",
             "check_print_cadence", "check_print_format">>

Run(check, s, m) ==
  CASE check = "check_initialization"  -> check_initialization(s, m)
    [] check = "check_adc_isr_scaling" -> check_adc_isr_scaling(s, m)
    [] check = "check_print_cadence"   -> check_print_cadence(s, m)
    [] check = "check_print_format"    -> check_print_format(s, m)
-----------------------------------------------------------------------------
Asked(n) == IF n \in Compared \cup FieldsRead THEN "asked" ELSE "zero"

\* What the comments of hw2.cpp ask for: the three channels in order, scaled to
\* 3 V, counted, the flag cleared by the ISR, ten prints of three floats in a
\* thousand calls.  The structs marked as used may hold anything.
Conforms(s) ==
  /\ s.missing = {}
  /\ \A n \in Registers \ (Used \ FieldsRead) : s.init[n] = Asked(n)
  /\ s.order = <<1, 2, 3>> /\ s.fullScale = 30000
  /\ s.counts /\ s.flagInIsr /\ s.printEvery = 100
  /\ [k \in DOMAIN s.format |-> expected_arg_type(s.format[k])] = <<"Float", "Float", "Float">>

\* What a passing program cannot get wrong.  The flag may have been cleared by
\* the initialisation alone: the stub keeps the bit that was written.
Sound(s) ==
  /\ \A n \in Registers \ (Used \ FieldsRead) : s.init[n] = Asked(n)
  /\ s.order = <<1, 2, 3>>
  /\ s.fullScale \in 29949..30051
  /\ s.counts /\ (s.flagInInit = 1 \/ s.flagInIsr)
  /\ s.printEvery \in 84..111
  /\ Len(s.format) = 3

\* The print logic looks only at state that the checks know and restore.
KnownState(s) == s.countsIn = "global"
=============================================================================
