------------------------------ MODULE Hw1Checks ------------------------------
(***************************************************************************)
(* The checks of HW1 (hw1.cpp): the three CPU timers, the buttons, the     *)
(* LEDs and the prints.  A program s has the shape of LABstarter_main.c,   *)
(* with its constants, its button logic and its print format as parameters.*)
(* The checks share one process: the register stubs, the student's globals *)
(* and private statics, together the machine m, carry over from each check *)
(* to the next, except for what a check saves and restores.                *)
(*                                                                         *)
(* A GPIO register is the set of the pins whose bit is 1.  Of the registers *)
(* check_initialization compares, the GPIO data registers and CpuTimer2 are *)
(* kept: the others are written once and never read by a later check.       *)
(***************************************************************************)
EXTENDS Expectations, FiniteSets

Pins == 0..168
BankA == 0..31        \* GPADAT and its SET, CLEAR and TOGGLE registers
PB1 == 4
PB4 == 7
Buttons == 4..8
StatusLed == 31
RedLed == 34
Led10And11 == {27, 60}
Led12And13 == {61, 157}
Led14And15 == {158, 159}

Bit(b) == IF b THEN 1 ELSE 0

PoweredUp ==
  [DAT |-> {}, SET |-> {}, CLEAR |-> {}, TOGGLE |-> {},
   period |-> 0, count0 |-> 0, count1 |-> 0, count2 |-> 0,
   numTimer0calls |-> 0, LEDdisplaynum |-> 0, UARTPrint |-> 0,
   prev |-> [p \in {PB1, PB4} |-> 0], prints |-> 0]

-----------------------------------------------------------------------------
(* The student's program.                                                  *)

\* What a program of this shape may choose.
IsStudent(s) ==
  /\ s.period \in Nat /\ s.prev \in {0, 1}
  /\ {s.statusTicks, s.ledTicks, s.printTicks} \subseteq Nat \ {0}
  /\ {s.initToggles, s.pb4Leds} \subseteq SUBSET Pins
  /\ s.trigger \in {"level", "press", "release"}
  /\ {s.blinksRed, s.looksEveryTick} \subseteq BOOLEAN
  /\ s.saturate \in {"clamp", "noUpper", "noLower", "wrongSign", "missing"}

LedsSetAtInit == {0, 1, 9, 19, 29, StatusLed, 32, RedLed, 66, 125}
LedsClearedAtInit ==
  {22, 25, 26, 94, 95, 97, 111, 130, 131, 160}
    \cup Led10And11 \cup Led12And13 \cup Led14And15

StudentInit(s, m) ==
  [m EXCEPT !.SET = LedsSetAtInit, !.CLEAR = LedsClearedAtInit,
            !.TOGGLE = s.initToggles, !.period = s.period,
            !.prev = [p \in {PB1, PB4} |-> s.prev],
            !.count0 = 0, !.count1 = 0, !.count2 = 0]

cpu_timer0_isr(s, m) ==
  LET called == m.numTimer0calls + 1 IN
  [m EXCEPT !.count0 = @ + 1,
            !.numTimer0calls = called,
            !.LEDdisplaynum = IF called % 250 = 0 THEN (@ + 1) % 65535 ELSE @,
            !.TOGGLE = IF s.blinksRed THEN @ \cup {RedLed} ELSE @]

cpu_timer1_isr(s, m) == [m EXCEPT !.count1 = @ + 1]

\* Does the button logic for p fire, given the button's level now?
Fires(s, p, now, prev) ==
  CASE s.trigger = "level"   -> now = 0
    [] s.trigger = "press"   -> now = 0 /\ prev = 1
    [] s.trigger = "release" -> now = 1 /\ prev = 0

cpu_timer2_isr(s, m) ==
  LET n == m.count2 + 1
      boundary == n % s.ledTicks = 0
      looks == s.looksEveryTick \/ boundary
      now == [p \in {PB1, PB4} |-> Bit(p \in m.DAT)]
      fires(p) == looks /\ Fires(s, p, now[p], m.prev[p])
      toggled == (IF n % s.statusTicks = 0 THEN {StatusLed} ELSE {})
                   \cup (IF boundary THEN Led10And11 ELSE {})
                   \cup (IF fires(PB1) THEN Led12And13 ELSE {})
                   \cup (IF fires(PB4) THEN s.pb4Leds ELSE {})
  IN [m EXCEPT !.count2 = n,
               !.UARTPrint = IF n % s.printTicks = 0 THEN 1 ELSE @,
               !.TOGGLE = @ \cup toggled,
               !.prev = IF looks THEN now ELSE @]

\* One turn of the main loop: a pending request prints once.
LoopBody(m) ==
  IF m.UARTPrint = 1 THEN [m EXCEPT !.prints = @ + 1, !.UARTPrint = 0] ELSE m

\* What a check calls in a loop: an ISR, or the timer's ISR followed by one turn of
\* the main loop (drive_isr_with_main_pump).
Call(isr, s, m) ==
  CASE isr = "cpu_timer0_isr" -> cpu_timer0_isr(s, m)
    [] isr = "cpu_timer1_isr" -> cpu_timer1_isr(s, m)
    [] isr = "cpu_timer2_isr" -> cpu_timer2_isr(s, m)
    [] isr = "main pump"      -> LoopBody(cpu_timer2_isr(s, m))

\* F applied n times to m.  The singleton and the blocks of sixteen only keep
\* TLC's evaluation shallow.
Steps(n, F(_), m) ==
  LET after[k \in 0..n] ==
        IF k = 0 THEN m ELSE CHOOSE x \in {F(y) : y \in {after[k - 1]}} : TRUE
  IN after[n]

Calls(n, isr, s, m) == Steps(n, LAMBDA x : Call(isr, s, x), m)
Sixteens(n, isr, s, m) == Steps(n, LAMBDA x : Calls(16, isr, s, x), m)

\* n calls in a row.
Times(n, isr, s, m) == Calls(n % 16, isr, s, Sixteens(n \div 16, isr, s, m))

\* saturate(x, limit), in quarters; "missing" leaves the weak symbol null.
saturate(s, x, limit) ==
  CASE x > limit  /\ s.saturate # "noUpper" -> limit
    [] x < -limit /\ s.saturate # "noLower" ->
         IF s.saturate = "wrongSign" THEN limit ELSE -limit
    [] OTHER -> x
-----------------------------------------------------------------------------
(* The stubs and the stimulus.                                             *)

\* updateGPIOState: SET, then CLEAR, then TOGGLE are applied to DAT and zeroed.
\* All six entries of gpioToggleRegister name GPATOGGLE, so the other banks'
\* toggles are neither applied nor zeroed.
UpdateGPIOState(m) ==
  LET driven == (m.DAT \cup m.SET) \ m.CLEAR
      flipped == m.TOGGLE \cap BankA
  IN [m EXCEPT !.DAT = (driven \ flipped) \cup (flipped \ driven),
               !.SET = {}, !.CLEAR = {}, !.TOGGLE = @ \ BankA]

PressButtons(m, buttons) == [m EXCEPT !.DAT = @ \ buttons]
ReleaseButtons(m, buttons) == [m EXCEPT !.DAT = @ \cup buttons]
ClearAllToggleRegs(m) == [m EXCEPT !.TOGGLE = {}]

\* GpioDataRegs = from.GpioDataRegs
WithGpio(m, from) ==
  [m EXCEPT !.DAT = from.DAT, !.SET = from.SET,
            !.CLEAR = from.CLEAR, !.TOGGLE = from.TOGGLE]

Gpio(m) == <<m.DAT, m.SET, m.CLEAR, m.TOGGLE>>

\* Mutant: the counter is not part of the snapshot.
RestoreSnapshot_NoCount(m, baseline) ==
  [WithGpio(m, baseline) EXCEPT !.UARTPrint = baseline.UARTPrint]

\* restore_snapshot: the GPIO registers, UARTPrint and CpuTimer2.InterruptCount.
RestoreSnapshot(m, baseline) ==
  [WithGpio(m, baseline) EXCEPT !.UARTPrint = baseline.UARTPrint,
                                !.count2 = baseline.count2]
-----------------------------------------------------------------------------
(* The checks.  Each maps the student and the machine before it to whether *)
(* it passes and the machine it leaves behind.                             *)

Outcome(ok, m) == [ok |-> ok, machine |-> m]

\* What the checks register comparisons with.
Structs(m) ==
  [gpio |-> Gpio(m), period |-> m.period, numTimer0calls |-> m.numTimer0calls,
   LEDdisplaynum |-> m.LEDdisplaynum,
   count0 |-> m.count0, count1 |-> m.count1, count2 |-> m.count2]

\* The registers are all zero before main; main's initialisation writes the
\* expected ones, compared through a copy taken here; updateGPIOState turns them
\* into the expected levels, and the timer is compared again as it is then.
check_initialization(s, m) ==
  LET started == StudentInit(s, m)
      updated == UpdateGPIOState(started)
      written == [PoweredUp EXCEPT !.SET = LedsSetAtInit, !.CLEAR = LedsClearedAtInit]
      levels  == [PoweredUp EXCEPT !.DAT = LedsSetAtInit]
      timer   == register_comparison(NoComparisons, [period |-> 5000, count2 |-> 0])
      first   == register_comparison_copy(timer, Structs(started), [gpio |-> Gpio(written)])
      second  == register_comparison_copy(first, [levels |-> Gpio(updated)],
                                          [levels |-> Gpio(levels)])
  IN Outcome(/\ m = PoweredUp
             /\ validate(first, Structs(started))
             /\ validate(second, Structs(updated)),
             updated)

\* The comparisons hold copies, so restoring before validate() is harmless.
check_timer0(s, m) ==
  LET after == Times(250, "cpu_timer0_isr", s, m)
      tracker == register_comparison_copy(NoComparisons, Structs(after),
                   [numTimer0calls |-> m.numTimer0calls + 250, count0 |-> m.count0 + 250,
                    LEDdisplaynum |-> m.LEDdisplaynum + 1,
                    gpio |-> Gpio([m EXCEPT !.TOGGLE = @ \cup {RedLed}])])
      restored == [WithGpio(after, m) EXCEPT !.numTimer0calls = m.numTimer0calls,
                                             !.LEDdisplaynum = m.LEDdisplaynum,
                                             !.count0 = m.count0]
  IN Outcome(validate(tracker, Structs(restored)), restored)

check_timer1(s, m) ==
  LET after == Times(100, "cpu_timer1_isr", s, m)
      tracker == register_comparison_copy(NoComparisons, Structs(after),
                                          [count1 |-> m.count1 + 100])
      restored == [after EXCEPT !.count1 = m.count1]
  IN Outcome(validate(tracker, Structs(restored)), restored)

TicksPer100ms(m) == 100000 \div m.period

\* run_window: a primer call with every button released, then the pressed ones
\* are pressed for a little more than 100 ms of calls.
RunWindow(s, baseline, m, pressed) ==
  LET clean == ClearAllToggleRegs(
                 [WithGpio(m, baseline) EXCEPT !.count2 = 0, !.UARTPrint = 0])
      primed == ClearAllToggleRegs(
                  [cpu_timer2_isr(s, ReleaseButtons(clean, Buttons)) EXCEPT !.count2 = 0])
      armed == ReleaseButtons(PressButtons(primed, pressed), {PB1, PB4} \ pressed)
  IN Times(TicksPer100ms(m) + 2, "cpu_timer2_isr", s, armed)

Toggles(m, on, off) == on \subseteq m.TOGGLE /\ off \cap m.TOGGLE = {}

\* The assertions on the three windows.
SubChecks(released, pb1, pb4) ==
  /\ Toggles(released, {StatusLed} \cup Led10And11, Led12And13 \cup Led14And15)
  /\ Toggles(pb1, Led12And13, Led14And15)
  /\ Toggles(pb4, Led14And15, Led12And13)

check_timer2(s, m) ==
  IF m.period = 0 \/ TicksPer100ms(m) = 0 THEN Outcome(FALSE, m)
  ELSE LET released == RunWindow(s, m, m, {})
           pb1 == RunWindow(s, m, released, {PB1})
           pb4 == RunWindow(s, m, pb1, {PB4})
       IN Outcome(SubChecks(released, pb1, pb4), RestoreSnapshot(pb4, m))

\* The values and limits of check_saturate, in quarters.
SatValues == {-40, -8, -4, -2, 0, 2}
SatLimits == {1, 4, 6, 8, 60}

Clamp(x, limit) == IF x > limit THEN limit ELSE IF x < -limit THEN -limit ELSE x

check_saturate(s, m) ==
  Outcome(/\ s.saturate # "missing"
          /\ \A x \in SatValues, limit \in SatLimits :
               saturate(s, x, limit) = Clamp(x, limit),
          m)

\* Mutant: the capture is not cleared.
DrivePrints_KeepsCapture(s, m, us) ==
  LET ready == [ReleaseButtons(m, {PB1, PB4}) EXCEPT !.UARTPrint = 0, !.count2 = 0]
  IN Times(us \div m.period, "main pump", s, ready)

\* drive_isr_with_main_pump over us microseconds, with the capture cleared,
\* the request flag and the counter zeroed and both buttons released.
DrivePrints(s, m, us) ==
  LET ready == [ReleaseButtons(m, {PB1, PB4}) EXCEPT !.prints = 0, !.UARTPrint = 0,
                                                     !.count2 = 0]
  IN Times(us \div m.period, "main pump", s, ready)

check_print_cadence(s, m) ==
  IF m.period = 0 THEN Outcome(FALSE, m)
  ELSE LET driven == DrivePrints(s, m, 1000000) IN
       Outcome(driven.prints \in CadenceWindow(4, 10), RestoreSnapshot(driven, m))

\* The formats of the two exercises.
Exercise8 == <<"%ld", "%.2f", "%.3f", "%.2f">>
Exercise5 == <<"%ld", "%ld">>

\* The format of exercise 5 is accepted too, with its two arguments.
check_print_format(s, m) ==
  IF m.period = 0 THEN Outcome(FALSE, m)
  ELSE LET driven == DrivePrints(s, m, 500000) IN
       Outcome(/\ driven.prints > 0
               /\ \/ expect_format(s.format, Exercise8)
                  \/ expect_format(s.format, Exercise5)
               /\ \/ expect_arg_types(s.format, <<"Int32", "Float", "Float", "Float">>)
                  \/ expect_arg_types(s.format, <<"Int32", "Int32">>),
               RestoreSnapshot(driven, m))

Run(check, s, m) ==
  CASE check = "check_initialization" -> check_initialization(s, m)
    [] check = "check_timer0"         -> check_timer0(s, m)
    [] check = "check_timer1"         -> check_timer1(s, m)
    [] check = "check_timer2"         -> check_timer2(s, m)
    [] check = "check_saturate"       -> check_saturate(s, m)
    [] check = "check_print_cadence"  -> check_print_cadence(s, m)
    [] check = "check_print_format"   -> check_print_format(s, m)

\* checker(): the checks of this assignment.
checker == <<"check_initialization", "check_timer0", "check_timer1", "check_timer2",
             "check_saturate", "check_print_cadence", "check_print_format">>
-----------------------------------------------------------------------------
\* The types of the machine once the initialisation has run.
IsMachine(s, m) ==
  m \in [DAT : SUBSET Pins, SET : SUBSET Pins, CLEAR : SUBSET Pins, TOGGLE : SUBSET Pins,
         period : {s.period}, count0 : {0}, count1 : {0}, count2 : {0},
         numTimer0calls : {0}, LEDdisplaynum : {0}, UARTPrint : {0},
         prev : [{PB1, PB4} -> {0, 1}], prints : Nat]

\* A program that does what HW1.tex asks, as hw1.cpp's comments quote it; its
\* button logic may read the level or the edge of the press, on every tick or
\* only at the 100 ms boundary, whatever value its statics start from
\* (hw1.cpp:315-320, "we accept either a level-based or edge-on-press student").
Conforms(s) ==
  /\ s.period = 5000 /\ s.initToggles = {} /\ s.blinksRed
  /\ s.statusTicks = 1 /\ s.ledTicks = 20 /\ s.pb4Leds = Led14And15
  /\ s.trigger \in {"level", "press"}
  /\ s.saturate = "clamp"
  /\ s.printTicks = 50 /\ s.format \in {Exercise5, Exercise8}

\* What a passing program cannot get wrong: it does not react to the release of a
\* button, drives the LEDs of each button with it and not those of the other,
\* toggles the LEDs within the window, prints three to five times a second in an
\* accepted format, saturates both ways and leaves no toggle pending after its
\* initialisation.
Sound(s) ==
  /\ s.trigger # "release"
  /\ Led14And15 \subseteq s.pb4Leds /\ Led12And13 \cap s.pb4Leds = {}
  /\ s.blinksRed
  /\ s.statusTicks <= 22 /\ s.ledTicks <= 22
  /\ 1000000 \div (s.printTicks * s.period) \in 3..5
  /\ s.format \in {Exercise5, Exercise8}
  /\ s.saturate = "clamp"
  /\ s.initToggles = {}
=============================================================================
