------------------------------ MODULE Hw3Checks ------------------------------
(***************************************************************************)
(* The checks of HW3 (hw3.cpp): the IMU behind SPIB.  A program s is the   *)
(* register states its initialisation leaves (s.init), the symbols it does *)
(* not define (s.missing) and what its SPIB_isr does.  The wait of         *)
(* setupSpib for the FIFO levels, and the thread that feeds it, are the    *)
(* subject of SpibWatchdog; here the initialisation has returned.          *)
(* Rates are in hundredths of a degree per second.                         *)
(***************************************************************************)
EXTENDS Expectations

Symbols == {"SPIB_isr", "gyroz_raw", "gyroz_val", "SPIBCount"}

\* The structs compared or read after the initialisation ("GpioSetup" for the
\* six pins looked at), those only exempted from the zero check, and "others".
Compared == {"CpuTimer1", "CpuTimer2"}
FieldsRead == {"GpioSetup", "PieVectTable", "EPwm9Regs", "SpibRegs"}
Used == (FieldsRead \ {"GpioSetup"}) \cup Compared
          \cup {"AdcaRegs", "AdcaResultRegs", "EPwm12Regs", "GpioCtrlRegs",
                "GpioDataRegs", "DacaRegs", "PieCtrlRegs", "CpuTimer0",
                "CpuTimer0Regs", "CpuTimer1Regs", "CpuTimer2Regs"}
ZeroChecked == Used \cup {"others"}
Registers == ZeroChecked \cup {"GpioSetup"}

PoweredUp ==
  [regs |-> [n \in Registers |-> "zero"], SPIRXBUF |-> 0, RXFFST |-> 0,
   gyroz_raw |-> 0, gyroz_val |-> 0, SPIBCount |-> 0, hidden |-> 0,
   UARTPrint |-> 0, prints |-> 0]

\* What a program of this shape may choose: a print event prints at most three lines.
IsStudent(s) ==
  /\ s.init \in [Registers -> RegisterStates] /\ s.missing \subseteq Symbols
  /\ s.range \in Nat /\ {s.signed, s.counts} \subseteq BOOLEAN
  /\ s.countsIn \in {"global", "own"}
  /\ s.printEvery \in Nat \ {0} /\ s.printsEach \in 1..3
  /\ s.format \in Seq(STRING)

\* The watchdog thread leaves the FIFO level at 0.
StudentInit(s, m) == [m EXCEPT !.regs = s.init, !.RXFFST = 0]

\* A 16-bit word as the int16_t it is stored in.
Int16(word) == IF word >= 32768 THEN word - 65536 ELSE word

\* raw * range / 32767 (whole degrees and hundredths apart, to stay small)
Rate(raw, range) ==
  LET p == raw * range IN
  (p \div 32767) * 100 + ((p % 32767) * 100) \div 32767

Counter(s, m) == IF s.countsIn = "global" THEN m.SPIBCount ELSE m.hidden

\* The eight reads of SPIRXBUF all return the word injected last.
SPIB_isr(s, m) ==
  LET raw == IF s.signed THEN Int16(m.SPIRXBUF) ELSE m.SPIRXBUF
      called == [m EXCEPT !.SPIBCount = IF s.counts THEN @ + 1 ELSE @, !.hidden = @ + 1]
  IN [called EXCEPT !.gyroz_raw = Int16(m.SPIRXBUF),
                    !.gyroz_val = Rate(raw, s.range),
                    !.UARTPrint = IF Counter(s, called) % s.printEvery = 0 THEN 1 ELSE @]

\* drive_isr_with_main_pump(SPIB_isr, 100, n); a request prints s.printsEach times.
Drive(s, m, n) ==
  LET driven == SPIB_isr(s, m)
      stuck == s.countsIn = "global" /\ ~s.counts
      requests == IF ~stuck THEN Requests(Counter(s, m), n, s.printEvery)
                  ELSE IF m.SPIBCount % s.printEvery = 0 THEN n ELSE 0
  IN [driven EXCEPT !.SPIBCount = IF s.counts THEN m.SPIBCount + n ELSE @,
                    !.hidden = m.hidden + n,
                    !.UARTPrint = 0,
                    !.prints = s.printsEach * requests]
-----------------------------------------------------------------------------
Outcome(ok, m) == [ok |-> ok, machine |-> m]

\* clear_spi_state and inject_spi_rx of one word.
Inject(m, word) == [m EXCEPT !.SPIRXBUF = word, !.RXFFST = 1]

\* Every struct but the exempted ones is zero before main and as asked after
\* it; CpuTimer0 has some period; SPIB_isr exists and is the vector.
check_initialization(s, m) ==
  LET before == mark_as_used(populate_all_zero(ZeroChecked), Used)
      started == StudentInit(s, m)
  IN Outcome(/\ validate(before, m.regs)
             /\ validate(register_comparison(before, Wanted(Compared)), started.regs)
             /\ \A n \in FieldsRead : started.regs[n] = "asked"
             /\ started.regs["CpuTimer0"] # "zero"
             /\ "SPIB_isr" \notin s.missing,
             started)

approx_eq(a, b, tolerance) == a - b \in -tolerance..tolerance

Words == <<16384, 49152, 0>>

CaseHolds(after, word) ==
  /\ after.gyroz_raw = Int16(word)
  /\ approx_eq(after.gyroz_val, Rate(Int16(word), 250), 5)

RestoreCount(s, m, count) ==
  IF "SPIBCount" \in s.missing THEN m ELSE [m EXCEPT !.SPIBCount = count]

check_spib_isr_scaling(s, m) ==
  IF {"SPIB_isr", "gyroz_raw", "gyroz_val"} \cap s.missing # {} THEN Outcome(FALSE, m)
  ELSE LET first  == SPIB_isr(s, Inject(m, Words[1]))
           second == SPIB_isr(s, Inject(first, Words[2]))
           third  == SPIB_isr(s, Inject(second, Words[3]))
       IN Outcome(/\ CaseHolds(first, Words[1])
                  /\ CaseHolds(second, Words[2])
                  /\ CaseHolds(third, Words[3]),
                  RestoreCount(s, [third EXCEPT !.gyroz_raw = m.gyroz_raw,
                                                !.gyroz_val = m.gyroz_val], m.SPIBCount))

\* Not implemented: the transmitted words are not captured.
check_spib_request_format(s, m) == Outcome(TRUE, m)
check_imu_full_init(s, m) == Outcome(TRUE, m)

\* Mutant: the counter stays where the thousand calls took it.
check_print_cadence_NoRestore(s, m) ==
  IF "SPIB_isr" \in s.missing THEN Outcome(FALSE, m)
  ELSE LET driven == Drive(s, Inject(m, 4660), 1000) IN
       Outcome(driven.prints \in 4..14, driven)

check_print_cadence(s, m) ==
  IF "SPIB_isr" \in s.missing THEN Outcome(FALSE, m)
  ELSE LET driven == Drive(s, Inject(m, 4660), 1000) IN
       Outcome(driven.prints \in 4..14, RestoreCount(s, driven, m.SPIBCount))

\* Three or six floats, or the single integer of exercise 5; the counter stays
\* where the 400 calls took it.
check_print_format(s, m) ==
  IF "SPIB_isr" \in s.missing THEN Outcome(FALSE, m)
  ELSE LET driven == Drive(s, Inject(m, 16384), 400) IN
       Outcome(/\ driven.prints > 0
               /\ \/ expect_arg_types(s.format, <<"Float", "Float", "Float">>)
                  \/ expect_arg_types(s.format, [k \in 1..6 |-> "Float"])
                  \/ expect_arg_types(s.format, <<"Int16">>),
               driven)

checker == <<"check_initialization", "check_spib_isr_scaling", "check_spib_request_format",
             "check_imu_full_init", "check_print_cadence", "check_print_format">>

Run(check, s, m) ==
  CASE check = "check_initialization"      -> check_initialization(s, m)
    [] check = "check_spib_isr_scaling"    -> check_spib_isr_scaling(s, m)
    [] check = "check_spib_request_format" -> check_spib_request_format(s, m)
    [] check = "check_imu_full_init"       -> check_imu_full_init(s, m)
    [] check = "check_print_cadence"       -> check_print_cadence(s, m)
    [] check = "check_print_format"        -> check_print_format(s, m)
-----------------------------------------------------------------------------
\* Whatever the exempted structs hold, these hold what is asked.
InitAsAsked(s) ==
  /\ \A n \in Compared \cup FieldsRead : s.init[n] = "asked"
  /\ s.init["CpuTimer0"] # "zero" /\ s.init["others"] = "zero"

\* What the comments of hw3.cpp ask for: the raw word, a range of 250 degrees,
\* five print events in a thousand calls with one or two prints each.
Conforms(s) ==
  /\ s.missing \subseteq {"SPIBCount"} /\ InitAsAsked(s)
  /\ s.range = 250 /\ s.signed
  /\ s.counts \/ s.countsIn = "own"
  /\ s.printEvery = 200 /\ s.printsEach \in 1..2
  /\ s.format \in {<<"%.3f", "%.3f", "%.3f">>, [k \in 1..6 |-> "%.3f"]}

\* What a passing program cannot get wrong.
Sound(s) ==
  /\ s.missing \subseteq {"SPIBCount"} /\ InitAsAsked(s)
  /\ s.range = 250 /\ s.signed
  /\ s.printEvery <= 501 /\ s.printsEach * (1000 \div s.printEvery) <= 14
  /\ Len(s.format) \in {1, 3, 6}

KnownState(s) == s.countsIn = "global" /\ "SPIBCount" \notin s.missing
=============================================================================
