------------------------------ MODULE MCHwSuites ------------------------------
(* Programs for TLC: for each assignment the one as asked, every variation of *)
(* its register states and its symbols, one mistake at a time, and the        *)
(* combinations of its ISR's and its prints' variations.                      *)
EXTENDS HwSuites

AllSuites == {H1!checker, H2!checker, H3!checker, H4!checker, H5!checker}

(* HW1: every design of the timer ISR with the rest as asked, and every       *)
(* variation of the rest for a few designs of the ISR.                       *)
AsAsked1 ==
  [hw |-> 1, period |-> 5000, initToggles |-> {}, blinksRed |-> TRUE,
   statusTicks |-> 1, ledTicks |-> 20, trigger |-> "level", looksEveryTick |-> TRUE, prev |-> 0,
   pb4Leds |-> H1!Led14And15, printTicks |-> 50, format |-> H1!Exercise8,
   saturate |-> "clamp"]

IsrDesigns ==
  { [AsAsked1 EXCEPT !.statusTicks = status, !.ledTicks = leds, !.trigger = trigger,
                    !.looksEveryTick = every, !.prev = prev, !.pb4Leds = pb4] :
      status \in {1, 22, 23}, leds \in {10, 20, 23},
      trigger \in {"level", "press", "release"}, every \in BOOLEAN,
      prev \in {0, 1}, pb4 \in {H1!Led14And15, {159, 160}, 158..160} }

Periods ==
  { [AsAsked1 EXCEPT !.period = period, !.printTicks = prints, !.format = fmt,
                    !.trigger = trigger] :
      period \in {0, 5000, 20000, 200000}, prints \in {40, 50, 60, 70, 150},
      fmt \in {H1!Exercise8, H1!Exercise5, <<"%d", "%.2f", "%.3f", "%.2f">>},
      trigger \in {"press", "release"} }

TheRest ==
  { [AsAsked1 EXCEPT !.initToggles = toggles, !.blinksRed = red, !.saturate = sat] :
      toggles \in {{}, {H1!StatusLed}, {60}}, red \in BOOLEAN,
      sat \in {"clamp", "noUpper", "noLower", "wrongSign", "missing"} }

\* The program of the repository, student_work/LABstarter_main.c.
LABstarter ==
  [AsAsked1 EXCEPT !.blinksRed = FALSE, !.trigger = "release", !.pb4Leds = {159, 160},
                  !.format = <<"%ld", "%d", "%.2f", "%.3f", "%.2f">>]

Programs1 == {LABstarter} \cup IsrDesigns \cup Periods \cup TheRest

(* HW2 to HW5.                                                               *)
\* The register states as asked, and every deviation of one struct.
Deviations(asked) ==
  {asked} \cup {[asked EXCEPT ![n] = state] : n \in DOMAIN asked,
                                              state \in {"zero", "asked", "other"}}

Asked(registers, wanted) ==
  [n \in registers |-> IF n \in wanted THEN "asked" ELSE "zero"]

Init2 == Asked(H2!Registers, H2!Compared \cup H2!FieldsRead)
Init3 == Asked(H3!Registers, H3!Compared \cup H3!FieldsRead \cup {"CpuTimer0"})
Init4 == Asked(H4!Registers, H4!Compared \cup H4!FieldsRead)
Init5 == Asked(H5!Registers, H5!Compared \cup H5!FieldsRead)

Floats(n) == [k \in 1..n |-> "%.3f"]

AsAsked2 ==
  [hw |-> 2, init |-> Init2, missing |-> {}, flagInInit |-> 1, flagInIsr |-> TRUE,
   order |-> <<1, 2, 3>>, fullScale |-> 30000, counts |-> TRUE, countsIn |-> "global",
   printEvery |-> 100, format |-> Floats(3)]

Programs2 ==
  {[AsAsked2 EXCEPT !.init = init] : init \in Deviations(Init2)}
  \cup {[AsAsked2 EXCEPT !.missing = {sym}] : sym \in H2!Symbols}
  \cup {[AsAsked2 EXCEPT !.order = order, !.fullScale = scale, !.counts = counts,
                         !.flagInInit = inInit, !.flagInIsr = inIsr] :
          order \in {<<1, 2, 3>>, <<2, 1, 3>>, <<2, 3, 1>>, <<1, 1, 1>>},
          scale \in {30000, 30007, 30052, 33000, 40960}, counts \in BOOLEAN,
          inInit \in {0, 1}, inIsr \in BOOLEAN}
  \cup {[AsAsked2 EXCEPT !.printEvery = every, !.countsIn = where, !.format = fmt] :
          every \in {1, 83, 84, 100, 111, 112, 201, 1000}, where \in {"global", "own"},
          fmt \in {Floats(2), Floats(3), <<"%lf", "%.2f", "%.2f">>, <<"%d", "%.2f", "%.2f">>}}

AsAsked3 ==
  [hw |-> 3, init |-> Init3, missing |-> {}, range |-> 250, signed |-> TRUE,
   counts |-> TRUE, countsIn |-> "global", printEvery |-> 200, printsEach |-> 2,
   format |-> Floats(3)]

Programs3 ==
  {[AsAsked3 EXCEPT !.init = init] : init \in Deviations(Init3)}
  \cup {[AsAsked3 EXCEPT !.missing = {sym}] : sym \in H3!Symbols}
  \cup {[AsAsked3 EXCEPT !.range = range, !.signed = signed, !.counts = counts] :
          range \in {250, 249, 500, 2000}, signed \in BOOLEAN, counts \in BOOLEAN}
  \cup {[AsAsked3 EXCEPT !.printEvery = every, !.printsEach = each, !.countsIn = where,
                         !.format = fmt] :
          every \in {1, 66, 143, 200, 250, 334, 401, 501}, each \in 1..3,
          where \in {"global", "own"},
          fmt \in {Floats(3), Floats(6), <<"%d">>, <<"%ld">>, Floats(2)}}

ServoAsAsked == [zero |-> 5000, span |-> 2500, limitsUp |-> TRUE, limitsDown |-> TRUE]

Servos ==
  {[ServoAsAsked EXCEPT !.limitsUp = up, !.limitsDown = down] : up, down \in BOOLEAN}
  \cup {[ServoAsAsked EXCEPT !.zero = zero, !.span = span] :
          zero \in {4997, 4999, 5000, 7500}, span \in {-2500, 2490, 2499, 2500}}

AsAsked4 ==
  [hw |-> 4, init |-> Init4, period |-> 40000, missing |-> {}, servoA |-> ServoAsAsked,
   servoB |-> ServoAsAsked, xint |-> "always", printEvery |-> 50,
   format |-> <<"%ld", "%ld">>]

Programs4 ==
  {[AsAsked4 EXCEPT !.init = init] : init \in Deviations(Init4)}
  \cup {[AsAsked4 EXCEPT !.missing = {sym}] : sym \in H4!Symbols}
  \cup {[AsAsked4 EXCEPT !.servoA = servo] : servo \in Servos}
  \cup {[AsAsked4 EXCEPT !.servoB = servo] : servo \in Servos}
  \cup {[AsAsked4 EXCEPT !.xint = xint, !.period = period, !.printEvery = every,
                         !.format = fmt] :
          xint \in {"always", "pressed", "released", "twice"},
          period \in {0, 20000, 40000, 10000000}, every \in {1, 50, 200, 201},
          fmt \in {<<"%ld", "%ld">>, <<"%d", "%ld">>, <<"%ld">>}}

AsAsked5 ==
  [hw |-> 5, init |-> Init5, period |-> 40000, missing |-> {}, servoA |-> ServoAsAsked,
   servoB |-> ServoAsAsked, dma |-> "alternates", counts |-> TRUE, printEvery |-> 50,
   format |-> Floats(2)]

Programs5 ==
  {[AsAsked5 EXCEPT !.init = init] : init \in Deviations(Init5)}
  \cup {[AsAsked5 EXCEPT !.missing = syms] : syms \in SUBSET H5!Symbols}
  \cup {[AsAsked5 EXCEPT !.servoA = servo] : servo \in Servos}
  \cup {[AsAsked5 EXCEPT !.servoB = servo] : servo \in Servos}
  \cup {[AsAsked5 EXCEPT !.dma = dma, !.counts = counts, !.missing = syms] :
          dma \in {"alternates", "pingOnly", "pongOnly", "both", "never"},
          counts \in BOOLEAN, syms \in SUBSET {"DMAcount", "pingFFT"}}
  \cup {[AsAsked5 EXCEPT !.period = period, !.printEvery = every, !.format = fmt] :
          period \in {0, 20000, 40000, 10000000}, every \in {1, 50, 200, 201},
          fmt \in {Floats(2), Floats(4), Floats(3), <<"%d", "%.0f">>}}

Programs == Programs1 \cup Programs2 \cup Programs3 \cup Programs4 \cup Programs5
=============================================================================
