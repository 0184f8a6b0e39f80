-------------------------- MODULE HwSuites_proofs ---------------------------
(***************************************************************************)
(* The validator's loop, and the suites of HW1 to HW5 as instances of it.  *)
(* First, what each check of HW1 does, in closed form: the iterated ISR    *)
(* calls are replaced by what they amount to, so that a check is a         *)
(* relation between the program, the machine before and the machine after, *)
(* and its verdict a predicate of the program.  TLC evaluates the          *)
(* iterations; here they are reasoned about for every program of the shape *)
(* IsStudent.  Then, for every list of checks whose return codes are 0 or  *)
(* 1, the exit status and the report agree.  Then, suite by suite, what    *)
(* each check does to the machine and which programs it passes (Reach,     *)
(* Pass), and which programs pass them all (Conforming, Sound).  Last, the *)
(* theorems about every run of every suite, from one invariant: the        *)
(* machine is one that the checks run so far may leave, and each verdict   *)
(* recorded is Pass.                                                       *)
(***************************************************************************)
EXTENDS HwSuites, WellFoundedInduction, TLAPS

-----------------------------------------------------------------------------
(* Iteration.                                                              *)

\* A set of naturals that is not empty has a least element.
LEMMA LeastElement ==
  ASSUME NEW T \in SUBSET Nat, T # {}
  PROVE  \E m \in T : \A x \in T : m <= x
<1>0. T \subseteq Nat
  OBVIOUS
<1>1. PICK m \in T : \A x \in T : <<x, m>> \notin OpToRel(<, Nat)
  BY <1>0, WFMin, NatLessThanWellFounded, Zenon
<1>2. \A x \in T : ~(x < m)
  BY <1>0, <1>1, Zenon DEF OpToRel
<1> QED BY <1>0, <1>2

\* Two sequences that start alike and continue alike end alike.
LEMMA SameEnd ==
  ASSUME NEW n \in Nat, NEW h, NEW c, h[0] = c[0],
         \A k \in 1..n : h[k - 1] = c[k - 1] => h[k] = c[k]
  PROVE  h[n] = c[n]
<1> DEFINE T == {k \in Nat : k \in 0..n /\ h[k] # c[k]}
<1> SUFFICES ASSUME T # {} PROVE FALSE
  OBVIOUS
<1>1. PICK k \in T : \A x \in T : k <= x
  BY LeastElement
<1>2. k \in 1..n /\ k - 1 \in 0..n /\ k - 1 \in Nat /\ ~(k <= k - 1)
  BY <1>1
<1>3. h[k - 1] = c[k - 1]
  BY <1>1, <1>2
<1> QED
  BY <1>1, <1>2, <1>3

\* n calls of an ISR end in c[n] when c is a sequence of machines each of which
\* one call takes to the next: the closed form of `for (i = 0; i < n; i++) isr();'.
LEMMA CallsEnd ==
  ASSUME NEW isr, NEW s, NEW n \in Nat, NEW c,
         \A k \in 0..(n - 1) : H1!Call(isr, s, c[k]) = c[k + 1]
  PROVE  H1!Calls(n, isr, s, c[0]) = c[n]
<1> DEFINE Next1(a) == CHOOSE x \in {H1!Call(isr, s, y) : y \in {a}} : TRUE
           E(a) == a = [k \in 0..n |-> IF k = 0 THEN c[0] ELSE Next1(a[k - 1])]
           after == CHOOSE a : E(a)
           g == [k \in 0..n |-> c[k]]
<1>1. \A a : Next1(a) = H1!Call(isr, s, a)
  <2>1. \A z : (CHOOSE x \in {z} : TRUE) = z
    OBVIOUS
  <2>2. \A a : {H1!Call(isr, s, y) : y \in {a}} = {H1!Call(isr, s, a)}
    OBVIOUS
  <2> QED BY <2>1, <2>2, Zenon
<1>2. H1!Calls(n, isr, s, c[0]) = after[n]
  BY DEF H1!Calls, H1!Steps
<1> HIDE DEF Next1
<1>3. E(g)
  <2>1. \A k \in 0..n : k # 0 => k - 1 \in 0..(n - 1) /\ (k - 1) + 1 = k /\ g[k - 1] = c[k - 1]
    OBVIOUS
  <2>2. \A k \in 0..n : g[k] = IF k = 0 THEN c[0] ELSE Next1(g[k - 1])
    BY <1>1, <2>1
  <2> QED BY <2>2
<1>4. E(after)
  BY <1>3, Zenon
<1> HIDE DEF after
<1>5. after[0] = c[0] /\ \A k \in 1..n : after[k] = H1!Call(isr, s, after[k - 1])
  BY <1>1, <1>4
<1>6. \A k \in 1..n : k - 1 \in 0..(n - 1) /\ (k - 1) + 1 = k
  OBVIOUS
<1>7. \A k \in 1..n : after[k - 1] = c[k - 1] => after[k] = c[k]
  BY <1>5, <1>6
<1> QED
  BY <1>2, <1>5, <1>7, SameEnd

\* The same for n times sixteen calls.
LEMMA SixteensEnd ==
  ASSUME NEW isr, NEW s, NEW n \in Nat, NEW c,
         \A k \in 0..(n - 1) : H1!Calls(16, isr, s, c[k]) = c[k + 1]
  PROVE  H1!Sixteens(n, isr, s, c[0]) = c[n]
<1> DEFINE Next1(a) == CHOOSE x \in {H1!Calls(16, isr, s, y) : y \in {a}} : TRUE
           E(a) == a = [k \in 0..n |-> IF k = 0 THEN c[0] ELSE Next1(a[k - 1])]
           after == CHOOSE a : E(a)
           g == [k \in 0..n |-> c[k]]
<1>1. \A a : Next1(a) = H1!Calls(16, isr, s, a)
  <2>1. \A z : (CHOOSE x \in {z} : TRUE) = z
    OBVIOUS
  <2>2. \A a : {H1!Calls(16, isr, s, y) : y \in {a}} = {H1!Calls(16, isr, s, a)}
    OBVIOUS
  <2> QED BY <2>1, <2>2, Zenon
<1>2. H1!Sixteens(n, isr, s, c[0]) = after[n]
  BY DEF H1!Sixteens, H1!Steps
<1> HIDE DEF Next1
<1>3. E(g)
  <2>1. \A k \in 0..n : k # 0 => k - 1 \in 0..(n - 1) /\ (k - 1) + 1 = k /\ g[k - 1] = c[k - 1]
    OBVIOUS
  <2>2. \A k \in 0..n : g[k] = IF k = 0 THEN c[0] ELSE Next1(g[k - 1])
    BY <1>1, <2>1
  <2> QED BY <2>2
<1>4. E(after)
  BY <1>3, Zenon
<1> HIDE DEF after
<1>5. after[0] = c[0] /\ \A k \in 1..n : after[k] = H1!Calls(16, isr, s, after[k - 1])
  BY <1>1, <1>4
<1>6. \A k \in 1..n : k - 1 \in 0..(n - 1) /\ (k - 1) + 1 = k
  OBVIOUS
<1>7. \A k \in 1..n : after[k - 1] = c[k - 1] => after[k] = c[k]
  BY <1>5, <1>6
<1> QED
  BY <1>2, <1>5, <1>7, SameEnd

\* c is a sequence of machines each of which one call of isr takes to the next.
Chain(isr, s, n, c) == \A k \in 0..(n - 1) : H1!Call(isr, s, c[k]) = c[k + 1]

\* The same for the calls that Times makes, sixteen at a time and then the rest.
LEMMA TimesEnd ==
  ASSUME NEW isr, NEW s, NEW n \in Nat, NEW c, Chain(isr, s, n, c)
  PROVE  H1!Times(n, isr, s, c[0]) = c[n]
<1> USE DEF Chain
<1> DEFINE b == n \div 16
           r == n % 16
           d == [j \in 0..b |-> c[16 * j]]
           e == [k \in 0..r |-> c[16 * b + k]]
<1>0. b \in Nat /\ r \in 0..15 /\ n = 16 * b + r /\ r \in Nat
  OBVIOUS
<1>1. H1!Times(n, isr, s, c[0]) = H1!Calls(r, isr, s, H1!Sixteens(b, isr, s, c[0]))
  BY DEF H1!Times
<1> HIDE DEF b, r
<1>2. \A j \in 0..(b - 1) : H1!Calls(16, isr, s, d[j]) = d[j + 1]
  <2> SUFFICES ASSUME NEW j \in 0..(b - 1) PROVE H1!Calls(16, isr, s, d[j]) = d[j + 1]
    OBVIOUS
  <2> DEFINE a == [k \in 0..16 |-> c[16 * j + k]]
  <2>1. \A k \in 0..(16 - 1) : 16 * j + k \in 0..(n - 1) /\ 16 * j + (k + 1) = (16 * j + k) + 1
    BY <1>0
  <2>2. \A k \in 0..(16 - 1) : a[k] = c[16 * j + k] /\ a[k + 1] = c[(16 * j + k) + 1]
    BY <2>1
  <2>3. a[0] = d[j] /\ a[16] = d[j + 1]
    BY <1>0
  <2> HIDE DEF a, d
  <2>4. \A k \in 0..(16 - 1) : H1!Call(isr, s, a[k]) = a[k + 1]
    BY <2>1, <2>2
  <2>5. H1!Calls(16, isr, s, a[0]) = a[16]
    <3>1. PICK l \in Nat : l = 16
      OBVIOUS
    <3>2. \A k \in 0..(l - 1) : H1!Call(isr, s, a[k]) = a[k + 1]
      BY <2>4, <3>1
    <3>3. H1!Calls(l, isr, s, a[0]) = a[l]
      BY <3>2, CallsEnd, Zenon
    <3> QED BY <3>1, <3>3
  <2> QED
    BY <2>3, <2>5
<1>3. H1!Sixteens(b, isr, s, d[0]) = d[b]
  <2> HIDE DEF d
  <2> QED BY <1>0, <1>2, SixteensEnd, Zenon
<1>4. H1!Calls(r, isr, s, e[0]) = e[r]
  <2>1. \A k \in 0..(r - 1) : 16 * b + k \in 0..(n - 1) /\ 16 * b + (k + 1) = (16 * b + k) + 1
    BY <1>0
  <2>2. \A k \in 0..(r - 1) : e[k] = c[16 * b + k] /\ e[k + 1] = c[(16 * b + k) + 1]
    BY <1>0, <2>1
  <2> HIDE DEF e
  <2>3. \A k \in 0..(r - 1) : H1!Call(isr, s, e[k]) = e[k + 1]
    BY <2>1, <2>2
  <2>4. r \in Nat
    BY <1>0
  <2> QED
    BY <2>3, <2>4, CallsEnd, Zenon
<1>5. d[0] = c[0] /\ d[b] = e[0] /\ e[r] = c[n]
  BY <1>0
<1> QED
  BY <1>1, <1>3, <1>4, <1>5

\* The quotient grows by one exactly at a multiple of the divisor.
LEMMA NextMultiple ==
  ASSUME NEW k \in Nat, NEW d \in Nat \ {0}
  PROVE  (k + 1) \div d = k \div d + (IF (k+1) % d = 0 THEN 1 ELSE 0)
  OBVIOUS

\* Counting up from 0 has met a multiple of d, other than 0, once it reaches d.
LEMMA FirstMultiple ==
  ASSUME NEW k \in Nat, NEW d \in Nat \ {0}
  PROVE  (k >= d \/ (k+1) % d = 0) <=> k+1 >= d
  OBVIOUS

\* The machine, whatever the counters and flags hold.
Machine ==
  [DAT : SUBSET H1!Pins, SET : SUBSET H1!Pins, CLEAR : SUBSET H1!Pins, TOGGLE : SUBSET H1!Pins,
   period : Nat, count0 : Nat, count1 : Nat, count2 : Nat,
   numTimer0calls : Nat, LEDdisplaynum : Nat, UARTPrint : {0, 1},
   prev : [{H1!PB1, H1!PB4} -> {0, 1}], prints : Nat]

\* After how many calls of the timer 2 ISR the buttons have been looked at.
FirstLook(s) == IF s.looksEveryTick THEN 1 ELSE s.ledTicks

\* The levels of the two buttons that the checks press.
Levels(w) == [p \in {H1!PB1, H1!PB4} |-> H1!Bit(p \in w.DAT)]

\* The LEDs that k calls of the timer 2 ISR toggle, the buttons being at the levels
\* now and the statics of the edge detectors starting at prev.
Lit(s, now, prev, k) ==
  (IF k >= s.statusTicks THEN {H1!StatusLed} ELSE {})
    \cup (IF k >= s.ledTicks THEN H1!Led10And11 ELSE {})
    \cup (IF k >= FirstLook(s) /\ H1!Fires(s, H1!PB1, now[H1!PB1], prev[H1!PB1])
          THEN H1!Led12And13 ELSE {})
    \cup (IF k >= FirstLook(s) /\ H1!Fires(s, H1!PB4, now[H1!PB4], prev[H1!PB4])
          THEN s.pb4Leds ELSE {})

\* What w becomes after k calls of the timer 2 ISR: nobody clears the request, or
\* the main loop prints and clears it after each call.
Ticked(s, w, k, request, prints) ==
  [w EXCEPT !.count2 = k, !.UARTPrint = request, !.prints = prints,
            !.TOGGLE = @ \cup Lit(s, Levels(w), w.prev, k),
            !.prev = IF k >= FirstLook(s) THEN Levels(w) ELSE @]

\* One call of the timer 2 ISR goes from the closed form for k to that for k + 1.
LEMMA Tick ==
  ASSUME NEW s, H1!IsStudent(s), NEW w \in Machine, NEW k \in Nat, NEW u \in {0,1}, NEW n \in Nat
  PROVE  H1!cpu_timer2_isr(s, Ticked(s, w, k, u, n)) =
           Ticked(s, w, k + 1, IF (k+1) % s.printTicks = 0 THEN 1 ELSE u, n)
<1> DEFINE x == Ticked(s, w, k, u, n)
           y == Ticked(s, w, k + 1, IF (k+1) % s.printTicks = 0 THEN 1 ELSE u, n)
           boundary == (k+1) % s.ledTicks = 0
           looks == s.looksEveryTick \/ boundary
           fires(p) == looks /\ H1!Fires(s, p, Levels(w)[p], x.prev[p])
           toggled == (IF (k+1) % s.statusTicks = 0 THEN {H1!StatusLed} ELSE {})
                   \cup (IF boundary THEN H1!Led10And11 ELSE {})
                   \cup (IF fires(H1!PB1) THEN H1!Led12And13 ELSE {})
                   \cup (IF fires(H1!PB4) THEN s.pb4Leds ELSE {})
<1>0. /\ s.statusTicks \in Nat \ {0} /\ s.ledTicks \in Nat \ {0} /\ s.printTicks \in Nat \ {0}
      /\ s.looksEveryTick \in BOOLEAN /\ s.trigger \in {"level", "press", "release"}
  BY DEF H1!IsStudent
<1>1. /\ x.DAT = w.DAT /\ x.count2 = k /\ x.TOGGLE = w.TOGGLE \cup Lit(s, Levels(w), w.prev, k)
      /\ x.prev = IF k >= FirstLook(s) THEN Levels(w) ELSE w.prev
  BY DEF Ticked, Machine
<1>2. H1!cpu_timer2_isr(s, x) = [x EXCEPT !.count2 = k + 1,
               !.UARTPrint = IF (k+1) % s.printTicks = 0 THEN 1 ELSE @,
               !.TOGGLE = @ \cup toggled,
               !.prev = IF looks THEN Levels(w) ELSE @]
  BY <1>1 DEF H1!cpu_timer2_isr, Levels
<1>3. (k >= FirstLook(s) \/ looks) <=> k + 1 >= FirstLook(s)
  BY <1>0, FirstMultiple DEF FirstLook
<1>4. Lit(s, Levels(w), w.prev, k) \cup toggled = Lit(s, Levels(w), w.prev, k + 1)
  <2>1. \A p \in {H1!PB1, H1!PB4} :
          (k >= FirstLook(s) /\ H1!Fires(s, p, Levels(w)[p], w.prev[p])) \/ fires(p)
            <=> k + 1 >= FirstLook(s) /\ H1!Fires(s, p, Levels(w)[p], w.prev[p])
    <3> SUFFICES ASSUME NEW p \in {H1!PB1, H1!PB4}
                 PROVE  (k >= FirstLook(s) /\ H1!Fires(s, p, Levels(w)[p], w.prev[p])) \/ fires(p)
            <=> k + 1 >= FirstLook(s) /\ H1!Fires(s, p, Levels(w)[p], w.prev[p])
      OBVIOUS
    <3>0. k + 1 >= FirstLook(s) /\ ~(k >= FirstLook(s)) => looks
      BY <1>3
    <3>1. CASE k >= FirstLook(s)
      <4>1. x.prev[p] = Levels(w)[p] /\ k + 1 >= FirstLook(s)
        BY <1>1, <1>3, <3>1
      <4>2. H1!Fires(s, p, Levels(w)[p], Levels(w)[p]) => H1!Fires(s, p, Levels(w)[p], w.prev[p])
        <5> DEFINE now == Levels(w)[p]
        <5>1. (now = 0 \/ now # 0) /\ ~(now = 0 /\ now = 1)
          OBVIOUS
        <5> HIDE DEF now
        <5>2. H1!Fires(s, p, now, now) => H1!Fires(s, p, now, w.prev[p])
          BY <1>0, <5>1 DEF H1!Fires
        <5> QED BY <5>2 DEF now
      <4> QED BY <3>1, <4>1, <4>2
    <3>2. CASE ~(k >= FirstLook(s))
      <4>1. x.prev[p] = w.prev[p]
        BY <1>1, <3>2
      <4> QED BY <1>3, <3>2, <4>1
    <3> QED BY <3>1, <3>2
  <2>2. (k >= s.statusTicks \/ (k+1) % s.statusTicks = 0) <=> k + 1 >= s.statusTicks
    BY <1>0, FirstMultiple
  <2>3. (k >= s.ledTicks \/ boundary) <=> k + 1 >= s.ledTicks
    BY <1>0, FirstMultiple
  <2> HIDE DEF boundary, fires, x, y
  <2> QED
    BY <2>1, <2>2, <2>3 DEF Lit
<1>5. [x EXCEPT !.count2 = k + 1,
               !.UARTPrint = IF (k+1) % s.printTicks = 0 THEN 1 ELSE @,
               !.TOGGLE = @ \cup toggled,
               !.prev = IF looks THEN Levels(w) ELSE @] = y
  <2>1. x.TOGGLE \cup toggled = w.TOGGLE \cup Lit(s, Levels(w), w.prev, k + 1)
    BY <1>1, <1>4
  <2>2. (IF looks THEN Levels(w) ELSE x.prev)
          = IF k + 1 >= FirstLook(s) THEN Levels(w) ELSE w.prev
    BY <1>1, <1>3
  <2>3. x.UARTPrint = u
    BY DEF Ticked, Machine
  <2> HIDE DEF toggled, looks
  <2> QED
    BY <2>1, <2>2, <2>3 DEF Ticked, Machine
<1> QED
  BY <1>2, <1>5

\* So does one call followed by a turn of the main loop.
LEMMA Pump ==
  ASSUME NEW s, H1!IsStudent(s), NEW w \in Machine, NEW k \in Nat
  PROVE  H1!LoopBody(H1!cpu_timer2_isr(s, Ticked(s, w, k, 0, k \div s.printTicks))) =
           Ticked(s, w, k + 1, 0, (k + 1) \div s.printTicks)
<1> DEFINE n == k \div s.printTicks
           request == IF (k + 1) % s.printTicks = 0 THEN 1 ELSE 0
           x == Ticked(s, w, k + 1, request, n)
<1>1. n \in Nat /\ (k + 1) \div s.printTicks = n + request /\ request \in {0, 1}
  <2>1. s.printTicks \in Nat \ {0}
    BY DEF H1!IsStudent
  <2>2. (k + 1) \div s.printTicks
          = (k \div s.printTicks) + (IF (k + 1) % s.printTicks = 0 THEN 1 ELSE 0)
    BY <2>1, NextMultiple
  <2>3. k \div s.printTicks \in Nat
    BY <2>1
  <2> QED BY <2>2, <2>3
<1>2. H1!cpu_timer2_isr(s, Ticked(s, w, k, 0, n)) = x
  BY <1>1, Tick
<1> HIDE DEF n, request
<1>3. x.UARTPrint = request /\ x.prints = n
  BY DEF Ticked, Machine
<1>4. H1!LoopBody(x) = Ticked(s, w, k + 1, 0, n + request)
  <2>1. CASE request = 1
    BY <2>1, <1>3 DEF H1!LoopBody, Ticked, Machine
  <2>2. CASE request = 0
    <3>1. n + request = n
      BY <1>1, <2>2
    <3>2. H1!LoopBody(x) = x
      BY <1>3, <2>2 DEF H1!LoopBody
    <3> QED BY <2>2, <3>1, <3>2
  <2> QED BY <1>1, <2>1, <2>2
<1> QED
  BY <1>1, <1>2, <1>4 DEF n

\* What m becomes after k calls of the timer 0 ISR.
Blinked(s, m, k) ==
  [m EXCEPT !.count0 = k, !.numTimer0calls = k,
            !.LEDdisplaynum = IF k >= 250 THEN 1 ELSE 0,
            !.TOGGLE = IF s.blinksRed /\ k > 0 THEN @ \cup {H1!RedLed} ELSE @]

\* Two machines that agree on every field are equal.
LEMMA SameMachine ==
  ASSUME NEW x \in Machine, NEW y \in Machine,
         x.DAT = y.DAT, x.SET = y.SET, x.CLEAR = y.CLEAR, x.TOGGLE = y.TOGGLE,
         x.period = y.period, x.count0 = y.count0, x.count1 = y.count1, x.count2 = y.count2,
         x.numTimer0calls = y.numTimer0calls, x.LEDdisplaynum = y.LEDdisplaynum,
         x.UARTPrint = y.UARTPrint, x.prev = y.prev, x.prints = y.prints
  PROVE  x = y
<1>1. \A z \in Machine :
        z = [DAT |-> z.DAT, SET |-> z.SET, CLEAR |-> z.CLEAR, TOGGLE |-> z.TOGGLE,
             period |-> z.period, count0 |-> z.count0, count1 |-> z.count1,
             count2 |-> z.count2, numTimer0calls |-> z.numTimer0calls,
             LEDdisplaynum |-> z.LEDdisplaynum, UARTPrint |-> z.UARTPrint,
             prev |-> z.prev, prints |-> z.prints]
  BY DEF Machine
<1> QED
  BY <1>1

\* WithGpio takes the GPIO registers of one machine and the rest of another.
LEMMA RestoresGpio ==
  ASSUME NEW x \in Machine, NEW y \in Machine
  PROVE  LET g == H1!WithGpio(x, y) IN
         /\ g \in Machine
         /\ g.DAT = y.DAT /\ g.SET = y.SET /\ g.CLEAR = y.CLEAR /\ g.TOGGLE = y.TOGGLE
         /\ g.period = x.period /\ g.count0 = x.count0 /\ g.count1 = x.count1
         /\ g.count2 = x.count2 /\ g.numTimer0calls = x.numTimer0calls
         /\ g.LEDdisplaynum = x.LEDdisplaynum /\ g.UARTPrint = x.UARTPrint
         /\ g.prev = x.prev /\ g.prints = x.prints
  BY DEF H1!WithGpio, Machine

\* Between two checks the counters and the request flag are zero.
LEMMA SettledTypes ==
  ASSUME NEW s, H1!IsStudent(s), NEW m, H1!IsMachine(s, m)
  PROVE  /\ m \in Machine
         /\ m.period = s.period /\ m.count0 = 0 /\ m.count1 = 0 /\ m.count2 = 0
         /\ m.numTimer0calls = 0 /\ m.LEDdisplaynum = 0 /\ m.UARTPrint = 0
  BY DEF H1!IsMachine, Machine, H1!IsStudent

\* The timer 0 ISR leaves the other counters, the buttons and the capture alone.
LEMMA BlinkedTypes ==
  ASSUME NEW s, NEW m \in Machine, NEW k \in Nat
  PROVE  LET x == Blinked(s, m, k) IN
         /\ x \in Machine
         /\ x.period = m.period /\ x.count1 = m.count1 /\ x.count2 = m.count2
         /\ x.UARTPrint = m.UARTPrint /\ x.prev = m.prev /\ x.prints = m.prints
<1> DEFINE l == IF k >= 250 THEN 1 ELSE 0
           t == IF s.blinksRed /\ k > 0 THEN m.TOGGLE \cup {H1!RedLed} ELSE m.TOGGLE
<1>1. l \in Nat
  OBVIOUS
<1>2. t \in SUBSET H1!Pins
  BY DEF Machine, H1!Pins, H1!RedLed
<1>3. Blinked(s, m, k) = [m EXCEPT !.count0 = k, !.numTimer0calls = k,
                                   !.LEDdisplaynum = l, !.TOGGLE = t]
  BY DEF Blinked
<1> HIDE DEF l, t
<1> QED
  BY <1>1, <1>2, <1>3 DEF Machine

\* One call of the timer 0 ISR goes from the closed form for k to that for k + 1.
LEMMA Blink ==
  ASSUME NEW s, H1!IsStudent(s), NEW m \in Machine, NEW k \in 0..249
  PROVE  H1!cpu_timer0_isr(s, Blinked(s, m, k)) = Blinked(s, m, k + 1)
<1> DEFINE x == Blinked(s, m, k)
           led == IF (k + 1) % 250 = 0 THEN (x.LEDdisplaynum + 1) % 65535 ELSE x.LEDdisplaynum
           toggle == IF s.blinksRed THEN x.TOGGLE \cup {H1!RedLed} ELSE x.TOGGLE
<1>1. /\ x.numTimer0calls = k /\ x.count0 = k /\ x.LEDdisplaynum = 0
      /\ x.TOGGLE = IF s.blinksRed /\ k > 0 THEN m.TOGGLE \cup {H1!RedLed} ELSE m.TOGGLE
  BY DEF Blinked, Machine
<1>2. H1!cpu_timer0_isr(s, x) = [x EXCEPT !.count0 = k + 1, !.numTimer0calls = k + 1,
                                  !.LEDdisplaynum = led, !.TOGGLE = toggle]
  BY <1>1 DEF H1!cpu_timer0_isr
<1>3. led = IF k + 1 >= 250 THEN 1 ELSE 0
  BY <1>1
<1>4. toggle = IF s.blinksRed /\ k + 1 > 0 THEN m.TOGGLE \cup {H1!RedLed} ELSE m.TOGGLE
  <2>1. s.blinksRed \in BOOLEAN
    BY DEF H1!IsStudent
  <2>2. CASE s.blinksRed
    BY <1>1, <2>2
  <2>3. CASE ~s.blinksRed
    BY <1>1, <2>3
  <2> QED BY <2>1, <2>2, <2>3
<1> HIDE DEF led, toggle
<1> QED
  BY <1>2, <1>3, <1>4 DEF Blinked, Machine

\* No call of the timer 0 ISR changes nothing.
LEMMA NotBlinked ==
  ASSUME NEW s, NEW m \in Machine, m.count0 = 0, m.numTimer0calls = 0, m.LEDdisplaynum = 0
  PROVE  Blinked(s, m, 0) = m
<1>1. Blinked(s, m, 0) = [m EXCEPT !.count0 = 0, !.numTimer0calls = 0,
                                   !.LEDdisplaynum = 0, !.TOGGLE = @]
  BY DEF Blinked
<1>2. Blinked(s, m, 0) \in Machine
  BY <1>1 DEF Machine
<1> QED
  BY <1>1, <1>2, SameMachine DEF Machine

\* The 250 calls of the timer 0 check.
LEMMA Timer0Times ==
  ASSUME NEW s, H1!IsStudent(s), NEW m, H1!IsMachine(s, m)
  PROVE  H1!Times(250, "cpu_timer0_isr", s, m) = Blinked(s, m, 250)
<1> DEFINE c == [k \in 0..250 |-> Blinked(s, m, k)]
<1>1. c[0] = m /\ c[250] = Blinked(s, m, 250)
  BY SettledTypes, NotBlinked
<1>2. \A k \in 0..(250 - 1) : H1!Call("cpu_timer0_isr", s, c[k]) = c[k + 1]
  BY SettledTypes, Blink DEF H1!Call
<1> HIDE DEF c
<1>3. PICK l \in Nat : l = 250
  OBVIOUS
<1>4. Chain("cpu_timer0_isr", s, l, c)
  BY <1>2, <1>3 DEF Chain
<1>5. H1!Times(l, "cpu_timer0_isr", s, c[0]) = c[l]
  BY <1>4, TimesEnd
<1> QED
  BY <1>1, <1>3, <1>5

\* Copies compared against copies pass exactly when they are equal.
LEMMA OnlyCopies ==
  ASSUME NEW actual, NEW expected, NEW now
  PROVE  H1!validate(H1!register_comparison_copy(H1!NoComparisons, actual, expected), now)
           <=> \A n \in DOMAIN expected : actual[n] = expected[n]
<1> DEFINE tracker == H1!register_comparison_copy(H1!NoComparisons, actual, expected)
<1>1. tracker = [n \in DOMAIN expected |-> H1!ByCopy(actual[n], expected[n])]
  BY DEF H1!register_comparison_copy, H1!NoComparisons, H1!populate_all_zero
<1>2. \A n \in DOMAIN expected : H1!Holds(tracker[n], now[n]) <=> actual[n] = expected[n]
  BY <1>1 DEF H1!Holds, H1!ByCopy
<1> QED
  BY <1>1, <1>2 DEF H1!validate

\* The timer 0 check passes a program whose ISR toggles the red LED, or that left
\* its toggle bit set at the initialisation, and puts everything back.
LEMMA Timer0Check ==
  ASSUME NEW s, H1!IsStudent(s), NEW m, H1!IsMachine(s, m)
  PROVE  /\ H1!check_timer0(s, m).ok <=> s.blinksRed \/ H1!RedLed \in m.TOGGLE
         /\ H1!check_timer0(s, m).machine = m
<1> DEFINE after == Blinked(s, m, 250)
           S == H1!Structs(after)
           wanted == [numTimer0calls |-> m.numTimer0calls + 250, count0 |-> m.count0 + 250,
                      LEDdisplaynum |-> m.LEDdisplaynum + 1,
                      gpio |-> H1!Gpio([m EXCEPT !.TOGGLE = @ \cup {H1!RedLed}])]
           tracker == H1!register_comparison_copy(H1!NoComparisons, S, wanted)
           restored == [H1!WithGpio(after, m) EXCEPT !.numTimer0calls = m.numTimer0calls,
                                             !.LEDdisplaynum = m.LEDdisplaynum,
                                             !.count0 = m.count0]
<1>1. H1!check_timer0(s, m) = H1!Outcome(H1!validate(tracker, H1!Structs(restored)), restored)
  BY Timer0Times DEF H1!check_timer0
<1>2. m \in Machine /\ m.count0 = 0 /\ m.numTimer0calls = 0 /\ m.LEDdisplaynum = 0
  BY SettledTypes
<1>3. /\ after.count0 = 250 /\ after.numTimer0calls = 250 /\ after.LEDdisplaynum = 1
      /\ after.DAT = m.DAT /\ after.SET = m.SET /\ after.CLEAR = m.CLEAR
      /\ after.TOGGLE = IF s.blinksRed THEN m.TOGGLE \cup {H1!RedLed} ELSE m.TOGGLE
  BY <1>2 DEF Blinked, Machine
<1>4. restored = m
  <2> DEFINE g == H1!WithGpio(after, m)
  <2>1. /\ after \in Machine
        /\ after.period = m.period /\ after.count1 = m.count1 /\ after.count2 = m.count2
        /\ after.UARTPrint = m.UARTPrint /\ after.prev = m.prev /\ after.prints = m.prints
    BY <1>2, BlinkedTypes
  <2> HIDE DEF after
  <2>2. /\ g \in Machine
        /\ g.DAT = m.DAT /\ g.SET = m.SET /\ g.CLEAR = m.CLEAR /\ g.TOGGLE = m.TOGGLE
        /\ g.period = m.period /\ g.count1 = m.count1 /\ g.count2 = m.count2
        /\ g.UARTPrint = m.UARTPrint /\ g.prev = m.prev /\ g.prints = m.prints
    BY <1>2, <2>1, RestoresGpio
  <2>3. restored = [g EXCEPT !.numTimer0calls = m.numTimer0calls,
                             !.LEDdisplaynum = m.LEDdisplaynum, !.count0 = m.count0]
    OBVIOUS
  <2> HIDE DEF g, restored
  <2>4. restored \in Machine
    BY <1>2, <2>2, <2>3 DEF Machine
  <2> QED
    BY <1>2, <2>2, <2>3, <2>4, SameMachine DEF Machine
<1>5. H1!validate(tracker, H1!Structs(restored)) <=> \A n \in DOMAIN wanted : S[n] = wanted[n]
  BY OnlyCopies
<1>6. (\A n \in DOMAIN wanted : S[n] = wanted[n]) <=> after.TOGGLE = m.TOGGLE \cup {H1!RedLed}
  BY <1>2, <1>3 DEF H1!Structs, H1!Gpio, Machine
<1>7. s.blinksRed \in BOOLEAN
  BY DEF H1!IsStudent
<1>8. after.TOGGLE = m.TOGGLE \cup {H1!RedLed} <=> s.blinksRed \/ H1!RedLed \in m.TOGGLE
  BY <1>3, <1>7
<1> QED
  BY <1>1, <1>4, <1>5, <1>6, <1>8 DEF H1!Outcome

\* The timer 1 check passes every program of this shape, and puts everything back.
LEMMA Timer1Check ==
  ASSUME NEW s, H1!IsStudent(s), NEW m, H1!IsMachine(s, m)
  PROVE  H1!check_timer1(s, m).ok /\ H1!check_timer1(s, m).machine = m
<1> DEFINE c == [k \in 0..100 |-> [m EXCEPT !.count1 = k]]
           after == [m EXCEPT !.count1 = 100]
           restored == [after EXCEPT !.count1 = m.count1]
           wanted == [count1 |-> m.count1 + 100]
<1>1. m \in Machine /\ m.count1 = 0
  BY SettledTypes
<1>2. [m EXCEPT !.count1 = 0] = m
  BY <1>1 DEF Machine
<1>3. H1!Times(100, "cpu_timer1_isr", s, m) = after
  <2>1. c[0] = m /\ c[100] = after
    BY <1>2
  <2>2. \A k \in 0..(100 - 1) : H1!Call("cpu_timer1_isr", s, c[k]) = c[k + 1]
    <3> SUFFICES ASSUME NEW k \in 0..(100 - 1)
                 PROVE  H1!Call("cpu_timer1_isr", s, c[k]) = c[k + 1]
      OBVIOUS
    <3>1. c[k] = [m EXCEPT !.count1 = k] /\ c[k + 1] = [m EXCEPT !.count1 = k + 1]
      OBVIOUS
    <3> HIDE DEF c
    <3>2. H1!cpu_timer1_isr(s, c[k]) = c[k + 1]
      BY <1>1, <3>1 DEF H1!cpu_timer1_isr, Machine
    <3> QED
      BY <3>2 DEF H1!Call
  <2> HIDE DEF c
  <2>3. PICK l \in Nat : l = 100
    OBVIOUS
  <2>4. Chain("cpu_timer1_isr", s, l, c)
    BY <2>2, <2>3 DEF Chain
  <2>5. H1!Times(l, "cpu_timer1_isr", s, c[0]) = c[l]
    BY <2>4, TimesEnd
  <2> QED
    BY <2>1, <2>3, <2>5
<1>4. restored = m
  BY <1>1 DEF Machine
<1>5. \A n \in DOMAIN wanted : H1!Structs(after)[n] = wanted[n]
  BY <1>1 DEF H1!Structs, Machine
<1> HIDE DEF restored, after, wanted
<1>6. H1!validate(H1!register_comparison_copy(H1!NoComparisons, H1!Structs(after), wanted),
                  H1!Structs(restored))
  BY <1>5, OnlyCopies
<1> QED
  BY <1>3, <1>4, <1>6 DEF H1!check_timer1, H1!Outcome, restored, wanted

\* No call of the timer 2 ISR changes nothing.
LEMMA NotTicked ==
  ASSUME NEW s, H1!IsStudent(s), NEW w \in Machine, w.count2 = 0
  PROVE  Ticked(s, w, 0, w.UARTPrint, w.prints) = w
<1>1. ~(0 >= s.statusTicks) /\ ~(0 >= s.ledTicks) /\ ~(0 >= FirstLook(s))
  BY DEF H1!IsStudent, FirstLook
<1>2. Lit(s, Levels(w), w.prev, 0) = {}
  BY <1>1 DEF Lit
<1>3. Ticked(s, w, 0, w.UARTPrint, w.prints) = [w EXCEPT !.count2 = 0, !.UARTPrint = @,
                                       !.prints = @, !.TOGGLE = @, !.prev = @]
  BY <1>1, <1>2 DEF Ticked
<1> QED
  BY <1>3 DEF Machine

\* n calls of the timer 2 ISR with no turn of the main loop between them.
LEMMA Timer2Times ==
  ASSUME NEW s, H1!IsStudent(s), NEW w \in Machine, w.count2 = 0, NEW n \in Nat
  PROVE  H1!Times(n, "cpu_timer2_isr", s, w)
           = Ticked(s, w, n, IF n >= s.printTicks THEN 1 ELSE w.UARTPrint, w.prints)
<1> DEFINE u(k) == IF k >= s.printTicks THEN 1 ELSE w.UARTPrint
           c == [k \in 0..n |-> Ticked(s, w, k, u(k), w.prints)]
<1>0. s.printTicks \in Nat \ {0} /\ w.UARTPrint \in {0, 1} /\ w.prints \in Nat
  BY DEF H1!IsStudent, Machine
<1>1. c[0] = w /\ c[n] = Ticked(s, w, n, u(n), w.prints)
  BY <1>0, NotTicked
<1>2. \A k \in 0..(n - 1) : H1!Call("cpu_timer2_isr", s, c[k]) = c[k + 1]
  <2> SUFFICES ASSUME NEW k \in 0..(n - 1)
               PROVE  H1!Call("cpu_timer2_isr", s, c[k]) = c[k + 1]
    OBVIOUS
  <2>1. c[k] = Ticked(s, w, k, u(k), w.prints)
        /\ c[k + 1] = Ticked(s, w, k + 1, u(k + 1), w.prints)
    OBVIOUS
  <2>2. u(k) \in {0, 1} /\ k \in Nat
    BY <1>0
  <2>3. u(k + 1) = IF (k + 1) % s.printTicks = 0 THEN 1 ELSE u(k)
    BY <1>0, FirstMultiple
  <2> HIDE DEF u, c
  <2>4. H1!cpu_timer2_isr(s, Ticked(s, w, k, u(k), w.prints))
          = Ticked(s, w, k + 1, u(k + 1), w.prints)
    BY <1>0, <2>2, <2>3, Tick
  <2> QED
    BY <2>1, <2>4 DEF H1!Call
<1> HIDE DEF u, c
<1>3. Chain("cpu_timer2_isr", s, n, c)
  BY <1>2 DEF Chain
<1>4. H1!Times(n, "cpu_timer2_isr", s, c[0]) = c[n]
  BY <1>3, TimesEnd
<1> QED
  BY <1>1, <1>4 DEF u

\* n calls of the timer 2 ISR each followed by a turn of the main loop.
LEMMA PumpTimes ==
  ASSUME NEW s, H1!IsStudent(s), NEW w \in Machine,
         w.count2 = 0, w.UARTPrint = 0, w.prints = 0, NEW n \in Nat
  PROVE  H1!Times(n, "main pump", s, w) = Ticked(s, w, n, 0, n \div s.printTicks)
<1> DEFINE c == [k \in 0..n |-> Ticked(s, w, k, 0, k \div s.printTicks)]
<1>0. s.printTicks \in Nat \ {0} /\ 0 \div s.printTicks = 0
  BY DEF H1!IsStudent
<1>1. c[0] = w /\ c[n] = Ticked(s, w, n, 0, n \div s.printTicks)
  BY <1>0, NotTicked
<1>2. \A k \in 0..(n - 1) : H1!Call("main pump", s, c[k]) = c[k + 1]
  <2> SUFFICES ASSUME NEW k \in 0..(n - 1) PROVE H1!Call("main pump", s, c[k]) = c[k + 1]
    OBVIOUS
  <2>1. c[k] = Ticked(s, w, k, 0, k \div s.printTicks)
        /\ c[k + 1] = Ticked(s, w, k + 1, 0, (k + 1) \div s.printTicks)
    OBVIOUS
  <2> HIDE DEF c
  <2>2. H1!LoopBody(H1!cpu_timer2_isr(s, c[k])) = c[k + 1]
    BY <2>1, Pump
  <2> QED
    BY <2>2 DEF H1!Call
<1> HIDE DEF c
<1>3. Chain("main pump", s, n, c)
  BY <1>2 DEF Chain
<1>4. H1!Times(n, "main pump", s, c[0]) = c[n]
  BY <1>3, TimesEnd
<1> QED
  BY <1>1, <1>4

\* The fields that no check of the timer 2 ISR touches.
SameOthers(x, m) ==
  /\ x.period = m.period /\ x.count0 = m.count0 /\ x.count1 = m.count1
  /\ x.numTimer0calls = m.numTimer0calls /\ x.LEDdisplaynum = m.LEDdisplaynum

\* clear_all_toggle_regs writes the toggle registers only.
LEMMA ToggleRegsCleared ==
  ASSUME NEW x \in Machine, NEW y, y = H1!ClearAllToggleRegs(x)
  PROVE  /\ y \in Machine /\ SameOthers(y, x) /\ y.TOGGLE = {} /\ y.DAT = x.DAT
         /\ y.count2 = x.count2 /\ y.UARTPrint = x.UARTPrint
         /\ y.prev = x.prev /\ y.prints = x.prints
  BY DEF H1!ClearAllToggleRegs, Machine, SameOthers

\* Pressing or releasing buttons writes the GPIO data registers only.
LEMMA LevelsWritten ==
  ASSUME NEW x \in Machine, NEW dat \in SUBSET H1!Pins, NEW y, y = [x EXCEPT !.DAT = dat]
  PROVE  /\ y \in Machine /\ SameOthers(y, x) /\ y.DAT = dat /\ y.TOGGLE = x.TOGGLE
         /\ y.count2 = x.count2 /\ y.UARTPrint = x.UARTPrint
         /\ y.prev = x.prev /\ y.prints = x.prints
  BY DEF Machine, SameOthers

\* The counter of the timer 2 ISR and the request flag, written by a check.
Counted(x, i, u) == [x EXCEPT !.count2 = i, !.UARTPrint = u]

\* Writing them leaves the other fields alone.
LEMMA CountersWritten ==
  ASSUME NEW x \in Machine, NEW i \in Nat, NEW u \in {0, 1}
  PROVE  LET y == Counted(x, i, u) IN
         /\ y \in Machine /\ SameOthers(y, x) /\ y.DAT = x.DAT /\ y.TOGGLE = x.TOGGLE
         /\ y.count2 = i /\ y.UARTPrint = u /\ y.prev = x.prev /\ y.prints = x.prints
  BY DEF Counted, Machine, SameOthers

\* y is what k calls of the timer 2 ISR leave of w.
AfterTicks(y, s, w, k, u, p) ==
  /\ y \in Machine /\ SameOthers(y, w) /\ y.DAT = w.DAT
  /\ y.TOGGLE = w.TOGGLE \cup Lit(s, Levels(w), w.prev, k)
  /\ y.count2 = k /\ y.UARTPrint = u
  /\ y.prev = (IF k >= FirstLook(s) THEN Levels(w) ELSE w.prev) /\ y.prints = p

\* The closed form, field by field.
LEMMA TickedTypes ==
  ASSUME NEW s, H1!IsStudent(s), NEW w \in Machine, NEW k \in Nat, NEW u \in {0, 1},
         NEW p \in Nat
  PROVE  AfterTicks(Ticked(s, w, k, u, p), s, w, k, u, p)
<1> DEFINE y == Ticked(s, w, k, u, p)
           t == w.TOGGLE \cup Lit(s, Levels(w), w.prev, k)
           q == IF k >= FirstLook(s) THEN Levels(w) ELSE w.prev
<1>1. t \in SUBSET H1!Pins
  <2>1. Lit(s, Levels(w), w.prev, k) \subseteq H1!Pins
    BY DEF Lit, H1!IsStudent, H1!Pins, H1!StatusLed, H1!Led10And11, H1!Led12And13
  <2> QED
    BY <2>1 DEF Machine
<1>2. q \in [{H1!PB1, H1!PB4} -> {0, 1}]
  BY DEF Levels, H1!Bit, Machine
<1>3. y = [w EXCEPT !.count2 = k, !.UARTPrint = u, !.prints = p, !.TOGGLE = t, !.prev = q]
  BY DEF Ticked
<1> HIDE DEF t, q, y
<1>4. y \in Machine
  BY <1>1, <1>2, <1>3 DEF Machine
<1>5. /\ SameOthers(y, w) /\ y.DAT = w.DAT /\ y.TOGGLE = t /\ y.count2 = k
      /\ y.UARTPrint = u /\ y.prev = q /\ y.prints = p
  BY <1>3 DEF Machine, SameOthers
<1> QED
  BY <1>4, <1>5 DEF t, q, y, AfterTicks

\* The levels of the buttons of which those held are down.
Held(held) == [p \in {H1!PB1, H1!PB4} |-> IF p \in held THEN 0 ELSE 1]

\* What the statics are when a window starts: a program that looks on the primer
\* call saw the buttons released.
Before(s, prev) == IF FirstLook(s) = 1 THEN Held({}) ELSE prev

\* r is what a window of n calls, with the buttons held, leaves of m.
Windowed(s, m, held, n, r) ==
  /\ r \in Machine /\ SameOthers(r, m) /\ r.prints = m.prints
  /\ r.prev = IF n >= FirstLook(s) THEN Held(held) ELSE Before(s, m.prev)
  /\ r.TOGGLE = Lit(s, Held(held), Before(s, m.prev), n)

\* The primer call: one call of the ISR with the buttons released.
LEMMA Primer ==
  ASSUME NEW s, H1!IsStudent(s), NEW w \in Machine, w.count2 = 0,
         Levels(w) = Held({}), NEW y, y = H1!cpu_timer2_isr(s, w)
  PROVE  y \in Machine /\ SameOthers(y, w) /\ y.prints = w.prints
         /\ y.prev = Before(s, w.prev)
<1>0. w.UARTPrint \in {0, 1} /\ w.prints \in Nat /\ FirstLook(s) \in Nat \ {0}
  BY DEF Machine, FirstLook, H1!IsStudent
<1> DEFINE u == IF (0 + 1) % s.printTicks = 0 THEN 1 ELSE w.UARTPrint
<1>1. u \in {0, 1}
  BY <1>0
<1>2. H1!cpu_timer2_isr(s, Ticked(s, w, 0, w.UARTPrint, w.prints))
        = Ticked(s, w, 0 + 1, u, w.prints)
  BY <1>0, Tick
<1> HIDE DEF u
<1>3. y = Ticked(s, w, 1, u, w.prints)
  BY <1>2, NotTicked
<1>4. (1 >= FirstLook(s)) <=> FirstLook(s) = 1
  BY <1>0
<1>5. PICK l \in Nat : l = 1
  OBVIOUS
<1> PICK p \in Nat : p = w.prints
  BY <1>0
<1>6. y = Ticked(s, w, l, u, p)
  BY <1>3, <1>5
<1>7. y \in Machine /\ SameOthers(y, w) /\ y.prints = p
      /\ y.prev = (IF l >= FirstLook(s) THEN Levels(w) ELSE w.prev)
  <2>1. AfterTicks(Ticked(s, w, l, u, p), s, w, l, u, p)
    BY <1>1, TickedTypes, Zenon
  <2> QED BY <1>6, <2>1 DEF AfterTicks
<1> QED
  BY <1>4, <1>5, <1>7 DEF Before

\* A window of the timer 2 check: the baseline restored, the primer call, the
\* buttons set, TICKS_PER_100MS + 2 calls.
LEMMA WindowEnds ==
  ASSUME NEW s, H1!IsStudent(s), NEW b \in Machine, NEW m \in Machine, m.period # 0,
         NEW held \in SUBSET {H1!PB1, H1!PB4}
  PROVE  Windowed(s, m, held, H1!TicksPer100ms(m) + 2, H1!RunWindow(s, b, m, held))
<1> DEFINE back == H1!WithGpio(m, b)
           set == [back EXCEPT !.count2 = 0, !.UARTPrint = 0]
           clean == H1!ClearAllToggleRegs(set)
           up == H1!ReleaseButtons(clean, H1!Buttons)
           called == H1!cpu_timer2_isr(s, up)
           reset == [called EXCEPT !.count2 = 0]
           primed == H1!ClearAllToggleRegs(reset)
           armed == H1!ReleaseButtons(H1!PressButtons(primed, held), {H1!PB1, H1!PB4} \ held)
           n == H1!TicksPer100ms(m) + 2
           r == H1!Times(n, "cpu_timer2_isr", s, armed)
<1>1. H1!RunWindow(s, b, m, held) = r
  BY DEF H1!RunWindow
<1>2. clean \in Machine /\ SameOthers(clean, m) /\ clean.prints = m.prints
      /\ clean.count2 = 0 /\ clean.prev = m.prev
  <2>1. back \in Machine /\ SameOthers(back, m) /\ back.prints = m.prints /\ back.prev = m.prev
    BY RestoresGpio DEF SameOthers
  <2> HIDE DEF back
  <2>2. set = Counted(back, 0, 0)
    BY DEF Counted
  <2> HIDE DEF set
  <2>4. 0 \in Nat /\ 0 \in {0, 1}
    OBVIOUS
  <2>3. set \in Machine /\ SameOthers(set, back) /\ set.prints = back.prints
        /\ set.count2 = 0 /\ set.prev = back.prev
    BY <2>1, <2>2, <2>4, CountersWritten
  <2> QED
    BY <2>1, <2>3, ToggleRegsCleared DEF SameOthers
<1> HIDE DEF clean
<1>3. up \in Machine /\ SameOthers(up, m) /\ up.prints = m.prints
      /\ up.count2 = 0 /\ up.prev = m.prev /\ Levels(up) = Held({})
  <2> DEFINE dat == clean.DAT \cup H1!Buttons
  <2>1. dat \in SUBSET H1!Pins /\ {H1!PB1, H1!PB4} \subseteq dat
    BY <1>2 DEF Machine, H1!Buttons, H1!Pins, H1!PB1, H1!PB4
  <2>2. up = [clean EXCEPT !.DAT = dat]
    BY DEF H1!ReleaseButtons
  <2> HIDE DEF up, dat
  <2>3. up \in Machine /\ SameOthers(up, clean) /\ up.DAT = dat /\ up.prints = clean.prints
        /\ up.count2 = clean.count2 /\ up.prev = clean.prev
    BY <1>2, <2>1, <2>2, LevelsWritten
  <2>4. Levels(up) = Held({})
    BY <2>1, <2>3 DEF Levels, H1!Bit, Held
  <2> QED
    BY <1>2, <2>3, <2>4 DEF SameOthers
<1> HIDE DEF up
<1>4. called \in Machine /\ SameOthers(called, m) /\ called.prints = m.prints
      /\ called.prev = Before(s, m.prev)
  <2> HIDE DEF called
  <2>1. called = H1!cpu_timer2_isr(s, up)
    BY DEF called
  <2> QED
    BY <1>3, <2>1, Primer DEF SameOthers
<1> HIDE DEF called
<1>5. primed \in Machine /\ SameOthers(primed, m) /\ primed.prints = m.prints
      /\ primed.count2 = 0 /\ primed.prev = Before(s, m.prev) /\ primed.TOGGLE = {}
  <2>1. reset = Counted(called, 0, called.UARTPrint)
    BY <1>4 DEF Counted, Machine
  <2>2. called.UARTPrint \in {0, 1} /\ 0 \in Nat
    BY <1>4 DEF Machine
  <2> HIDE DEF reset
  <2>3. reset \in Machine /\ SameOthers(reset, called) /\ reset.prints = called.prints
        /\ reset.count2 = 0 /\ reset.prev = called.prev
    BY <1>4, <2>1, <2>2, CountersWritten
  <2> QED
    BY <1>4, <2>3, ToggleRegsCleared DEF SameOthers
<1> HIDE DEF primed
<1>6. armed \in Machine /\ SameOthers(armed, m) /\ armed.prints = m.prints
      /\ armed.count2 = 0 /\ armed.prev = Before(s, m.prev) /\ armed.TOGGLE = {}
      /\ Levels(armed) = Held(held)
  <2> DEFINE dat == (primed.DAT \ held) \cup ({H1!PB1, H1!PB4} \ held)
  <2>1. dat \in SUBSET H1!Pins
    BY <1>5 DEF Machine, H1!Pins, H1!PB1, H1!PB4
  <2>2. armed = [primed EXCEPT !.DAT = dat]
    BY <1>5 DEF H1!ReleaseButtons, H1!PressButtons, Machine
  <2>3. \A p \in {H1!PB1, H1!PB4} : p \in dat <=> p \notin held
    OBVIOUS
  <2> HIDE DEF armed, dat
  <2>4. armed \in Machine /\ SameOthers(armed, primed) /\ armed.DAT = dat
        /\ armed.prints = primed.prints /\ armed.count2 = primed.count2
        /\ armed.prev = primed.prev /\ armed.TOGGLE = primed.TOGGLE
    BY <1>5, <2>1, <2>2, LevelsWritten
  <2>5. Levels(armed) = Held(held)
    BY <2>3, <2>4 DEF Levels, H1!Bit, Held
  <2> QED
    BY <1>5, <2>4, <2>5 DEF SameOthers
<1> HIDE DEF armed
<1>7. n \in Nat
  BY DEF H1!TicksPer100ms, Machine
<1>8. r \in Machine /\ SameOthers(r, armed) /\ r.prints = armed.prints
      /\ r.prev = (IF n >= FirstLook(s) THEN Levels(armed) ELSE armed.prev)
      /\ r.TOGGLE = armed.TOGGLE \cup Lit(s, Levels(armed), armed.prev, n)
  <2> HIDE DEF n
  <2>1. armed.UARTPrint \in {0, 1} /\ armed.prints \in Nat
    BY <1>6 DEF Machine
  <2>2. PICK u \in {0, 1} : r = Ticked(s, armed, n, u, armed.prints)
    BY <1>6, <1>7, <2>1, Timer2Times
  <2> HIDE DEF r
  <2>3. PICK p \in Nat : p = armed.prints
    BY <2>1
  <2>4. r = Ticked(s, armed, n, u, p)
    BY <2>2, <2>3
  <2>5. r \in Machine /\ SameOthers(r, armed) /\ r.prints = p
      /\ r.prev = (IF n >= FirstLook(s) THEN Levels(armed) ELSE armed.prev)
      /\ r.TOGGLE = armed.TOGGLE \cup Lit(s, Levels(armed), armed.prev, n)
    <3>0. armed \in Machine /\ n \in Nat
      BY <1>6, <1>7
    <3> HIDE DEF armed
    <3>1. AfterTicks(Ticked(s, armed, n, u, p), s, armed, n, u, p)
      BY <3>0, TickedTypes
    <3> QED BY <2>4, <3>1 DEF AfterTicks
  <2> QED
    BY <2>3, <2>5
<1> HIDE DEF r, n
<1> QED
  BY <1>1, <1>6, <1>8 DEF Windowed, SameOthers, n

\* x differs from m only in what no check restores.
AlikeBut(x, m) == x = [m EXCEPT !.prev = x.prev, !.prints = x.prints]

\* What the timer 2 check and the print checks put back at their end.
LEMMA SnapshotRestored ==
  ASSUME NEW r \in Machine, NEW m \in Machine, SameOthers(r, m)
  PROVE  LET x == H1!RestoreSnapshot(r, m) IN
         x \in Machine /\ AlikeBut(x, m) /\ x.prev = r.prev /\ x.prints = r.prints
<1> DEFINE g == H1!WithGpio(r, m)
           x == Counted(g, m.count2, m.UARTPrint)
<1>1. H1!RestoreSnapshot(r, m) = x
  BY DEF H1!RestoreSnapshot, Counted
<1>2. /\ g \in Machine
      /\ g.DAT = m.DAT /\ g.SET = m.SET /\ g.CLEAR = m.CLEAR /\ g.TOGGLE = m.TOGGLE
      /\ SameOthers(g, m) /\ g.prev = r.prev /\ g.prints = r.prints
  BY RestoresGpio DEF SameOthers
<1> HIDE DEF g
<1>3. m.count2 \in Nat /\ m.UARTPrint \in {0, 1}
  BY DEF Machine
<1>4. PICK i \in Nat : i = m.count2
  BY <1>3
<1>5. PICK u \in {0, 1} : u = m.UARTPrint
  BY <1>3
<1>6. x = [g EXCEPT !.count2 = i, !.UARTPrint = u]
  BY <1>4, <1>5 DEF Counted
<1> HIDE DEF x
<1>7. x \in Machine
  BY <1>2, <1>6 DEF Machine
<1>8. x.DAT = g.DAT /\ x.SET = g.SET /\ x.CLEAR = g.CLEAR /\ x.TOGGLE = g.TOGGLE
      /\ SameOthers(x, g) /\ x.prev = g.prev /\ x.prints = g.prints
      /\ x.count2 = i /\ x.UARTPrint = u
  BY <1>2, <1>6 DEF Machine, SameOthers
<1>9. AlikeBut(x, m)
  <2>1. PICK q \in [{H1!PB1, H1!PB4} -> {0, 1}] : q = x.prev
    BY <1>7 DEF Machine
  <2>2. PICK n \in Nat : n = x.prints
    BY <1>7 DEF Machine
  <2> DEFINE y == [m EXCEPT !.prev = q, !.prints = n]
  <2>3. y \in Machine
    BY DEF Machine
  <2>4. /\ y.DAT = m.DAT /\ y.SET = m.SET /\ y.CLEAR = m.CLEAR /\ y.TOGGLE = m.TOGGLE
        /\ SameOthers(y, m) /\ y.prev = q /\ y.prints = n
        /\ y.count2 = m.count2 /\ y.UARTPrint = m.UARTPrint
    BY DEF Machine, SameOthers
  <2> HIDE DEF y
  <2>5. x = y
    BY <1>2, <1>4, <1>5, <1>7, <1>8, <2>1, <2>2, <2>3, <2>4, SameMachine DEF SameOthers
  <2> QED
    BY <2>1, <2>2, <2>5 DEF AlikeBut, y
<1> QED
  BY <1>1, <1>2, <1>7, <1>8, <1>9

\* The verdict of the three windows of n calls, the statics being prev before.
WindowsPass(s, n, prev) ==
  LET after(held, q) == IF n >= FirstLook(s) THEN Held(held) ELSE Before(s, q)
      q1 == after({}, prev)
      q2 == after({H1!PB1}, q1)
      lit(held, q) == Lit(s, Held(held), Before(s, q), n)
  IN /\ {H1!StatusLed} \cup H1!Led10And11 \subseteq lit({}, prev)
     /\ (H1!Led12And13 \cup H1!Led14And15) \cap lit({}, prev) = {}
     /\ H1!Led12And13 \subseteq lit({H1!PB1}, q1) /\ H1!Led14And15 \cap lit({H1!PB1}, q1) = {}
     /\ H1!Led14And15 \subseteq lit({H1!PB4}, q2) /\ H1!Led12And13 \cap lit({H1!PB4}, q2) = {}

\* The timer 2 check passes exactly the programs whose three windows pass, and puts
\* back all but the statics of the edge detectors and the capture.
LEMMA Timer2Check ==
  ASSUME NEW s, H1!IsStudent(s), NEW m, H1!IsMachine(s, m)
  PROVE  LET o == H1!check_timer2(s, m) IN
         /\ o.machine \in Machine /\ AlikeBut(o.machine, m)
         /\ o.ok <=> /\ s.period # 0 /\ 100000 \div s.period # 0
                     /\ WindowsPass(s, 100000 \div s.period + 2, m.prev)
<1> DEFINE o == H1!check_timer2(s, m)
           n == H1!TicksPer100ms(m) + 2
           released == H1!RunWindow(s, m, m, {})
           pb1 == H1!RunWindow(s, m, released, {H1!PB1})
           pb4 == H1!RunWindow(s, m, pb1, {H1!PB4})
<1>0. m \in Machine /\ m.period = s.period /\ s.period \in Nat
  BY SettledTypes DEF H1!IsStudent
<1>1. CASE m.period = 0 \/ H1!TicksPer100ms(m) = 0
  <2>1. o = [ok |-> FALSE, machine |-> m]
    BY <1>1 DEF H1!check_timer2, H1!Outcome
  <2>2. AlikeBut(m, m)
    BY <1>0 DEF AlikeBut, Machine
  <2>3. s.period = 0 \/ 100000 \div s.period = 0
    BY <1>0, <1>1 DEF H1!TicksPer100ms
  <2> HIDE DEF o
  <2> QED
    BY <1>0, <2>1, <2>2, <2>3 DEF o
<1>2. CASE ~(m.period = 0 \/ H1!TicksPer100ms(m) = 0)
  <2>1. o = [ok |-> H1!SubChecks(released, pb1, pb4), machine |-> H1!RestoreSnapshot(pb4, m)]
    BY <1>2 DEF H1!check_timer2, H1!Outcome
  <2>2. Windowed(s, m, {}, n, released)
    BY <1>0, <1>2, WindowEnds
  <2> HIDE DEF released
  <2>3. released \in Machine /\ released.period = m.period
        /\ H1!TicksPer100ms(released) + 2 = n
    BY <2>2 DEF Windowed, SameOthers, H1!TicksPer100ms
  <2>4. Windowed(s, released, {H1!PB1}, n, pb1)
    <3>1. Windowed(s, released, {H1!PB1}, H1!TicksPer100ms(released) + 2, pb1)
      BY <1>0, <1>2, <2>3, WindowEnds
    <3> QED BY <2>3, <3>1
  <2> HIDE DEF pb1
  <2>5. pb1 \in Machine /\ pb1.period = m.period /\ H1!TicksPer100ms(pb1) + 2 = n
    BY <2>3, <2>4 DEF Windowed, SameOthers, H1!TicksPer100ms
  <2>6. Windowed(s, pb1, {H1!PB4}, n, pb4)
    <3>1. Windowed(s, pb1, {H1!PB4}, H1!TicksPer100ms(pb1) + 2, pb4)
      BY <1>0, <1>2, <2>5, WindowEnds
    <3> QED BY <2>5, <3>1
  <2> HIDE DEF pb4
  <2>7. pb4 \in Machine /\ SameOthers(pb4, m)
    BY <2>2, <2>4, <2>6 DEF Windowed, SameOthers
  <2>8. o.machine \in Machine /\ AlikeBut(o.machine, m)
    BY <1>0, <2>1, <2>7, SnapshotRestored
  <2>9. o.ok <=> H1!SubChecks(released, pb1, pb4)
    BY <2>1
  <2>10. H1!SubChecks(released, pb1, pb4) <=> WindowsPass(s, n, m.prev)
    <3> HIDE DEF n
    <3> QED
      BY <2>2, <2>4, <2>6 DEF Windowed, WindowsPass, H1!SubChecks, H1!Toggles
  <2>11. s.period # 0 /\ 100000 \div s.period # 0 /\ n = 100000 \div s.period + 2
    BY <1>0, <1>2 DEF H1!TicksPer100ms
  <2> HIDE DEF o, n
  <2> QED
    BY <2>8, <2>9, <2>10, <2>11 DEF o
<1> QED
  BY <1>1, <1>2

-----------------------------------------------------------------------------
(* The print checks and the initialisation.                                *)

\* A machine that the checks may start from, as HwSuites' TypeOK has it.
LEMMA AlikeTypes ==
  ASSUME NEW s, NEW m, H1!IsMachine(s, m), NEW x \in Machine, AlikeBut(x, m)
  PROVE  H1!IsMachine(s, x)
<1>1. PICK q \in [{H1!PB1, H1!PB4} -> {0, 1}] : q = x.prev
  BY DEF Machine
<1>2. PICK n \in Nat : n = x.prints
  BY DEF Machine
<1>3. x = [m EXCEPT !.prev = q, !.prints = n]
  BY <1>1, <1>2 DEF AlikeBut
<1> QED
  BY <1>3 DEF H1!IsMachine


\* Driving the ISR and the main loop for a time counts the prints of that time.
LEMMA PrintsEnd ==
  ASSUME NEW s, H1!IsStudent(s), NEW m, H1!IsMachine(s, m), NEW us \in Nat, s.period # 0
  PROVE  LET x == H1!DrivePrints(s, m, us) IN
         x \in Machine /\ SameOthers(x, m) /\ x.prints = (us \div s.period) \div s.printTicks
<1> DEFINE x == H1!DrivePrints(s, m, us)
           n == us \div s.period
           up == H1!ReleaseButtons(m, {H1!PB1, H1!PB4})
           w == [up EXCEPT !.prints = 0, !.UARTPrint = 0, !.count2 = 0]
           p == n \div s.printTicks
<1>0. m \in Machine /\ m.period = s.period /\ s.period \in Nat /\ s.printTicks \in Nat \ {0}
  BY SettledTypes DEF H1!IsStudent
<1>1. n \in Nat /\ p \in Nat
  BY <1>0
<1>2. up \in Machine /\ SameOthers(up, m)
  <2> DEFINE dat == m.DAT \cup {H1!PB1, H1!PB4}
  <2>1. dat \in SUBSET H1!Pins
    BY <1>0 DEF Machine, H1!Pins, H1!PB1, H1!PB4
  <2>2. up = [m EXCEPT !.DAT = dat]
    BY DEF H1!ReleaseButtons
  <2> HIDE DEF up, dat
  <2> QED
    BY <1>0, <2>1, <2>2, LevelsWritten
<1> HIDE DEF up
<1>3. w \in Machine /\ SameOthers(w, up) /\ w.count2 = 0 /\ w.UARTPrint = 0 /\ w.prints = 0
  BY <1>2 DEF Machine, SameOthers
<1>4. x = H1!Times(n, "main pump", s, w)
  BY <1>0 DEF H1!DrivePrints, up
<1> HIDE DEF w, n, p, x
<1>5. x = Ticked(s, w, n, 0, p)
  <2>1. H1!Times(n, "main pump", s, w) = Ticked(s, w, n, 0, n \div s.printTicks)
    BY <1>1, <1>3, PumpTimes
  <2> QED BY <1>4, <2>1 DEF p
<1>6. AfterTicks(Ticked(s, w, n, 0, p), s, w, n, 0, p)
  <2>1. PICK u \in {0, 1} : u = 0
    OBVIOUS
  <2>2. AfterTicks(Ticked(s, w, n, u, p), s, w, n, u, p)
    BY <1>1, <1>3, TickedTypes
  <2> QED BY <2>1, <2>2
<1>7. x \in Machine /\ SameOthers(x, w) /\ x.prints = p
  BY <1>5, <1>6 DEF AfterTicks
<1> QED
  BY <1>2, <1>3, <1>7 DEF SameOthers, x, p, n

\* How many prints a second and half a second of calls produce.
Prints(s, us) == (us \div s.period) \div s.printTicks

\* The cadence check passes the programs that print three to five times a second.
LEMMA CadenceCheck ==
  ASSUME NEW s, H1!IsStudent(s), NEW m, H1!IsMachine(s, m)
  PROVE  LET o == H1!check_print_cadence(s, m) IN
         /\ o.machine \in Machine /\ AlikeBut(o.machine, m)
         /\ o.ok <=> s.period # 0 /\ Prints(s, 1000000) \in H1!CadenceWindow(4, 10)
<1> DEFINE o == H1!check_print_cadence(s, m)
           driven == H1!DrivePrints(s, m, 1000000)
           ok == driven.prints \in H1!CadenceWindow(4, 10)
<1>0. m \in Machine /\ m.period = s.period
  BY SettledTypes
<1>1. CASE s.period = 0
  <2>1. o = [ok |-> FALSE, machine |-> m]
    BY <1>0, <1>1, SMT DEF H1!check_print_cadence, H1!Outcome
  <2>2. AlikeBut(m, m)
    BY <1>0 DEF AlikeBut, Machine
  <2> HIDE DEF o
  <2> QED BY <1>0, <1>1, <2>1, <2>2, SMT DEF o
<1>2. CASE s.period # 0
  <2>1. o = [ok |-> ok, machine |-> H1!RestoreSnapshot(driven, m)]
    BY <1>0, <1>2, SMT DEF H1!check_print_cadence, H1!Outcome
  <2> HIDE DEF ok
  <2>2. driven \in Machine /\ SameOthers(driven, m) /\ driven.prints = Prints(s, 1000000)
    <3>1. PICK us \in Nat : us = 1000000
      OBVIOUS
    <3>2. LET x == H1!DrivePrints(s, m, us) IN
            x \in Machine /\ SameOthers(x, m) /\ x.prints = (us \div s.period) \div s.printTicks
      BY <1>2, PrintsEnd, Zenon
    <3> QED BY <3>1, <3>2, SMT DEF Prints
  <2> HIDE DEF driven
  <2>3. o.machine \in Machine /\ AlikeBut(o.machine, m)
    BY <1>0, <2>1, <2>2, SnapshotRestored
  <2>5. o.ok <=> ok
    BY <2>1
  <2>4. (o.ok <=> ok) /\ (ok <=> Prints(s, 1000000) \in H1!CadenceWindow(4, 10))
    BY <2>2, <2>5, SMT DEF ok
  <2> HIDE DEF o
  <2> QED BY <1>2, <2>3, <2>4, SMT DEF o
<1> QED BY <1>1, <1>2, SMT

\* The format and the types of its arguments are those of exercise 5 or 8.
FormatOk(s) ==
  /\ \/ H1!expect_format(s.format, H1!Exercise8)
     \/ H1!expect_format(s.format, H1!Exercise5)
  /\ \/ H1!expect_arg_types(s.format, <<"Int32", "Float", "Float", "Float">>)
     \/ H1!expect_arg_types(s.format, <<"Int32", "Int32">>)

\* The format check passes the programs that print at all in half a second and
\* whose format is one of the two.
LEMMA FormatCheck ==
  ASSUME NEW s, H1!IsStudent(s), NEW m, H1!IsMachine(s, m)
  PROVE  LET o == H1!check_print_format(s, m) IN
         /\ o.machine \in Machine /\ AlikeBut(o.machine, m)
         /\ o.ok <=> s.period # 0 /\ Prints(s, 500000) > 0 /\ FormatOk(s)
<1> DEFINE o == H1!check_print_format(s, m)
           driven == H1!DrivePrints(s, m, 500000)
           ok == /\ driven.prints > 0
                 /\ \/ H1!expect_format(s.format, H1!Exercise8)
                    \/ H1!expect_format(s.format, H1!Exercise5)
                 /\ \/ H1!expect_arg_types(s.format, <<"Int32", "Float", "Float", "Float">>)
                    \/ H1!expect_arg_types(s.format, <<"Int32", "Int32">>)
<1>0. m \in Machine /\ m.period = s.period
  BY SettledTypes
<1>1. CASE s.period = 0
  <2>1. o = [ok |-> FALSE, machine |-> m]
    BY <1>0, <1>1, SMT DEF H1!check_print_format, H1!Outcome
  <2>2. AlikeBut(m, m)
    BY <1>0 DEF AlikeBut, Machine
  <2> HIDE DEF o
  <2> QED BY <1>0, <1>1, <2>1, <2>2, SMT DEF o
<1>2. CASE s.period # 0
  <2>1. o = [ok |-> ok, machine |-> H1!RestoreSnapshot(driven, m)]
    BY <1>0, <1>2, SMT DEF H1!check_print_format, H1!Outcome
  <2>5. ok <=> driven.prints > 0 /\ FormatOk(s)
    BY DEF FormatOk
  <2> HIDE DEF ok
  <2>2. driven \in Machine /\ SameOthers(driven, m) /\ driven.prints = Prints(s, 500000)
    <3>1. PICK us \in Nat : us = 500000
      OBVIOUS
    <3>2. LET x == H1!DrivePrints(s, m, us) IN
            x \in Machine /\ SameOthers(x, m) /\ x.prints = (us \div s.period) \div s.printTicks
      BY <1>2, PrintsEnd, Zenon
    <3> QED BY <3>1, <3>2, SMT DEF Prints
  <2> HIDE DEF driven
  <2>3. o.machine \in Machine /\ AlikeBut(o.machine, m)
    BY <1>0, <2>1, <2>2, SnapshotRestored
  <2>6. o.ok <=> ok
    BY <2>1
  <2>4. o.ok <=> Prints(s, 500000) > 0 /\ FormatOk(s)
    BY <2>2, <2>5, <2>6, SMT
  <2> HIDE DEF o
  <2> QED BY <1>2, <2>3, <2>4, SMT DEF o
<1> QED BY <1>1, <1>2, SMT

\* The registers and counters the student's initialisation writes.
Started(x, a, b, t, p, q, z) ==
  [x EXCEPT !.SET = a, !.CLEAR = b, !.TOGGLE = t, !.period = p, !.prev = q,
            !.count0 = z, !.count1 = z, !.count2 = z]

\* It writes those only.
LEMMA StartedTypes ==
  ASSUME NEW x \in Machine, NEW a \in SUBSET H1!Pins, NEW b \in SUBSET H1!Pins,
         NEW t \in SUBSET H1!Pins, NEW p \in Nat, NEW q \in [{H1!PB1, H1!PB4} -> {0, 1}],
         NEW z \in Nat
  PROVE  LET y == Started(x, a, b, t, p, q, z) IN
         /\ y \in Machine /\ y.DAT = x.DAT /\ y.SET = a /\ y.CLEAR = b /\ y.TOGGLE = t
         /\ y.period = p /\ y.count0 = z /\ y.count1 = z /\ y.count2 = z
         /\ y.UARTPrint = x.UARTPrint /\ y.numTimer0calls = x.numTimer0calls
         /\ y.LEDdisplaynum = x.LEDdisplaynum
  BY DEF Started, Machine

\* The GPIO registers, written by the synthetic clock's update of the levels.
GpioWritten(x, d, a, t) == [x EXCEPT !.DAT = d, !.SET = a, !.CLEAR = a, !.TOGGLE = t]

\* It writes those only.
LEMMA RegistersWritten ==
  ASSUME NEW x \in Machine, NEW d \in SUBSET H1!Pins, NEW a \in SUBSET H1!Pins,
         NEW t \in SUBSET H1!Pins
  PROVE  LET y == GpioWritten(x, d, a, t) IN
         /\ y \in Machine /\ y.DAT = d /\ y.SET = a /\ y.CLEAR = a /\ y.TOGGLE = t
         /\ SameOthers(y, x) /\ y.count2 = x.count2 /\ y.UARTPrint = x.UARTPrint
  BY DEF GpioWritten, Machine, SameOthers

\* The initialisation check passes the programs that set the period asked for and
\* toggle nothing, and leaves a machine of the type the later checks start from.
LEMMA InitCheck ==
  ASSUME NEW s, H1!IsStudent(s)
  PROVE  LET o == H1!check_initialization(s, H1!PoweredUp) IN
         /\ H1!IsMachine(s, o.machine)
         /\ o.machine.TOGGLE = s.initToggles \ H1!BankA
         /\ o.ok <=> s.period = 5000 /\ s.initToggles = {}
<1> DEFINE m == H1!PoweredUp
           started == H1!StudentInit(s, m)
           updated == H1!UpdateGPIOState(started)
           written == [m EXCEPT !.SET = H1!LedsSetAtInit, !.CLEAR = H1!LedsClearedAtInit]
           levels  == [m EXCEPT !.DAT = H1!LedsSetAtInit]
           timer   == H1!register_comparison(H1!NoComparisons, [period |-> 5000, count2 |-> 0])
           first   == H1!register_comparison_copy(timer, H1!Structs(started),
                                                      [gpio |-> H1!Gpio(written)])
           second  == H1!register_comparison_copy(first, [levels |-> H1!Gpio(updated)],
                                          [levels |-> H1!Gpio(levels)])
           o == H1!check_initialization(s, m)
           ok == /\ m = H1!PoweredUp
                 /\ H1!validate(first, H1!Structs(started))
                 /\ H1!validate(second, H1!Structs(updated))
<1>1. o = [ok |-> ok, machine |-> updated]
  BY SMT DEF H1!check_initialization, H1!Outcome
<1>2. /\ m \in Machine /\ m.DAT = {} /\ m.UARTPrint = 0 /\ m.prints = 0
      /\ m.numTimer0calls = 0 /\ m.LEDdisplaynum = 0
  BY DEF H1!PoweredUp, Machine
<1> HIDE DEF m
<1>3. H1!LedsSetAtInit \cap H1!LedsClearedAtInit = {} /\ H1!LedsSetAtInit \subseteq H1!Pins
      /\ H1!LedsClearedAtInit \subseteq H1!Pins
  BY DEF H1!LedsSetAtInit, H1!LedsClearedAtInit, H1!Led10And11, H1!Led12And13, H1!Led14And15,
         H1!StatusLed, H1!RedLed, H1!Pins
<1>4. /\ started \in Machine /\ started.DAT = {} /\ started.SET = H1!LedsSetAtInit
      /\ started.CLEAR = H1!LedsClearedAtInit /\ started.TOGGLE = s.initToggles
      /\ started.period = s.period /\ started.count0 = 0 /\ started.count1 = 0
      /\ started.count2 = 0 /\ started.UARTPrint = 0
      /\ started.numTimer0calls = 0 /\ started.LEDdisplaynum = 0
  <2> DEFINE q == [p \in {H1!PB1, H1!PB4} |-> s.prev]
  <2>1. q \in [{H1!PB1, H1!PB4} -> {0, 1}] /\ s.period \in Nat
        /\ s.initToggles \in SUBSET H1!Pins
    BY DEF H1!IsStudent
  <2>2. started = [m EXCEPT !.SET = H1!LedsSetAtInit, !.CLEAR = H1!LedsClearedAtInit,
            !.TOGGLE = s.initToggles, !.period = s.period, !.prev = q,
            !.count0 = 0, !.count1 = 0, !.count2 = 0]
    BY SMT DEF H1!StudentInit
  <2> HIDE DEF q, started
  <2>3. PICK z \in Nat : z = 0
    OBVIOUS
  <2>4. PICK p \in Nat : p = s.period
    BY <2>1
  <2>5. PICK t \in SUBSET H1!Pins : t = s.initToggles
    BY <2>1
  <2>6. started = Started(m, H1!LedsSetAtInit, H1!LedsClearedAtInit, t, p, q, z)
    BY <2>2, <2>3, <2>4, <2>5 DEF Started
  <2>7. H1!LedsSetAtInit \in SUBSET H1!Pins /\ H1!LedsClearedAtInit \in SUBSET H1!Pins
    BY <1>3
  <2>8. /\ started \in Machine /\ started.DAT = m.DAT /\ started.SET = H1!LedsSetAtInit
      /\ started.CLEAR = H1!LedsClearedAtInit /\ started.TOGGLE = t
      /\ started.period = p /\ started.count0 = z /\ started.count1 = z
      /\ started.count2 = z /\ started.UARTPrint = m.UARTPrint
      /\ started.numTimer0calls = m.numTimer0calls /\ started.LEDdisplaynum = m.LEDdisplaynum
    BY <1>2, <2>1, <2>6, <2>7, StartedTypes
  <2> QED BY <1>2, <2>3, <2>4, <2>5, <2>8
<1> HIDE DEF started
<1> DEFINE flipped == s.initToggles \cap H1!BankA
           dat == (H1!LedsSetAtInit \ flipped) \cup (flipped \ H1!LedsSetAtInit)
           rest == s.initToggles \ H1!BankA
<1>5. /\ updated \in Machine /\ updated.DAT = dat /\ updated.SET = {} /\ updated.CLEAR = {}
      /\ updated.TOGGLE = rest /\ updated.period = s.period
      /\ updated.count0 = 0 /\ updated.count1 = 0 /\ updated.count2 = 0
      /\ updated.UARTPrint = 0 /\ updated.numTimer0calls = 0 /\ updated.LEDdisplaynum = 0
  <2>1. dat \in SUBSET H1!Pins /\ rest \in SUBSET H1!Pins
    <3>1. s.initToggles \subseteq H1!Pins
      BY DEF H1!IsStudent
    <3> QED BY <1>3, <3>1
  <2> DEFINE driven == (started.DAT \cup started.SET) \ started.CLEAR
             now == (driven \ flipped) \cup (flipped \ driven)
  <2>2. driven = H1!LedsSetAtInit
    BY <1>3, <1>4
  <2>3. now = dat
    BY <2>2
  <2> HIDE DEF driven
  <2>4. updated = [started EXCEPT !.DAT = now, !.SET = {}, !.CLEAR = {}, !.TOGGLE = rest]
    BY <1>4, SMT DEF H1!UpdateGPIOState, driven
  <2> HIDE DEF updated, now, dat, rest
  <2>5. PICK e \in SUBSET H1!Pins : e = {}
    OBVIOUS
  <2>6. updated = GpioWritten(started, dat, e, rest)
    BY <2>3, <2>4, <2>5 DEF GpioWritten
  <2>7. /\ updated \in Machine /\ updated.DAT = dat /\ updated.SET = e /\ updated.CLEAR = e
        /\ updated.TOGGLE = rest /\ SameOthers(updated, started)
        /\ updated.count2 = started.count2 /\ updated.UARTPrint = started.UARTPrint
    BY <1>4, <2>1, <2>6, RegistersWritten
  <2> QED
    BY <1>4, <2>5, <2>7 DEF SameOthers
<1>12. H1!IsMachine(s, updated)
  <2> HIDE DEF updated
  <2> QED
    BY <1>5, SMT DEF H1!IsMachine, Machine
<1>6. updated.TOGGLE = s.initToggles \ H1!BankA
  BY <1>5
<1>7. H1!validate(first, H1!Structs(started)) <=> s.period = 5000 /\ s.initToggles = {}
  <2>1. first = [period |-> H1!ByReference(5000), count2 |-> H1!ByReference(0),
                 gpio |-> H1!ByCopy(H1!Structs(started).gpio, H1!Gpio(written))]
    BY SMT DEF H1!register_comparison, H1!register_comparison_copy, H1!NoComparisons,
           H1!populate_all_zero
  <2>2. /\ H1!Structs(started).gpio = <<{}, H1!LedsSetAtInit, H1!LedsClearedAtInit, s.initToggles>>
        /\ H1!Structs(started).period = s.period /\ H1!Structs(started).count2 = 0
    BY <1>4 DEF H1!Structs, H1!Gpio
  <2>3. H1!Gpio(written) = <<{}, H1!LedsSetAtInit, H1!LedsClearedAtInit, {}>>
    BY DEF H1!Gpio, H1!PoweredUp, m
  <2> DEFINE S == H1!Structs(started)
             G == H1!Gpio(written)
  <2> HIDE DEF first, written, started
  <2>4. S.gpio = G <=> s.initToggles = {}
    BY <2>2, <2>3
  <2> HIDE DEF S, G
  <2>5. H1!validate(first, S) <=> s.period = 5000 /\ S.gpio = G
    BY <2>1, <2>2, SMT DEF H1!validate, H1!Holds, H1!ByReference, H1!ByCopy, S, G
  <2> QED BY <2>4, <2>5 DEF S
<1>8. s.period = 5000 /\ s.initToggles = {} => H1!validate(second, H1!Structs(updated))
  <2> SUFFICES ASSUME s.period = 5000, s.initToggles = {}
               PROVE  H1!validate(second, H1!Structs(updated))
    OBVIOUS
  <2>1. second = [period |-> H1!ByReference(5000), count2 |-> H1!ByReference(0),
                 gpio |-> H1!ByCopy(H1!Structs(started).gpio, H1!Gpio(written)),
                 levels |-> H1!ByCopy(H1!Gpio(updated), H1!Gpio(levels))]
    BY SMT DEF H1!register_comparison, H1!register_comparison_copy, H1!NoComparisons,
           H1!populate_all_zero
  <2>2. H1!Structs(started).gpio = <<{}, H1!LedsSetAtInit, H1!LedsClearedAtInit, {}>>
    BY <1>4 DEF H1!Structs, H1!Gpio
  <2>3. H1!Gpio(written) = <<{}, H1!LedsSetAtInit, H1!LedsClearedAtInit, {}>>
    BY DEF H1!Gpio, H1!PoweredUp, m
  <2>4. H1!Gpio(updated) = <<H1!LedsSetAtInit, {}, {}, {}>>
    <3>1. dat = H1!LedsSetAtInit /\ rest = {}
      OBVIOUS
    <3> HIDE DEF dat, rest, updated
    <3> QED BY <1>5, <3>1 DEF H1!Gpio
  <2>5. H1!Gpio(levels) = <<H1!LedsSetAtInit, {}, {}, {}>>
    BY DEF H1!Gpio, H1!PoweredUp, m
  <2>6. H1!Structs(updated).period = 5000 /\ H1!Structs(updated).count2 = 0
    BY <1>5 DEF H1!Structs
  <2> DEFINE S == H1!Structs(updated)
             g1 == H1!Structs(started).gpio
             g2 == H1!Gpio(written)
             l1 == H1!Gpio(updated)
             l2 == H1!Gpio(levels)
  <2>7. g1 = g2 /\ l1 = l2
    BY <2>2, <2>3, <2>4, <2>5
  <2> HIDE DEF second, S, g1, g2, l1, l2
  <2> QED
    BY <2>1, <2>6, <2>7, SMT DEF H1!validate, H1!Holds, H1!ByReference, H1!ByCopy,
         S, g1, g2, l1, l2
<1>9. ok <=> s.period = 5000 /\ s.initToggles = {}
  BY <1>7, <1>8, SMT DEF m
<1> HIDE DEF updated, o, ok
<1>10. o.machine = updated /\ (o.ok <=> ok)
  BY <1>1
<1> QED
  BY <1>12, <1>6, <1>9, <1>10, SMT DEF o, m

-----------------------------------------------------------------------------
(* The suite of HW1.                                                       *)

\* The machine the later checks of HW1 start from.
After1(s) == H1!check_initialization(s, H1!PoweredUp).machine

\* The saturate function gives what the check expects of it on every sample.
SaturateOk(s) ==
  /\ s.saturate # "missing"
  /\ \A x \in H1!SatValues, limit \in H1!SatLimits :
       H1!saturate(s, x, limit) = H1!Clamp(x, limit)

\* What the checks of HW1 say of a program, whatever was run before.
Pass1(s, k) ==
  CASE k = 1 -> s.period = 5000 /\ s.initToggles = {}
    [] k = 2 -> s.blinksRed \/ H1!RedLed \in s.initToggles \ H1!BankA
    [] k = 3 -> TRUE
    [] k = 4 -> /\ s.period # 0 /\ 100000 \div s.period # 0
                /\ WindowsPass(s, 100000 \div s.period + 2, After1(s).prev)
    [] k = 5 -> SaturateOk(s)
    [] k = 6 -> s.period # 0 /\ Prints(s, 1000000) \in H1!CadenceWindow(4, 10)
    [] k = 7 -> s.period # 0 /\ Prints(s, 500000) > 0 /\ FormatOk(s)

\* A machine that k checks of HW1 may leave.
Reach1(s, k, m) == H1!IsMachine(s, m) /\ (k <= 3 => m = After1(s))

\* Every check of HW1: started from a machine the checks before it may leave, it
\* leaves one that k checks may leave, its verdict is a function of the program
\* alone, and after the first it changes nothing but the statics and the capture.
LEMMA Check1 ==
  ASSUME NEW s, H1!IsStudent(s), NEW k \in 1..7, NEW m,
         k = 1 => m = H1!PoweredUp, k > 1 => Reach1(s, k - 1, m)
  PROVE  LET o == H1!Run(H1!checker[k], s, m) IN
         /\ Reach1(s, k, o.machine)
         /\ o.ok <=> Pass1(s, k)
         /\ k > 1 => AlikeBut(o.machine, m)
<1> DEFINE o == H1!Run(H1!checker[k], s, m)
<1>0. /\ H1!IsMachine(s, After1(s)) /\ After1(s).TOGGLE = s.initToggles \ H1!BankA
      /\ H1!check_initialization(s, H1!PoweredUp).ok <=> s.period = 5000 /\ s.initToggles = {}
  BY InitCheck, SMT DEF After1
<1>1. CASE k = 1
  <2>1. o = H1!check_initialization(s, H1!PoweredUp)
    BY <1>1, SMT DEF H1!Run, H1!checker
  <2> HIDE DEF o
  <2>2. o.machine = After1(s)
    BY <2>1 DEF After1
  <2> QED BY <1>0, <1>1, <2>1, <2>2, SMT DEF Reach1, Pass1, o
<1>2. CASE k > 1
  <2>0. H1!IsMachine(s, m) /\ (k <= 4 => m = After1(s)) /\ m \in Machine
    BY <1>2, SettledTypes, SMT DEF Reach1
  <2>a. AlikeBut(m, m)
    BY <2>0 DEF AlikeBut, Machine
  <2>1. CASE k = 2
    <3>1. o = H1!check_timer0(s, m)
      BY <2>1, SMT DEF H1!Run, H1!checker
    <3>2. m = After1(s)
      BY <2>0, <2>1
    <3>3. o.machine = m /\ (o.ok <=> s.blinksRed \/ H1!RedLed \in m.TOGGLE)
      BY <2>0, <3>1, Timer0Check
    <3> HIDE DEF o
    <3> QED BY <1>0, <2>0, <2>1, <2>a, <3>2, <3>3, SMT DEF Reach1, Pass1, o
  <2>2. CASE k = 3
    <3>1. o = H1!check_timer1(s, m)
      BY <2>2, SMT DEF H1!Run, H1!checker
    <3>2. m = After1(s)
      BY <2>0, <2>2
    <3>3. o.machine = m /\ o.ok
      BY <2>0, <3>1, Timer1Check
    <3> HIDE DEF o
    <3> QED BY <1>0, <2>0, <2>2, <2>a, <3>2, <3>3, SMT DEF Reach1, Pass1, o
  <2>3. CASE k = 4
    <3>1. o = H1!check_timer2(s, m)
      BY <2>3, SMT DEF H1!Run, H1!checker
    <3>2. m = After1(s)
      BY <2>0, <2>3
    <3>3. /\ o.machine \in Machine /\ AlikeBut(o.machine, m)
          /\ o.ok <=> /\ s.period # 0 /\ 100000 \div s.period # 0
                     /\ WindowsPass(s, 100000 \div s.period + 2, m.prev)
      BY <2>0, <3>1, Timer2Check, SMT
    <3> HIDE DEF o
    <3>4. H1!IsMachine(s, o.machine)
      BY <2>0, <3>3, AlikeTypes
    <3> QED BY <2>3, <3>2, <3>3, <3>4, SMT DEF Reach1, Pass1, o
  <2>4. CASE k = 5
    <3>1. o = H1!check_saturate(s, m)
      BY <2>4, SMT DEF H1!Run, H1!checker
    <3> DEFINE ok == /\ s.saturate # "missing"
                     /\ \A x \in H1!SatValues, limit \in H1!SatLimits :
                          H1!saturate(s, x, limit) = H1!Clamp(x, limit)
    <3>2. o = [ok |-> ok, machine |-> m]
      BY <3>1 DEF H1!check_saturate, H1!Outcome
    <3>3. ok <=> SaturateOk(s)
      BY DEF SaturateOk
    <3> HIDE DEF o, ok
    <3>4. o.machine = m /\ (o.ok <=> ok)
      BY <3>2
    <3> QED BY <2>0, <2>4, <2>a, <3>3, <3>4, SMT DEF Reach1, Pass1, o
  <2>5. CASE k = 6
    <3>1. o = H1!check_print_cadence(s, m)
      BY <2>5, SMT DEF H1!Run, H1!checker
    <3>3. /\ o.machine \in Machine /\ AlikeBut(o.machine, m)
          /\ o.ok <=> s.period # 0 /\ Prints(s, 1000000) \in H1!CadenceWindow(4, 10)
      BY <2>0, <3>1, CadenceCheck, SMT
    <3> HIDE DEF o
    <3>4. H1!IsMachine(s, o.machine)
      BY <2>0, <3>3, AlikeTypes
    <3> QED BY <2>5, <3>3, <3>4, SMT DEF Reach1, Pass1, o
  <2>6. CASE k = 7
    <3>1. o = H1!check_print_format(s, m)
      BY <2>6, SMT DEF H1!Run, H1!checker
    <3>3. /\ o.machine \in Machine /\ AlikeBut(o.machine, m)
          /\ o.ok <=> s.period # 0 /\ Prints(s, 500000) > 0 /\ FormatOk(s)
      BY <2>0, <3>1, FormatCheck, SMT
    <3> HIDE DEF o
    <3>4. H1!IsMachine(s, o.machine)
      BY <2>0, <3>3, AlikeTypes
    <3> QED BY <2>6, <3>3, <3>4, SMT DEF Reach1, Pass1, o
  <2> QED BY <1>2, <2>1, <2>2, <2>3, <2>4, <2>5, <2>6, SMT
<1> QED BY <1>1, <1>2, SMT

\* The quotient of the integer division.
LEMMA Quotient ==
  ASSUME NEW a \in Nat, NEW d \in Nat \ {0}
  PROVE  a \div d \in Nat /\ d * (a \div d) <= a /\ a < d * (a \div d + 1)
  OBVIOUS

\* The LEDs the ISR toggles are distinct.
LEMMA Leds ==
  /\ H1!StatusLed \notin H1!Led12And13 \cup H1!Led14And15 \cup H1!Led10And11
  /\ H1!Led10And11 \cap (H1!Led12And13 \cup H1!Led14And15) = {} /\ H1!Led10And11 # {}
  /\ H1!Led12And13 \cap H1!Led14And15 = {} /\ H1!Led12And13 # {} /\ H1!Led14And15 # {}
  BY DEF H1!StatusLed, H1!Led10And11, H1!Led12And13, H1!Led14And15

\* Whether the logic of button p lights its LEDs in a window of n calls with the
\* buttons held, the statics being q before.
Lights(s, n, p, held, q) ==
  n >= FirstLook(s) /\ H1!Fires(s, p, Held(held)[p], Before(s, q)[p])

\* The LEDs lit, by cause.
LEMMA LitLeds ==
  ASSUME NEW s, NEW n, NEW held, NEW q
  PROVE  Lit(s, Held(held), Before(s, q), n) =
           (IF n >= s.statusTicks THEN {H1!StatusLed} ELSE {})
             \cup (IF n >= s.ledTicks THEN H1!Led10And11 ELSE {})
             \cup (IF Lights(s, n, H1!PB1, held, q) THEN H1!Led12And13 ELSE {})
             \cup (IF Lights(s, n, H1!PB4, held, q) THEN s.pb4Leds ELSE {})
  BY DEF Lit, Lights

\* When the button logic reacts.
LEMMA Firing ==
  ASSUME NEW s, NEW p, NEW now, NEW prev
  PROVE  /\ s.trigger = "release" /\ H1!Fires(s, p, now, prev) => now = 1
         /\ s.trigger \in {"level", "press"} =>
              /\ now = 1 => ~H1!Fires(s, p, now, prev)
              /\ now = 0 /\ prev = 1 => H1!Fires(s, p, now, prev)
<1> DEFINE tr == s.trigger
<1>0. "level" # "press" /\ "press" # "release" /\ "level" # "release"
  OBVIOUS
<1>1. ASSUME tr = "release", H1!Fires(s, p, now, prev) PROVE now = 1
  BY <1>0, <1>1 DEF H1!Fires
<1>2. ASSUME tr \in {"level", "press"}
      PROVE  /\ now = 1 => ~H1!Fires(s, p, now, prev)
             /\ now = 0 /\ prev = 1 => H1!Fires(s, p, now, prev)
  <2>1. CASE tr = "level"
    <3>1. H1!Fires(s, p, now, prev) <=> now = 0
      BY <1>0, <2>1 DEF H1!Fires
    <3> QED BY <3>1
  <2>2. CASE tr = "press"
    <3>1. H1!Fires(s, p, now, prev) <=> now = 0 /\ prev = 1
      BY <1>0, <2>2 DEF H1!Fires
    <3> QED BY <3>1
  <2> QED BY <1>2, <2>1, <2>2
<1> QED BY <1>1, <1>2

\* What three passing windows say of the program.
LEMMA WindowsSound ==
  ASSUME NEW s, H1!IsStudent(s), NEW n \in Nat, NEW prev, WindowsPass(s, n, prev)
  PROVE  /\ s.trigger # "release" /\ s.statusTicks <= n /\ s.ledTicks <= n
         /\ H1!Led14And15 \subseteq s.pb4Leds /\ H1!Led12And13 \cap s.pb4Leds = {}
<1> DEFINE after(held, q) == IF n >= FirstLook(s) THEN Held(held) ELSE Before(s, q)
           q1 == after({}, prev)
           q2 == after({H1!PB1}, q1)
           lit(held, q) == Lit(s, Held(held), Before(s, q), n)
           l1 == lit({}, prev)
           l2 == lit({H1!PB1}, q1)
           l3 == lit({H1!PB4}, q2)
           f11 == Lights(s, n, H1!PB1, {}, prev)
           f14 == Lights(s, n, H1!PB4, {}, prev)
           f21 == Lights(s, n, H1!PB1, {H1!PB1}, q1)
           f24 == Lights(s, n, H1!PB4, {H1!PB1}, q1)
           f31 == Lights(s, n, H1!PB1, {H1!PB4}, q2)
           f34 == Lights(s, n, H1!PB4, {H1!PB4}, q2)
<1>1. /\ H1!StatusLed \in l1 /\ H1!Led10And11 \subseteq l1
      /\ (H1!Led12And13 \cup H1!Led14And15) \cap l1 = {}
      /\ H1!Led12And13 \subseteq l2 /\ H1!Led14And15 \cap l2 = {}
      /\ H1!Led14And15 \subseteq l3 /\ H1!Led12And13 \cap l3 = {}
  BY DEF WindowsPass
<1>2. Held({H1!PB1})[H1!PB1] = 0
  BY DEF Held
<1> HIDE DEF q1, q2
<1> DEFINE R(t, g, f1, f4) == 
             t \cup g \cup (IF f1 THEN H1!Led12And13 ELSE {}) \cup (IF f4 THEN s.pb4Leds ELSE {})
           t == IF n >= s.statusTicks THEN {H1!StatusLed} ELSE {}
           g == IF n >= s.ledTicks THEN H1!Led10And11 ELSE {}
<1>3. l1 = R(t, g, f11, f14) /\ l2 = R(t, g, f21, f24) /\ l3 = R(t, g, f31, f34)
  BY LitLeds
<1>4. s.statusTicks \in Nat /\ s.ledTicks \in Nat
  BY DEF H1!IsStudent
<1>5. t \subseteq {H1!StatusLed} /\ g \subseteq H1!Led10And11
      /\ (H1!StatusLed \in t => s.statusTicks <= n) /\ (g # {} => s.ledTicks <= n)
  BY <1>4
<1> HIDE DEF t, g, l1, l2, l3, f11, f14, f21, f24, f31, f34
<1>6. f34 /\ H1!Led14And15 \subseteq s.pb4Leds
  BY <1>1, <1>3, <1>5, Leds
<1>7. H1!Led12And13 \cap s.pb4Leds = {}
  BY <1>1, <1>3, <1>6
<1>8. ~f14 /\ ~f24 /\ ~f11
  BY <1>1, <1>3, <1>6, Leds
<1>9. H1!StatusLed \in t /\ g # {} /\ f21
  BY <1>1, <1>3, <1>8, <1>5, Leds
<1>10. s.trigger # "release"
  BY <1>2, <1>9, Firing, SMT DEF f21, Lights
<1> QED BY <1>5, <1>6, <1>7, <1>9, <1>10

\* A window long enough for a conforming program.
LEMMA WindowsConform ==
  ASSUME NEW s, NEW n \in Nat, NEW prev \in [{H1!PB1, H1!PB4} -> {0, 1}],
         s.trigger \in {"level", "press"}, s.pb4Leds = H1!Led14And15,
         n >= s.statusTicks, n >= s.ledTicks, n >= FirstLook(s)
  PROVE  WindowsPass(s, n, prev)
<1> DEFINE after(held, q) == IF n >= FirstLook(s) THEN Held(held) ELSE Before(s, q)
           q1 == after({}, prev)
           q2 == after({H1!PB1}, q1)
           lit(held, q) == Lit(s, Held(held), Before(s, q), n)
<1>1. q1 = Held({}) /\ q2 = Held({H1!PB1})
  OBVIOUS
<1>2. H1!PB1 # H1!PB4
  BY DEF H1!PB1, H1!PB4
<1>3. /\ Held({})[H1!PB1] = 1 /\ Held({})[H1!PB4] = 1
      /\ Held({H1!PB1})[H1!PB1] = 0 /\ Held({H1!PB1})[H1!PB4] = 1
      /\ Held({H1!PB4})[H1!PB1] = 1 /\ Held({H1!PB4})[H1!PB4] = 0
  BY <1>2 DEF Held
<1>4. ~Lights(s, n, H1!PB1, {}, prev) /\ ~Lights(s, n, H1!PB4, {}, prev)
  <2> HIDE DEF q1, q2, after, lit
  <2> QED BY <1>3, Firing, SMT DEF Lights
<1>5. Before(s, q1) = Held({}) /\ Before(s, q2)[H1!PB4] = 1 /\ n >= FirstLook(s)
  BY <1>1, <1>3 DEF Before
<1>6. Lights(s, n, H1!PB1, {H1!PB1}, q1) /\ ~Lights(s, n, H1!PB4, {H1!PB1}, q1)
  <2> HIDE DEF q1, q2, after, lit
  <2> QED BY <1>3, <1>5, Firing, SMT DEF Lights
<1>7. ~Lights(s, n, H1!PB1, {H1!PB4}, q2) /\ Lights(s, n, H1!PB4, {H1!PB4}, q2)
  <2> HIDE DEF q1, q2, after, lit
  <2> QED BY <1>3, <1>5, Firing, SMT DEF Lights
<1> DEFINE both == {H1!StatusLed} \cup H1!Led10And11
<1>8. lit({}, prev) = both
  BY <1>4, LitLeds
<1>9. lit({H1!PB1}, q1) = both \cup H1!Led12And13
  BY <1>6, LitLeds
<1>10. lit({H1!PB4}, q2) = both \cup H1!Led14And15
  BY <1>7, LitLeds
<1>11. WindowsPass(s, n, prev) <=>
         /\ both \subseteq lit({}, prev)
         /\ (H1!Led12And13 \cup H1!Led14And15) \cap lit({}, prev) = {}
         /\ H1!Led12And13 \subseteq lit({H1!PB1}, q1) /\ H1!Led14And15 \cap lit({H1!PB1}, q1) = {}
         /\ H1!Led14And15 \subseteq lit({H1!PB4}, q2) /\ H1!Led12And13 \cap lit({H1!PB4}, q2) = {}
  BY DEF WindowsPass
<1> HIDE DEF lit, q1, q2
<1> QED BY <1>8, <1>9, <1>10, <1>11, Leds

\* The samples of the saturate check tell a clamp from every other variant.
LEMMA SaturateSound ==
  ASSUME NEW s, H1!IsStudent(s)
  PROVE  SaturateOk(s) <=> s.saturate = "clamp"
<1>1. s.saturate \in {"clamp", "noUpper", "noLower", "wrongSign", "missing"}
  BY DEF H1!IsStudent
<1>2. CASE s.saturate = "clamp"
  <2>1. H1!SatValues \subseteq Int /\ \A l \in H1!SatLimits : l \in Int /\ l > 0
    BY DEF H1!SatValues, H1!SatLimits
  <2>2. \A x \in Int, l \in Int : l > 0 => H1!saturate(s, x, l) = H1!Clamp(x, l)
    BY <1>2, SMT DEF H1!saturate, H1!Clamp
  <2>3. "clamp" # "missing"
    OBVIOUS
  <2> QED BY <1>2, <2>1, <2>2, <2>3 DEF SaturateOk
<1>3. CASE s.saturate = "noUpper"
  <2>1. H1!saturate(s, 2, 1) = 2 /\ H1!Clamp(2, 1) = 1
    BY <1>3, SMT DEF H1!saturate, H1!Clamp
  <2> QED BY <1>3, <2>1, SMT DEF SaturateOk, H1!SatValues, H1!SatLimits
<1>4. CASE s.saturate = "noLower"
  <2>1. H1!saturate(s, -2, 1) = -2 /\ H1!Clamp(-2, 1) = -1
    BY <1>4, SMT DEF H1!saturate, H1!Clamp
  <2> QED BY <1>4, <2>1, SMT DEF SaturateOk, H1!SatValues, H1!SatLimits
<1>5. CASE s.saturate = "wrongSign"
  <2>1. H1!saturate(s, -2, 1) = 1 /\ H1!Clamp(-2, 1) = -1
    BY <1>5, SMT DEF H1!saturate, H1!Clamp
  <2> QED BY <1>5, <2>1, SMT DEF SaturateOk, H1!SatValues, H1!SatLimits
<1>6. CASE s.saturate = "missing"
  BY <1>6 DEF SaturateOk
<1> QED BY <1>1, <1>2, <1>3, <1>4, <1>5, <1>6

\* A program that does what HW1's comments ask passes each check of HW1.
LEMMA Conforming1 ==
  ASSUME NEW s, H1!IsStudent(s), H1!Conforms(s), NEW k \in 1..7
  PROVE  Pass1(s, k)
<1>1. /\ s.period = 5000 /\ s.initToggles = {} /\ s.blinksRed
      /\ s.statusTicks = 1 /\ s.ledTicks = 20 /\ s.pb4Leds = H1!Led14And15
      /\ s.trigger \in {"level", "press"} /\ s.saturate = "clamp"
      /\ s.printTicks = 50 /\ s.format \in {H1!Exercise5, H1!Exercise8}
  BY SMT DEF H1!Conforms
<1>2. 100000 \div s.period = 20
  BY <1>1, SMT
<1>3. WindowsPass(s, 100000 \div s.period + 2, After1(s).prev)
  <2>1. PICK n \in Nat : n = 22
    OBVIOUS
  <2>2. n >= s.statusTicks /\ n >= s.ledTicks /\ n >= FirstLook(s)
    BY <1>1, <2>1, SMT DEF FirstLook
  <2>3. After1(s).prev \in [{H1!PB1, H1!PB4} -> {0, 1}]
    <3>1. H1!IsMachine(s, After1(s))
      BY InitCheck, SMT DEF After1
    <3> HIDE DEF After1
    <3> QED BY <3>1, SettledTypes, SMT DEF Machine
  <2>4. WindowsPass(s, n, After1(s).prev)
    BY <1>1, <2>2, <2>3, WindowsConform, SMT
  <2> QED BY <1>2, <2>1, <2>4, SMT
<1>4. Prints(s, 1000000) = 4 /\ Prints(s, 500000) = 2
  BY <1>1, SMT DEF Prints
<1>5. 4 \in H1!CadenceWindow(4, 10)
  BY SMT DEF H1!CadenceWindow
<1>6. FormatOk(s)
  <2>1. CASE s.format = H1!Exercise8
    BY <2>1, SMT DEF FormatOk, H1!expect_format, H1!expect_arg_types, H1!Exercise8,
         H1!expected_arg_type
  <2>2. CASE s.format = H1!Exercise5
    BY <2>2, SMT DEF FormatOk, H1!expect_format, H1!expect_arg_types, H1!Exercise5,
         H1!expected_arg_type
  <2> QED BY <1>1, <2>1, <2>2, SMT
<1>7. SaturateOk(s)
  BY <1>1, SaturateSound, SMT
<1>8. s.period # 0 /\ 100000 \div s.period # 0 /\ Prints(s, 500000) > 0
  BY <1>1, <1>2, <1>4, SMT
<1>9. Prints(s, 1000000) \in H1!CadenceWindow(4, 10)
  BY <1>4, <1>5
<1>12. k \in {1, 2, 3, 4, 5, 6, 7}
  OBVIOUS
<1>13. CASE k = 1
  BY <1>1, <1>13, SMT DEF Pass1
<1>14. CASE k = 2
  BY <1>1, <1>14, SMT DEF Pass1
<1>15. CASE k = 3
  BY <1>15, SMT DEF Pass1
<1>16. CASE k = 4
  BY <1>3, <1>8, <1>16, SMT DEF Pass1
<1>17. CASE k = 5
  BY <1>7, <1>17, SMT DEF Pass1
<1>18. CASE k = 6
  BY <1>8, <1>9, <1>18, SMT DEF Pass1
<1>19. CASE k = 7
  BY <1>6, <1>8, <1>19, SMT DEF Pass1
<1> QED BY <1>12, <1>13, <1>14, <1>15, <1>16, <1>17, <1>18, <1>19, SMT

\* A program that passes every check of HW1 has none of the mistakes of Sound.
LEMMA Sound1 ==
  ASSUME NEW s, H1!IsStudent(s), \A k \in 1..7 : Pass1(s, k)
  PROVE  H1!Sound(s)
<1>1. /\ s.period = 5000 /\ s.initToggles = {} 
      /\ WindowsPass(s, 100000 \div s.period + 2, After1(s).prev)
      /\ s.blinksRed \/ H1!RedLed \in s.initToggles \ H1!BankA
      /\ SaturateOk(s) /\ FormatOk(s)
      /\ Prints(s, 1000000) \in H1!CadenceWindow(4, 10)
  BY SMT DEF Pass1
<1>2. PICK n \in Nat : n = 22
  OBVIOUS
<1>3. 100000 \div s.period + 2 = n
  BY <1>1, <1>2, SMT
<1>4. /\ s.trigger # "release" /\ s.statusTicks <= n /\ s.ledTicks <= n
      /\ H1!Led14And15 \subseteq s.pb4Leds /\ H1!Led12And13 \cap s.pb4Leds = {}
  <2>1. WindowsPass(s, n, After1(s).prev)
    BY <1>1, <1>3, SMT
  <2> QED BY <2>1, WindowsSound, SMT
<1>5. s.blinksRed
  BY <1>1, SMT
<1>6. s.format \in {H1!Exercise5, H1!Exercise8}
  BY <1>1, SMT DEF FormatOk, H1!expect_format
<1>7. 1000000 \div (s.printTicks * s.period) \in 3..5
  <2>1. PICK e \in Nat \ {0} : e = s.printTicks
    BY DEF H1!IsStudent
  <2>2. H1!CadenceWindow(4, 10) = 3..5
    BY SMT DEF H1!CadenceWindow
  <2>3. Prints(s, 1000000) = 200 \div e
    BY <1>1, <2>1, SMT DEF Prints
  <2>4. PICK q \in 3..5 : q = 200 \div e
    BY <1>1, <2>2, <2>3, SMT
  <2>5. e * q <= 200 /\ 200 < e * (q + 1)
    BY <2>4, Quotient, SMT
  <2>6. PICK d \in Nat \ {0} : d = e * 5000
    BY SMT
  <2>7. d * q <= 1000000 /\ 1000000 < d * (q + 1)
    BY <2>4, <2>5, <2>6, SMT
  <2>8. 1000000 \div d = q
    BY <2>4, <2>7, SMT
  <2> QED BY <1>1, <2>1, <2>4, <2>6, <2>8, SMT
<1>8. s.saturate = "clamp"
  BY <1>1, SaturateSound, SMT
<1> QED BY <1>1, <1>2, <1>4, <1>5, <1>6, <1>7, <1>8, SMT DEF H1!Sound

-----------------------------------------------------------------------------
(* Validator::check and main.                                              *)

\* The accumulated bit says whether every recorded check passed.
ResultIsConjunction ==
  /\ result \in {0, 1}
  /\ result = 1 <=> \A k \in 1..Len(check_results) : check_results[k].passed

\* A report is only there once the process has ended.
ReportComesLast == exitCode = Running => report = <<>>

\* The checks run so far are a prefix of the list.
Progress ==
  /\ check_results \in Seq(CheckResult)
  /\ Len(checkFunctions) \in Nat
  /\ Len(check_results) <= Len(checkFunctions)

\* The invariant of the loop.
ValidatorInv ==
  /\ Progress
  /\ ResultIsConjunction
  /\ ReportComesLast
  /\ ExitAgreesWithReport

\* What checker() returns is a list.
SuitesAreLists == \A checks \in Suites : Len(checks) \in Nat

\* Recording one more result extends the conjunction by it.
LEMMA AppendPassed ==
  ASSUME NEW s \in Seq(CheckResult), NEW r \in CheckResult
  PROVE  /\ Append(s, r) \in Seq(CheckResult)
         /\ Len(Append(s, r)) = Len(s) + 1
         /\ (\A k \in 1..Len(Append(s, r)) : Append(s, r)[k].passed)
              <=> (\A k \in 1..Len(s) : s[k].passed) /\ r.passed
<1>1. /\ Append(s, r) \in Seq(CheckResult)
      /\ Len(Append(s, r)) = Len(s) + 1
      /\ Len(s) \in Nat
  OBVIOUS
<1>2. \A k \in 1..Len(s) : Append(s, r)[k] = s[k]
  OBVIOUS
<1>3. Append(s, r)[Len(s) + 1] = r
  OBVIOUS
<1>4. \A k \in 1..Len(s) + 1 : k \in 1..Len(s) \/ k = Len(s) + 1
  BY <1>1
<1>5. Len(s) + 1 \in 1..Len(s) + 1 /\ \A k \in 1..Len(s) : k \in 1..Len(s) + 1
  BY <1>1
<1> QED
  BY <1>1, <1>2, <1>3, <1>4, <1>5

\* The bitwise and of two bits.
LEMMA BitAndOfBits ==
  ASSUME NEW a \in {0, 1}, NEW b \in {0, 1}
  PROVE  BitAnd(a, b) \in {0, 1} /\ (BitAnd(a, b) = 1 <=> a = 1 /\ b = 1)
  BY DEF BitAnd

\* The next check of the list has a name.
LEMMA NextNamed ==
  ASSUME checkFunctions \in Suites, InTheLoop
  PROVE  checkFunctions[CurrentCheck] \in Names
  BY DEF InTheLoop, Names

\* A check that returns keeps the verdicts in step.
LEMMA RunCheckPreserves ==
  ASSUME checkFunctions \in Suites, ValidatorInv, NEW rc \in {0, 1}, RunCheck(rc)
  PROVE  ValidatorInv'
<1> DEFINE r == [name |-> checkFunctions[CurrentCheck], passed |-> rc # 0]
<1>0. InTheLoop
  BY DEF RunCheck
<1>1. r \in CheckResult
  BY <1>0, NextNamed DEF CheckResult
<1>2. check_results' = Append(check_results, r) /\ check_results \in Seq(CheckResult)
  BY DEF RunCheck, ValidatorInv, Progress
<1>3. (r.passed) = (rc # 0) /\ (rc # 0 <=> rc = 1)
  OBVIOUS
<1> HIDE DEF r
<1>4. /\ check_results' \in Seq(CheckResult)
      /\ Len(check_results') = Len(check_results) + 1
      /\ (\A k \in 1..Len(check_results') : check_results'[k].passed)
           <=> (\A k \in 1..Len(check_results) : check_results[k].passed) /\ r.passed
  BY <1>1, <1>2, AppendPassed
<1>5. result' = BitAnd(result, rc) /\ result \in {0, 1}
  BY DEF RunCheck, ValidatorInv, ResultIsConjunction
<1>6. result' \in {0, 1} /\ (result' = 1 <=> result = 1 /\ rc = 1)
  BY <1>5, BitAndOfBits
<1>7. ResultIsConjunction'
  BY <1>3, <1>4, <1>6 DEF ValidatorInv, ResultIsConjunction
<1>8. Progress'
  <2>1. CurrentCheck \in 1..Len(checkFunctions) /\ checkFunctions' = checkFunctions
    BY <1>0 DEF RunCheck, InTheLoop
  <2>2. Len(check_results) + 1 <= Len(checkFunctions) /\ Len(checkFunctions) \in Nat
    BY <2>1 DEF CurrentCheck, ValidatorInv, Progress
  <2> QED
    BY <1>4, <2>1, <2>2 DEF Progress
<1>9. ReportComesLast' /\ ExitAgreesWithReport'
  BY <1>0 DEF RunCheck, InTheLoop, ValidatorInv, ReportComesLast, ExitAgreesWithReport
<1> QED
  BY <1>7, <1>8, <1>9 DEF ValidatorInv

\* A crash leaves the list unfinished, so the process does not exit 0.
LEMMA CrashPreserves ==
  ASSUME ValidatorInv, Crash
  PROVE  ValidatorInv'
<1>1. /\ exitCode = Running /\ exitCode' = Killed
      /\ UNCHANGED <<checkFunctions, result, check_results, report>>
      /\ CurrentCheck \in 1..Len(checkFunctions)
  BY DEF Crash, InTheLoop
<1>2. Len(check_results) # Len(checkFunctions)
  <2>1. Len(check_results) \in Nat /\ Len(checkFunctions) \in Nat
    BY DEF ValidatorInv, Progress
  <2> QED
    BY <1>1, <2>1 DEF CurrentCheck
<1>3. exitCode' # 0 /\ exitCode' # Running /\ report = <<>>
  BY <1>1 DEF Killed, Running, ValidatorInv, ReportComesLast
<1> QED
  BY <1>1, <1>2, <1>3
  DEF ValidatorInv, Progress, ResultIsConjunction, ReportComesLast, ExitAgreesWithReport

\* The report is written once every check has run, and the exit code derived.
LEMMA FinishPreserves ==
  ASSUME ValidatorInv, Finish
  PROVE  ValidatorInv'
<1>1. /\ UNCHANGED <<checkFunctions, result, check_results>>
      /\ report' \in {<<>>, check_results}
      /\ Len(check_results) + 1 = Len(checkFunctions) + 1
  BY DEF Finish, Written, CurrentCheck
<1>2. Len(checkFunctions) = Len(check_results)
  <2>1. Len(check_results) \in Nat /\ Len(checkFunctions) \in Nat
    BY DEF ValidatorInv, Progress
  <2> QED
    BY <1>1, <2>1
<1>3. (exitCode' = 0 <=> result = 1) /\ exitCode' # Running
  BY DEF Finish, ExitStatus, Running
<1> QED
  BY <1>1, <1>2, <1>3
  DEF ValidatorInv, Progress, ResultIsConjunction, ReportComesLast, ExitAgreesWithReport

\* A step that leaves the validator alone.
LEMMA StutterPreserves ==
  ASSUME ValidatorInv, UNCHANGED validatorVars
  PROVE  ValidatorInv'
  BY DEF ValidatorInv, Progress, ResultIsConjunction, ReportComesLast,
         ExitAgreesWithReport, validatorVars

\* The initial states, for suites that are lists.
LEMMA InitEstablishes ==
  ASSUME SuitesAreLists, ValidatorInit
  PROVE  ValidatorInv
<1>1. check_results \in Seq(CheckResult) /\ Len(check_results) = 0
  BY DEF ValidatorInit
<1>2. \A k \in 1..0 : check_results[k].passed
  OBVIOUS
<1>4. Len(checkFunctions) \in Nat
  BY DEF ValidatorInit, SuitesAreLists
<1>5. Progress
  BY <1>1, <1>4 DEF Progress
<1>6. ResultIsConjunction
  BY <1>1, <1>2 DEF ValidatorInit, ResultIsConjunction
<1>7. ReportComesLast /\ ExitAgreesWithReport
  BY DEF ValidatorInit, ReportComesLast, ExitAgreesWithReport
<1> QED
  BY <1>5, <1>6, <1>7 DEF ValidatorInv

(* Validator::check and main: for every list of checks that return 0 or 1, *)
(* the exit status is 0 exactly when every check of the list was run and   *)
(* passed, and a written report is complete.                               *)
THEOREM ExitAgrees ==
  ASSUME Codes \subseteq {0, 1}, SuitesAreLists
  PROVE  ValidatorSpec => []ExitAgreesWithReport
<1> DEFINE I == ValidatorInv /\ checkFunctions \in Suites
<1>1. ValidatorInit => I
  BY InitEstablishes DEF ValidatorInit
<1>2. I /\ [ValidatorNext]_validatorVars => I'
  <2> SUFFICES ASSUME I, [ValidatorNext]_validatorVars PROVE I'
    OBVIOUS
  <2>2. CASE \E rc \in Codes : RunCheck(rc)
    BY <2>2, RunCheckPreserves DEF RunCheck
  <2>3. CASE Crash
    BY <2>3, CrashPreserves DEF Crash
  <2>4. CASE Finish
    BY <2>4, FinishPreserves DEF Finish
  <2>5. CASE UNCHANGED validatorVars
    BY <2>5, StutterPreserves DEF validatorVars
  <2> QED
    BY <2>2, <2>3, <2>4, <2>5 DEF ValidatorNext
<1>3. I => ExitAgreesWithReport
  BY DEF ValidatorInv
<1> QED
  BY <1>1, <1>2, <1>3, PTL DEF ValidatorSpec

-----------------------------------------------------------------------------
(* The suites as instances of the loop.                                    *)

(* Every run of one of the suites against whatever program is a run of the *)
(* validator's loop over that suite: a check touches the verdicts only by  *)
(* its return code, or by ending the process.                              *)
THEOREM SuitesImplementValidator == Spec => ValidatorSpec
<1>1. Init => ValidatorInit
  BY DEF Init
<1>2. [Next]_vars => [ValidatorNext]_validatorVars
  <2> SUFFICES ASSUME [Next]_vars PROVE [ValidatorNext]_validatorVars
    OBVIOUS
  <2>1. CASE RunNextCheck
    <3>1. PICK o : o = Run(checkFunctions[CurrentCheck], student, machine)
      OBVIOUS
    <3>2. RunCheck(Bit(o.ok))
      BY <2>1, <3>1 DEF RunNextCheck
    <3>3. Bit(o.ok) \in Codes
      BY CodesAssumption DEF Bit
    <3> QED
      BY <3>2, <3>3 DEF ValidatorNext
  <2>2. CASE RunFaultyCheck
    BY <2>2 DEF RunFaultyCheck, ValidatorNext
  <2>3. CASE WriteReportAndExit
    BY <2>3 DEF WriteReportAndExit, ValidatorNext
  <2>4. CASE UNCHANGED vars
    BY <2>4 DEF vars
  <2> QED
    BY <2>1, <2>2, <2>3, <2>4 DEF Next
<1> QED
  BY <1>1, <1>2, PTL DEF Spec, ValidatorSpec

\* The suites are lists of checks.
LEMMA SuitesListed == SuitesAreLists
<1>1. /\ Len(H1!checker) \in Nat /\ Len(H2!checker) \in Nat /\ Len(H3!checker) \in Nat
      /\ Len(H4!checker) \in Nat /\ Len(H5!checker) \in Nat
  BY DEF H1!checker, H2!checker, H3!checker, H4!checker, H5!checker
<1> QED
  BY <1>1, SuitesAssumption DEF SuitesAreLists

(* Hence, for every program graded as HW1 to HW5: its exit status and its    *)
(* report agree, and a run that crashes does not exit 0.                     *)
THEOREM SuitesExitAgree == Spec => []ExitAgreesWithReport
<1>1. Codes \subseteq {0, 1}
  BY CodesAssumption
<1>2. ValidatorSpec => []ExitAgreesWithReport
  BY <1>1, SuitesListed, ExitAgrees
<1> QED
  BY <1>2, SuitesImplementValidator, PTL

-----------------------------------------------------------------------------
(* The suite of HW2.                                                       *)

\* The fields of the machine of HW2.
Names2 == {"regs", "ADCRESULT", "flag", "results", "voltages", "AdcaInterruptCount",
           "hidden", "UARTPrint", "prints"}

\* The print logic reads a counter that the ISR never advances.
Stuck2(s) == s.countsIn = "global" /\ ~s.counts

\* The prints of n calls of the interrupt when that counter starts at c.
Printed2(s, c, n) ==
  IF ~Stuck2(s) THEN H2!Requests(c, n, s.printEvery) ELSE IF c % s.printEvery = 0 THEN n ELSE 0

\* Where the counter of the print logic stands after k checks.
Base2(s, k) == IF s.countsIn = "global" \/ k = 1 THEN 0 ELSE IF k = 2 THEN 3 ELSE 1003

\* A case of the scaling check passes: r are the values injected, f is the flag
\* before it.
CaseOk(s, r, f) ==
  /\ \A k \in 1..3 : r[s.order[k]] = r[k]
  /\ \A k \in 1..3 : H2!approx_eq(H2!Volts(s.fullScale, r[s.order[k]]), H2!Volts(30000, r[k]), 50)
  /\ s.counts /\ (s.flagInIsr \/ f = 1)

\* The initialisation is what the first check asks for.
InitOk2(s) == \A n \in H2!Registers \ (H2!Used \ H2!FieldsRead) : s.init[n] = H2!Asked(n)

\* The symbols are there and the three cases pass.
ScalingOk2(s) ==
  H2!RequiredSymbols \cap s.missing = {} /\ \A i \in 1..3 : CaseOk(s, H2!Cases[i], s.flagInInit)

\* What the checks of HW2 say of a program, whatever was run before.
Pass2(s, k) ==
  CASE k = 1 -> InitOk2(s)
    [] k = 2 -> ScalingOk2(s)
    [] k = 3 -> Printed2(s, Base2(s, 2), 1000) \in H2!CadenceWindow(10, 10)
    [] k = 4 -> /\ Printed2(s, Base2(s, 3), 200) > 0
                /\ H2!expect_arg_types(s.format, <<"Float", "Float", "Float">>)

\* The machine the later checks of HW2 start from.
After2(s) == H2!check_initialization(s, H2!PoweredUp).machine

\* The types of the machine of HW2 after the initialisation.
Typed2(s, m) ==
  /\ DOMAIN m = Names2 /\ m.regs = s.init
  /\ m.UARTPrint \in {0, 1} /\ m.prints \in Nat /\ m.AdcaInterruptCount \in Nat /\ m.hidden \in Nat

\* A machine that k checks of HW2 may leave.
Reach2(s, k, m) ==
  /\ Typed2(s, m)
  /\ k = 1 => m.flag = s.flagInInit
  /\ s.missing = {} /\ k <= 3 => H2!Counter(s, m) = Base2(s, k)

\* The initialisation check of HW2.  When the print logic reads the global counter,
\* the machine it leaves is also one that any number of checks may leave.
LEMMA Init2 ==
  ASSUME NEW s, H2!IsStudent(s)
  PROVE  LET o == H2!check_initialization(s, H2!PoweredUp) IN
         /\ o.ok <=> InitOk2(s)
         /\ \A k \in 1..4 : s.countsIn = "global" \/ k = 1 => Reach2(s, k, o.machine)
<1> DEFINE o == H2!check_initialization(s, H2!PoweredUp)
           m == H2!PoweredUp
           before == H2!mark_as_used(H2!populate_all_zero(H2!ZeroChecked), H2!Used)
           started == H2!StudentInit(s, m)
           after == H2!register_comparison(before, H2!Wanted(H2!Compared))
           ok == /\ H2!validate(before, m.regs) /\ H2!validate(after, started.regs)
                 /\ \A n \in H2!FieldsRead : started.regs[n] = "asked"
<1>1. o = [ok |-> ok, machine |-> started]
  BY DEF H2!check_initialization, H2!Outcome
<1>2. /\ DOMAIN m = Names2 /\ m.regs = [n \in H2!Registers |-> "zero"]
      /\ m.UARTPrint = 0 /\ m.prints = 0 /\ m.AdcaInterruptCount = 0 /\ m.hidden = 0
  BY DEF H2!PoweredUp, Names2
<1>3. started = [m EXCEPT !.regs = s.init, !.flag = s.flagInInit]
  BY DEF H2!StudentInit
<1> HIDE DEF m, started
<1>4. /\ DOMAIN started = Names2 /\ started.regs = s.init /\ started.flag = s.flagInInit
      /\ started.UARTPrint = 0 /\ started.prints = 0 /\ started.AdcaInterruptCount = 0
      /\ started.hidden = 0
  BY <1>2, <1>3 DEF Names2
<1>5. \A k \in 1..4 : s.countsIn = "global" \/ k = 1 => Reach2(s, k, started)
  BY <1>4 DEF Reach2, Typed2, H2!Counter, Base2
<1>6. before = [n \in H2!ZeroChecked \ H2!Used |-> H2!ByReference("zero")]
  BY DEF H2!mark_as_used, H2!populate_all_zero
<1>7. H2!validate(before, m.regs)
  <2>1. H2!ZeroChecked \subseteq H2!Registers
    BY DEF H2!Registers
  <2> HIDE DEF before
  <2> QED BY <1>2, <1>6, <2>1 DEF H2!validate, H2!Holds, H2!ByReference
<1>8. after = [n \in (H2!ZeroChecked \ H2!Used) \cup H2!Compared |->
                 IF n \in H2!Compared THEN H2!ByReference("asked") ELSE H2!ByReference("zero")]
  <2> HIDE DEF before
  <2>1. DOMAIN H2!Wanted(H2!Compared) = H2!Compared
        /\ \A n \in H2!Compared : H2!Wanted(H2!Compared)[n] = "asked"
    BY DEF H2!Wanted
  <2>2. DOMAIN before = H2!ZeroChecked \ H2!Used
        /\ \A n \in H2!ZeroChecked \ H2!Used : before[n] = H2!ByReference("zero")
    BY <1>6
  <2> QED BY <2>1, <2>2 DEF H2!register_comparison
<1>9. H2!validate(after, started.regs) <=>
        \A n \in (H2!ZeroChecked \ H2!Used) \cup H2!Compared :
          s.init[n] = IF n \in H2!Compared THEN "asked" ELSE "zero"
  <2> HIDE DEF after
  <2> QED BY <1>4, <1>8 DEF H2!validate, H2!Holds, H2!ByReference
<1>10. ok <=> InitOk2(s)
  <2>1. H2!Registers \ (H2!Used \ H2!FieldsRead) =
          ((H2!ZeroChecked \ H2!Used) \cup H2!Compared) \cup H2!FieldsRead
        /\ H2!Compared \cap H2!FieldsRead = {}
    BY DEF H2!Registers, H2!Used, H2!FieldsRead, H2!ZeroChecked, H2!Compared
  <2>2. ok <=> /\ H2!validate(after, started.regs)
               /\ \A n \in H2!FieldsRead : s.init[n] = "asked"
    BY <1>4, <1>7
  <2>3. (H2!ZeroChecked \ H2!Used) \cap H2!FieldsRead = {}
    BY DEF H2!Used
  <2> HIDE DEF ok, after
  <2> QED BY <1>9, <2>1, <2>2, <2>3 DEF InitOk2, H2!Asked
<1> HIDE DEF ok, o
<1>11. o.machine = started /\ (o.ok <=> ok)
  BY <1>1
<1> QED BY <1>5, <1>10, <1>11 DEF o

\* One call of the ADC interrupt.
LEMMA Isr2 ==
  ASSUME NEW s, H2!IsStudent(s), NEW m, DOMAIN m = Names2,
         m.AdcaInterruptCount \in Nat, m.hidden \in Nat, m.UARTPrint \in {0, 1}
  PROVE  LET x == H2!ADCA_ISR(s, m) IN
         /\ DOMAIN x = Names2 /\ x.regs = m.regs /\ x.prints = m.prints
         /\ x.ADCRESULT = m.ADCRESULT
         /\ x.results = [k \in 1..3 |-> m.ADCRESULT[s.order[k]]]
         /\ x.voltages = [k \in 1..3 |-> H2!Volts(s.fullScale, m.ADCRESULT[s.order[k]])]
         /\ x.flag = (IF s.flagInIsr THEN 1 ELSE m.flag)
         /\ x.AdcaInterruptCount = m.AdcaInterruptCount + (IF s.counts THEN 1 ELSE 0)
         /\ x.hidden = m.hidden + 1 /\ x.UARTPrint \in {0, 1}
<1> DEFINE read == [k \in 1..3 |-> m.ADCRESULT[s.order[k]]]
           v == [k \in 1..3 |-> H2!Volts(s.fullScale, read[k])]
           c == m.AdcaInterruptCount + (IF s.counts THEN 1 ELSE 0)
           f == IF s.flagInIsr THEN 1 ELSE m.flag
           called == [m EXCEPT !.AdcaInterruptCount = IF s.counts THEN @ + 1 ELSE @,
                               !.hidden = @ + 1]
           u == IF H2!Counter(s, called) % s.printEvery = 0 THEN 1 ELSE called.UARTPrint
           x == H2!ADCA_ISR(s, m)
<1>1. x = [called EXCEPT !.results = read, !.voltages = v,
                         !.flag = IF s.flagInIsr THEN 1 ELSE @, !.UARTPrint =
                           IF H2!Counter(s, called) % s.printEvery = 0 THEN 1 ELSE @]
  BY DEF H2!ADCA_ISR
<1>2. /\ DOMAIN called = Names2 /\ called.regs = m.regs /\ called.prints = m.prints
      /\ called.ADCRESULT = m.ADCRESULT /\ called.flag = m.flag /\ called.UARTPrint = m.UARTPrint
      /\ called.hidden = m.hidden + 1 /\ called.AdcaInterruptCount = c
  <2>1. CASE s.counts
    BY <2>1 DEF Names2
  <2>2. CASE ~s.counts
    BY <2>2 DEF Names2
  <2> QED BY <2>1, <2>2
<1>3. v = [k \in 1..3 |-> H2!Volts(s.fullScale, m.ADCRESULT[s.order[k]])]
  OBVIOUS
<1>4. u \in {0, 1}
  BY <1>2
<1> HIDE DEF called, v, read, c
<1>5. x = [called EXCEPT !.results = read, !.voltages = v, !.flag = f, !.UARTPrint = u]
  BY <1>1, <1>2
<1> HIDE DEF u, f, x
<1>6. /\ DOMAIN x = Names2 /\ x.regs = m.regs /\ x.prints = m.prints
      /\ x.ADCRESULT = m.ADCRESULT /\ x.results = read /\ x.voltages = v /\ x.flag = f
      /\ x.AdcaInterruptCount = c /\ x.hidden = m.hidden + 1 /\ x.UARTPrint = u
  BY <1>2, <1>5 DEF Names2
<1> QED BY <1>3, <1>4, <1>6 DEF x, f, c, read

\* One injected case of the scaling check.
LEMMA Case2 ==
  ASSUME NEW s, H2!IsStudent(s), NEW m, DOMAIN m = Names2, m.flag \in {0, 1},
         m.AdcaInterruptCount \in Nat, m.hidden \in Nat, m.UARTPrint \in {0, 1},
         NEW r \in [1..3 -> Nat]
  PROVE  LET b == H2!Injected(m, r)
             x == H2!ADCA_ISR(s, b)
         IN /\ DOMAIN x = Names2 /\ x.regs = m.regs /\ x.prints = m.prints
            /\ x.flag = (IF s.flagInIsr THEN 1 ELSE m.flag)
            /\ x.AdcaInterruptCount \in Nat /\ x.hidden = m.hidden + 1 /\ x.UARTPrint \in {0, 1}
            /\ H2!CaseHolds(b, x) <=> CaseOk(s, r, m.flag)
<1> DEFINE b == H2!Injected(m, r)
           x == H2!ADCA_ISR(s, b)
<1>1. /\ DOMAIN b = Names2 /\ b.regs = m.regs /\ b.prints = m.prints /\ b.ADCRESULT = r
      /\ b.AdcaInterruptCount = m.AdcaInterruptCount /\ b.hidden = m.hidden
      /\ b.UARTPrint = m.UARTPrint /\ b.flag = m.flag
  BY DEF H2!Injected, Names2
<1> HIDE DEF b
<1>2. /\ DOMAIN x = Names2 /\ x.regs = b.regs /\ x.prints = b.prints
      /\ x.results = [k \in 1..3 |-> r[s.order[k]]]
      /\ x.voltages = [k \in 1..3 |-> H2!Volts(s.fullScale, r[s.order[k]])]
      /\ x.flag = (IF s.flagInIsr THEN 1 ELSE b.flag)
      /\ x.AdcaInterruptCount = b.AdcaInterruptCount + (IF s.counts THEN 1 ELSE 0)
      /\ x.hidden = b.hidden + 1 /\ x.UARTPrint \in {0, 1}
  BY <1>1, Isr2
<1> HIDE DEF x
<1>3. x.results = b.ADCRESULT <=> \A k \in 1..3 : r[s.order[k]] = r[k]
  BY <1>1, <1>2
<1>4. (\A k \in 1..3 : H2!approx_eq(x.voltages[k], H2!Volts(30000, b.ADCRESULT[k]), 50))
        <=> \A k \in 1..3 :
              H2!approx_eq(H2!Volts(s.fullScale, r[s.order[k]]), H2!Volts(30000, r[k]), 50)
  BY <1>1, <1>2
<1>5. (x.AdcaInterruptCount = b.AdcaInterruptCount + 1) <=> s.counts
  <2>1. s.counts \in BOOLEAN
    BY DEF H2!IsStudent
  <2> QED BY <1>1, <1>2, <2>1
<1>6. x.flag = 1 <=> s.flagInIsr \/ m.flag = 1
  <2>1. s.flagInIsr \in BOOLEAN
    BY DEF H2!IsStudent
  <2> QED BY <1>1, <1>2, <2>1
<1> DEFINE p1 == x.results = b.ADCRESULT
           p2 == \A k \in 1..3 : H2!approx_eq(x.voltages[k], H2!Volts(30000, b.ADCRESULT[k]), 50)
           p3 == x.AdcaInterruptCount = b.AdcaInterruptCount + 1
           p4 == x.flag = 1
           q1 == \A k \in 1..3 : r[s.order[k]] = r[k]
           q2 == \A k \in 1..3 :
                   H2!approx_eq(H2!Volts(s.fullScale, r[s.order[k]]), H2!Volts(30000, r[k]), 50)
<1>7. H2!CaseHolds(b, x) <=> CaseOk(s, r, m.flag)
  <2>1. H2!CaseHolds(b, x) <=> p1 /\ p2 /\ p3 /\ p4
    BY DEF H2!CaseHolds
  <2>2. CaseOk(s, r, m.flag) <=> q1 /\ q2 /\ s.counts /\ (s.flagInIsr \/ m.flag = 1)
    BY DEF CaseOk
  <2>3. (p1 <=> q1) /\ (p2 <=> q2) /\ (p3 <=> s.counts) /\ (p4 <=> s.flagInIsr \/ m.flag = 1)
    BY <1>3, <1>4, <1>5, <1>6
  <2> HIDE DEF p1, p2, p3, p4, q1, q2
  <2> QED BY <2>1, <2>2, <2>3
<1> QED BY <1>1, <1>2, <1>7 DEF b, x

\* The injected conversions are natural numbers.
LEMMA Cases2 == \A i \in 1..3 : H2!Cases[i] \in [1..3 -> Nat]
<1>1. <<4095, 2048, 0>> \in [1..3 -> Nat] /\ <<0, 4095, 2048>> \in [1..3 -> Nat]
      /\ <<1024, 1024, 1024>> \in [1..3 -> Nat]
  BY SMT
<1> QED BY <1>1, SMT DEF H2!Cases

\* The scaling check of HW2.
LEMMA Scaling2 ==
  ASSUME NEW s, H2!IsStudent(s), NEW m, Reach2(s, 1, m)
  PROVE  LET o == H2!check_adc_isr_scaling(s, m) IN
         /\ ~H2!DereferencesNull("check_adc_isr_scaling", s) => Reach2(s, 2, o.machine)
         /\ o.ok <=> ScalingOk2(s)
<1> DEFINE o == H2!check_adc_isr_scaling(s, m)
           c1 == H2!Cases[1]
           c2 == H2!Cases[2]
           c3 == H2!Cases[3]
           first  == H2!ADCA_ISR(s, H2!Injected(m, c1))
           second == H2!ADCA_ISR(s, H2!Injected(first, c2))
           third  == H2!ADCA_ISR(s, H2!Injected(second, c3))
           ok == /\ H2!CaseHolds(H2!Injected(m, c1), first)
                 /\ H2!CaseHolds(H2!Injected(first, c2), second)
                 /\ H2!CaseHolds(H2!Injected(second, c3), third)
<1>1. /\ DOMAIN m = Names2 /\ m.regs = s.init /\ m.flag = s.flagInInit
      /\ m.UARTPrint \in {0, 1} /\ m.prints \in Nat /\ m.AdcaInterruptCount \in Nat
      /\ m.hidden \in Nat
      /\ s.missing = {} => H2!Counter(s, m) = 0
  BY DEF Reach2, Typed2, Base2
<1>2. s.flagInInit \in {0, 1} /\ s.flagInIsr \in BOOLEAN
  BY DEF H2!IsStudent
<1>3. CASE H2!RequiredSymbols \cap s.missing # {}
  <2>1. o = [ok |-> FALSE, machine |-> m]
    BY <1>3 DEF H2!check_adc_isr_scaling, H2!Outcome
  <2> HIDE DEF o
  <2>2. o.machine = m /\ ~o.ok
    BY <2>1
  <2> QED BY <1>1, <1>3, <2>2 DEF Reach2, Typed2, ScalingOk2, o
<1>4. CASE H2!RequiredSymbols \cap s.missing = {}
  <2>1. o = [ok |-> ok, machine |-> H2!RestoreStudent(third, m)]
    BY <1>4 DEF H2!check_adc_isr_scaling, H2!Outcome
  <2>2. c1 \in [1..3 -> Nat] /\ c2 \in [1..3 -> Nat] /\ c3 \in [1..3 -> Nat]
    BY Cases2
  <2> HIDE DEF c1, c2, c3
  <2>3. /\ DOMAIN first = Names2 /\ first.regs = m.regs /\ first.prints = m.prints
        /\ first.flag = (IF s.flagInIsr THEN 1 ELSE m.flag)
        /\ first.AdcaInterruptCount \in Nat /\ first.hidden = m.hidden + 1
        /\ first.UARTPrint \in {0, 1}
        /\ H2!CaseHolds(H2!Injected(m, c1), first) <=> CaseOk(s, c1, m.flag)
    BY <1>1, <1>2, <2>2, Case2
  <2> HIDE DEF first
  <2>4. /\ DOMAIN second = Names2 /\ second.regs = m.regs /\ second.prints = m.prints
        /\ second.flag = (IF s.flagInIsr THEN 1 ELSE m.flag)
        /\ second.AdcaInterruptCount \in Nat /\ second.hidden = m.hidden + 2
        /\ second.UARTPrint \in {0, 1}
        /\ H2!CaseHolds(H2!Injected(first, c2), second) <=> CaseOk(s, c2, first.flag)
    <3>1. first.flag \in {0, 1} /\ first.hidden \in Nat
      BY <1>1, <1>2, <2>3
    <3>2. /\ DOMAIN second = Names2 /\ second.regs = first.regs /\ second.prints = first.prints
          /\ second.flag = (IF s.flagInIsr THEN 1 ELSE first.flag)
          /\ second.AdcaInterruptCount \in Nat /\ second.hidden = first.hidden + 1
          /\ second.UARTPrint \in {0, 1}
          /\ H2!CaseHolds(H2!Injected(first, c2), second) <=> CaseOk(s, c2, first.flag)
      BY <2>2, <2>3, <3>1, Case2
    <3>3. first.hidden + 1 = m.hidden + 2
      BY <1>1, <2>3
    <3>4. (IF s.flagInIsr THEN 1 ELSE first.flag) = (IF s.flagInIsr THEN 1 ELSE m.flag)
      BY <2>3
    <3> HIDE DEF second
    <3> QED BY <2>3, <3>2, <3>3, <3>4 DEF second
  <2> HIDE DEF second
  <2>5. /\ DOMAIN third = Names2 /\ third.regs = m.regs /\ third.prints = m.prints
        /\ third.AdcaInterruptCount \in Nat /\ third.hidden = m.hidden + 3
        /\ third.UARTPrint \in {0, 1}
        /\ H2!CaseHolds(H2!Injected(second, c3), third) <=> CaseOk(s, c3, second.flag)
    <3>1. second.flag \in {0, 1} /\ second.hidden \in Nat
      BY <1>1, <1>2, <2>4
    <3>2. /\ DOMAIN third = Names2 /\ third.regs = second.regs /\ third.prints = second.prints
          /\ third.flag = (IF s.flagInIsr THEN 1 ELSE second.flag)
          /\ third.AdcaInterruptCount \in Nat /\ third.hidden = second.hidden + 1
          /\ third.UARTPrint \in {0, 1}
          /\ H2!CaseHolds(H2!Injected(second, c3), third) <=> CaseOk(s, c3, second.flag)
      BY <2>2, <2>4, <3>1, Case2
    <3>3. second.hidden + 1 = m.hidden + 3
      BY <1>1, <2>4
    <3>4. (IF s.flagInIsr THEN 1 ELSE second.flag) = (IF s.flagInIsr THEN 1 ELSE m.flag)
      BY <2>4
    <3> HIDE DEF third
    <3> QED BY <2>4, <3>2, <3>3, <3>4 DEF third
  <2> HIDE DEF third
  <2>6. ok <=> /\ CaseOk(s, c1, s.flagInInit) /\ CaseOk(s, c2, s.flagInInit)
             /\ CaseOk(s, c3, s.flagInInit)
    <3>1. \A r : CaseOk(s, r, first.flag) <=> CaseOk(s, r, s.flagInInit)
      BY <1>1, <2>3 DEF CaseOk
    <3>2. \A r : CaseOk(s, r, second.flag) <=> CaseOk(s, r, s.flagInInit)
      BY <1>1, <2>4 DEF CaseOk
    <3> QED BY <1>1, <2>3, <2>4, <2>5, <3>1, <3>2
  <2>7. ScalingOk2(s) <=> ok
    <3>1. \A i \in 1..3 : i = 1 \/ i = 2 \/ i = 3
      OBVIOUS
    <3>2. ScalingOk2(s) <=> CaseOk(s, H2!Cases[1], s.flagInInit)
            /\ CaseOk(s, H2!Cases[2], s.flagInInit) /\ CaseOk(s, H2!Cases[3], s.flagInInit)
      BY <1>4, <3>1, SMT DEF ScalingOk2
    <3> QED BY <2>6, <3>2 DEF c1, c2, c3
  <2> HIDE DEF ok
  <2> DEFINE x == H2!RestoreStudent(third, m)
  <2>8. /\ DOMAIN x = Names2 /\ x.regs = m.regs /\ x.prints = m.prints
        /\ x.AdcaInterruptCount = m.AdcaInterruptCount /\ x.hidden = m.hidden + 3
        /\ x.UARTPrint \in {0, 1}
    BY <2>5 DEF H2!RestoreStudent, Names2
  <2> HIDE DEF x, o
  <2>9. o.machine = x /\ (o.ok <=> ok)
    BY <2>1 DEF x
  <2>10. Reach2(s, 2, x)
    BY <1>1, <2>8 DEF Reach2, Typed2, H2!Counter, Base2
  <2> QED BY <2>7, <2>9, <2>10 DEF o
<1> QED BY <1>3, <1>4

\* The quotient grows with the dividend.
LEMMA QuotientGrows ==
  ASSUME NEW a \in Nat, NEW b \in Nat, NEW d \in Nat \ {0}
  PROVE  (a + b) \div d - a \div d \in Nat
<1>1. PICK p \in Nat : p = a \div d
  BY Quotient
<1>2. PICK q \in Nat : q = (a + b) \div d
  BY Quotient
<1>3. d * p <= a /\ a + b < d * (q + 1)
  BY <1>1, <1>2, Quotient
<1>4. d * p < d * (q + 1)
  BY <1>3
<1>5. p < q + 1
  BY <1>4
<1> QED BY <1>1, <1>2, <1>5

\* n calls of the ADC interrupt, each followed by the main loop.
LEMMA Drive2 ==
  ASSUME NEW s, H2!IsStudent(s), NEW m, Typed2(s, m), NEW n \in Nat, NEW r
  PROVE  LET x == H2!Drive(s, H2!Injected(m, r), n) IN
         /\ Typed2(s, x) /\ x.prints = Printed2(s, H2!Counter(s, m), n)
         /\ x.hidden = m.hidden + n
<1> DEFINE b == H2!Injected(m, r)
           x == H2!Drive(s, b, n)
           res == [k \in 1..3 |-> b.ADCRESULT[s.order[k]]]
           v == [k \in 1..3 |-> H2!Volts(s.fullScale, b.ADCRESULT[s.order[k]])]
           f == IF s.flagInIsr THEN 1 ELSE b.flag
           c == m.AdcaInterruptCount + (IF s.counts THEN n ELSE 0)
           p == Printed2(s, H2!Counter(s, m), n)
<1>0. s.counts \in BOOLEAN /\ s.printEvery \in Nat \ {0} /\ s.countsIn \in {"global", "own"}
  BY DEF H2!IsStudent
<1>1. /\ DOMAIN b = Names2 /\ b.regs = s.init
      /\ b.AdcaInterruptCount = m.AdcaInterruptCount /\ b.hidden = m.hidden
      /\ m.AdcaInterruptCount \in Nat /\ m.hidden \in Nat
  BY DEF H2!Injected, Names2, Typed2
<1> HIDE DEF b
<1>2. H2!Counter(s, b) = H2!Counter(s, m) /\ H2!Counter(s, m) \in Nat
  BY <1>1 DEF H2!Counter
<1>3. p \in Nat
  BY <1>0, <1>2, QuotientGrows DEF Printed2, H2!Requests
<1>4. Stuck2(s) => H2!Counter(s, b) = b.AdcaInterruptCount
  BY DEF Stuck2, H2!Counter
<1>5. (IF ~(s.countsIn = "global" /\ ~s.counts) THEN H2!Requests(H2!Counter(s, b), n, s.printEvery)
       ELSE IF b.AdcaInterruptCount % s.printEvery = 0 THEN n ELSE 0) = p
  BY <1>2, <1>4 DEF Printed2, Stuck2
<1>6. (IF s.counts THEN b.AdcaInterruptCount + n ELSE b.AdcaInterruptCount) = c
  BY <1>0, <1>1
<1>7. c \in Nat
  BY <1>1
<1> HIDE DEF res, v, f, c, p
<1>8. x = [b EXCEPT !.results = res, !.voltages = v, !.flag = f, !.AdcaInterruptCount = c,
                    !.hidden = b.hidden + n, !.UARTPrint = 0, !.prints = p]
  BY <1>5, <1>6, Zenon DEF H2!Drive, res, v, f
<1> HIDE DEF x
<1>9. /\ DOMAIN x = Names2 /\ x.regs = s.init /\ x.AdcaInterruptCount = c
      /\ x.hidden = m.hidden + n /\ x.UARTPrint = 0 /\ x.prints = p
  BY <1>1, <1>8 DEF Names2
<1> QED BY <1>1, <1>3, <1>7, <1>9 DEF Typed2, x, b, p

\* The counter is put back when the program has one.
LEMMA RestoreCount2 ==
  ASSUME NEW s, NEW m, Typed2(s, m), NEW c \in Nat
  PROVE  LET x == H2!RestoreCount(s, m, c) IN
         /\ Typed2(s, x) /\ x.hidden = m.hidden
         /\ s.missing = {} => x.AdcaInterruptCount = c
<1> DEFINE x == H2!RestoreCount(s, m, c)
<1>1. CASE "AdcaInterruptCount" \in s.missing
  BY <1>1 DEF H2!RestoreCount
<1>2. CASE "AdcaInterruptCount" \notin s.missing
  <2>1. x = [m EXCEPT !.AdcaInterruptCount = c]
    BY <1>2 DEF H2!RestoreCount
  <2> HIDE DEF x
  <2>2. /\ DOMAIN x = Names2 /\ x.regs = m.regs /\ x.AdcaInterruptCount = c
        /\ x.hidden = m.hidden /\ x.UARTPrint = m.UARTPrint /\ x.prints = m.prints
    BY <2>1 DEF Typed2, Names2
  <2> QED BY <2>2 DEF Typed2, x
<1> QED BY <1>1, <1>2

\* The two checks that drive the interrupt.
LEMMA Driving2 ==
  ASSUME NEW s, H2!IsStudent(s), NEW k \in {3, 4}, NEW m, Reach2(s, k - 1, m), NEW r,
         NEW n \in Nat, n = 1000 \/ k = 4
  PROVE  LET driven == H2!Drive(s, H2!Injected(m, r), n)
             x == H2!RestoreCount(s, driven, m.AdcaInterruptCount)
         IN /\ Reach2(s, k, x)
            /\ s.missing = {} => driven.prints = Printed2(s, Base2(s, k - 1), n)
<1> DEFINE driven == H2!Drive(s, H2!Injected(m, r), n)
           x == H2!RestoreCount(s, driven, m.AdcaInterruptCount)
<1>1. Typed2(s, m) /\ (s.missing = {} => H2!Counter(s, m) = Base2(s, k - 1))
  BY DEF Reach2
<1>2. /\ Typed2(s, driven) /\ driven.prints = Printed2(s, H2!Counter(s, m), n)
      /\ driven.hidden = m.hidden + n
  BY <1>1, Drive2
<1>3. m.AdcaInterruptCount \in Nat /\ m.hidden \in Nat
  BY <1>1 DEF Typed2
<1> HIDE DEF driven
<1>4. /\ Typed2(s, x) /\ x.hidden = driven.hidden
      /\ s.missing = {} => x.AdcaInterruptCount = m.AdcaInterruptCount
  BY <1>2, <1>3, RestoreCount2
<1> HIDE DEF x
<1>5. s.missing = {} /\ k <= 3 => H2!Counter(s, x) = Base2(s, k)
  <2> SUFFICES ASSUME s.missing = {}, k = 3 PROVE H2!Counter(s, x) = Base2(s, 3)
    OBVIOUS
  <2>1. n = 1000 /\ H2!Counter(s, m) = Base2(s, 2)
    BY <1>1
  <2>2. CASE s.countsIn = "global"
    BY <1>4, <2>1, <2>2 DEF H2!Counter, Base2
  <2>3. CASE s.countsIn # "global"
    <3>1. m.hidden = 3 /\ x.hidden = 1003
      BY <1>2, <1>3, <1>4, <2>1, <2>3, SMT DEF H2!Counter, Base2
    <3> QED BY <2>3, <3>1, SMT DEF H2!Counter, Base2
  <2> QED BY <2>2, <2>3
<1>6. Reach2(s, k, x)
  BY <1>4, <1>5 DEF Reach2
<1>7. s.missing = {} => driven.prints = Printed2(s, Base2(s, k - 1), n)
  BY <1>1, <1>2
<1> QED BY <1>6, <1>7 DEF x, driven

\* A program without one of the symbols makes the driving checks return early.
LEMMA Stays2 ==
  ASSUME NEW s, NEW k \in {3, 4}, NEW m, Reach2(s, k - 1, m), s.missing # {}
  PROVE  Reach2(s, k, m)
  BY DEF Reach2

\* The cadence check of HW2.
LEMMA Cadence2 ==
  ASSUME NEW s, H2!IsStudent(s), NEW m, Reach2(s, 2, m)
  PROVE  LET o == H2!check_print_cadence(s, m) IN
         /\ Reach2(s, 3, o.machine)
         /\ s.missing = {} => (o.ok <=> Pass2(s, 3))
<1> DEFINE o == H2!check_print_cadence(s, m)
           driven == H2!Drive(s, H2!Injected(m, <<1000, 1500, 2500>>), 1000)
           x == H2!RestoreCount(s, driven, m.AdcaInterruptCount)
           ok == driven.prints \in H2!CadenceWindow(10, 10)
<1>1. CASE "ADCA_ISR" \in s.missing
  <2>1. o = [ok |-> FALSE, machine |-> m]
    BY <1>1, SMT DEF H2!check_print_cadence, H2!Outcome
  <2> HIDE DEF o
  <2>2. o.machine = m
    BY <2>1, SMT
  <2>3. Reach2(s, 3, m)
    BY <1>1, Stays2, SMT
  <2> QED BY <1>1, <2>2, <2>3, SMT DEF o
<1>2. CASE "ADCA_ISR" \notin s.missing
  <2>1. o = [ok |-> ok, machine |-> x]
    BY <1>2, SMT DEF H2!check_print_cadence, H2!Outcome
  <2>2. Reach2(s, 3, x) /\ (s.missing = {} => driven.prints = Printed2(s, Base2(s, 2), 1000))
    BY Driving2, SMT
  <2> HIDE DEF driven, x
  <2>3. s.missing = {} => (ok <=> Pass2(s, 3))
    BY <2>2, SMT DEF Pass2
  <2> HIDE DEF ok, o
  <2>4. o.machine = x /\ (o.ok <=> ok)
    BY <2>1, SMT
  <2> QED BY <2>2, <2>3, <2>4, SMT DEF o
<1> QED BY <1>1, <1>2, SMT

\* The format check of HW2.
LEMMA Format2 ==
  ASSUME NEW s, H2!IsStudent(s), NEW m, Reach2(s, 3, m)
  PROVE  LET o == H2!check_print_format(s, m) IN
         /\ Reach2(s, 4, o.machine)
         /\ s.missing = {} => (o.ok <=> Pass2(s, 4))
<1> DEFINE o == H2!check_print_format(s, m)
           driven == H2!Drive(s, H2!Injected(m, <<1234, 2345, 3456>>), 200)
           x == H2!RestoreCount(s, driven, m.AdcaInterruptCount)
           types == H2!expect_arg_types(s.format, <<"Float", "Float", "Float">>)
           ok == driven.prints > 0 /\ types
<1>1. CASE "ADCA_ISR" \in s.missing
  <2>1. o = [ok |-> FALSE, machine |-> m]
    BY <1>1, SMT DEF H2!check_print_format, H2!Outcome
  <2> HIDE DEF o
  <2>2. o.machine = m
    BY <2>1, SMT
  <2>3. Reach2(s, 4, m)
    BY <1>1, Stays2, SMT
  <2> QED BY <1>1, <2>2, <2>3, SMT DEF o
<1>2. CASE "ADCA_ISR" \notin s.missing
  <2>1. o = [ok |-> ok, machine |-> x]
    BY <1>2, Zenon DEF H2!check_print_format, H2!Outcome
  <2>2. Reach2(s, 4, x) /\ (s.missing = {} => driven.prints = Printed2(s, Base2(s, 3), 200))
    BY Driving2, SMT
  <2>0. Pass2(s, 4) <=> Printed2(s, Base2(s, 3), 200) > 0 /\ types
    BY SMT DEF Pass2
  <2> HIDE DEF driven, x, types
  <2>3. s.missing = {} => (ok <=> Pass2(s, 4))
    BY <2>0, <2>2, SMT
  <2> HIDE DEF ok, o
  <2>4. o.machine = x /\ (o.ok <=> ok)
    BY <2>1, SMT
  <2> QED BY <2>2, <2>3, <2>4, SMT DEF o
<1> QED BY <1>1, <1>2, SMT

\* The checks whose verdict Pass2 decides: a program without one of the symbols
\* fails at the scaling check, or dies in it.
Decided2(s, k) == k <= 2 \/ s.missing = {}

\* Every check of HW2, unless it dies of a null pointer: it leaves a machine that k
\* checks may leave, and its verdict on a program whose symbols it finds is a
\* function of the program alone.
LEMMA Check2 ==
  ASSUME NEW s, H2!IsStudent(s), NEW k \in 1..4, NEW m,
         k = 1 => m = H2!PoweredUp, k > 1 => Reach2(s, k - 1, m),
         ~H2!DereferencesNull(H2!checker[k], s)
  PROVE  LET o == H2!Run(H2!checker[k], s, m) IN
         /\ Reach2(s, k, o.machine)
         /\ Decided2(s, k) => (o.ok <=> Pass2(s, k))
<1> DEFINE o == H2!Run(H2!checker[k], s, m)
<1>1. CASE k = 1
  <2>1. o = H2!check_initialization(s, H2!PoweredUp)
    BY <1>1, SMT DEF H2!Run, H2!checker
  <2>2. Reach2(s, 1, o.machine) /\ (o.ok <=> InitOk2(s))
    BY <2>1, Init2
  <2> HIDE DEF o
  <2> QED BY <1>1, <2>2, SMT DEF Pass2, o
<1>2. CASE k = 2
  <2>1. o = H2!check_adc_isr_scaling(s, m) /\ H2!checker[k] = "check_adc_isr_scaling"
    BY <1>2, SMT DEF H2!Run, H2!checker
  <2>2. Reach2(s, 2, o.machine) /\ (o.ok <=> ScalingOk2(s))
    BY <1>2, <2>1, Scaling2
  <2> HIDE DEF o
  <2> QED BY <1>2, <2>2, SMT DEF Pass2, o
<1>3. CASE k = 3
  <2>1. o = H2!check_print_cadence(s, m)
    BY <1>3, SMT DEF H2!Run, H2!checker
  <2>2. Reach2(s, 3, o.machine) /\ (s.missing = {} => (o.ok <=> Pass2(s, 3)))
    BY <1>3, <2>1, Cadence2
  <2> HIDE DEF o
  <2> QED BY <1>3, <2>2, SMT DEF Decided2, o
<1>4. CASE k = 4
  <2>1. o = H2!check_print_format(s, m)
    BY <1>4, SMT DEF H2!Run, H2!checker
  <2>2. Reach2(s, 4, o.machine) /\ (s.missing = {} => (o.ok <=> Pass2(s, 4)))
    BY <1>4, <2>1, Format2
  <2> HIDE DEF o
  <2> QED BY <1>4, <2>2, SMT DEF Decided2, o
<1> QED BY <1>1, <1>2, <1>3, <1>4, SMT

\* A program that does what HW2's comments ask has every symbol and passes each
\* check of HW2.
LEMMA Conforming2 ==
  ASSUME NEW s, H2!IsStudent(s), H2!Conforms(s), NEW k \in 1..4
  PROVE  s.missing = {} /\ Pass2(s, k)
<1>1. /\ s.missing = {} /\ InitOk2(s)
      /\ s.order = <<1, 2, 3>> /\ s.fullScale = 30000
      /\ s.counts /\ s.flagInIsr /\ s.printEvery = 100
      /\ H2!expect_arg_types(s.format, <<"Float", "Float", "Float">>)
  <2>1. /\ s.missing = {} /\ s.order = <<1, 2, 3>> /\ s.fullScale = 30000
        /\ s.counts /\ s.flagInIsr /\ s.printEvery = 100
    BY SMT DEF H2!Conforms
  <2>2. InitOk2(s)
    BY SMT DEF H2!Conforms, InitOk2
  <2>3. [j \in DOMAIN s.format |-> H2!expected_arg_type(s.format[j])]
          = <<"Float", "Float", "Float">>
    BY SMT DEF H2!Conforms
  <2>4. H2!expect_arg_types(s.format, <<"Float", "Float", "Float">>)
    BY <2>3, Zenon DEF H2!expect_arg_types
  <2> QED BY <2>1, <2>2, <2>4, SMT
<1>2. ScalingOk2(s)
  <2>1. \A j \in 1..3 : s.order[j] = j
    BY <1>1, SMT
  <2>2. \A r \in [1..3 -> Nat] : \A j \in 1..3 : H2!Volts(30000, r[j]) \in Nat
    BY Quotient, SMT DEF H2!Volts
  <2>3. \A r \in [1..3 -> Nat] : \A j \in 1..3 :
          H2!approx_eq(H2!Volts(30000, r[j]), H2!Volts(30000, r[j]), 50)
    <3> HIDE DEF H2!Volts
    <3> QED BY <2>2, SMT DEF H2!approx_eq
  <2>4. \A r \in [1..3 -> Nat] : CaseOk(s, r, s.flagInInit)
    BY <1>1, <2>1, <2>3, SMT DEF CaseOk
  <2> QED BY <1>1, <2>4, Cases2 DEF ScalingOk2
<1>3. ~Stuck2(s) /\ Base2(s, 2) \in {0, 3} /\ Base2(s, 3) \in {0, 1003}
  BY <1>1, SMT DEF Stuck2, Base2
<1>4. Printed2(s, Base2(s, 2), 1000) = 10
  <2>1. \A c \in {0, 3} : H2!Requests(c, 1000, 100) = 10
    BY SMT DEF H2!Requests
  <2> QED BY <1>1, <1>3, <2>1, SMT DEF Printed2
<1>5. Printed2(s, Base2(s, 3), 200) = 2
  <2>1. \A c \in {0, 1003} : H2!Requests(c, 200, 100) = 2
    BY SMT DEF H2!Requests
  <2> QED BY <1>1, <1>3, <2>1, SMT DEF Printed2
<1>6. 10 \in H2!CadenceWindow(10, 10)
  BY SMT DEF H2!CadenceWindow
<1>7. CASE k = 1
  BY <1>1, <1>7, SMT DEF Pass2
<1>8. CASE k = 2
  BY <1>1, <1>2, <1>8, SMT DEF Pass2
<1>9. CASE k = 3
  BY <1>1, <1>4, <1>6, <1>9, SMT DEF Pass2
<1>10. CASE k = 4
  BY <1>1, <1>5, <1>10, SMT DEF Pass2
<1> QED BY <1>7, <1>8, <1>9, <1>10, SMT

\* A program with every symbol that passes every check of HW2 has none of the
\* mistakes of Sound.
LEMMA Sound2 ==
  ASSUME NEW s, H2!IsStudent(s), s.missing = {}, \A k \in 1..4 : Pass2(s, k)
  PROVE  H2!Sound(s)
<1>1. /\ InitOk2(s) /\ ScalingOk2(s)
      /\ Printed2(s, Base2(s, 2), 1000) \in H2!CadenceWindow(10, 10)
      /\ H2!expect_arg_types(s.format, <<"Float", "Float", "Float">>)
  BY SMT DEF Pass2
<1>2. \A n \in H2!Registers \ (H2!Used \ H2!FieldsRead) : s.init[n] = H2!Asked(n)
  BY <1>1 DEF InitOk2
<1>3. CaseOk(s, <<4095, 2048, 0>>, s.flagInInit)
  <2>1. CaseOk(s, H2!Cases[1], s.flagInInit)
    BY <1>1 DEF ScalingOk2
  <2>2. H2!Cases[1] = <<4095, 2048, 0>>
    BY SMT DEF H2!Cases
  <2> QED BY <2>1, <2>2, SMT
<1>4. PICK r \in [1..3 -> Nat] : r = <<4095, 2048, 0>>
  <2>1. <<4095, 2048, 0>> \in [1..3 -> Nat]
    BY SMT
  <2> QED BY <2>1
<1>5. r[1] = 4095 /\ r[2] = 2048 /\ r[3] = 0
  BY <1>4, SMT
<1>6. \A j \in 1..3 : s.order[j] = j
  <2>1. s.order \in [1..3 -> 1..3]
    BY DEF H2!IsStudent
  <2>2. \A j \in 1..3 : r[s.order[j]] = r[j]
    BY <1>3, <1>4 DEF CaseOk
  <2> QED BY <1>5, <2>1, <2>2, SMT
<1>7. s.order = <<1, 2, 3>>
  <2>1. s.order \in [1..3 -> 1..3]
    BY DEF H2!IsStudent
  <2> QED BY <1>6, <2>1, SMT
<1>8. s.fullScale \in 29949..30051
  <2>1. H2!approx_eq(H2!Volts(s.fullScale, 4095), H2!Volts(30000, 4095), 50)
    BY <1>3, <1>4, <1>5, <1>6, SMT DEF CaseOk
  <2>2. s.fullScale \in Nat
    BY DEF H2!IsStudent
  <2> QED BY <2>1, <2>2, SMT DEF H2!approx_eq, H2!Volts
<1>9. s.counts /\ (s.flagInInit = 1 \/ s.flagInIsr)
  BY <1>3 DEF CaseOk
<1>10. s.printEvery \in 84..111
  <2>1. PICK e \in Nat \ {0} : e = s.printEvery
    BY DEF H2!IsStudent
  <2>2. PICK c \in {0, 3} : c = Base2(s, 2)
    BY SMT DEF Base2
  <2>3. H2!CadenceWindow(10, 10) = 9..11
    BY SMT DEF H2!CadenceWindow
  <2>4. (c + 1000) \div e - c \div e \in 9..11
    BY <1>1, <1>9, <2>1, <2>2, <2>3, SMT DEF Printed2, Stuck2, H2!Requests
  <2>5. PICK q \in Nat : q = (c + 1000) \div e
    BY <2>2, Quotient
  <2>6. PICK p \in Nat : p = c \div e
    BY <2>2, Quotient
  <2>7. e * q <= c + 1000 /\ c + 1000 < e * (q + 1) /\ e * p <= c /\ c < e * (p + 1)
    <3>1. c \in Nat /\ c + 1000 \in Nat
      BY <2>2, SMT
    <3>2. e * p <= c /\ c < e * (p + 1)
      BY <2>6, <3>1, Quotient
    <3>3. PICK b \in Nat : b = c + 1000
      BY <3>1
    <3>4. q = b \div e
      BY <2>5, <3>3
    <3>5. e * q <= b /\ b < e * (q + 1)
      BY <3>4, Quotient
    <3> QED BY <3>2, <3>3, <3>5, SMT
  <2>8. p <= 3
    BY <2>2, <2>7, SMT
  <2>9. q - p \in 9..11
    BY <2>4, <2>5, <2>6
  <2>10. p = 0
    <3>1. SUFFICES ASSUME p # 0 PROVE FALSE
      OBVIOUS
    <3>2. e <= 3
      BY <2>2, <2>7, <3>1, SMT
    <3>3. q <= 14
      BY <2>8, <2>9
    <3>4. e * (q + 1) <= 45
      BY <3>2, <3>3, SMT
    <3> QED BY <2>2, <2>7, <3>4, SMT
  <2>11. q = 9 \/ q = 10 \/ q = 11
    BY <2>9, <2>10
  <2>12. CASE q = 9
    <3>1. e * 9 <= c + 1000 /\ c + 1000 < e * 10 /\ (c = 0 \/ c = 3)
      BY <2>2, <2>7, <2>12, SMT
    <3>2. e <= 111 /\ e >= 84
      BY <3>1, SMT
    <3> QED BY <2>1, <3>2, SMT
  <2>13. CASE q = 10
    BY <2>1, <2>2, <2>7, <2>13, SMT
  <2>14. CASE q = 11
    BY <2>1, <2>2, <2>7, <2>14, SMT
  <2> QED BY <2>11, <2>12, <2>13, <2>14
<1>11. Len(s.format) = 3
  <2>1. s.format \in Seq(STRING)
    BY DEF H2!IsStudent
  <2>2. DOMAIN s.format = 1..3
    <3>1. DOMAIN <<"Float", "Float", "Float">> = 1..3
      BY SMT
    <3> DEFINE g == [j \in DOMAIN s.format |-> H2!expected_arg_type(s.format[j])]
    <3>2. g = <<"Float", "Float", "Float">>
      BY <1>1, Zenon DEF H2!expect_arg_types
    <3>3. DOMAIN g = DOMAIN s.format
      OBVIOUS
    <3> HIDE DEF g
    <3> QED BY <3>1, <3>2, <3>3
  <2> QED BY <2>1, <2>2, SMT
<1> QED BY <1>2, <1>7, <1>8, <1>9, <1>10, <1>11, SMT DEF H2!Sound

-----------------------------------------------------------------------------
(* The suite of HW3.                                                       *)

\* The fields of the machine of HW3.
Names3 == {"regs", "SPIRXBUF", "RXFFST", "gyroz_raw", "gyroz_val", "SPIBCount", "hidden",
           "UARTPrint", "prints"}

\* The print logic reads a counter that the ISR never advances.
Stuck3(s) == s.countsIn = "global" /\ ~s.counts

\* The print events of n calls of the interrupt when that counter starts at c.
Printed3(s, c, n) ==
  IF ~Stuck3(s) THEN H3!Requests(c, n, s.printEvery) ELSE IF c % s.printEvery = 0 THEN n ELSE 0

\* Where the counter of the print logic stands after k checks.
Base3(s, k) ==
  IF k > 1 /\ (s.countsIn = "own" \/ ("SPIBCount" \in s.missing /\ s.counts))
  THEN IF k <= 4 THEN 3 ELSE 1003 ELSE 0

\* The symbols without which the scaling check fails and the driving checks return.
Read3 == {"SPIB_isr", "gyroz_raw", "gyroz_val"}

\* The word as the program's scaling reads it: signed or unsigned.
RawOf(s, w) == IF s.signed THEN H3!Int16(w) ELSE w

\* The rate computed from an injected word is the one the check expects.
ScaledOk3(s, w) == H3!approx_eq(H3!Rate(RawOf(s, w), s.range), H3!Rate(H3!Int16(w), 250), 5)

\* The symbols are there and the three injected words pass.
ScalingOk3(s) == Read3 \cap s.missing = {} /\ \A i \in 1..3 : ScaledOk3(s, H3!Words[i])

\* The arguments of the prints have one of the accepted lists of types.
Types3(s) ==
  \/ H3!expect_arg_types(s.format, <<"Float", "Float", "Float">>)
  \/ H3!expect_arg_types(s.format, [j \in 1..6 |-> "Float"])
  \/ H3!expect_arg_types(s.format, <<"Int16">>)

\* What the checks of HW3 say of a program, whatever was run before.
Pass3(s, k) ==
  CASE k = 1 -> H3!InitAsAsked(s) /\ "SPIB_isr" \notin s.missing
    [] k = 2 -> ScalingOk3(s)
    [] k = 3 -> TRUE
    [] k = 4 -> TRUE
    [] k = 5 -> s.printsEach * Printed3(s, Base3(s, 4), 1000) \in 4..14
    [] k = 6 -> s.printsEach * Printed3(s, Base3(s, 5), 400) > 0 /\ Types3(s)

\* The machine the later checks of HW3 start from.
After3(s) == H3!check_initialization(s, H3!PoweredUp).machine

\* The types of the machine of HW3 after the initialisation.
Typed3(s, m) ==
  /\ DOMAIN m = Names3 /\ m.regs = s.init
  /\ m.UARTPrint \in {0, 1} /\ m.prints \in Nat /\ m.SPIBCount \in Nat /\ m.hidden \in Nat

\* The checks whose verdict Pass3 decides: a program without one of the symbols
\* fails at the scaling check.
Decided3(s, k) == k <= 2 \/ Read3 \cap s.missing = {}

\* A machine that k checks of HW3 may leave.
Reach3(s, k, m) ==
  /\ Typed3(s, m)
  /\ Read3 \cap s.missing = {} /\ k <= 5 => H3!Counter(s, m) = Base3(s, k)

\* The initialisation check of HW3.  When the print logic reads the counter the
\* checks put back, the machine it leaves is also one that any number of checks
\* may leave.
LEMMA Init3 ==
  ASSUME NEW s, H3!IsStudent(s)
  PROVE  LET o == H3!check_initialization(s, H3!PoweredUp) IN
         /\ o.ok <=> Pass3(s, 1)
         /\ \A k \in 1..6 : H3!KnownState(s) \/ k = 1 => Reach3(s, k, o.machine)
<1> DEFINE o == H3!check_initialization(s, H3!PoweredUp)
           m == H3!PoweredUp
           before == H3!mark_as_used(H3!populate_all_zero(H3!ZeroChecked), H3!Used)
           started == H3!StudentInit(s, m)
           after == H3!register_comparison(before, H3!Wanted(H3!Compared))
           ok == /\ H3!validate(before, m.regs) /\ H3!validate(after, started.regs)
                 /\ \A n \in H3!FieldsRead : started.regs[n] = "asked"
                 /\ started.regs["CpuTimer0"] # "zero"
                 /\ "SPIB_isr" \notin s.missing
<1>1. o = [ok |-> ok, machine |-> started]
  BY DEF H3!check_initialization, H3!Outcome
<1>2. /\ DOMAIN m = Names3 /\ m.regs = [n \in H3!Registers |-> "zero"]
      /\ m.UARTPrint = 0 /\ m.prints = 0 /\ m.SPIBCount = 0 /\ m.hidden = 0
  BY DEF H3!PoweredUp, Names3
<1>3. started = [m EXCEPT !.regs = s.init, !.RXFFST = 0]
  BY DEF H3!StudentInit
<1> HIDE DEF m, started
<1>4. /\ DOMAIN started = Names3 /\ started.regs = s.init
      /\ started.UARTPrint = 0 /\ started.prints = 0 /\ started.SPIBCount = 0
      /\ started.hidden = 0
  BY <1>2, <1>3 DEF Names3
<1>5. \A k \in 1..6 : H3!KnownState(s) \/ k = 1 => Reach3(s, k, started)
  <2>1. "global" # "own"
    OBVIOUS
  <2> QED BY <1>4, <2>1 DEF Reach3, Typed3, H3!Counter, Base3, H3!KnownState
<1>6. before = [n \in H3!ZeroChecked \ H3!Used |-> H3!ByReference("zero")]
  BY DEF H3!mark_as_used, H3!populate_all_zero
<1>7. H3!validate(before, m.regs)
  <2>1. H3!ZeroChecked \subseteq H3!Registers
    BY DEF H3!Registers
  <2> HIDE DEF before
  <2> QED BY <1>2, <1>6, <2>1 DEF H3!validate, H3!Holds, H3!ByReference
<1>8. after = [n \in (H3!ZeroChecked \ H3!Used) \cup H3!Compared |->
                 IF n \in H3!Compared THEN H3!ByReference("asked") ELSE H3!ByReference("zero")]
  <2> HIDE DEF before
  <2>1. DOMAIN H3!Wanted(H3!Compared) = H3!Compared
        /\ \A n \in H3!Compared : H3!Wanted(H3!Compared)[n] = "asked"
    BY DEF H3!Wanted
  <2>2. DOMAIN before = H3!ZeroChecked \ H3!Used
        /\ \A n \in H3!ZeroChecked \ H3!Used : before[n] = H3!ByReference("zero")
    BY <1>6
  <2> QED BY <2>1, <2>2 DEF H3!register_comparison
<1>9. H3!validate(after, started.regs) <=>
        \A n \in (H3!ZeroChecked \ H3!Used) \cup H3!Compared :
          s.init[n] = IF n \in H3!Compared THEN "asked" ELSE "zero"
  <2> HIDE DEF after
  <2> QED BY <1>4, <1>8 DEF H3!validate, H3!Holds, H3!ByReference
<1>10. ok <=> H3!InitAsAsked(s) /\ "SPIB_isr" \notin s.missing
  <2>1. H3!ZeroChecked \ H3!Used = {"others"} /\ "others" \notin H3!Compared
    BY DEF H3!ZeroChecked, H3!Used, H3!FieldsRead, H3!Compared
  <2>2. ok <=> /\ H3!validate(after, started.regs)
               /\ \A n \in H3!FieldsRead : s.init[n] = "asked"
               /\ s.init["CpuTimer0"] # "zero" /\ "SPIB_isr" \notin s.missing
    BY <1>4, <1>7
  <2> HIDE DEF ok, after
  <2> QED BY <1>9, <2>1, <2>2 DEF H3!InitAsAsked
<1> HIDE DEF ok, o
<1>11. o.machine = started /\ (o.ok <=> ok)
  BY <1>1
<1>12. Pass3(s, 1) <=> H3!InitAsAsked(s) /\ "SPIB_isr" \notin s.missing
  BY SMT DEF Pass3
<1> QED BY <1>5, <1>10, <1>11, <1>12 DEF o

\* One call of the SPI interrupt on an injected word.
LEMMA Isr3 ==
  ASSUME NEW s, H3!IsStudent(s), NEW m, Typed3(s, m), NEW w
  PROVE  LET x == H3!SPIB_isr(s, H3!Inject(m, w)) IN
         /\ Typed3(s, x)
         /\ x.gyroz_raw = H3!Int16(w) /\ x.gyroz_val = H3!Rate(RawOf(s, w), s.range)
         /\ x.SPIBCount = m.SPIBCount + (IF s.counts THEN 1 ELSE 0)
         /\ x.hidden = m.hidden + 1
<1> DEFINE b == H3!Inject(m, w)
           raw == IF s.signed THEN H3!Int16(b.SPIRXBUF) ELSE b.SPIRXBUF
           v == H3!Rate(RawOf(s, w), s.range)
           g == H3!Int16(w)
           c == m.SPIBCount + (IF s.counts THEN 1 ELSE 0)
           called == [b EXCEPT !.SPIBCount = IF s.counts THEN @ + 1 ELSE @, !.hidden = @ + 1]
           u == IF H3!Counter(s, called) % s.printEvery = 0 THEN 1 ELSE called.UARTPrint
           x == H3!SPIB_isr(s, b)
<1>1. x = [called EXCEPT !.gyroz_raw = H3!Int16(b.SPIRXBUF), !.gyroz_val = H3!Rate(raw, s.range),
                         !.UARTPrint = IF H3!Counter(s, called) % s.printEvery = 0 THEN 1 ELSE @]
  BY DEF H3!SPIB_isr
<1>2. /\ DOMAIN b = Names3 /\ b.regs = s.init /\ b.prints = m.prints /\ b.SPIRXBUF = w
      /\ b.UARTPrint = m.UARTPrint /\ b.SPIBCount = m.SPIBCount /\ b.hidden = m.hidden
  BY DEF H3!Inject, Typed3, Names3
<1>3. m.SPIBCount \in Nat /\ m.hidden \in Nat /\ m.prints \in Nat /\ m.UARTPrint \in {0, 1}
  BY DEF Typed3
<1>4. raw = RawOf(s, w) /\ H3!Int16(b.SPIRXBUF) = g
  BY <1>2 DEF RawOf
<1> HIDE DEF b, raw
<1>5. /\ DOMAIN called = Names3 /\ called.regs = s.init /\ called.prints = m.prints
      /\ called.UARTPrint = m.UARTPrint
      /\ called.hidden = m.hidden + 1 /\ called.SPIBCount = c
  <2>1. CASE s.counts
    BY <1>2, <1>3, <2>1 DEF Names3
  <2>2. CASE ~s.counts
    BY <1>2, <1>3, <2>2 DEF Names3
  <2> QED BY <2>1, <2>2
<1>6. u \in {0, 1} /\ c \in Nat
  BY <1>3, <1>5
<1> HIDE DEF called, v, g, c
<1>7. x = [called EXCEPT !.gyroz_raw = g, !.gyroz_val = v, !.UARTPrint = u]
  BY <1>1, <1>4, <1>5 DEF v
<1> HIDE DEF u, x
<1>8. /\ DOMAIN x = Names3 /\ x.regs = s.init /\ x.prints = m.prints
      /\ x.gyroz_raw = g /\ x.gyroz_val = v
      /\ x.SPIBCount = c /\ x.hidden = m.hidden + 1 /\ x.UARTPrint = u
  BY <1>5, <1>7 DEF Names3
<1> QED BY <1>3, <1>6, <1>8 DEF x, c, g, v, b, Typed3

\* The counter is put back when the program has one.
LEMMA RestoreCount3 ==
  ASSUME NEW s, NEW m, Typed3(s, m), NEW c \in Nat
  PROVE  LET x == H3!RestoreCount(s, m, c) IN
         /\ Typed3(s, x) /\ x.hidden = m.hidden
         /\ x.SPIBCount = IF "SPIBCount" \in s.missing THEN m.SPIBCount ELSE c
<1> DEFINE x == H3!RestoreCount(s, m, c)
<1>1. CASE "SPIBCount" \in s.missing
  BY <1>1 DEF H3!RestoreCount
<1>2. CASE "SPIBCount" \notin s.missing
  <2>1. x = [m EXCEPT !.SPIBCount = c]
    BY <1>2 DEF H3!RestoreCount
  <2> HIDE DEF x
  <2>2. /\ DOMAIN x = Names3 /\ x.regs = m.regs /\ x.SPIBCount = c
        /\ x.hidden = m.hidden /\ x.UARTPrint = m.UARTPrint /\ x.prints = m.prints
    BY <2>1 DEF Typed3, Names3
  <2> QED BY <1>2, <2>2 DEF Typed3, x
<1> QED BY <1>1, <1>2

\* The scaling check of HW3.
LEMMA Scaling3 ==
  ASSUME NEW s, H3!IsStudent(s), NEW m, Reach3(s, 1, m)
  PROVE  LET o == H3!check_spib_isr_scaling(s, m) IN
         /\ Reach3(s, 2, o.machine)
         /\ o.ok <=> ScalingOk3(s)
<1> DEFINE o == H3!check_spib_isr_scaling(s, m)
           w1 == H3!Words[1]
           w2 == H3!Words[2]
           w3 == H3!Words[3]
           first  == H3!SPIB_isr(s, H3!Inject(m, w1))
           second == H3!SPIB_isr(s, H3!Inject(first, w2))
           third  == H3!SPIB_isr(s, H3!Inject(second, w3))
           ok == H3!CaseHolds(first, w1) /\ H3!CaseHolds(second, w2) /\ H3!CaseHolds(third, w3)
           d == IF s.counts THEN 1 ELSE 0
<1>1. Typed3(s, m) /\ (Read3 \cap s.missing = {} => H3!Counter(s, m) = 0)
  BY DEF Reach3, Base3
<1>2. m.SPIBCount \in Nat /\ m.hidden \in Nat /\ d \in {0, 1} /\ (s.counts <=> d = 1)
  BY <1>1 DEF Typed3, H3!IsStudent
<1>3. CASE Read3 \cap s.missing # {}
  <2>1. o = [ok |-> FALSE, machine |-> m]
    BY <1>3 DEF H3!check_spib_isr_scaling, H3!Outcome, Read3
  <2> HIDE DEF o
  <2>2. o.machine = m /\ ~o.ok
    BY <2>1
  <2> QED BY <1>1, <1>3, <2>2 DEF Reach3, ScalingOk3, o
<1>4. CASE Read3 \cap s.missing = {}
  <2> DEFINE y == [third EXCEPT !.gyroz_raw = m.gyroz_raw, !.gyroz_val = m.gyroz_val]
             x == H3!RestoreCount(s, y, m.SPIBCount)
  <2>1. o = [ok |-> ok, machine |-> x]
    BY <1>4 DEF H3!check_spib_isr_scaling, H3!Outcome, Read3
  <2> HIDE DEF w1, w2, w3
  <2>2. /\ Typed3(s, first) /\ first.hidden = m.hidden + 1
        /\ first.SPIBCount = m.SPIBCount + d
        /\ first.gyroz_raw = H3!Int16(w1) /\ first.gyroz_val = H3!Rate(RawOf(s, w1), s.range)
    BY <1>1, Isr3
  <2> HIDE DEF first
  <2>3. /\ Typed3(s, second) /\ second.hidden = first.hidden + 1
        /\ second.SPIBCount = first.SPIBCount + d
        /\ second.gyroz_raw = H3!Int16(w2) /\ second.gyroz_val = H3!Rate(RawOf(s, w2), s.range)
    BY <2>2, Isr3
  <2> HIDE DEF second
  <2>4. /\ Typed3(s, third) /\ third.hidden = second.hidden + 1
        /\ third.SPIBCount = second.SPIBCount + d
        /\ third.gyroz_raw = H3!Int16(w3) /\ third.gyroz_val = H3!Rate(RawOf(s, w3), s.range)
    BY <2>3, Isr3
  <2> HIDE DEF third
  <2>5. third.hidden = m.hidden + 3 /\ third.SPIBCount = m.SPIBCount + 3 * d
    <3> HIDE DEF d
    <3> QED BY <1>2, <2>2, <2>3, <2>4
  <2>6. Typed3(s, y) /\ y.hidden = third.hidden /\ y.SPIBCount = third.SPIBCount
    <3>1. DOMAIN third = Names3
      BY <2>4 DEF Typed3
    <3>2. /\ DOMAIN y = Names3 /\ y.regs = third.regs /\ y.UARTPrint = third.UARTPrint
          /\ y.prints = third.prints
          /\ y.hidden = third.hidden /\ y.SPIBCount = third.SPIBCount
      BY <3>1 DEF Names3
    <3> HIDE DEF y
    <3> QED BY <2>4, <3>2 DEF Typed3
  <2> HIDE DEF y
  <2>7. /\ Typed3(s, x) /\ x.hidden = m.hidden + 3
        /\ x.SPIBCount = IF "SPIBCount" \in s.missing THEN m.SPIBCount + 3 * d ELSE m.SPIBCount
    BY <1>2, <2>5, <2>6, RestoreCount3
  <2> HIDE DEF x
  <2>8. H3!Counter(s, x) = Base3(s, 2)
    <3>1. s.countsIn \in {"global", "own"} /\ "global" # "own"
      BY DEF H3!IsStudent
    <3>2. CASE s.countsIn = "own"
      BY <1>1, <1>2, <1>4, <2>7, <3>1, <3>2 DEF H3!Counter, Base3
    <3>3. CASE s.countsIn = "global"
      <4>1. m.SPIBCount = 0 /\ H3!Counter(s, x) = x.SPIBCount
        BY <1>1, <1>4, <3>3 DEF H3!Counter
      <4>2. CASE s.counts
        BY <2>7, <3>1, <3>3, <4>1, <4>2 DEF Base3
      <4>3. CASE ~s.counts
        BY <2>7, <3>1, <3>3, <4>1, <4>3 DEF Base3
      <4> QED BY <4>2, <4>3
    <3> QED BY <3>1, <3>2, <3>3
  <2>9. Reach3(s, 2, x)
    BY <2>7, <2>8 DEF Reach3
  <2>10. /\ H3!CaseHolds(first, w1) <=> ScaledOk3(s, w1)
         /\ (H3!CaseHolds(second, w2) <=> ScaledOk3(s, w2))
         /\ (H3!CaseHolds(third, w3) <=> ScaledOk3(s, w3))
    BY <2>2, <2>3, <2>4 DEF H3!CaseHolds, ScaledOk3
  <2>11. ok <=> ScalingOk3(s)
    <3>1. \A i \in 1..3 : i = 1 \/ i = 2 \/ i = 3
      OBVIOUS
    <3>2. ScalingOk3(s) <=> /\ ScaledOk3(s, H3!Words[1]) /\ ScaledOk3(s, H3!Words[2])
                          /\ ScaledOk3(s, H3!Words[3])
      BY <1>4, <3>1, SMT DEF ScalingOk3
    <3> QED BY <2>10, <3>2 DEF w1, w2, w3
  <2> HIDE DEF ok, o
  <2>12. o.machine = x /\ (o.ok <=> ok)
    BY <2>1
  <2> QED BY <2>9, <2>11, <2>12 DEF o
<1> QED BY <1>3, <1>4

\* n calls of the SPI interrupt, each followed by the main loop.
LEMMA Drive3 ==
  ASSUME NEW s, H3!IsStudent(s), NEW m, Typed3(s, m), NEW n \in Nat, NEW w
  PROVE  LET x == H3!Drive(s, H3!Inject(m, w), n) IN
         /\ Typed3(s, x) /\ x.prints = s.printsEach * Printed3(s, H3!Counter(s, m), n)
         /\ x.hidden = m.hidden + n
         /\ x.SPIBCount = m.SPIBCount + (IF s.counts THEN n ELSE 0)
<1> DEFINE b == H3!Inject(m, w)
           driven == H3!SPIB_isr(s, b)
           requests == IF ~(s.countsIn = "global" /\ ~s.counts)
                       THEN H3!Requests(H3!Counter(s, b), n, s.printEvery)
                       ELSE IF b.SPIBCount % s.printEvery = 0 THEN n ELSE 0
           x == H3!Drive(s, b, n)
           c == m.SPIBCount + (IF s.counts THEN n ELSE 0)
           p == Printed3(s, H3!Counter(s, m), n)
           t == s.printsEach * p
<1>0. s.counts \in BOOLEAN /\ s.printEvery \in Nat \ {0} /\ s.printsEach \in 1..3
  BY DEF H3!IsStudent
<1>1. Typed3(s, driven)
  BY Isr3
<1>2. /\ b.SPIBCount = m.SPIBCount /\ b.hidden = m.hidden
      /\ m.SPIBCount \in Nat /\ m.hidden \in Nat
  BY DEF H3!Inject, Names3, Typed3
<1>3. x = [driven EXCEPT !.SPIBCount = IF s.counts THEN b.SPIBCount + n ELSE @,
                         !.hidden = b.hidden + n, !.UARTPrint = 0,
                         !.prints = s.printsEach * requests]
  BY Zenon DEF H3!Drive
<1>10. ~s.counts => driven.SPIBCount = m.SPIBCount
  BY <1>2, Isr3
<1> HIDE DEF b, driven
<1>4. H3!Counter(s, b) = H3!Counter(s, m) /\ H3!Counter(s, m) \in Nat
  BY <1>2 DEF H3!Counter
<1>5. p \in Nat
  BY <1>0, <1>4, QuotientGrows DEF Printed3, H3!Requests
<1>6. requests = p
  BY <1>2, <1>4 DEF Printed3, Stuck3, H3!Counter
<1>7. (IF s.counts THEN b.SPIBCount + n ELSE driven.SPIBCount) = c
  BY <1>0, <1>2, <1>10
<1>8. c \in Nat
  BY <1>2
<1> HIDE DEF c, p, requests
<1>9. t \in Nat
  BY <1>0, <1>5, SMT
<1> HIDE DEF t
<1>11. x = [driven EXCEPT !.SPIBCount = c, !.hidden = m.hidden + n, !.UARTPrint = 0, !.prints = t]
  BY <1>2, <1>3, <1>6, <1>7 DEF t
<1> HIDE DEF x
<1>12. /\ DOMAIN x = Names3 /\ x.regs = s.init /\ x.SPIBCount = c
       /\ x.hidden = m.hidden + n /\ x.UARTPrint = 0 /\ x.prints = t
  BY <1>1, <1>11 DEF Names3, Typed3
<1> QED BY <1>2, <1>8, <1>9, <1>12 DEF Typed3, x, b, t, p, c

\* The cadence check of HW3.
LEMMA Cadence3 ==
  ASSUME NEW s, H3!IsStudent(s), NEW m, Reach3(s, 4, m)
  PROVE  LET o == H3!check_print_cadence(s, m) IN
         /\ Reach3(s, 5, o.machine)
         /\ Read3 \cap s.missing = {} => (o.ok <=> Pass3(s, 5))
<1> DEFINE o == H3!check_print_cadence(s, m)
           driven == H3!Drive(s, H3!Inject(m, 4660), 1000)
           x == H3!RestoreCount(s, driven, m.SPIBCount)
           ok == driven.prints \in 4..14
<1>0. /\ Typed3(s, m) /\ m.SPIBCount \in Nat /\ m.hidden \in Nat
      /\ Read3 \cap s.missing = {} => H3!Counter(s, m) = Base3(s, 4)
  BY SMT DEF Reach3, Typed3
<1>1. CASE "SPIB_isr" \in s.missing
  <2>1. o = [ok |-> FALSE, machine |-> m]
    BY <1>1, SMT DEF H3!check_print_cadence, H3!Outcome
  <2> HIDE DEF o
  <2>2. o.machine = m
    BY <2>1, SMT
  <2>3. Read3 \cap s.missing # {}
    BY <1>1 DEF Read3
  <2> QED BY <1>0, <2>2, <2>3, SMT DEF o, Reach3
<1>2. CASE "SPIB_isr" \notin s.missing
  <2>1. o = [ok |-> ok, machine |-> x]
    BY <1>2, SMT DEF H3!check_print_cadence, H3!Outcome
  <2>2. PICK n \in Nat : n = 1000
    OBVIOUS
  <2>3. /\ Typed3(s, driven) /\ driven.prints = s.printsEach * Printed3(s, H3!Counter(s, m), 1000)
        /\ driven.hidden = m.hidden + 1000
        /\ driven.SPIBCount = m.SPIBCount + (IF s.counts THEN 1000 ELSE 0)
    BY <1>0, <2>2, Drive3, SMT
  <2> HIDE DEF driven
  <2>4. /\ Typed3(s, x) /\ x.hidden = driven.hidden
        /\ x.SPIBCount = IF "SPIBCount" \in s.missing THEN driven.SPIBCount ELSE m.SPIBCount
    BY <1>0, <2>3, RestoreCount3
  <2> HIDE DEF x
  <2>5. Read3 \cap s.missing = {} => H3!Counter(s, x) = Base3(s, 5)
    <3> SUFFICES ASSUME Read3 \cap s.missing = {} PROVE H3!Counter(s, x) = Base3(s, 5)
      OBVIOUS
    <3>1. s.countsIn \in {"global", "own"} /\ "global" # "own"
      BY DEF H3!IsStudent
    <3>2. CASE s.countsIn = "own"
      <4>1. m.hidden = 3
        BY <1>0, <3>1, <3>2, SMT DEF H3!Counter, Base3
      <4>2. x.hidden = 1003
        BY <2>3, <2>4, <4>1, SMT
      <4> QED BY <3>1, <3>2, <4>2, SMT DEF H3!Counter, Base3
    <3>3. CASE s.countsIn = "global"
      <4>1. m.SPIBCount = Base3(s, 4) /\ H3!Counter(s, x) = x.SPIBCount
        BY <1>0, <3>3, SMT DEF H3!Counter
      <4>2. CASE "SPIBCount" \in s.missing /\ s.counts
        <5>1. x.SPIBCount = 1003
          BY <2>3, <2>4, <4>1, <4>2, SMT DEF Base3
        <5> QED BY <4>1, <4>2, <5>1, SMT DEF Base3
      <4>3. CASE ~("SPIBCount" \in s.missing /\ s.counts)
        <5>1. x.SPIBCount = 0
          BY <1>0, <2>3, <2>4, <3>1, <3>3, <4>1, <4>3, SMT DEF Base3
        <5> QED BY <3>1, <3>3, <4>1, <4>3, <5>1, SMT DEF Base3
      <4> QED BY <4>2, <4>3
    <3> QED BY <3>1, <3>2, <3>3
  <2>6. Reach3(s, 5, x)
    BY <2>4, <2>5 DEF Reach3
  <2>7. Read3 \cap s.missing = {} => (ok <=> Pass3(s, 5))
    BY <1>0, <2>3, SMT DEF Pass3
  <2> HIDE DEF ok, o
  <2>8. o.machine = x /\ (o.ok <=> ok)
    BY <2>1, SMT
  <2> QED BY <2>6, <2>7, <2>8, SMT DEF o
<1> QED BY <1>1, <1>2, SMT

\* The format check of HW3.
LEMMA Format3 ==
  ASSUME NEW s, H3!IsStudent(s), NEW m, Reach3(s, 5, m)
  PROVE  LET o == H3!check_print_format(s, m) IN
         /\ Reach3(s, 6, o.machine)
         /\ Read3 \cap s.missing = {} => (o.ok <=> Pass3(s, 6))
<1> DEFINE o == H3!check_print_format(s, m)
           driven == H3!Drive(s, H3!Inject(m, 16384), 400)
           types == Types3(s)
           ok == /\ driven.prints > 0
                 /\ \/ H3!expect_arg_types(s.format, <<"Float", "Float", "Float">>)
                    \/ H3!expect_arg_types(s.format, [k \in 1..6 |-> "Float"])
                    \/ H3!expect_arg_types(s.format, <<"Int16">>)
<1>0. /\ Typed3(s, m) /\ m.SPIBCount \in Nat /\ m.hidden \in Nat
      /\ Read3 \cap s.missing = {} => H3!Counter(s, m) = Base3(s, 5)
  BY SMT DEF Reach3, Typed3
<1>1. CASE "SPIB_isr" \in s.missing
  <2>1. o = [ok |-> FALSE, machine |-> m]
    BY <1>1, SMT DEF H3!check_print_format, H3!Outcome
  <2> HIDE DEF o
  <2>2. o.machine = m
    BY <2>1, SMT
  <2>3. Read3 \cap s.missing # {}
    BY <1>1 DEF Read3
  <2> QED BY <1>0, <2>2, <2>3, SMT DEF o, Reach3
<1>2. CASE "SPIB_isr" \notin s.missing
  <2>1. o = [ok |-> ok, machine |-> driven]
    <3>1. o = H3!Outcome(ok, driven)
      BY <1>2, SMT DEF H3!check_print_format
    <3> HIDE DEF ok, driven, o
    <3> QED BY <3>1 DEF H3!Outcome
  <2>3. /\ Typed3(s, driven) /\ driven.prints = s.printsEach * Printed3(s, H3!Counter(s, m), 400)
    BY <1>0, Drive3, SMT
  <2>4. Reach3(s, 6, driven)
    BY <2>3, SMT DEF Reach3
  <2>5. ok <=> driven.prints > 0 /\ types
    BY DEF Types3
  <2>6. Pass3(s, 6) <=> s.printsEach * Printed3(s, Base3(s, 5), 400) > 0 /\ types
    BY SMT DEF Pass3
  <2> HIDE DEF driven, ok, types, o
  <2>7. Read3 \cap s.missing = {} => (ok <=> Pass3(s, 6))
    BY <1>0, <2>3, <2>5, <2>6, SMT
  <2>8. o.machine = driven /\ (o.ok <=> ok)
    BY <2>1, SMT
  <2> QED BY <2>4, <2>7, <2>8, SMT DEF o
<1> QED BY <1>1, <1>2, SMT

\* Every check of HW3: it leaves a machine that k checks may leave, and its verdict
\* on a program whose symbols it finds is a function of the program alone.
LEMMA Check3 ==
  ASSUME NEW s, H3!IsStudent(s), NEW k \in 1..6, NEW m,
         k = 1 => m = H3!PoweredUp, k > 1 => Reach3(s, k - 1, m)
  PROVE  LET o == H3!Run(H3!checker[k], s, m) IN
         /\ Reach3(s, k, o.machine)
         /\ Decided3(s, k) => (o.ok <=> Pass3(s, k))
<1> DEFINE o == H3!Run(H3!checker[k], s, m)
<1>1. CASE k = 1
  <2>1. o = H3!check_initialization(s, H3!PoweredUp)
    BY <1>1, SMT DEF H3!Run, H3!checker
  <2>2. Reach3(s, 1, o.machine) /\ (o.ok <=> Pass3(s, 1))
    BY <2>1, Init3
  <2> HIDE DEF o
  <2> QED BY <1>1, <2>2, SMT DEF o
<1>2. CASE k = 2
  <2>1. o = H3!check_spib_isr_scaling(s, m)
    BY <1>2, SMT DEF H3!Run, H3!checker
  <2>2. Reach3(s, 2, o.machine) /\ (o.ok <=> ScalingOk3(s))
    BY <1>2, <2>1, Scaling3
  <2> HIDE DEF o
  <2> QED BY <1>2, <2>2, SMT DEF Pass3, o
<1>3. CASE k \in {3, 4}
  <2>1. o = [ok |-> TRUE, machine |-> m]
    <3>1. CASE k = 3
      BY <3>1, SMT DEF H3!Run, H3!checker, H3!check_spib_request_format, H3!Outcome
    <3>2. CASE k = 4
      BY <3>2, SMT DEF H3!Run, H3!checker, H3!check_imu_full_init, H3!Outcome
    <3> QED BY <1>3, <3>1, <3>2
  <2> HIDE DEF o
  <2>2. o.machine = m /\ o.ok
    BY <2>1
  <2>3. Reach3(s, k, m)
    <3>1. Base3(s, k - 1) = Base3(s, k)
      BY <1>3 DEF Base3
    <3> QED BY <1>3, <3>1 DEF Reach3
  <2>4. Pass3(s, k)
    <3>1. CASE k = 3
      BY <3>1, SMT DEF Pass3
    <3>2. CASE k = 4
      BY <3>2, SMT DEF Pass3
    <3> QED BY <1>3, <3>1, <3>2
  <2> QED BY <2>2, <2>3, <2>4 DEF o
<1>4. CASE k = 5
  <2>1. o = H3!check_print_cadence(s, m)
    BY <1>4, SMT DEF H3!Run, H3!checker
  <2>2. Reach3(s, 5, o.machine) /\ (Read3 \cap s.missing = {} => (o.ok <=> Pass3(s, 5)))
    BY <1>4, <2>1, Cadence3
  <2> HIDE DEF o
  <2> QED BY <1>4, <2>2, SMT DEF Decided3, o
<1>5. CASE k = 6
  <2>1. o = H3!check_print_format(s, m)
    BY <1>5, SMT DEF H3!Run, H3!checker
  <2>2. Reach3(s, 6, o.machine) /\ (Read3 \cap s.missing = {} => (o.ok <=> Pass3(s, 6)))
    BY <1>5, <2>1, Format3
  <2> HIDE DEF o
  <2> QED BY <1>5, <2>2, SMT DEF Decided3, o
<1> QED BY <1>1, <1>2, <1>3, <1>4, <1>5, SMT

\* A format has as many specifiers as its domain says.
LEMMA DomainLength ==
  ASSUME NEW f \in Seq(STRING), NEW n \in Nat, DOMAIN f = 1..n
  PROVE  Len(f) = n
  BY SMT

\* A program that does what HW3's comments ask passes each check of HW3.
LEMMA Conforming3 ==
  ASSUME NEW s, H3!IsStudent(s), H3!Conforms(s), NEW k \in 1..6
  PROVE  Decided3(s, k) /\ Pass3(s, k)
<1>1. /\ s.missing \subseteq {"SPIBCount"} /\ H3!InitAsAsked(s)
      /\ s.range = 250 /\ s.signed /\ ~Stuck3(s)
      /\ s.printEvery = 200 /\ s.printsEach \in 1..2
      /\ s.format \in {<<"%.3f", "%.3f", "%.3f">>, [j \in 1..6 |-> "%.3f"]}
  <2>1. "global" # "own"
    OBVIOUS
  <2> QED BY <2>1, SMT DEF H3!Conforms, Stuck3
<1>2. Read3 \cap s.missing = {} /\ "SPIB_isr" \notin s.missing
  BY <1>1 DEF Read3
<1>3. ScalingOk3(s)
  <2>1. \A i \in 1..3 : H3!Words[i] \in Int
    BY SMT DEF H3!Words
  <2>2. \A w \in Int : H3!Rate(H3!Int16(w), 250) \in Int
    BY SMT DEF H3!Rate, H3!Int16
  <2>3. \A w \in Int : ScaledOk3(s, w)
    <3>1. \A a \in Int : H3!approx_eq(a, a, 5)
      BY SMT DEF H3!approx_eq
    <3>2. \A w : RawOf(s, w) = H3!Int16(w)
      BY <1>1 DEF RawOf
    <3> TAKE w \in Int
    <3>3. RawOf(s, w) = H3!Int16(w)
      BY <3>2
    <3>4. H3!Rate(RawOf(s, w), s.range) = H3!Rate(H3!Int16(w), 250)
      BY <1>1, <3>3
    <3>5. H3!Rate(H3!Int16(w), 250) \in Int
      BY <2>2
    <3> QED BY <3>1, <3>4, <3>5, SMT DEF ScaledOk3
  <2> QED BY <1>2, <2>1, <2>3 DEF ScalingOk3
<1>4. Printed3(s, Base3(s, 4), 1000) = 5
  <2>1. \A c \in {0, 3} : H3!Requests(c, 1000, 200) = 5
    BY SMT DEF H3!Requests
  <2>2. Base3(s, 4) \in {0, 3}
    BY SMT DEF Base3
  <2> QED BY <1>1, <2>1, <2>2, SMT DEF Printed3
<1>5. Printed3(s, Base3(s, 5), 400) = 2
  <2>1. \A c \in {0, 1003} : H3!Requests(c, 400, 200) = 2
    BY SMT DEF H3!Requests
  <2>2. Base3(s, 5) \in {0, 1003}
    BY SMT DEF Base3
  <2> QED BY <1>1, <2>1, <2>2, SMT DEF Printed3
<1>6. Types3(s)
  <2>1. CASE s.format = <<"%.3f", "%.3f", "%.3f">>
    BY <2>1, SMT DEF Types3, H3!expect_arg_types, H3!expected_arg_type
  <2>2. CASE s.format = [j \in 1..6 |-> "%.3f"]
    <3>1. H3!expected_arg_type("%.3f") = "Float"
      BY SMT DEF H3!expected_arg_type
    <3>2. [j \in DOMAIN s.format |-> H3!expected_arg_type(s.format[j])] = [j \in 1..6 |-> "Float"]
      <4> HIDE DEF H3!expected_arg_type
      <4> QED BY <2>2, <3>1, Zenon
    <3> QED BY <3>2, Zenon DEF Types3, H3!expect_arg_types
  <2> QED BY <1>1, <2>1, <2>2
<1>7. Decided3(s, k)
  BY <1>2 DEF Decided3
<1>8. CASE k = 1
  BY <1>1, <1>2, <1>7, <1>8, SMT DEF Pass3
<1>9. CASE k = 2
  BY <1>3, <1>7, <1>9, SMT DEF Pass3
<1>10. CASE k = 3
  BY <1>7, <1>10, SMT DEF Pass3
<1>11. CASE k = 4
  BY <1>7, <1>11, SMT DEF Pass3
<1>12. CASE k = 5
  BY <1>1, <1>4, <1>7, <1>12, SMT DEF Pass3
<1>13. CASE k = 6
  BY <1>1, <1>5, <1>6, <1>7, <1>13, SMT DEF Pass3
<1> QED BY <1>8, <1>9, <1>10, <1>11, <1>12, <1>13, SMT

\* The scale at a quarter of the full range, and the sign.
LEMMA Scale3 ==
  ASSUME NEW s, H3!IsStudent(s), ScalingOk3(s)
  PROVE  s.range = 250 /\ s.signed
<1>1. PICK g \in Nat : g = s.range
  BY DEF H3!IsStudent
<1>2. ScaledOk3(s, 16384) /\ ScaledOk3(s, 49152)
  <2>1. H3!Words[1] = 16384 /\ H3!Words[2] = 49152
    BY SMT DEF H3!Words
  <2>2. ScaledOk3(s, H3!Words[1]) /\ ScaledOk3(s, H3!Words[2])
    BY SMT DEF ScalingOk3
  <2> QED BY <2>1, <2>2, SMT
<1>3. H3!Int16(16384) = 16384 /\ H3!Int16(49152) = -16384
  BY SMT DEF H3!Int16
<1>4. H3!Rate(16384, 250) = 12500
  BY SMT DEF H3!Rate
<1>5. H3!Rate(16384, g) \in 12495..12505
  <2>1. RawOf(s, 16384) = 16384
    BY <1>3 DEF RawOf
  <2>2. H3!Rate(16384, g) \in Int
    BY SMT DEF H3!Rate
  <2> QED BY <1>1, <1>2, <1>3, <1>4, <2>1, <2>2, SMT DEF ScaledOk3, H3!approx_eq
<1>6. g = 250
  <2>1. PICK p \in Nat : p = 16384 * g
    BY SMT
  <2>2. PICK q \in Nat : q = p \div 32767
    BY SMT
  <2>3. PICK t \in Nat : t = p % 32767
    BY SMT
  <2>4. PICK u \in Nat : u = (t * 100) \div 32767
    BY SMT
  <2>5. p = 32767 * q + t /\ 32767 * u <= 100 * t /\ 100 * t < 32767 * (u + 1)
    BY <2>2, <2>3, <2>4, SMT
  <2>6. q * 100 + u \in 12495..12505
    BY <1>5, <2>1, <2>2, <2>3, <2>4, SMT DEF H3!Rate
  <2>7. 32767 * (q * 100 + u) <= 100 * p /\ 100 * p < 32767 * (q * 100 + u + 1)
    BY <2>5, SMT
  <2>8. 32767 * 12495 <= 100 * p /\ 100 * p < 32767 * 12506
    BY <2>6, <2>7, SMT
  <2> QED BY <2>1, <2>8, SMT
<1>7. s.signed
  <2> SUFFICES ASSUME ~s.signed PROVE FALSE
    OBVIOUS
  <2>1. RawOf(s, 49152) = 49152
    BY DEF RawOf
  <2>2. H3!Rate(49152, 250) \in Int /\ H3!Rate(49152, 250) > 37000
    BY SMT DEF H3!Rate
  <2>3. H3!Rate(-16384, 250) \in Int /\ H3!Rate(-16384, 250) < 0
    BY SMT DEF H3!Rate
  <2>4. H3!approx_eq(H3!Rate(49152, 250), H3!Rate(-16384, 250), 5)
    BY <1>1, <1>2, <1>3, <1>6, <2>1, SMT DEF ScaledOk3
  <2> QED BY <2>2, <2>3, <2>4, SMT DEF H3!approx_eq
<1> QED BY <1>1, <1>6, <1>7

\* A program that passes every check of HW3 has none of the mistakes of Sound.
LEMMA Sound3 ==
  ASSUME NEW s, H3!IsStudent(s), \A k \in 1..6 : Decided3(s, k) => Pass3(s, k)
  PROVE  H3!Sound(s)
<1>1. Pass3(s, 1) /\ Pass3(s, 2)
  BY SMT DEF Decided3
<1>2. H3!InitAsAsked(s) /\ "SPIB_isr" \notin s.missing /\ ScalingOk3(s)
  BY <1>1, SMT DEF Pass3
<1>3. Pass3(s, 5) /\ Pass3(s, 6)
  BY <1>2, SMT DEF Decided3, ScalingOk3
<1>4. /\ s.printsEach * Printed3(s, Base3(s, 4), 1000) \in 4..14
      /\ Types3(s)
  BY <1>3, SMT DEF Pass3
<1>5. s.missing \subseteq {"SPIBCount"}
  BY <1>2, SMT DEF ScalingOk3, Read3, H3!IsStudent, H3!Symbols
<1>6. s.range = 250 /\ s.signed
  BY <1>2, Scale3
<1>7. PICK e \in Nat \ {0} : e = s.printEvery
  BY DEF H3!IsStudent
<1>8. PICK h \in 1..3 : h = s.printsEach
  BY DEF H3!IsStudent
<1>9. PICK c \in {0, 3} : c = Base3(s, 4)
  BY SMT DEF Base3
<1>10. ~Stuck3(s)
  <2> SUFFICES ASSUME Stuck3(s) PROVE FALSE
    OBVIOUS
  <2>1. c = 0
    <3>1. "global" # "own"
      OBVIOUS
    <3> QED BY <1>9, <3>1, SMT DEF Stuck3, Base3
  <2>2. 0 % e = 0
    BY <1>7, SMT
  <2>3. Printed3(s, Base3(s, 4), 1000) = 1000
    BY <1>7, <1>9, <2>1, <2>2, SMT DEF Printed3
  <2> QED BY <1>4, <1>8, <2>3, SMT
<1>11. PICK q \in Nat : q = (c + 1000) \div e
  BY <1>9, Quotient
<1>12. PICK p \in Nat : p = c \div e
  BY <1>9, Quotient
<1>13. PICK z \in Nat : z = 1000 \div e
  BY Quotient
<1>14. /\ e * q <= c + 1000 /\ c + 1000 < e * (q + 1) /\ e * p <= c /\ c < e * (p + 1)
       /\ e * z <= 1000 /\ 1000 < e * (z + 1)
  <2>1. c \in Nat /\ c + 1000 \in Nat
    BY <1>9, SMT
  <2>2. e * p <= c /\ c < e * (p + 1)
    BY <1>12, <2>1, Quotient
  <2>3. PICK b \in Nat : b = c + 1000
    BY <2>1
  <2>4. q = b \div e
    BY <1>11, <2>3
  <2>5. e * q <= b /\ b < e * (q + 1)
    BY <2>4, Quotient
  <2>6. e * z <= 1000 /\ 1000 < e * (z + 1)
    BY <1>13, Quotient, SMT
  <2> QED BY <2>2, <2>3, <2>5, <2>6, SMT
<1>15. h * (q - p) \in 4..14
  <2>1. Printed3(s, Base3(s, 4), 1000) = q - p
    BY <1>7, <1>9, <1>10, <1>11, <1>12, SMT DEF Printed3, H3!Requests
  <2> QED BY <1>4, <1>8, <2>1, SMT
<1>16. h = 1 \/ h = 2 \/ h = 3
  BY <1>8
<1>17. q - p >= 2 /\ q - p <= 14 /\ h * (q - p) <= 14
  BY <1>15, <1>16, SMT
<1>18. c = 0 \/ c = 3
  BY <1>9
<1>19. p = 0
  <2> SUFFICES ASSUME p # 0 PROVE FALSE
    OBVIOUS
  <2>1. e <= 3 /\ p <= 3
    BY <1>14, <1>18, SMT
  <2>2. e * (q + 1) <= 54
    BY <1>17, <2>1, SMT
  <2> QED BY <1>14, <1>18, <2>2, SMT
<1>20. e <= 501
  <2>1. q >= 2
    BY <1>17, <1>19, SMT
  <2>2. e * q >= 2 * e
    BY <2>1, SMT
  <2> QED BY <1>14, <1>18, <2>2, SMT
<1>21. z <= q
  <2> SUFFICES ASSUME z >= q + 1 PROVE FALSE
    OBVIOUS
  <2>1. e * z >= e * (q + 1)
    BY SMT
  <2> QED BY <1>14, <1>18, <2>1, SMT
<1>22. h * z <= 14
  BY <1>16, <1>17, <1>19, <1>21, SMT
<1>23. s.printEvery <= 501 /\ s.printsEach * (1000 \div s.printEvery) <= 14
  BY <1>7, <1>8, <1>13, <1>20, <1>22, SMT
<1>24. Len(s.format) \in {1, 3, 6}
  <2>1. s.format \in Seq(STRING)
    BY DEF H3!IsStudent
  <2> DEFINE g == [j \in DOMAIN s.format |-> H3!expected_arg_type(s.format[j])]
  <2>2. g = <<"Float", "Float", "Float">> \/ g = [j \in 1..6 |-> "Float"] \/ g = <<"Int16">>
    BY <1>4, Zenon DEF Types3, H3!expect_arg_types
  <2>3. DOMAIN <<"Float", "Float", "Float">> = 1..3 /\ DOMAIN <<"Int16">> = 1..1
    BY SMT
  <2>4. DOMAIN g = DOMAIN s.format
    OBVIOUS
  <2> HIDE DEF g
  <2>5. DOMAIN s.format = 1..3 \/ DOMAIN s.format = 1..6 \/ DOMAIN s.format = 1..1
    BY <2>2, <2>3, <2>4
  <2>6. PICK n \in Nat : n \in {1, 3, 6} /\ DOMAIN s.format = 1..n
    <3> SUFFICES \E n \in {1, 3, 6} : DOMAIN s.format = 1..n
      OBVIOUS
    <3> QED BY <2>5, Zenon
  <2>7. Len(s.format) = n
    BY <2>1, <2>6, DomainLength
  <2> QED BY <2>6, <2>7
<1> QED BY <1>2, <1>5, <1>6, <1>23, <1>24, SMT DEF H3!Sound

-----------------------------------------------------------------------------
(* The suite of HW4.                                                       *)

\* The fields of the machine of HW4.
Names4 == {"regs", "period", "DAT", "CMPA", "CMPB", "XintCount", "InterruptCount",
           "UARTPrint", "prints"}

\* The registers after the initialisation.
Regs4(s) == [s.init EXCEPT !["CpuTimer2"] = H4!TimerState(s.period)]

\* The structs whose fields the initialisation check of HW4 reads.
Read4(s) ==
  IF {"xint1_isr", "xint2_isr"} \subseteq s.missing
  THEN H4!FieldsRead \ {"PieVectTable"} ELSE H4!FieldsRead

\* The initialisation is what the first check asks for.
InitOk4(s) ==
  /\ \A n \in H4!Compared \cup Read4(s) : Regs4(s)[n] = "asked"
  /\ s.init["others"] = "zero"
  /\ {H4!Compare(s.servoA, 0), H4!Compare(s.servoB, 0)} \subseteq 2500..7500

\* The interrupt of a button and its counter are there, and a press adds one.
ButtonOk4(s, symbols) == symbols \cap s.missing = {} /\ s.xint \in {"always", "pressed"}

\* The program prints nothing in the 200 ticks, or two integers.
PrintOk4(s) ==
  /\ s.period # 0
  /\ \/ H4!Requests(0, 8000000 \div s.period, s.printEvery) = 0
     \/ H4!expect_arg_types(s.format, <<"Int32", "Int32">>)

\* What the checks of HW4 say of a program, whatever was run before.
Pass4(s, k) ==
  CASE k = 1 -> InitOk4(s)
    [] k = 2 -> "setEPWM8A_RCServo" \notin s.missing /\ H4!sweep_axis(s.servoA)
    [] k = 3 -> "setEPWM8B_RCServo" \notin s.missing /\ H4!sweep_axis(s.servoB)
    [] k = 4 -> ButtonOk4(s, {"xint1_isr", "Xint1Count"})
    [] k = 5 -> ButtonOk4(s, {"xint2_isr", "Xint2Count"})
    [] k = 6 -> PrintOk4(s)

\* The machine the later checks of HW4 start from.
After4(s) == H4!check_initialization(s, H4!PoweredUp).machine

\* The types of the machine of HW4 after the initialisation.
Typed4(s, m) ==
  /\ DOMAIN m = Names4 /\ m.regs = Regs4(s) /\ m.period = s.period
  /\ m.UARTPrint \in {0, 1} /\ m.prints \in Nat /\ m.InterruptCount \in Nat
  /\ m.XintCount \in [1..2 -> Nat]

\* A machine that k checks of HW4 may leave.
Reach4(s, k, m) == Typed4(s, m) /\ (k <= 5 => m.InterruptCount = 0)

\* The initialisation check of HW4; the machine it leaves is also one that any
\* number of checks may leave.
LEMMA Init4 ==
  ASSUME NEW s, H4!IsStudent(s)
  PROVE  LET o == H4!check_initialization(s, H4!PoweredUp) IN
         /\ o.ok <=> InitOk4(s)
         /\ \A k \in 1..6 : Reach4(s, k, o.machine)
<1> DEFINE o == H4!check_initialization(s, H4!PoweredUp)
           m == H4!PoweredUp
           before == H4!mark_as_used(H4!populate_all_zero(H4!ZeroChecked), H4!Used)
           started == H4!StudentInit(s, m)
           after == H4!register_comparison(before, H4!Wanted(H4!Compared))
           read == IF {"xint1_isr", "xint2_isr"} \subseteq s.missing
                   THEN H4!FieldsRead \ {"PieVectTable"} ELSE H4!FieldsRead
           ok == /\ H4!validate(before, m.regs) /\ H4!validate(after, started.regs)
                 /\ \A n \in read : started.regs[n] = "asked"
                 /\ {started.CMPA, started.CMPB} \subseteq 2500..7500
           a == H4!Compare(s.servoA, 0)
           b == H4!Compare(s.servoB, 0)
<1>1. o = [ok |-> ok, machine |-> started]
  <2>1. o = H4!Outcome(ok, started)
    BY SMT DEF H4!check_initialization
  <2> HIDE DEF ok, started, o
  <2> QED BY <2>1 DEF H4!Outcome
<1>2. /\ DOMAIN m = Names4 /\ m.regs = [n \in H4!Registers |-> "zero"]
      /\ m.UARTPrint = 0 /\ m.prints = 0 /\ m.InterruptCount = 0
      /\ m.XintCount \in [1..2 -> Nat]
  BY DEF H4!PoweredUp, Names4
<1>3. started = [m EXCEPT !.regs = Regs4(s), !.period = s.period, !.CMPA = a, !.CMPB = b]
  BY DEF H4!StudentInit, Regs4
<1> HIDE DEF m, started, a, b
<1>4. /\ DOMAIN started = Names4 /\ started.regs = Regs4(s) /\ started.period = s.period
      /\ started.UARTPrint = 0 /\ started.prints = 0 /\ started.InterruptCount = 0
      /\ started.XintCount \in [1..2 -> Nat] /\ started.CMPA = a /\ started.CMPB = b
  BY <1>2, <1>3 DEF Names4
<1>5. \A k \in 1..6 : Reach4(s, k, started)
  BY <1>4 DEF Reach4, Typed4
<1>6. before = [n \in H4!ZeroChecked \ H4!Used |-> H4!ByReference("zero")]
  BY DEF H4!mark_as_used, H4!populate_all_zero
<1>7. H4!validate(before, m.regs)
  <2>1. H4!ZeroChecked \subseteq H4!Registers
    BY DEF H4!Registers
  <2> HIDE DEF before
  <2> QED BY <1>2, <1>6, <2>1 DEF H4!validate, H4!Holds, H4!ByReference
<1>8. after = [n \in (H4!ZeroChecked \ H4!Used) \cup H4!Compared |->
                 IF n \in H4!Compared THEN H4!ByReference("asked") ELSE H4!ByReference("zero")]
  <2> HIDE DEF before
  <2>1. DOMAIN H4!Wanted(H4!Compared) = H4!Compared
        /\ \A n \in H4!Compared : H4!Wanted(H4!Compared)[n] = "asked"
    BY DEF H4!Wanted
  <2>2. DOMAIN before = H4!ZeroChecked \ H4!Used
        /\ \A n \in H4!ZeroChecked \ H4!Used : before[n] = H4!ByReference("zero")
    BY <1>6
  <2> QED BY <2>1, <2>2 DEF H4!register_comparison
<1>9. H4!validate(after, started.regs) <=>
        \A n \in (H4!ZeroChecked \ H4!Used) \cup H4!Compared :
          Regs4(s)[n] = IF n \in H4!Compared THEN "asked" ELSE "zero"
  <2> HIDE DEF after
  <2> QED BY <1>4, <1>8 DEF H4!validate, H4!Holds, H4!ByReference
<1>10. ok <=> InitOk4(s)
  <2>1. H4!ZeroChecked \ H4!Used = {"others"} /\ "others" \notin H4!Compared
    BY DEF H4!ZeroChecked, H4!Used, H4!FieldsRead, H4!Compared
  <2>2. ok <=> /\ H4!validate(after, started.regs)
               /\ \A n \in Read4(s) : Regs4(s)[n] = "asked"
               /\ {a, b} \subseteq 2500..7500
    BY <1>4, <1>7 DEF Read4
  <2>3. s.init \in [H4!Registers -> H4!RegisterStates] /\ "others" \in H4!Registers
    BY DEF H4!IsStudent, H4!Registers, H4!ZeroChecked
  <2>4. Regs4(s)["others"] = s.init["others"]
    BY <2>3 DEF Regs4
  <2>5. InitOk4(s) <=> /\ \A n \in H4!Compared \cup Read4(s) : Regs4(s)[n] = "asked"
                       /\ s.init["others"] = "zero" /\ {a, b} \subseteq 2500..7500
    BY DEF InitOk4, a, b
  <2> DEFINE R == {a, b} \subseteq 2500..7500
  <2> HIDE DEF ok, after, R
  <2> QED BY <1>9, <2>1, <2>2, <2>4, <2>5 DEF R
<1> HIDE DEF ok, o
<1>11. o.machine = started /\ (o.ok <=> ok)
  BY <1>1
<1> QED BY <1>5, <1>10, <1>11 DEF o

\* How many a press adds to the count of its button.
Adds4(s) == CASE s.xint = "released" -> 0 [] s.xint = "twice" -> 2 [] OTHER -> 1

\* A press adds one exactly when the edge the program reacts to is accepted.
LEMMA Adding4 ==
  ASSUME NEW s, H4!IsStudent(s)
  PROVE  /\ Adds4(s) \in {0, 1, 2}
         /\ Adds4(s) = 1 <=> s.xint \in {"always", "pressed"}
  BY SMT DEF Adds4, H4!IsStudent

\* The three calls of a button check, with the button pressed, released and pressed
\* as the check drives the pin.
LEMMA Press4 ==
  ASSUME NEW s, H4!IsStudent(s), NEW m, Typed4(s, m), NEW k \in 1..2, NEW p
  PROVE  LET x == H4!PressAndRelease(s, m, k, p) IN
         /\ Typed4(s, x) /\ x.InterruptCount = m.InterruptCount
         /\ x.XintCount[k] = m.XintCount[k] + Adds4(s)
<1> DEFINE b == H4!press_button(m, p)
           sees == CASE s.xint = "pressed" -> p \notin b.DAT
                     [] s.xint = "released" -> p \in b.DAT
                     [] OTHER -> TRUE
           new == m.XintCount[k] + Adds4(s)
           y == H4!xint_isr(s, b, k, p)
           x == H4!release_button(y, p)
           count == [m.XintCount EXCEPT ![k] = new]
<1>0. s.xint \in {"always", "pressed", "released", "twice"}
  BY DEF H4!IsStudent
<1>1. /\ DOMAIN b = Names4 /\ b.regs = m.regs /\ b.period = m.period /\ b.UARTPrint = m.UARTPrint
      /\ b.prints = m.prints /\ b.InterruptCount = m.InterruptCount
      /\ b.XintCount = m.XintCount /\ b.DAT = m.DAT \ {p}
  BY DEF H4!press_button, Typed4, Names4
<1>2. m.XintCount \in [1..2 -> Nat] /\ m.XintCount[k] \in Nat
  BY DEF Typed4
<1>3. y = [b EXCEPT !.XintCount[k] = IF ~sees THEN @
                                      ELSE IF s.xint = "twice" THEN @ + 2 ELSE @ + 1]
  BY DEF H4!xint_isr
<1> HIDE DEF b
<1>4. sees <=> s.xint # "released"
  <2>1. CASE s.xint = "released"
    BY <1>1, <2>1, SMT
  <2>2. CASE s.xint = "pressed"
    BY <1>1, <2>2, SMT
  <2>3. CASE s.xint \in {"always", "twice"}
    BY <2>3, SMT
  <2> QED BY <1>0, <2>1, <2>2, <2>3
<1> HIDE DEF sees
<1>5. (IF ~sees THEN b.XintCount[k] ELSE IF s.xint = "twice" THEN b.XintCount[k] + 2
         ELSE b.XintCount[k] + 1) = new
  BY <1>0, <1>1, <1>2, <1>4, SMT DEF Adds4
<1>6. new \in Nat
  BY <1>2, Adding4, SMT
<1> HIDE DEF new
<1>7. y = [b EXCEPT !.XintCount = count]
  BY <1>1, <1>3, <1>5
<1>8. count \in [1..2 -> Nat] /\ count[k] = new
  BY <1>2, <1>6
<1> HIDE DEF count, y
<1>9. /\ DOMAIN y = Names4 /\ y.regs = m.regs /\ y.period = m.period /\ y.UARTPrint = m.UARTPrint
      /\ y.prints = m.prints /\ y.InterruptCount = m.InterruptCount /\ y.XintCount = count
  BY <1>1, <1>7 DEF Names4
<1>10. x = [y EXCEPT !.DAT = @ \cup {p}]
  BY DEF H4!release_button
<1> HIDE DEF x
<1>11. /\ DOMAIN x = Names4 /\ x.regs = m.regs /\ x.period = m.period /\ x.UARTPrint = m.UARTPrint
       /\ x.prints = m.prints /\ x.InterruptCount = m.InterruptCount /\ x.XintCount = count
  BY <1>9, <1>10 DEF Names4
<1>12. H4!PressAndRelease(s, m, k, p) = x
  BY DEF H4!PressAndRelease, x, y, b
<1> QED BY <1>8, <1>11, <1>12 DEF Typed4, new

\* A button check of HW4.
LEMMA Button4 ==
  ASSUME NEW s, H4!IsStudent(s), NEW m, Reach4(s, 3, m), NEW k \in 1..2, NEW p, NEW symbols
  PROVE  LET o == H4!CheckButton(s, m, k, p, symbols) IN
         /\ Reach4(s, 5, o.machine)
         /\ o.ok <=> ButtonOk4(s, symbols)
<1> DEFINE o == H4!CheckButton(s, m, k, p, symbols)
           F(y) == H4!PressAndRelease(s, y, k, p)
           E(a) == a = [i \in 0..5 |-> IF i = 0 THEN m ELSE F(a[i - 1])]
           press == CHOOSE a : E(a)
           ok == press[5].XintCount[k] - m.XintCount[k] = 5
           x1 == F(m)
           x2 == F(x1)
           x3 == F(x2)
           x4 == F(x3)
           x5 == F(x4)
           g == [i \in 0..5 |-> CASE i = 0 -> m [] i = 1 -> x1 [] i = 2 -> x2
                                  [] i = 3 -> x3 [] i = 4 -> x4 [] i = 5 -> x5]
<1>0. Typed4(s, m) /\ m.InterruptCount = 0
  BY DEF Reach4
<1>1. CASE symbols \cap s.missing # {}
  <2>1. o = [ok |-> FALSE, machine |-> m]
    BY <1>1 DEF H4!CheckButton, H4!Outcome
  <2> HIDE DEF o
  <2>2. o.machine = m /\ ~o.ok
    BY <2>1
  <2> QED BY <1>0, <1>1, <2>2 DEF Reach4, ButtonOk4, o
<1>2. CASE symbols \cap s.missing = {}
  <2>1. o = [ok |-> ok, machine |-> press[5]]
    BY <1>2 DEF H4!CheckButton, H4!Outcome
  <2> HIDE DEF F
  <2>2. E(g)
    <3> HIDE DEF x1, x2, x3, x4, x5
    <3>1. /\ g[0] = m /\ g[1] = x1 /\ g[2] = x2 /\ g[3] = x3 /\ g[4] = x4 /\ g[5] = x5
      BY SMT
    <3>2. \A i \in 0..5 : g[i] = IF i = 0 THEN m ELSE F(g[i - 1])
      <4> TAKE i \in 0..5
      <4>1. i \in {0, 1, 2, 3, 4, 5}
        BY SMT
      <4>2. CASE i = 0
        BY <3>1, <4>2
      <4>3. CASE i = 1
        <5>1. i - 1 = 0
          BY <4>3
        <5> HIDE DEF g
        <5> QED BY <3>1, <4>3, <5>1 DEF x1
      <4>4. CASE i = 2
        <5>1. i - 1 = 1
          BY <4>4
        <5> HIDE DEF g
        <5> QED BY <3>1, <4>4, <5>1 DEF x2
      <4>5. CASE i = 3
        <5>1. i - 1 = 2
          BY <4>5
        <5> HIDE DEF g
        <5> QED BY <3>1, <4>5, <5>1 DEF x3
      <4>6. CASE i = 4
        <5>1. i - 1 = 3
          BY <4>6
        <5> HIDE DEF g
        <5> QED BY <3>1, <4>6, <5>1 DEF x4
      <4>7. CASE i = 5
        <5>1. i - 1 = 4
          BY <4>7
        <5> HIDE DEF g
        <5> QED BY <3>1, <4>7, <5>1 DEF x5
      <4> QED BY <4>1, <4>2, <4>3, <4>4, <4>5, <4>6, <4>7
    <3> QED BY <3>2
  <2>3. E(press)
    <3> HIDE DEF g
    <3> QED BY <2>2, Zenon
  <2> HIDE DEF press
  <2>4. press[0] = m /\ \A i \in 1..5 : press[i] = F(press[i - 1])
    BY <2>3
  <2> DEFINE a == Adds4(s)
             P(i) == /\ Typed4(s, press[i]) /\ press[i].InterruptCount = 0
                     /\ press[i].XintCount[k] = m.XintCount[k] + i * a
  <2>5. a \in {0, 1, 2} /\ (a = 1 <=> s.xint \in {"always", "pressed"})
    BY Adding4
  <2>6. m.XintCount[k] \in Nat
    BY <1>0 DEF Typed4
  <2>7. \A y : Typed4(s, y) => /\ Typed4(s, F(y)) /\ F(y).InterruptCount = y.InterruptCount
                               /\ F(y).XintCount[k] = y.XintCount[k] + a
    BY Press4 DEF F
  <2> HIDE DEF a
  <2>8. P(0)
    BY <1>0, <2>4, <2>5, <2>6, SMT
  <2>9. \A i \in 1..5 : P(i - 1) => P(i)
    <3> SUFFICES ASSUME NEW i \in 1..5, P(i - 1) PROVE P(i)
      OBVIOUS
    <3>1. press[i] = F(press[i - 1])
      BY <2>4
    <3>2. /\ Typed4(s, press[i]) /\ press[i].InterruptCount = 0
          /\ press[i].XintCount[k] = press[i - 1].XintCount[k] + a
      BY <2>7, <3>1
    <3>3. (m.XintCount[k] + (i - 1) * a) + a = m.XintCount[k] + i * a
      BY <2>5, <2>6, SMT
    <3> QED BY <3>2, <3>3
  <2> HIDE DEF P
  <2>10. P(5)
    <3>1. P(1)
      BY <2>8, <2>9, SMT
    <3>2. P(2)
      BY <3>1, <2>9, SMT
    <3>3. P(3)
      BY <3>2, <2>9, SMT
    <3>4. P(4)
      BY <3>3, <2>9, SMT
    <3> QED BY <3>4, <2>9, SMT
  <2>11. Reach4(s, 5, press[5])
    BY <2>10 DEF P, Reach4
  <2>12. ok <=> a = 1
    BY <2>5, <2>6, <2>10, SMT DEF P
  <2> HIDE DEF ok, o
  <2>13. o.machine = press[5] /\ (o.ok <=> ok)
    BY <2>1
  <2> QED BY <1>2, <2>5, <2>11, <2>12, <2>13 DEF ButtonOk4, o
<1> QED BY <1>1, <1>2

\* The format check of HW4.
LEMMA Print4 ==
  ASSUME NEW s, H4!IsStudent(s), NEW m, Reach4(s, 5, m)
  PROVE  LET o == H4!check_print_format(s, m) IN
         /\ Reach4(s, 6, o.machine)
         /\ o.ok <=> PrintOk4(s)
<1> DEFINE o == H4!check_print_format(s, m)
           reset == [m EXCEPT !.prints = 0, !.UARTPrint = 0]
           n == 8000000 \div m.period
           driven == H4!Drive(s, m, n)
           types == H4!expect_arg_types(s.format, <<"Int32", "Int32">>)
           ok == driven.prints = 0 \/ types
           p == H4!Requests(0, 8000000 \div s.period, s.printEvery)
<1>0. Typed4(s, m) /\ m.InterruptCount = 0 /\ m.period = s.period /\ DOMAIN m = Names4
  BY SMT DEF Reach4, Typed4
<1>1. CASE s.period = 0
  <2>1. o = [ok |-> FALSE, machine |-> reset]
    <3>1. o = H4!Outcome(FALSE, reset)
      BY <1>0, <1>1, SMT DEF H4!check_print_format
    <3> HIDE DEF o, reset
    <3> QED BY <3>1 DEF H4!Outcome
  <2>2. /\ DOMAIN reset = Names4 /\ reset.regs = m.regs /\ reset.period = m.period
        /\ reset.UARTPrint = 0 /\ reset.prints = 0 /\ reset.InterruptCount = m.InterruptCount
        /\ reset.XintCount = m.XintCount
    BY <1>0, SMT DEF Names4
  <2> HIDE DEF reset, o
  <2>3. Reach4(s, 6, reset)
    BY <1>0, <2>2, SMT DEF Reach4, Typed4
  <2>4. o.machine = reset /\ ~o.ok
    BY <2>1
  <2>5. ~PrintOk4(s)
    BY <1>1, SMT DEF PrintOk4
  <2> QED BY <2>3, <2>4, <2>5 DEF o
<1>2. CASE s.period # 0
  <2>0. n \in Nat /\ n = 8000000 \div s.period /\ p \in Nat
    <3>1. PICK d \in Nat \ {0} : d = s.period
      BY <1>2, SMT DEF H4!IsStudent
    <3>2. PICK e \in Nat \ {0} : e = s.printEvery
      BY SMT DEF H4!IsStudent
    <3>3. PICK q \in Nat : q = 8000000 \div d
      BY <3>1, SMT
    <3>4. H4!Requests(0, q, e) \in Nat
      <4>1. (0 + q) \div e - 0 \div e \in Nat
        BY QuotientGrows
      <4> QED BY <4>1 DEF H4!Requests
    <3> QED BY <1>0, <3>1, <3>2, <3>3, <3>4, SMT
  <2>1. o = [ok |-> ok, machine |-> driven]
    <3>1. o = H4!Outcome(ok, driven)
      BY <1>0, <1>2, SMT DEF H4!check_print_format
    <3> HIDE DEF o, ok, driven
    <3> QED BY <3>1 DEF H4!Outcome
  <2> HIDE DEF n
  <2>2. driven = [m EXCEPT !.InterruptCount = n, !.UARTPrint = 0, !.prints = p]
    <3>1. m.InterruptCount + n = n /\ H4!Requests(m.InterruptCount, n, s.printEvery) = p
      BY <1>0, <2>0, SMT
    <3> HIDE DEF p
    <3> QED BY <3>1 DEF H4!Drive
  <2> HIDE DEF driven, p
  <2>3. /\ DOMAIN driven = Names4 /\ driven.regs = m.regs /\ driven.period = m.period
        /\ driven.UARTPrint = 0 /\ driven.prints = p /\ driven.InterruptCount = n
        /\ driven.XintCount = m.XintCount
    BY <1>0, <2>2 DEF Names4
  <2>4. Reach4(s, 6, driven)
    BY <1>0, <2>0, <2>3, SMT DEF Reach4, Typed4
  <2>5. PrintOk4(s) <=> p = 0 \/ types
    BY <1>2, SMT DEF PrintOk4, p
  <2>6. ok <=> PrintOk4(s)
    BY <2>3, <2>5
  <2> HIDE DEF ok, o
  <2>7. o.machine = driven /\ (o.ok <=> ok)
    BY <2>1
  <2> QED BY <2>4, <2>6, <2>7 DEF o
<1> QED BY <1>1, <1>2, SMT

\* Every check of HW4: it leaves a machine that k checks may leave, and its verdict
\* is a function of the program alone.
LEMMA Check4 ==
  ASSUME NEW s, H4!IsStudent(s), NEW k \in 1..6, NEW m,
         k = 1 => m = H4!PoweredUp, k > 1 => Reach4(s, k - 1, m)
  PROVE  LET o == H4!Run(H4!checker[k], s, m) IN
         Reach4(s, k, o.machine) /\ (o.ok <=> Pass4(s, k))
<1> DEFINE o == H4!Run(H4!checker[k], s, m)
<1>1. CASE k = 1
  <2>1. o = H4!check_initialization(s, H4!PoweredUp)
    BY <1>1, SMT DEF H4!Run, H4!checker
  <2>2. Reach4(s, 1, o.machine) /\ (o.ok <=> InitOk4(s))
    BY <2>1, Init4
  <2> HIDE DEF o
  <2> QED BY <1>1, <2>2, SMT DEF Pass4, o
<1>2. CASE k = 2
  <2> DEFINE ok == "setEPWM8A_RCServo" \notin s.missing /\ H4!sweep_axis(s.servoA)
  <2>1. o = H4!check_setEPWM8A_RCServo(s, m)
    BY <1>2, SMT DEF H4!Run, H4!checker
  <2>2. o = [ok |-> ok, machine |-> m]
    BY <2>1, Zenon DEF H4!check_setEPWM8A_RCServo, H4!Outcome
  <2>3. Pass4(s, 2) <=> ok
    BY SMT DEF Pass4
  <2>4. Reach4(s, 2, m)
    BY <1>2, SMT DEF Reach4
  <2> HIDE DEF o, ok
  <2>5. o.machine = m /\ (o.ok <=> ok)
    BY <2>2
  <2> QED BY <1>2, <2>3, <2>4, <2>5, SMT DEF o
<1>3. CASE k = 3
  <2> DEFINE ok == "setEPWM8B_RCServo" \notin s.missing /\ H4!sweep_axis(s.servoB)
  <2>1. o = H4!check_setEPWM8B_RCServo(s, m)
    BY <1>3, SMT DEF H4!Run, H4!checker
  <2>2. o = [ok |-> ok, machine |-> m]
    BY <2>1, Zenon DEF H4!check_setEPWM8B_RCServo, H4!Outcome
  <2>3. Pass4(s, 3) <=> ok
    BY SMT DEF Pass4
  <2>4. Reach4(s, 3, m)
    BY <1>3, SMT DEF Reach4
  <2> HIDE DEF o, ok
  <2>5. o.machine = m /\ (o.ok <=> ok)
    BY <2>2
  <2> QED BY <1>3, <2>3, <2>4, <2>5, SMT DEF o
<1>4. CASE k \in {4, 5}
  <2>0. Reach4(s, 3, m)
    BY <1>4, SMT DEF Reach4
  <2>1. CASE k = 4
    <3>1. o = H4!CheckButton(s, m, 1, H4!PB3, {"xint1_isr", "Xint1Count"})
      BY <2>1, SMT DEF H4!Run, H4!checker, H4!check_xint1_button
    <3>2. Reach4(s, 5, o.machine) /\ (o.ok <=> ButtonOk4(s, {"xint1_isr", "Xint1Count"}))
      <4>1. 1 \in 1..2
        OBVIOUS
      <4> QED BY <2>0, <3>1, <4>1, Button4
    <3> HIDE DEF o
    <3>3. Pass4(s, 4) <=> ButtonOk4(s, {"xint1_isr", "Xint1Count"})
      BY SMT DEF Pass4
    <3>4. Reach4(s, 4, o.machine)
      BY <3>2, SMT DEF Reach4
    <3> QED BY <2>1, <3>2, <3>3, <3>4 DEF o
  <2>2. CASE k = 5
    <3>1. o = H4!CheckButton(s, m, 2, H4!PB4, {"xint2_isr", "Xint2Count"})
      BY <2>2, SMT DEF H4!Run, H4!checker, H4!check_xint2_button
    <3>2. Reach4(s, 5, o.machine) /\ (o.ok <=> ButtonOk4(s, {"xint2_isr", "Xint2Count"}))
      <4>1. 2 \in 1..2
        OBVIOUS
      <4> QED BY <2>0, <3>1, <4>1, Button4
    <3> HIDE DEF o
    <3>3. Pass4(s, 5) <=> ButtonOk4(s, {"xint2_isr", "Xint2Count"})
      BY SMT DEF Pass4
    <3> QED BY <2>2, <3>2, <3>3 DEF o
  <2> QED BY <1>4, <2>1, <2>2
<1>5. CASE k = 6
  <2>1. o = H4!check_print_format(s, m)
    BY <1>5, SMT DEF H4!Run, H4!checker
  <2>2. Reach4(s, 6, o.machine) /\ (o.ok <=> PrintOk4(s))
    BY <1>5, <2>1, Print4
  <2> HIDE DEF o
  <2> QED BY <1>5, <2>2, SMT DEF Pass4, o
<1> QED BY <1>1, <1>2, <1>3, <1>4, <1>5, SMT

\* The sweep of a servo function.
LEMMA Sweep4 ==
  ASSUME NEW v, H4!IsServo(v)
  PROVE  /\ H4!ServoAsAsked(v) => H4!sweep_axis(v) /\ H4!Compare(v, 0) \in 2500..7500
         /\ H4!sweep_axis(v) => /\ v.zero \in 4998..5002 /\ v.span \in 2496..2504
                                /\ v.limitsUp /\ v.limitsDown
<1>1. PICK z \in Int : z = v.zero
  BY DEF H4!IsServo
<1>2. PICK d \in Int : d = v.span
  BY DEF H4!IsServo
<1>3. v.limitsUp \in BOOLEAN /\ v.limitsDown \in BOOLEAN
  BY DEF H4!IsServo
<1>4. /\ H4!Compare(v, 0) = z + (0 * d) \div 90
      /\ H4!Compare(v, 45) = z + (45 * d) \div 90
      /\ H4!Compare(v, 90) = z + (90 * d) \div 90
      /\ H4!Compare(v, -90) = z + (-90 * d) \div 90
      /\ H4!Compare(v, 200) = z + (IF v.limitsUp THEN 90 * d ELSE 200 * d) \div 90
      /\ H4!Compare(v, -200) = z + (IF v.limitsDown THEN -90 * d ELSE -200 * d) \div 90
  BY <1>1, <1>2, <1>3, SMT DEF H4!Compare
<1>5. /\ DOMAIN H4!Sweep = {0, -90, 90, 200, -200, 45}
      /\ H4!Sweep[0] = 5000 /\ H4!Sweep[45] = 6250 /\ H4!Sweep[90] = 7500 /\ H4!Sweep[200] = 7500
      /\ H4!Sweep[-90] = 2500 /\ H4!Sweep[-200] = 2500
  BY SMT DEF H4!Sweep
<1>6. H4!sweep_axis(v) <=>
        /\ H4!Compare(v, 0) - 5000 \in -2..2 /\ H4!Compare(v, 45) - 6250 \in -2..2
        /\ H4!Compare(v, 90) - 7500 \in -2..2 /\ H4!Compare(v, 200) - 7500 \in -2..2
        /\ H4!Compare(v, -90) - 2500 \in -2..2 /\ H4!Compare(v, -200) - 2500 \in -2..2
  <2> DEFINE P(a) == H4!Compare(v, a) - H4!Sweep[a] \in -2..2
  <2>1. H4!sweep_axis(v) <=> \A a \in {0, -90, 90, 200, -200, 45} : P(a)
    BY <1>5 DEF H4!sweep_axis
  <2>2. /\ P(0) <=> H4!Compare(v, 0) - 5000 \in -2..2
        /\ P(45) <=> H4!Compare(v, 45) - 6250 \in -2..2
        /\ P(90) <=> H4!Compare(v, 90) - 7500 \in -2..2
        /\ P(200) <=> H4!Compare(v, 200) - 7500 \in -2..2
        /\ P(-90) <=> H4!Compare(v, -90) - 2500 \in -2..2
        /\ P(-200) <=> H4!Compare(v, -200) - 2500 \in -2..2
    BY <1>5, SMT
  <2> HIDE DEF P
  <2>3. (\A a \in {0, -90, 90, 200, -200, 45} : P(a)) <=>
          P(0) /\ P(45) /\ P(90) /\ P(200) /\ P(-90) /\ P(-200)
    BY SMT
  <2> QED BY <2>1, <2>2, <2>3, SMT
<1>7. ASSUME H4!ServoAsAsked(v) PROVE H4!sweep_axis(v) /\ H4!Compare(v, 0) \in 2500..7500
  <2>1. z = 5000 /\ d = 2500 /\ v.limitsUp /\ v.limitsDown
    BY <1>1, <1>2, <1>7, SMT DEF H4!ServoAsAsked
  <2>2. /\ H4!Compare(v, 0) = 5000 /\ H4!Compare(v, 45) = 6250 /\ H4!Compare(v, 90) = 7500
        /\ H4!Compare(v, 200) = 7500 /\ H4!Compare(v, -90) = 2500 /\ H4!Compare(v, -200) = 2500
    BY <1>4, <2>1, SMT
  <2> QED BY <1>6, <2>2, SMT
<1>8. ASSUME H4!sweep_axis(v)
      PROVE  /\ v.zero \in 4998..5002 /\ v.span \in 2496..2504
             /\ v.limitsUp /\ v.limitsDown
  <2>1. (0 * d) \div 90 = 0 /\ (90 * d) \div 90 = d
    BY SMT
  <2>2. z - 5000 \in -2..2 /\ z + d - 7500 \in -2..2
    BY <1>4, <1>6, <1>8, <2>1, SMT
  <2>3. z \in 4998..5002 /\ d \in 2496..2504
    BY <2>2, SMT
  <2>4. v.limitsUp
    <3> SUFFICES ASSUME ~v.limitsUp PROVE FALSE
      OBVIOUS
    <3>1. z + (200 * d) \div 90 - 7500 \in -2..2
      BY <1>4, <1>6, <1>8, SMT
    <3> QED BY <2>3, <3>1, SMT
  <2>5. v.limitsDown
    <3> SUFFICES ASSUME ~v.limitsDown PROVE FALSE
      OBVIOUS
    <3>1. z + (-200 * d) \div 90 - 2500 \in -2..2
      BY <1>4, <1>6, <1>8, SMT
    <3> QED BY <2>3, <3>1, SMT
  <2> QED BY <1>1, <1>2, <2>3, <2>4, <2>5, SMT
<1> QED BY <1>7, <1>8

\* The period is the one asked for exactly when the timer's register says so.
LEMMA Asked4 ==
  ASSUME NEW s, H4!IsStudent(s)
  PROVE  /\ \A n \in (H4!Compared \cup H4!FieldsRead) \ {"CpuTimer2"} : Regs4(s)[n] = s.init[n]
         /\ Regs4(s)["CpuTimer2"] = "asked" <=> s.period = 40000
<1>1. s.init \in [H4!Registers -> H4!RegisterStates]
  BY DEF H4!IsStudent
<1>2. H4!Compared \cup H4!FieldsRead \subseteq H4!Registers /\ "CpuTimer2" \in H4!Registers
  BY DEF H4!Registers, H4!ZeroChecked, H4!Used, H4!Compared, H4!FieldsRead
<1>3. \A n \in (H4!Compared \cup H4!FieldsRead) \ {"CpuTimer2"} : Regs4(s)[n] = s.init[n]
  BY <1>1, <1>2 DEF Regs4
<1>4. Regs4(s)["CpuTimer2"] = H4!TimerState(s.period)
  BY <1>1, <1>2 DEF Regs4
<1>5. H4!TimerState(s.period) = "asked" <=> s.period = 40000
  BY SMT DEF H4!TimerState
<1> QED BY <1>3, <1>4, <1>5, SMT

\* A program that does what HW4's comments ask passes each check of HW4.
LEMMA Conforming4 ==
  ASSUME NEW s, H4!IsStudent(s), H4!Conforms(s), NEW k \in 1..6
  PROVE  Pass4(s, k)
<1>1. /\ s.missing = {} /\ H4!InitAsAsked(s) /\ H4!ServoAsAsked(s.servoA)
      /\ H4!ServoAsAsked(s.servoB)
      /\ s.xint \in {"always", "pressed"} /\ s.format = <<"%ld", "%ld">>
  BY SMT DEF H4!Conforms
<1>2. s.period = 40000 /\ s.init["others"] = "zero"
      /\ \A n \in (H4!Compared \cup H4!FieldsRead) \ {"CpuTimer2"} : s.init[n] = "asked"
  BY <1>1, SMT DEF H4!InitAsAsked
<1>3. /\ H4!sweep_axis(s.servoA) /\ H4!sweep_axis(s.servoB)
      /\ {H4!Compare(s.servoA, 0), H4!Compare(s.servoB, 0)} \subseteq 2500..7500
  <2>1. H4!IsServo(s.servoA) /\ H4!IsServo(s.servoB)
    BY DEF H4!IsStudent
  <2> QED BY <1>1, <2>1, Sweep4, SMT
<1>4. InitOk4(s)
  <2>1. Regs4(s)["CpuTimer2"] = "asked"
    BY <1>2, Asked4
  <2>2. \A n \in (H4!Compared \cup H4!FieldsRead) \ {"CpuTimer2"} : Regs4(s)[n] = "asked"
    BY <1>2, Asked4
  <2>3. Read4(s) \subseteq H4!FieldsRead
    BY DEF Read4
  <2> QED BY <1>2, <1>3, <2>1, <2>2, <2>3, SMT DEF InitOk4
<1>5. PrintOk4(s)
  <2>1. H4!expect_arg_types(s.format, <<"Int32", "Int32">>)
    BY <1>1, SMT DEF H4!expect_arg_types, H4!expected_arg_type
  <2> QED BY <1>2, <2>1, SMT DEF PrintOk4
<1>6. ButtonOk4(s, {"xint1_isr", "Xint1Count"}) /\ ButtonOk4(s, {"xint2_isr", "Xint2Count"})
  BY <1>1 DEF ButtonOk4
<1>7. CASE k = 1
  BY <1>4, <1>7, SMT DEF Pass4
<1>8. CASE k = 2
  BY <1>1, <1>3, <1>8, SMT DEF Pass4
<1>9. CASE k = 3
  BY <1>1, <1>3, <1>9, SMT DEF Pass4
<1>10. CASE k = 4
  BY <1>6, <1>10, SMT DEF Pass4
<1>11. CASE k = 5
  BY <1>6, <1>11, SMT DEF Pass4
<1>12. CASE k = 6
  BY <1>5, <1>12, SMT DEF Pass4
<1> QED BY <1>7, <1>8, <1>9, <1>10, <1>11, <1>12, SMT

\* A program that passes every check of HW4 has none of the mistakes of Sound.
LEMMA Sound4 ==
  ASSUME NEW s, H4!IsStudent(s), \A k \in 1..6 : Pass4(s, k)
  PROVE  H4!Sound(s)
<1>1. /\ InitOk4(s) /\ PrintOk4(s)
      /\ "setEPWM8A_RCServo" \notin s.missing /\ H4!sweep_axis(s.servoA)
      /\ "setEPWM8B_RCServo" \notin s.missing /\ H4!sweep_axis(s.servoB)
      /\ ButtonOk4(s, {"xint1_isr", "Xint1Count"}) /\ ButtonOk4(s, {"xint2_isr", "Xint2Count"})
  <2>1. Pass4(s, 1) /\ Pass4(s, 2) /\ Pass4(s, 3) /\ Pass4(s, 4) /\ Pass4(s, 5) /\ Pass4(s, 6)
    BY SMT
  <2> QED BY <2>1, SMT DEF Pass4
<1>2. s.missing = {} /\ s.xint \in {"always", "pressed"}
  BY <1>1, SMT DEF ButtonOk4, H4!IsStudent, H4!Symbols
<1>3. H4!InitAsAsked(s)
  <2>1. Read4(s) = H4!FieldsRead
    BY <1>2 DEF Read4
  <2>2. \A n \in H4!Compared \cup H4!FieldsRead : Regs4(s)[n] = "asked"
    BY <1>1, <2>1, SMT DEF InitOk4
  <2>3. s.init["others"] = "zero"
    BY <1>1, SMT DEF InitOk4
  <2>4. s.period = 40000
    <3>1. "CpuTimer2" \in H4!Compared
      BY DEF H4!Compared
    <3> QED BY <2>2, <3>1, Asked4, SMT
  <2>5. \A n \in (H4!Compared \cup H4!FieldsRead) \ {"CpuTimer2"} : s.init[n] = "asked"
    BY <2>2, Asked4, SMT
  <2> QED BY <2>3, <2>4, <2>5, SMT DEF H4!InitAsAsked
<1>4. \A v \in {s.servoA, s.servoB} :
        /\ v.zero \in 4998..5002 /\ v.span \in 2496..2504
        /\ v.limitsUp /\ v.limitsDown
  <2>1. H4!IsServo(s.servoA) /\ H4!IsServo(s.servoB)
    BY DEF H4!IsStudent
  <2> QED BY <1>1, <2>1, Sweep4, SMT
<1>5. ASSUME s.printEvery <= 200 PROVE Len(s.format) = 2
  <2>1. PICK e \in Nat \ {0} : e = s.printEvery
    BY DEF H4!IsStudent
  <2>2. 8000000 \div s.period = 200
    BY <1>3, SMT DEF H4!InitAsAsked
  <2>3. H4!Requests(0, 200, e) # 0
    <3>1. PICK q \in Nat : q = 200 \div e
      BY Quotient
    <3>2. 200 < e * (q + 1)
      BY <3>1, Quotient, SMT
    <3>3. q # 0
      BY <1>5, <2>1, <3>2, SMT
    <3> QED BY <3>1, <3>3, SMT DEF H4!Requests
  <2>4. H4!expect_arg_types(s.format, <<"Int32", "Int32">>)
    BY <1>1, <2>1, <2>2, <2>3, SMT DEF PrintOk4
  <2>5. DOMAIN s.format = 1..2
    <3> DEFINE g == [j \in DOMAIN s.format |-> H4!expected_arg_type(s.format[j])]
    <3>1. g = <<"Int32", "Int32">>
      BY <2>4, Zenon DEF H4!expect_arg_types
    <3>2. DOMAIN <<"Int32", "Int32">> = 1..2
      BY SMT
    <3>3. DOMAIN g = DOMAIN s.format
      OBVIOUS
    <3> HIDE DEF g
    <3> QED BY <3>1, <3>2, <3>3
  <2>6. s.format \in Seq(STRING)
    BY DEF H4!IsStudent
  <2>7. PICK n \in Nat : n = 2
    OBVIOUS
  <2>8. Len(s.format) = n
    BY <2>5, <2>6, <2>7, DomainLength
  <2> QED BY <2>7, <2>8
<1> QED BY <1>2, <1>3, <1>4, <1>5, SMT DEF H4!Sound

-----------------------------------------------------------------------------
(* The suite of HW5.                                                       *)

\* The fields of the machine of HW5.
Names5 == {"regs", "period", "CMPA", "CMPB", "DMAcount", "pingFFT", "pongFFT", "iPingPong",
           "InterruptCount", "UARTPrint", "prints"}

\* The registers after the initialisation.
Regs5(s) == [s.init EXCEPT !["CpuTimer2"] = H5!TimerState(s.period)]

\* The structs whose fields the initialisation check of HW5 reads.
Read5(s) ==
  IF {"DMA_isr", "ADCA_isr"} \subseteq s.missing
  THEN H5!FieldsRead \ {"PieVectTable"} ELSE H5!FieldsRead

\* The initialisation is what the first check asks for.
InitOk5(s) ==
  /\ \A n \in H5!Compared \cup Read5(s) : Regs5(s)[n] = "asked"
  /\ s.init["others"] = "zero"

\* The servo functions carried over from HW4 are there and limited.
ServosOk5(s) ==
  /\ {"setEPWM8A_RCServo", "setEPWM8B_RCServo"} \cap s.missing = {}
  /\ H5!sweep_axis(s.servoA) /\ H5!sweep_axis(s.servoB)

\* The DMA interrupt counts, and fills one of the buffers.
SwapOk5(s) ==
  /\ "DMA_isr" \notin s.missing
  /\ "DMAcount" \in s.missing \/ s.counts
  /\ {"pingFFT", "pongFFT"} \cap s.missing # {} \/ s.dma # "never"

\* The arguments of the prints have one of the accepted lists of types.
Types5(s) ==
  \/ H5!expect_arg_types(s.format, <<"Float", "Float">>)
  \/ H5!expect_arg_types(s.format, [j \in 1..4 |-> "Float"])

\* The program prints nothing in the 200 ticks, or one of those lists.
PrintOk5(s) ==
  /\ s.period # 0
  /\ H5!Requests(0, 8000000 \div s.period, s.printEvery) = 0 \/ Types5(s)

\* What the checks of HW5 say of a program, whatever was run before.
Pass5(s, k) ==
  CASE k = 1 -> InitOk5(s)
    [] k = 2 -> ServosOk5(s)
    [] k = 3 -> SwapOk5(s)
    [] k = 4 -> PrintOk5(s)

\* The machine the later checks of HW5 start from.
After5(s) == H5!check_initialization(s, H5!PoweredUp).machine

\* The types of the machine of HW5 after the initialisation.
Typed5(s, m) ==
  /\ DOMAIN m = Names5 /\ m.regs = Regs5(s) /\ m.period = s.period
  /\ m.UARTPrint \in {0, 1} /\ m.prints \in Nat /\ m.InterruptCount \in Nat

\* A machine that k checks of HW5 may leave.
Reach5(s, k, m) ==
  /\ Typed5(s, m)
  /\ k <= 3 => m.InterruptCount = 0
  /\ k <= 2 => m.DMAcount = 0 /\ m.pingFFT = 0 /\ m.pongFFT = 0 /\ m.iPingPong = 0

\* The initialisation check of HW5; the machine it leaves is also one that any
\* number of checks may leave.
LEMMA Init5 ==
  ASSUME NEW s, H5!IsStudent(s)
  PROVE  LET o == H5!check_initialization(s, H5!PoweredUp) IN
         /\ o.ok <=> InitOk5(s)
         /\ \A k \in 1..4 : Reach5(s, k, o.machine)
<1> DEFINE o == H5!check_initialization(s, H5!PoweredUp)
           m == H5!PoweredUp
           before == H5!mark_as_used(H5!populate_all_zero(H5!ZeroChecked), H5!Used)
           started == H5!StudentInit(s, m)
           after == H5!register_comparison(before, H5!Wanted(H5!Compared))
           read == IF {"DMA_isr", "ADCA_isr"} \subseteq s.missing
                   THEN H5!FieldsRead \ {"PieVectTable"} ELSE H5!FieldsRead
           ok == /\ H5!validate(before, m.regs) /\ H5!validate(after, started.regs)
                 /\ \A n \in read : started.regs[n] = "asked"
           a == H5!Compare(s.servoA, 0)
           b == H5!Compare(s.servoB, 0)
<1>1. o = [ok |-> ok, machine |-> started]
  <2>1. o = H5!Outcome(ok, started)
    BY SMT DEF H5!check_initialization
  <2> HIDE DEF ok, started, o
  <2> QED BY <2>1 DEF H5!Outcome
<1>2. /\ DOMAIN m = Names5 /\ m.regs = [n \in H5!Registers |-> "zero"]
      /\ m.UARTPrint = 0 /\ m.prints = 0 /\ m.InterruptCount = 0
      /\ m.DMAcount = 0 /\ m.pingFFT = 0 /\ m.pongFFT = 0 /\ m.iPingPong = 0
  BY DEF H5!PoweredUp, Names5
<1>3. started = [m EXCEPT !.regs = Regs5(s), !.period = s.period, !.CMPA = a, !.CMPB = b]
  BY DEF H5!StudentInit, Regs5
<1> HIDE DEF m, started, a, b
<1>4. /\ DOMAIN started = Names5 /\ started.regs = Regs5(s) /\ started.period = s.period
      /\ started.UARTPrint = 0 /\ started.prints = 0 /\ started.InterruptCount = 0
      /\ started.DMAcount = 0 /\ started.pingFFT = 0 /\ started.pongFFT = 0
      /\ started.iPingPong = 0
  BY <1>2, <1>3 DEF Names5
<1>5. \A k \in 1..4 : Reach5(s, k, started)
  BY <1>4 DEF Reach5, Typed5
<1>6. before = [n \in H5!ZeroChecked \ H5!Used |-> H5!ByReference("zero")]
  BY DEF H5!mark_as_used, H5!populate_all_zero
<1>7. H5!validate(before, m.regs)
  <2>1. H5!ZeroChecked \subseteq H5!Registers
    BY DEF H5!Registers
  <2> HIDE DEF before
  <2> QED BY <1>2, <1>6, <2>1 DEF H5!validate, H5!Holds, H5!ByReference
<1>8. after = [n \in (H5!ZeroChecked \ H5!Used) \cup H5!Compared |->
                 IF n \in H5!Compared THEN H5!ByReference("asked") ELSE H5!ByReference("zero")]
  <2> HIDE DEF before
  <2>1. DOMAIN H5!Wanted(H5!Compared) = H5!Compared
        /\ \A n \in H5!Compared : H5!Wanted(H5!Compared)[n] = "asked"
    BY DEF H5!Wanted
  <2>2. DOMAIN before = H5!ZeroChecked \ H5!Used
        /\ \A n \in H5!ZeroChecked \ H5!Used : before[n] = H5!ByReference("zero")
    BY <1>6
  <2> QED BY <2>1, <2>2 DEF H5!register_comparison
<1>9. H5!validate(after, started.regs) <=>
        \A n \in (H5!ZeroChecked \ H5!Used) \cup H5!Compared :
          Regs5(s)[n] = IF n \in H5!Compared THEN "asked" ELSE "zero"
  <2> HIDE DEF after
  <2> QED BY <1>4, <1>8 DEF H5!validate, H5!Holds, H5!ByReference
<1>10. ok <=> InitOk5(s)
  <2>1. H5!ZeroChecked \ H5!Used = {"others"} /\ "others" \notin H5!Compared
    BY DEF H5!ZeroChecked, H5!Used, H5!FieldsRead, H5!Compared
  <2>2. ok <=> /\ H5!validate(after, started.regs)
               /\ \A n \in Read5(s) : Regs5(s)[n] = "asked"
    BY <1>4, <1>7 DEF Read5
  <2>3. s.init \in [H5!Registers -> H5!RegisterStates] /\ "others" \in H5!Registers
    BY DEF H5!IsStudent, H5!Registers, H5!ZeroChecked
  <2>4. Regs5(s)["others"] = s.init["others"]
    BY <2>3 DEF Regs5
  <2>5. InitOk5(s) <=> /\ \A n \in H5!Compared \cup Read5(s) : Regs5(s)[n] = "asked"
                       /\ s.init["others"] = "zero"
    BY DEF InitOk5
  <2> HIDE DEF ok, after
  <2> QED BY <1>9, <2>1, <2>2, <2>4, <2>5
<1> HIDE DEF ok, o
<1>11. o.machine = started /\ (o.ok <=> ok)
  BY <1>1
<1> QED BY <1>5, <1>10, <1>11 DEF o

\* One transfer: counted if the program counts, and a buffer is handed over
\* unless the program never does.
LEMMA Dma5 ==
  ASSUME NEW s, H5!IsStudent(s), NEW m, DOMAIN m = Names5, m.DMAcount \in Nat,
         m.pingFFT \in {0, 1}, m.pongFFT \in {0, 1}, m.iPingPong \in {0, 1}
  PROVE  LET x == H5!DMA_isr(s, m) IN
         /\ DOMAIN x = Names5 /\ x.regs = m.regs /\ x.period = m.period
         /\ x.UARTPrint = m.UARTPrint /\ x.prints = m.prints /\ x.InterruptCount = m.InterruptCount
         /\ x.DMAcount = m.DMAcount + (IF s.counts THEN 1 ELSE 0)
         /\ x.pingFFT \in {0, 1} /\ x.pongFFT \in {0, 1} /\ x.iPingPong \in {0, 1}
         /\ s.dma = "never" => x.pingFFT = m.pingFFT /\ x.pongFFT = m.pongFFT
         /\ s.dma # "never" => x.pingFFT = 1 \/ x.pongFFT = 1
<1> DEFINE ping == CASE s.dma = "alternates" -> m.iPingPong = 0
                     [] OTHER -> s.dma \in {"pingOnly", "both"}
           pong == CASE s.dma = "alternates" -> m.iPingPong = 1
                     [] OTHER -> s.dma \in {"pongOnly", "both"}
           c == m.DMAcount + (IF s.counts THEN 1 ELSE 0)
           f == IF ping THEN 1 ELSE m.pingFFT
           g == IF pong THEN 1 ELSE m.pongFFT
           i == IF s.dma = "alternates" THEN 1 - m.iPingPong ELSE m.iPingPong
           x == H5!DMA_isr(s, m)
<1>0. s.counts \in BOOLEAN /\ s.dma \in {"alternates", "pingOnly", "pongOnly", "both", "never"}
  BY DEF H5!IsStudent
<1>1. x = [m EXCEPT !.DMAcount = IF s.counts THEN @ + 1 ELSE @, !.pingFFT = IF ping THEN 1 ELSE @,
                    !.pongFFT = IF pong THEN 1 ELSE @,
                    !.iPingPong = IF s.dma = "alternates" THEN 1 - @ ELSE @]
  BY DEF H5!DMA_isr
<1>2. (IF s.counts THEN m.DMAcount + 1 ELSE m.DMAcount) = c
  BY <1>0
<1>3. /\ s.dma = "never" => ~ping /\ ~pong
      /\ s.dma # "never" => ping \/ pong
  <2>1. CASE s.dma = "alternates"
    BY <2>1, SMT
  <2>2. CASE s.dma = "pingOnly"
    BY <2>2, SMT
  <2>3. CASE s.dma = "pongOnly"
    BY <2>3, SMT
  <2>4. CASE s.dma = "both"
    BY <2>4, SMT
  <2>5. CASE s.dma = "never"
    BY <2>5, SMT
  <2> QED BY <1>0, <2>1, <2>2, <2>3, <2>4, <2>5
<1> HIDE DEF ping, pong, c
<1>4. f \in {0, 1} /\ g \in {0, 1} /\ i \in {0, 1}
      /\ (s.dma = "never" => f = m.pingFFT /\ g = m.pongFFT)
      /\ (s.dma # "never" => f = 1 \/ g = 1)
  BY <1>3
<1> HIDE DEF f, g, i
<1>5. x = [m EXCEPT !.DMAcount = c, !.pingFFT = f, !.pongFFT = g, !.iPingPong = i]
  BY <1>1, <1>2 DEF f, g, i
<1> HIDE DEF x
<1>6. /\ DOMAIN x = Names5 /\ x.regs = m.regs /\ x.period = m.period
      /\ x.UARTPrint = m.UARTPrint /\ x.prints = m.prints /\ x.InterruptCount = m.InterruptCount
      /\ x.DMAcount = c /\ x.pingFFT = f /\ x.pongFFT = g /\ x.iPingPong = i
  BY <1>5 DEF Names5
<1> QED BY <1>4, <1>6 DEF x, c

\* The ping-pong check of HW5.
LEMMA Swap5 ==
  ASSUME NEW s, H5!IsStudent(s), NEW m, Reach5(s, 2, m)
  PROVE  LET o == H5!check_pingpong_swap(s, m) IN
         /\ Reach5(s, 3, o.machine)
         /\ o.ok <=> SwapOk5(s)
<1> DEFINE o == H5!check_pingpong_swap(s, m)
           zeroed == H5!Zeroed(s, m)
           once == H5!DMA_isr(s, zeroed)
           twice == H5!DMA_isr(s, once)
           after == H5!DMA_isr(s, twice)
           x == H5!Restored(s, after, m)
           ok == /\ "DMAcount" \in s.missing \/ after.DMAcount = 3
                 /\ \/ {"pingFFT", "pongFFT"} \cap s.missing # {}
                    \/ after.pingFFT = 1 \/ after.pongFFT = 1
           d == IF s.counts THEN 1 ELSE 0
<1>0. /\ Typed5(s, m) /\ m.InterruptCount = 0 /\ m.DMAcount = 0 /\ m.pingFFT = 0
      /\ m.pongFFT = 0 /\ m.iPingPong = 0 /\ DOMAIN m = Names5
  BY SMT DEF Reach5, Typed5
<1>1. CASE "DMA_isr" \in s.missing
  <2>1. o = [ok |-> FALSE, machine |-> m]
    <3>1. o = H5!Outcome(FALSE, m)
      BY <1>1 DEF H5!check_pingpong_swap
    <3> HIDE DEF o
    <3> QED BY <3>1 DEF H5!Outcome
  <2> HIDE DEF o
  <2>2. o.machine = m /\ ~o.ok
    BY <2>1
  <2>3. Reach5(s, 3, m)
    BY <1>0, SMT DEF Reach5
  <2> QED BY <1>1, <2>2, <2>3 DEF SwapOk5, o
<1>2. CASE "DMA_isr" \notin s.missing
  <2>1. o = [ok |-> ok, machine |-> x]
    <3>1. o = H5!Outcome(ok, x)
      BY <1>2 DEF H5!check_pingpong_swap
    <3> HIDE DEF o, ok, x
    <3> QED BY <3>1 DEF H5!Outcome
  <2>2. /\ DOMAIN zeroed = Names5 /\ zeroed.regs = m.regs /\ zeroed.period = m.period
        /\ zeroed.UARTPrint = m.UARTPrint /\ zeroed.prints = m.prints
        /\ zeroed.InterruptCount = m.InterruptCount
        /\ zeroed.DMAcount = 0 /\ zeroed.pingFFT = 0 /\ zeroed.pongFFT = 0 /\ zeroed.iPingPong = 0
    BY <1>0 DEF H5!Zeroed, Names5
  <2> HIDE DEF zeroed
  <2>3. /\ DOMAIN once = Names5 /\ once.regs = m.regs /\ once.period = m.period
        /\ once.UARTPrint = m.UARTPrint /\ once.prints = m.prints
        /\ once.InterruptCount = m.InterruptCount
        /\ once.DMAcount = d
        /\ once.pingFFT \in {0, 1} /\ once.pongFFT \in {0, 1} /\ once.iPingPong \in {0, 1}
        /\ s.dma = "never" => once.pingFFT = 0 /\ once.pongFFT = 0
    <3>1. zeroed.DMAcount \in Nat /\ zeroed.pingFFT \in {0, 1} /\ zeroed.pongFFT \in {0, 1}
          /\ zeroed.iPingPong \in {0, 1}
      BY <2>2
    <3>2. once.DMAcount = zeroed.DMAcount + d
      BY <2>2, <3>1, Dma5
    <3>3. zeroed.DMAcount + d = d
      BY <2>2
    <3>4. /\ DOMAIN once = Names5 /\ once.regs = zeroed.regs /\ once.period = zeroed.period
          /\ once.UARTPrint = zeroed.UARTPrint /\ once.prints = zeroed.prints
          /\ once.InterruptCount = zeroed.InterruptCount
          /\ once.pingFFT \in {0, 1} /\ once.pongFFT \in {0, 1} /\ once.iPingPong \in {0, 1}
          /\ s.dma = "never" => once.pingFFT = zeroed.pingFFT /\ once.pongFFT = zeroed.pongFFT
      BY <2>2, <3>1, Dma5
    <3> HIDE DEF once, d
    <3> QED BY <2>2, <3>2, <3>3, <3>4
  <2> HIDE DEF once
  <2>4. /\ DOMAIN twice = Names5 /\ twice.regs = m.regs /\ twice.period = m.period
        /\ twice.UARTPrint = m.UARTPrint /\ twice.prints = m.prints
        /\ twice.InterruptCount = m.InterruptCount
        /\ twice.DMAcount = 2 * d
        /\ twice.pingFFT \in {0, 1} /\ twice.pongFFT \in {0, 1} /\ twice.iPingPong \in {0, 1}
        /\ s.dma = "never" => twice.pingFFT = 0 /\ twice.pongFFT = 0
    <3>1. once.DMAcount \in Nat
      BY <2>3
    <3>2. twice.DMAcount = once.DMAcount + d
      BY <2>3, <3>1, Dma5
    <3>3. once.DMAcount + d = 2 * d
      BY <2>3
    <3>4. /\ DOMAIN twice = Names5 /\ twice.regs = once.regs /\ twice.period = once.period
          /\ twice.UARTPrint = once.UARTPrint /\ twice.prints = once.prints
          /\ twice.InterruptCount = once.InterruptCount
          /\ twice.pingFFT \in {0, 1} /\ twice.pongFFT \in {0, 1} /\ twice.iPingPong \in {0, 1}
          /\ s.dma = "never" => twice.pingFFT = once.pingFFT /\ twice.pongFFT = once.pongFFT
      BY <2>3, <3>1, Dma5
    <3> HIDE DEF twice, d
    <3> QED BY <2>3, <3>2, <3>3, <3>4
  <2> HIDE DEF twice
  <2>5. /\ DOMAIN after = Names5 /\ after.regs = m.regs /\ after.period = m.period
        /\ after.UARTPrint = m.UARTPrint /\ after.prints = m.prints
        /\ after.InterruptCount = m.InterruptCount
        /\ after.DMAcount = 3 * d
        /\ s.dma = "never" => after.pingFFT = 0 /\ after.pongFFT = 0
        /\ s.dma # "never" => after.pingFFT = 1 \/ after.pongFFT = 1
    <3>1. twice.DMAcount \in Nat
      BY <2>4
    <3>2. after.DMAcount = twice.DMAcount + d
      BY <2>4, <3>1, Dma5
    <3>3. twice.DMAcount + d = 3 * d
      BY <2>4
    <3>4. /\ DOMAIN after = Names5 /\ after.regs = twice.regs /\ after.period = twice.period
          /\ after.UARTPrint = twice.UARTPrint /\ after.prints = twice.prints
          /\ after.InterruptCount = twice.InterruptCount
          /\ s.dma = "never" => after.pingFFT = twice.pingFFT /\ after.pongFFT = twice.pongFFT
          /\ s.dma # "never" => after.pingFFT = 1 \/ after.pongFFT = 1
      BY <2>4, <3>1, Dma5
    <3> HIDE DEF after, d
    <3> QED BY <2>4, <3>2, <3>3, <3>4
  <2> HIDE DEF after
  <2>6. /\ DOMAIN x = Names5 /\ x.regs = m.regs /\ x.period = m.period
        /\ x.UARTPrint = m.UARTPrint /\ x.prints = m.prints /\ x.InterruptCount = m.InterruptCount
    BY <2>5 DEF H5!Restored, Names5
  <2> HIDE DEF x
  <2>7. Reach5(s, 3, x)
    BY <1>0, <2>6, SMT DEF Reach5, Typed5
  <2>8. ok <=> SwapOk5(s)
    <3>1. s.counts \in BOOLEAN
      BY DEF H5!IsStudent
    <3>2. after.DMAcount = 3 <=> s.counts
      BY <2>5, <3>1
    <3>3. (after.pingFFT = 1 \/ after.pongFFT = 1) <=> s.dma # "never"
      BY <2>5
    <3> QED BY <1>2, <3>2, <3>3 DEF SwapOk5
  <2> HIDE DEF ok, o
  <2>9. o.machine = x /\ (o.ok <=> ok)
    BY <2>1
  <2> QED BY <2>7, <2>8, <2>9 DEF o
<1> QED BY <1>1, <1>2

\* The format check of HW5.
LEMMA Print5 ==
  ASSUME NEW s, H5!IsStudent(s), NEW m, Reach5(s, 3, m)
  PROVE  LET o == H5!check_print_format(s, m) IN
         /\ Reach5(s, 4, o.machine)
         /\ o.ok <=> PrintOk5(s)
<1> DEFINE o == H5!check_print_format(s, m)
           reset == [m EXCEPT !.prints = 0, !.UARTPrint = 0]
           n == 8000000 \div m.period
           driven == H5!Drive(s, m, n)
           types == Types5(s)
           ok == \/ driven.prints = 0
                 \/ H5!expect_arg_types(s.format, <<"Float", "Float">>)
                 \/ H5!expect_arg_types(s.format, [j \in 1..4 |-> "Float"])
           p == H5!Requests(0, 8000000 \div s.period, s.printEvery)
<1>0. Typed5(s, m) /\ m.InterruptCount = 0 /\ m.period = s.period /\ DOMAIN m = Names5
  BY SMT DEF Reach5, Typed5
<1>1. CASE s.period = 0
  <2>1. o = [ok |-> FALSE, machine |-> reset]
    <3>1. o = H5!Outcome(FALSE, reset)
      BY <1>0, <1>1, SMT DEF H5!check_print_format
    <3> HIDE DEF o, reset
    <3> QED BY <3>1 DEF H5!Outcome
  <2>2. /\ DOMAIN reset = Names5 /\ reset.regs = m.regs /\ reset.period = m.period
        /\ reset.UARTPrint = 0 /\ reset.prints = 0 /\ reset.InterruptCount = m.InterruptCount
    BY <1>0, SMT DEF Names5
  <2> HIDE DEF reset, o
  <2>3. Reach5(s, 4, reset)
    BY <1>0, <2>2, SMT DEF Reach5, Typed5
  <2>4. o.machine = reset /\ ~o.ok
    BY <2>1
  <2>5. ~PrintOk5(s)
    BY <1>1, SMT DEF PrintOk5
  <2> QED BY <2>3, <2>4, <2>5 DEF o
<1>2. CASE s.period # 0
  <2>0. n \in Nat /\ n = 8000000 \div s.period /\ p \in Nat
    <3>1. PICK d \in Nat \ {0} : d = s.period
      BY <1>2, SMT DEF H5!IsStudent
    <3>2. PICK e \in Nat \ {0} : e = s.printEvery
      BY SMT DEF H5!IsStudent
    <3>3. PICK q \in Nat : q = 8000000 \div d
      BY <3>1, SMT
    <3>4. H5!Requests(0, q, e) \in Nat
      <4>1. (0 + q) \div e - 0 \div e \in Nat
        BY QuotientGrows
      <4> QED BY <4>1 DEF H5!Requests
    <3> QED BY <1>0, <3>1, <3>2, <3>3, <3>4, SMT
  <2>1. o = [ok |-> ok, machine |-> driven]
    <3>1. o = H5!Outcome(ok, driven)
      BY <1>0, <1>2, SMT DEF H5!check_print_format
    <3> HIDE DEF o, ok, driven
    <3> QED BY <3>1 DEF H5!Outcome
  <2> HIDE DEF n
  <2>2. driven = [m EXCEPT !.InterruptCount = n, !.UARTPrint = 0, !.prints = p]
    <3>1. m.InterruptCount + n = n /\ H5!Requests(m.InterruptCount, n, s.printEvery) = p
      BY <1>0, <2>0, SMT
    <3> HIDE DEF p
    <3> QED BY <3>1 DEF H5!Drive
  <2> HIDE DEF driven, p
  <2>3. /\ DOMAIN driven = Names5 /\ driven.regs = m.regs /\ driven.period = m.period
        /\ driven.UARTPrint = 0 /\ driven.prints = p /\ driven.InterruptCount = n
    BY <1>0, <2>2 DEF Names5
  <2>4. Reach5(s, 4, driven)
    BY <1>0, <2>0, <2>3, SMT DEF Reach5, Typed5
  <2>5. PrintOk5(s) <=> p = 0 \/ types
    BY <1>2, SMT DEF PrintOk5, p
  <2>6. ok <=> PrintOk5(s)
    BY <2>3, <2>5 DEF Types5
  <2> HIDE DEF ok, o
  <2>7. o.machine = driven /\ (o.ok <=> ok)
    BY <2>1
  <2> QED BY <2>4, <2>6, <2>7 DEF o
<1> QED BY <1>1, <1>2, SMT

\* Every check of HW5: it leaves a machine that k checks may leave, and its verdict
\* is a function of the program alone.
LEMMA Check5 ==
  ASSUME NEW s, H5!IsStudent(s), NEW k \in 1..4, NEW m,
         k = 1 => m = H5!PoweredUp, k > 1 => Reach5(s, k - 1, m)
  PROVE  LET o == H5!Run(H5!checker[k], s, m) IN
         Reach5(s, k, o.machine) /\ (o.ok <=> Pass5(s, k))
<1> DEFINE o == H5!Run(H5!checker[k], s, m)
<1>1. CASE k = 1
  <2>1. o = H5!check_initialization(s, H5!PoweredUp)
    BY <1>1, SMT DEF H5!Run, H5!checker
  <2>2. Reach5(s, 1, o.machine) /\ (o.ok <=> InitOk5(s))
    BY <2>1, Init5
  <2> HIDE DEF o
  <2> QED BY <1>1, <2>2, SMT DEF Pass5, o
<1>2. CASE k = 2
  <2> DEFINE ok == /\ {"setEPWM8A_RCServo", "setEPWM8B_RCServo"} \cap s.missing = {}
                   /\ H5!sweep_axis(s.servoA) /\ H5!sweep_axis(s.servoB)
  <2>1. o = H5!check_servo_carryover(s, m)
    BY <1>2, SMT DEF H5!Run, H5!checker
  <2>2. o = [ok |-> ok, machine |-> m]
    BY <2>1, Zenon DEF H5!check_servo_carryover, H5!Outcome
  <2>3. ServosOk5(s) <=> ok
    BY DEF ServosOk5
  <2>4. Reach5(s, 2, m)
    BY <1>2, SMT DEF Reach5
  <2> HIDE DEF o, ok
  <2>5. o.machine = m /\ (o.ok <=> ok)
    BY <2>2
  <2>6. Pass5(s, 2) <=> ServosOk5(s)
    BY SMT DEF Pass5
  <2> QED BY <1>2, <2>3, <2>4, <2>5, <2>6, SMT DEF o
<1>3. CASE k = 3
  <2>1. o = H5!check_pingpong_swap(s, m)
    BY <1>3, SMT DEF H5!Run, H5!checker
  <2>2. Reach5(s, 3, o.machine) /\ (o.ok <=> SwapOk5(s))
    BY <1>3, <2>1, Swap5
  <2> HIDE DEF o
  <2> QED BY <1>3, <2>2, SMT DEF Pass5, o
<1>4. CASE k = 4
  <2>1. o = H5!check_print_format(s, m)
    BY <1>4, SMT DEF H5!Run, H5!checker
  <2>2. Reach5(s, 4, o.machine) /\ (o.ok <=> PrintOk5(s))
    BY <1>4, <2>1, Print5
  <2> HIDE DEF o
  <2> QED BY <1>4, <2>2, SMT DEF Pass5, o
<1> QED BY <1>1, <1>2, <1>3, <1>4, SMT

\* The sweep of a servo function.
LEMMA Sweep5 ==
  ASSUME NEW v, H5!IsServo(v)
  PROVE  /\ H5!ServoAsAsked(v) => H5!sweep_axis(v) /\ H5!Compare(v, 0) \in 2500..7500
         /\ H5!sweep_axis(v) => /\ v.zero \in 4998..5002 /\ v.span \in 2496..2504
                                /\ v.limitsUp /\ v.limitsDown
<1>1. PICK z \in Int : z = v.zero
  BY DEF H5!IsServo
<1>2. PICK d \in Int : d = v.span
  BY DEF H5!IsServo
<1>3. v.limitsUp \in BOOLEAN /\ v.limitsDown \in BOOLEAN
  BY DEF H5!IsServo
<1>4. /\ H5!Compare(v, 0) = z + (0 * d) \div 90
      /\ H5!Compare(v, 45) = z + (45 * d) \div 90
      /\ H5!Compare(v, 90) = z + (90 * d) \div 90
      /\ H5!Compare(v, -90) = z + (-90 * d) \div 90
      /\ H5!Compare(v, 200) = z + (IF v.limitsUp THEN 90 * d ELSE 200 * d) \div 90
      /\ H5!Compare(v, -200) = z + (IF v.limitsDown THEN -90 * d ELSE -200 * d) \div 90
  BY <1>1, <1>2, <1>3, SMT DEF H5!Compare
<1>5. /\ DOMAIN H5!Sweep = {0, -90, 90, 200, -200, 45}
      /\ H5!Sweep[0] = 5000 /\ H5!Sweep[45] = 6250 /\ H5!Sweep[90] = 7500 /\ H5!Sweep[200] = 7500
      /\ H5!Sweep[-90] = 2500 /\ H5!Sweep[-200] = 2500
  BY SMT DEF H5!Sweep
<1>6. H5!sweep_axis(v) <=>
        /\ H5!Compare(v, 0) - 5000 \in -2..2 /\ H5!Compare(v, 45) - 6250 \in -2..2
        /\ H5!Compare(v, 90) - 7500 \in -2..2 /\ H5!Compare(v, 200) - 7500 \in -2..2
        /\ H5!Compare(v, -90) - 2500 \in -2..2 /\ H5!Compare(v, -200) - 2500 \in -2..2
  <2> DEFINE P(a) == H5!Compare(v, a) - H5!Sweep[a] \in -2..2
  <2>1. H5!sweep_axis(v) <=> \A a \in {0, -90, 90, 200, -200, 45} : P(a)
    BY <1>5 DEF H5!sweep_axis
  <2>2. /\ P(0) <=> H5!Compare(v, 0) - 5000 \in -2..2
        /\ P(45) <=> H5!Compare(v, 45) - 6250 \in -2..2
        /\ P(90) <=> H5!Compare(v, 90) - 7500 \in -2..2
        /\ P(200) <=> H5!Compare(v, 200) - 7500 \in -2..2
        /\ P(-90) <=> H5!Compare(v, -90) - 2500 \in -2..2
        /\ P(-200) <=> H5!Compare(v, -200) - 2500 \in -2..2
    BY <1>5, SMT
  <2> HIDE DEF P
  <2>3. (\A a \in {0, -90, 90, 200, -200, 45} : P(a)) <=>
          P(0) /\ P(45) /\ P(90) /\ P(200) /\ P(-90) /\ P(-200)
    BY SMT
  <2> QED BY <2>1, <2>2, <2>3, SMT
<1>7. ASSUME H5!ServoAsAsked(v) PROVE H5!sweep_axis(v) /\ H5!Compare(v, 0) \in 2500..7500
  <2>1. z = 5000 /\ d = 2500 /\ v.limitsUp /\ v.limitsDown
    BY <1>1, <1>2, <1>7, SMT DEF H5!ServoAsAsked
  <2>2. /\ H5!Compare(v, 0) = 5000 /\ H5!Compare(v, 45) = 6250 /\ H5!Compare(v, 90) = 7500
        /\ H5!Compare(v, 200) = 7500 /\ H5!Compare(v, -90) = 2500 /\ H5!Compare(v, -200) = 2500
    BY <1>4, <2>1, SMT
  <2> QED BY <1>6, <2>2, SMT
<1>8. ASSUME H5!sweep_axis(v)
      PROVE  /\ v.zero \in 4998..5002 /\ v.span \in 2496..2504
             /\ v.limitsUp /\ v.limitsDown
  <2>1. (0 * d) \div 90 = 0 /\ (90 * d) \div 90 = d
    BY SMT
  <2>2. z - 5000 \in -2..2 /\ z + d - 7500 \in -2..2
    BY <1>4, <1>6, <1>8, <2>1, SMT
  <2>3. z \in 4998..5002 /\ d \in 2496..2504
    BY <2>2, SMT
  <2>4. v.limitsUp
    <3> SUFFICES ASSUME ~v.limitsUp PROVE FALSE
      OBVIOUS
    <3>1. z + (200 * d) \div 90 - 7500 \in -2..2
      BY <1>4, <1>6, <1>8, SMT
    <3> QED BY <2>3, <3>1, SMT
  <2>5. v.limitsDown
    <3> SUFFICES ASSUME ~v.limitsDown PROVE FALSE
      OBVIOUS
    <3>1. z + (-200 * d) \div 90 - 2500 \in -2..2
      BY <1>4, <1>6, <1>8, SMT
    <3> QED BY <2>3, <3>1, SMT
  <2> QED BY <1>1, <1>2, <2>3, <2>4, <2>5, SMT
<1> QED BY <1>7, <1>8

\* The period is the one asked for exactly when the timer's register says so.
LEMMA Asked5 ==
  ASSUME NEW s, H5!IsStudent(s)
  PROVE  /\ \A n \in (H5!Compared \cup H5!FieldsRead) \ {"CpuTimer2"} : Regs5(s)[n] = s.init[n]
         /\ Regs5(s)["CpuTimer2"] = "asked" <=> s.period = 40000
<1>1. s.init \in [H5!Registers -> H5!RegisterStates]
  BY DEF H5!IsStudent
<1>2. H5!Compared \cup H5!FieldsRead \subseteq H5!Registers /\ "CpuTimer2" \in H5!Registers
  BY DEF H5!Registers, H5!ZeroChecked, H5!Used, H5!Compared, H5!FieldsRead
<1>3. \A n \in (H5!Compared \cup H5!FieldsRead) \ {"CpuTimer2"} : Regs5(s)[n] = s.init[n]
  BY <1>1, <1>2 DEF Regs5
<1>4. Regs5(s)["CpuTimer2"] = H5!TimerState(s.period)
  BY <1>1, <1>2 DEF Regs5
<1>5. H5!TimerState(s.period) = "asked" <=> s.period = 40000
  BY SMT DEF H5!TimerState
<1> QED BY <1>3, <1>4, <1>5, SMT

\* A program that does what HW5's comments ask passes each check of HW5.
LEMMA Conforming5 ==
  ASSUME NEW s, H5!IsStudent(s), H5!Conforms(s), NEW k \in 1..4
  PROVE  Pass5(s, k)
<1>1. /\ s.missing \subseteq {"ADCA_isr", "iPingPong"} /\ H5!InitAsAsked(s)
      /\ H5!ServoAsAsked(s.servoA) /\ H5!ServoAsAsked(s.servoB)
      /\ s.dma = "alternates" /\ s.counts
      /\ s.format \in {<<"%.3f", "%.0f">>, <<"%.3f", "%.0f", "%.3f", "%.3f">>}
  BY SMT DEF H5!Conforms
<1>2. s.period = 40000 /\ s.init["others"] = "zero"
      /\ \A n \in (H5!Compared \cup H5!FieldsRead) \ {"CpuTimer2"} : s.init[n] = "asked"
  BY <1>1, SMT DEF H5!InitAsAsked
<1>3. ServosOk5(s)
  <2>1. H5!IsServo(s.servoA) /\ H5!IsServo(s.servoB)
    BY DEF H5!IsStudent
  <2>2. {"setEPWM8A_RCServo", "setEPWM8B_RCServo"} \cap s.missing = {}
    BY <1>1
  <2> QED BY <1>1, <2>1, <2>2, Sweep5, SMT DEF ServosOk5
<1>4. InitOk5(s)
  <2>1. Regs5(s)["CpuTimer2"] = "asked"
    BY <1>2, Asked5
  <2>2. \A n \in (H5!Compared \cup H5!FieldsRead) \ {"CpuTimer2"} : Regs5(s)[n] = "asked"
    BY <1>2, Asked5
  <2>3. Read5(s) \subseteq H5!FieldsRead
    BY DEF Read5
  <2> QED BY <1>2, <2>1, <2>2, <2>3, SMT DEF InitOk5
<1>5. PrintOk5(s)
  <2>0. H5!expected_arg_type("%.3f") = "Float" /\ H5!expected_arg_type("%.0f") = "Float"
    BY SMT DEF H5!expected_arg_type
  <2>1. Types5(s)
    <3>1. CASE s.format = <<"%.3f", "%.0f">>
      BY <2>0, <3>1, SMT DEF Types5, H5!expect_arg_types
    <3>2. CASE s.format = <<"%.3f", "%.0f", "%.3f", "%.3f">>
      BY <2>0, <3>2, SMT DEF Types5, H5!expect_arg_types
    <3> QED BY <1>1, <3>1, <3>2
  <2> QED BY <1>2, <2>1, SMT DEF PrintOk5
<1>6. SwapOk5(s)
  BY <1>1, SMT DEF SwapOk5
<1>7. CASE k = 1
  BY <1>4, <1>7, SMT DEF Pass5
<1>8. CASE k = 2
  BY <1>3, <1>8, SMT DEF Pass5
<1>9. CASE k = 3
  BY <1>6, <1>9, SMT DEF Pass5
<1>10. CASE k = 4
  BY <1>5, <1>10, SMT DEF Pass5
<1> QED BY <1>7, <1>8, <1>9, <1>10, SMT

\* A program that passes every check of HW5 has none of the mistakes of Sound.
LEMMA Sound5 ==
  ASSUME NEW s, H5!IsStudent(s), \A k \in 1..4 : Pass5(s, k)
  PROVE  H5!Sound(s)
<1>1. InitOk5(s) /\ ServosOk5(s) /\ SwapOk5(s) /\ PrintOk5(s)
  <2>1. Pass5(s, 1) /\ Pass5(s, 2) /\ Pass5(s, 3) /\ Pass5(s, 4)
    BY SMT
  <2> QED BY <2>1, SMT DEF Pass5
<1>2. /\ {"setEPWM8A_RCServo", "setEPWM8B_RCServo", "DMA_isr"} \cap s.missing = {}
      /\ s.counts \/ "DMAcount" \in s.missing
      /\ s.dma # "never" \/ {"pingFFT", "pongFFT"} \cap s.missing # {}
  BY <1>1, SMT DEF ServosOk5, SwapOk5
<1>3. H5!InitAsAsked(s)
  <2>1. Read5(s) = H5!FieldsRead
    BY <1>2 DEF Read5
  <2>2. \A n \in H5!Compared \cup H5!FieldsRead : Regs5(s)[n] = "asked"
    BY <1>1, <2>1, SMT DEF InitOk5
  <2>3. s.init["others"] = "zero"
    BY <1>1, SMT DEF InitOk5
  <2>4. s.period = 40000
    <3>1. "CpuTimer2" \in H5!Compared
      BY DEF H5!Compared
    <3> QED BY <2>2, <3>1, Asked5, SMT
  <2>5. \A n \in (H5!Compared \cup H5!FieldsRead) \ {"CpuTimer2"} : s.init[n] = "asked"
    BY <2>2, Asked5, SMT
  <2> QED BY <2>3, <2>4, <2>5, SMT DEF H5!InitAsAsked
<1>4. \A v \in {s.servoA, s.servoB} :
        /\ v.zero \in 4998..5002 /\ v.span \in 2496..2504
        /\ v.limitsUp /\ v.limitsDown
  <2>1. H5!IsServo(s.servoA) /\ H5!IsServo(s.servoB)
    BY DEF H5!IsStudent
  <2> QED BY <1>1, <2>1, Sweep5, SMT DEF ServosOk5
<1>5. ASSUME s.printEvery <= 200 PROVE Len(s.format) \in {2, 4}
  <2>1. PICK e \in Nat \ {0} : e = s.printEvery
    BY DEF H5!IsStudent
  <2>2. 8000000 \div s.period = 200
    BY <1>3, SMT DEF H5!InitAsAsked
  <2>3. H5!Requests(0, 200, e) # 0
    <3>1. PICK q \in Nat : q = 200 \div e
      BY Quotient
    <3>2. 200 < e * (q + 1)
      BY <3>1, Quotient, SMT
    <3>3. q # 0
      BY <1>5, <2>1, <3>2, SMT
    <3> QED BY <3>1, <3>3, SMT DEF H5!Requests
  <2>4. Types5(s)
    BY <1>1, <2>1, <2>2, <2>3, SMT DEF PrintOk5
  <2>5. DOMAIN s.format = 1..2 \/ DOMAIN s.format = 1..4
    <3> DEFINE g == [j \in DOMAIN s.format |-> H5!expected_arg_type(s.format[j])]
    <3>1. g = <<"Float", "Float">> \/ g = [j \in 1..4 |-> "Float"]
      BY <2>4, Zenon DEF Types5, H5!expect_arg_types
    <3>2. DOMAIN <<"Float", "Float">> = 1..2
      BY SMT
    <3>3. DOMAIN g = DOMAIN s.format
      OBVIOUS
    <3> HIDE DEF g
    <3> QED BY <3>1, <3>2, <3>3
  <2>6. s.format \in Seq(STRING)
    BY DEF H5!IsStudent
  <2>7. PICK n \in Nat : n \in {2, 4} /\ DOMAIN s.format = 1..n
    <3> SUFFICES \E n \in {2, 4} : DOMAIN s.format = 1..n
      OBVIOUS
    <3> QED BY <2>5, Zenon
  <2>8. Len(s.format) = n
    BY <2>6, <2>7, DomainLength
  <2> QED BY <2>7, <2>8
<1> QED BY <1>2, <1>3, <1>4, <1>5, SMT DEF H5!Sound

-----------------------------------------------------------------------------
(* Every suite.                                                            *)

\* What check k of the suite says of a program, whatever was run before it.
Passes(s, k) ==
  CASE s.hw = 1 -> Pass1(s, k)
    [] s.hw = 2 -> Pass2(s, k) [] s.hw = 3 -> Pass3(s, k)
    [] s.hw = 4 -> Pass4(s, k) [] s.hw = 5 -> Pass5(s, k)

\* Is that its verdict?  If not, the scaling check has failed the program.
Decided(s, k) ==
  /\ s.hw = 2 => Decided2(s, k)
  /\ s.hw = 3 => Decided3(s, k)

\* A machine that the first k checks of the suite may leave.
Reaches(s, k, m) ==
  CASE s.hw = 1 -> Reach1(s, k, m)
    [] s.hw = 2 -> Reach2(s, k, m) [] s.hw = 3 -> Reach3(s, k, m)
    [] s.hw = 4 -> Reach4(s, k, m) [] s.hw = 5 -> Reach5(s, k, m)

\* How many checks the suite of a program has.
Length(s) ==
  CASE s.hw = 1 -> 7 [] s.hw = 2 -> 4 [] s.hw = 3 -> 6 [] s.hw = 4 -> 6 [] s.hw = 5 -> 4

\* A program belongs to one of the five assignments.
LEMMA Assignments ==
  ASSUME NEW s, IsStudent(s)
  PROVE  s.hw \in 1..5
  BY DEF IsStudent

\* The suites begin with the initialisation check.
LEMMA SuiteShape ==
  ASSUME NEW s, IsStudent(s)
  PROVE  /\ Len(checker(s.hw)) = Length(s) /\ Length(s) \in Nat /\ Length(s) >= 4
         /\ checker(s.hw)[1] = "check_initialization"
<1>1. CASE s.hw = 1
  BY <1>1, SMT DEF checker, Length, H1!checker
<1>2. CASE s.hw = 2
  BY <1>2, SMT DEF checker, Length, H2!checker
<1>3. CASE s.hw = 3
  BY <1>3, SMT DEF checker, Length, H3!checker
<1>4. CASE s.hw = 4
  BY <1>4, SMT DEF checker, Length, H4!checker
<1>5. CASE s.hw = 5
  BY <1>5, SMT DEF checker, Length, H5!checker
<1> QED
  BY <1>1, <1>2, <1>3, <1>4, <1>5, Assignments

\* Every check of every suite: started from a machine the checks before it may
\* leave it leaves one that the checks up to it may leave, and its verdict, where
\* it is decided, is Passes.
LEMMA CheckGives ==
  ASSUME NEW s, IsStudent(s), NEW k \in 1..Length(s), NEW m,
         k = 1 => m = PoweredUp(s.hw), k > 1 => Reaches(s, k - 1, m),
         ~Faults(checker(s.hw)[k], s)
  PROVE  LET o == Run(checker(s.hw)[k], s, m) IN
         /\ Reaches(s, k, o.machine)
         /\ Decided(s, k) => (o.ok <=> Passes(s, k))
<1> DEFINE o == Run(checker(s.hw)[k], s, m)
<1>1. CASE s.hw = 1
  <2>1. o = H1!Run(H1!checker[k], s, m)
    BY <1>1, SMT DEF Run, checker
  <2>2. H1!IsStudent(s) /\ k \in 1..7 /\ (k = 1 => m = H1!PoweredUp)
    BY <1>1, SMT DEF IsStudent, Length, PoweredUp
  <2>3. k > 1 => Reach1(s, k - 1, m)
    BY <1>1, SMT DEF Reaches
  <2>4. Reach1(s, k, o.machine) /\ (o.ok <=> Pass1(s, k))
    BY <2>1, <2>2, <2>3, Check1
  <2> HIDE DEF o
  <2> QED BY <1>1, <2>4, SMT DEF Reaches, Passes, o
<1>2. CASE s.hw = 2
  <2>1. o = H2!Run(H2!checker[k], s, m) /\ ~H2!DereferencesNull(H2!checker[k], s)
    BY <1>2, SMT DEF Run, checker, Faults
  <2>2. H2!IsStudent(s) /\ k \in 1..4 /\ (k = 1 => m = H2!PoweredUp)
    BY <1>2, SMT DEF IsStudent, Length, PoweredUp
  <2>3. k > 1 => Reach2(s, k - 1, m)
    BY <1>2, SMT DEF Reaches
  <2>4. Reach2(s, k, o.machine) /\ (Decided2(s, k) => (o.ok <=> Pass2(s, k)))
    BY <2>1, <2>2, <2>3, Check2
  <2> HIDE DEF o
  <2> QED BY <1>2, <2>4, SMT DEF Reaches, Passes, Decided, o
<1>3. CASE s.hw = 3
  <2>1. o = H3!Run(H3!checker[k], s, m)
    BY <1>3, SMT DEF Run, checker
  <2>2. H3!IsStudent(s) /\ k \in 1..6 /\ (k = 1 => m = H3!PoweredUp)
    BY <1>3, SMT DEF IsStudent, Length, PoweredUp
  <2>3. k > 1 => Reach3(s, k - 1, m)
    BY <1>3, SMT DEF Reaches
  <2>4. Reach3(s, k, o.machine) /\ (Decided3(s, k) => (o.ok <=> Pass3(s, k)))
    BY <2>1, <2>2, <2>3, Check3
  <2> HIDE DEF o
  <2> QED BY <1>3, <2>4, SMT DEF Reaches, Passes, Decided, o
<1>4. CASE s.hw = 4
  <2>1. o = H4!Run(H4!checker[k], s, m)
    BY <1>4, SMT DEF Run, checker
  <2>2. H4!IsStudent(s) /\ k \in 1..6 /\ (k = 1 => m = H4!PoweredUp)
    BY <1>4, SMT DEF IsStudent, Length, PoweredUp
  <2>3. k > 1 => Reach4(s, k - 1, m)
    BY <1>4, SMT DEF Reaches
  <2>4. Reach4(s, k, o.machine) /\ (o.ok <=> Pass4(s, k))
    BY <2>1, <2>2, <2>3, Check4
  <2> HIDE DEF o
  <2> QED BY <1>4, <2>4, SMT DEF Reaches, Passes, o
<1>5. CASE s.hw = 5
  <2>1. o = H5!Run(H5!checker[k], s, m)
    BY <1>5, SMT DEF Run, checker
  <2>2. H5!IsStudent(s) /\ k \in 1..4 /\ (k = 1 => m = H5!PoweredUp)
    BY <1>5, SMT DEF IsStudent, Length, PoweredUp
  <2>3. k > 1 => Reach5(s, k - 1, m)
    BY <1>5, SMT DEF Reaches
  <2>4. Reach5(s, k, o.machine) /\ (o.ok <=> Pass5(s, k))
    BY <2>1, <2>2, <2>3, Check5
  <2> HIDE DEF o
  <2> QED BY <1>5, <2>4, SMT DEF Reaches, Passes, o
<1> QED BY <1>1, <1>2, <1>3, <1>4, <1>5, Assignments

\* Right after the initialisation the machine of a program whose counters the
\* checks know is one that any number of checks may leave.
LEMMA AlwaysReached ==
  ASSUME NEW s, IsStudent(s), KnownState(s), NEW k \in 1..Length(s)
  PROVE  Reaches(s, k, AfterInit(s))
<1> DEFINE m == AfterInit(s)
<1>1. CASE s.hw = 1
  <2>1. m = After1(s)
    BY <1>1, SMT DEF AfterInit, Run, PoweredUp, H1!Run, After1
  <2>2. H1!IsStudent(s)
    BY <1>1, SMT DEF IsStudent
  <2>3. H1!IsMachine(s, After1(s))
    BY <2>2, InitCheck, SMT DEF After1
  <2> QED BY <1>1, <2>1, <2>3, SMT DEF Reaches, Reach1
<1>2. CASE s.hw = 2
  <2>1. m = H2!check_initialization(s, H2!PoweredUp).machine
    BY <1>2, SMT DEF AfterInit, Run, PoweredUp, H2!Run
  <2>2. H2!IsStudent(s) /\ k \in 1..4 /\ s.countsIn = "global"
    BY <1>2, SMT DEF IsStudent, Length, KnownState, H2!KnownState
  <2>3. Reach2(s, k, m)
    BY <2>1, <2>2, Init2
  <2> HIDE DEF m
  <2> QED BY <1>2, <2>3, SMT DEF Reaches, m
<1>3. CASE s.hw = 3
  <2>1. m = H3!check_initialization(s, H3!PoweredUp).machine
    BY <1>3, SMT DEF AfterInit, Run, PoweredUp, H3!Run
  <2>2. H3!IsStudent(s) /\ k \in 1..6 /\ H3!KnownState(s)
    BY <1>3, SMT DEF IsStudent, Length, KnownState
  <2>3. Reach3(s, k, m)
    BY <2>1, <2>2, Init3
  <2> HIDE DEF m
  <2> QED BY <1>3, <2>3, SMT DEF Reaches, m
<1>4. CASE s.hw = 4
  <2>1. m = H4!check_initialization(s, H4!PoweredUp).machine
    BY <1>4, SMT DEF AfterInit, Run, PoweredUp, H4!Run
  <2>2. H4!IsStudent(s) /\ k \in 1..6
    BY <1>4, SMT DEF IsStudent, Length
  <2>3. Reach4(s, k, m)
    BY <2>1, <2>2, Init4
  <2> HIDE DEF m
  <2> QED BY <1>4, <2>3, SMT DEF Reaches, m
<1>5. CASE s.hw = 5
  <2>1. m = H5!check_initialization(s, H5!PoweredUp).machine
    BY <1>5, SMT DEF AfterInit, Run, PoweredUp, H5!Run
  <2>2. H5!IsStudent(s) /\ k \in 1..4
    BY <1>5, SMT DEF IsStudent, Length
  <2>3. Reach5(s, k, m)
    BY <2>1, <2>2, Init5
  <2> HIDE DEF m
  <2> QED BY <1>5, <2>3, SMT DEF Reaches, m
<1> QED BY <1>1, <1>2, <1>3, <1>4, <1>5, Assignments

\* A program with an undecided check is failed by the second check of its suite,
\* the scaling check, if that does not die.
LEMMA UndecidedFails ==
  ASSUME NEW s, IsStudent(s), \A k \in 1..Length(s) : ~Faults(checker(s.hw)[k], s),
         NEW k \in 1..Length(s), ~Decided(s, k)
  PROVE  2 \in 1..Length(s) /\ Decided(s, 2) /\ ~Passes(s, 2)
<1>1. CASE s.hw = 2
  <2>1. Length(s) = 4 /\ H2!IsStudent(s) /\ ~Decided2(s, k)
    BY <1>1, SMT DEF Length, IsStudent, Decided
  <2>2. ~Faults(H2!checker[2], s)
    BY <1>1, <2>1, SMT DEF checker
  <2>3. ~(H2!RequiredSymbols \cap s.missing = {} /\ "AdcaInterruptCount" \in s.missing)
    BY <1>1, <2>2, SMT DEF Faults, H2!DereferencesNull, H2!checker
  <2>4. s.missing # {}
    BY <2>1 DEF Decided2
  <2>5. H2!RequiredSymbols \cap s.missing # {}
    BY <2>1, <2>3, <2>4 DEF H2!IsStudent, H2!Symbols, H2!RequiredSymbols
  <2>6. ~Pass2(s, 2)
    BY <2>5, SMT DEF Pass2, ScalingOk2
  <2>7. Decided2(s, 2)
    BY DEF Decided2
  <2> QED BY <1>1, <2>1, <2>6, <2>7, SMT DEF Decided, Passes
<1>2. CASE s.hw = 3
  <2>1. Length(s) = 6 /\ ~Decided3(s, k)
    BY <1>2, SMT DEF Length, Decided
  <2>2. Read3 \cap s.missing # {}
    BY <2>1 DEF Decided3
  <2>3. ~Pass3(s, 2)
    BY <2>2, SMT DEF Pass3, ScalingOk3
  <2>4. Decided3(s, 2)
    BY DEF Decided3
  <2> QED BY <1>2, <2>1, <2>3, <2>4, SMT DEF Decided, Passes
<1> QED BY <1>1, <1>2 DEF Decided

\* A conforming program passes each check of its suite, and none of them dies.
LEMMA ConformingGive ==
  ASSUME NEW s, IsStudent(s), Conforms(s), NEW k \in 1..Length(s)
  PROVE  Decided(s, k) /\ Passes(s, k) /\ ~Faults(checker(s.hw)[k], s)
<1>1. CASE s.hw = 1
  <2>1. H1!IsStudent(s) /\ H1!Conforms(s) /\ k \in 1..7
    BY <1>1, SMT DEF IsStudent, Conforms, Length
  <2>2. Pass1(s, k)
    BY <2>1, Conforming1
  <2> QED BY <1>1, <2>2, SMT DEF Decided, Passes, Faults
<1>2. CASE s.hw = 2
  <2>1. H2!IsStudent(s) /\ H2!Conforms(s) /\ k \in 1..4
    BY <1>2, SMT DEF IsStudent, Conforms, Length
  <2>2. s.missing = {} /\ Pass2(s, k)
    BY <2>1, Conforming2
  <2>3. Decided2(s, k) /\ ~Faults(checker(s.hw)[k], s)
    BY <2>2 DEF Decided2, Faults, H2!DereferencesNull
  <2> QED BY <1>2, <2>2, <2>3, SMT DEF Decided, Passes
<1>3. CASE s.hw = 3
  <2>1. H3!IsStudent(s) /\ H3!Conforms(s) /\ k \in 1..6
    BY <1>3, SMT DEF IsStudent, Conforms, Length
  <2>2. Decided3(s, k) /\ Pass3(s, k)
    BY <2>1, Conforming3
  <2> QED BY <1>3, <2>2, SMT DEF Decided, Passes, Faults
<1>4. CASE s.hw = 4
  <2>1. H4!IsStudent(s) /\ H4!Conforms(s) /\ k \in 1..6
    BY <1>4, SMT DEF IsStudent, Conforms, Length
  <2>2. Pass4(s, k)
    BY <2>1, Conforming4
  <2> QED BY <1>4, <2>2, SMT DEF Decided, Passes, Faults
<1>5. CASE s.hw = 5
  <2>1. H5!IsStudent(s) /\ H5!Conforms(s) /\ k \in 1..4
    BY <1>5, SMT DEF IsStudent, Conforms, Length
  <2>2. Pass5(s, k)
    BY <2>1, Conforming5
  <2> QED BY <1>5, <2>2, SMT DEF Decided, Passes, Faults
<1> QED BY <1>1, <1>2, <1>3, <1>4, <1>5, Assignments

\* A program that passes every check of its suite has none of the mistakes.
LEMMA PassingGive ==
  ASSUME NEW s, IsStudent(s),
         \A k \in 1..Length(s) : ~Faults(checker(s.hw)[k], s),
         \A k \in 1..Length(s) : Decided(s, k) => Passes(s, k)
  PROVE  Sound(s)
<1>0. \A k \in 1..Length(s) : Decided(s, k) /\ Passes(s, k)
  BY UndecidedFails
<1>1. CASE s.hw = 1
  <2>1. H1!IsStudent(s) /\ \A k \in 1..7 : Pass1(s, k)
    BY <1>0, <1>1, SMT DEF IsStudent, Length, Passes
  <2>2. H1!Sound(s)
    BY <2>1, Sound1
  <2> QED BY <1>1, <2>2, SMT DEF Sound
<1>2. CASE s.hw = 2
  <2>1. H2!IsStudent(s) /\ \A k \in 1..4 : Decided2(s, k) /\ Pass2(s, k)
    BY <1>0, <1>2, SMT DEF IsStudent, Length, Passes, Decided
  <2>2. s.missing = {}
    BY <2>1, SMT DEF Decided2
  <2>3. H2!Sound(s)
    BY <2>1, <2>2, Sound2
  <2> QED BY <1>2, <2>3, SMT DEF Sound
<1>3. CASE s.hw = 3
  <2>1. H3!IsStudent(s) /\ \A k \in 1..6 : Pass3(s, k)
    BY <1>0, <1>3, SMT DEF IsStudent, Length, Passes
  <2>2. H3!Sound(s)
    BY <2>1, Sound3
  <2> QED BY <1>3, <2>2, SMT DEF Sound
<1>4. CASE s.hw = 4
  <2>1. H4!IsStudent(s) /\ \A k \in 1..6 : Pass4(s, k)
    BY <1>0, <1>4, SMT DEF IsStudent, Length, Passes
  <2>2. H4!Sound(s)
    BY <2>1, Sound4
  <2> QED BY <1>4, <2>2, SMT DEF Sound
<1>5. CASE s.hw = 5
  <2>1. H5!IsStudent(s) /\ \A k \in 1..4 : Pass5(s, k)
    BY <1>0, <1>5, SMT DEF IsStudent, Length, Passes
  <2>2. H5!Sound(s)
    BY <2>1, Sound5
  <2> QED BY <1>5, <2>2, SMT DEF Sound
<1> QED BY <1>1, <1>2, <1>3, <1>4, <1>5, Assignments

\* The number of checks that have run.
Ran == Len(check_results)

\* The machine is one that the checks run so far may leave.
MachineReached ==
  /\ Ran = 0 => machine = PoweredUp(student.hw)
  /\ Ran > 0 => Reaches(student, Ran, machine)

\* None of the checks run so far dies, and each verdict recorded is Passes.
VerdictsRecorded ==
  \A k \in 1..Ran :
    /\ ~Faults(checkFunctions[k], student)
    /\ Decided(student, k) => (check_results[k].passed <=> Passes(student, k))

\* How a run may end: killed in a check that dies, or with every check run.
EndsAsItShould ==
  /\ exitCode \in {Running, 0, 1, Killed}
  /\ exitCode = Killed => \E k \in 1..Length(student) : Faults(checkFunctions[k], student)
  /\ exitCode \in {0, 1} => Ran = Len(checkFunctions)

\* The invariant of every run of every suite.
SuiteInv ==
  /\ student \in Students
  /\ checkFunctions = checker(student.hw)
  /\ checkFunctions \in Suites
  /\ ValidatorInv
  /\ MachineReached
  /\ VerdictsRecorded
  /\ EndsAsItShould

\* Running, Killed and the two exit codes differ.
LEMMA ExitCodes == Running \notin {0, 1, Killed} /\ Killed \notin {0, 1}
  BY SMT DEF Running, Killed

\* The suites are lists, of the length their assignment has.
LEMMA SuiteFacts ==
  ASSUME SuiteInv
  PROVE  /\ IsStudent(student) /\ student.hw \in 1..5
         /\ Len(checkFunctions) = Length(student) /\ Length(student) \in Nat
         /\ Length(student) >= 4
         /\ check_results \in Seq(CheckResult) /\ Ran \in Nat /\ Ran <= Length(student)
<1>1. IsStudent(student)
  BY StudentsAssumption DEF SuiteInv
<1>2. Len(checkFunctions) = Length(student) /\ Length(student) \in Nat /\ Length(student) >= 4
  BY <1>1, SuiteShape DEF SuiteInv
<1>3. check_results \in Seq(CheckResult) /\ Ran <= Len(checkFunctions)
  BY DEF SuiteInv, ValidatorInv, Progress, Ran
<1>4. Ran \in Nat
  BY <1>3 DEF Ran
<1> QED BY <1>1, <1>2, <1>3, <1>4, Assignments

\* Recording one more result leaves the earlier ones.
LEMMA AppendLooks ==
  ASSUME NEW S, NEW q \in Seq(S), NEW r \in S
  PROVE  /\ Len(Append(q, r)) = Len(q) + 1 /\ Len(q) \in Nat
         /\ Append(q, r)[Len(q) + 1] = r
         /\ \A k \in 1..Len(q) : Append(q, r)[k] = q[k]
  OBVIOUS


\* The initial states.
LEMMA SuiteInit ==
  ASSUME Init
  PROVE  SuiteInv
<1>1. student \in Students /\ checkFunctions = checker(student.hw) /\ ValidatorInit
      /\ machine = PoweredUp(student.hw) /\ check_results = <<>> /\ exitCode = Running
      /\ checkFunctions \in Suites
  BY DEF Init, ValidatorInit
<1>2. ValidatorInv
  BY <1>1, SuitesListed, InitEstablishes
<1>3. Ran = 0
  BY <1>1 DEF Ran
<1>4. MachineReached
  BY <1>1, <1>3, SMT DEF MachineReached
<1>5. VerdictsRecorded
  BY <1>3, SMT DEF VerdictsRecorded
<1>6. EndsAsItShould
  BY <1>1, ExitCodes, SMT DEF EndsAsItShould
<1> QED BY <1>1, <1>2, <1>4, <1>5, <1>6 DEF SuiteInv

\* One more check: it finds the machine the checks before it may leave.
LEMMA SuiteRunsCheck ==
  ASSUME SuiteInv, RunNextCheck
  PROVE  SuiteInv'
<1> DEFINE k == CurrentCheck
           o == Run(checkFunctions[k], student, machine)
           r == [name |-> checkFunctions[k], passed |-> Bit(o.ok) # 0]
<1>0. /\ IsStudent(student) /\ Len(checkFunctions) = Length(student) /\ Length(student) \in Nat
      /\ check_results \in Seq(CheckResult) /\ Ran \in Nat
  BY SuiteFacts
<1>1. /\ InTheLoop /\ ~Faults(checkFunctions[k], student)
      /\ RunCheck(Bit(o.ok)) /\ machine' = o.machine /\ student' = student
  BY DEF RunNextCheck
<1>2. /\ checkFunctions' = checkFunctions /\ exitCode' = exitCode /\ exitCode = Running
      /\ check_results' = Append(check_results, r)
  BY <1>1 DEF RunCheck, InTheLoop
<1>3. k = Ran + 1 /\ k \in 1..Length(student) /\ k \in Nat
  BY <1>0, <1>1 DEF InTheLoop, CurrentCheck, Ran
<1>4. Bit(o.ok) \in {0, 1} /\ (Bit(o.ok) # 0 <=> o.ok)
  BY SMT DEF Bit
<1>5. ValidatorInv'
  BY <1>1, <1>4, RunCheckPreserves DEF SuiteInv
<1>6. r \in CheckResult /\ (r.passed <=> o.ok)
  <2>1. r \in CheckResult
    BY <1>1, NextNamed DEF CheckResult, SuiteInv
  <2>2. r.passed = (Bit(o.ok) # 0)
    OBVIOUS
  <2> QED BY <1>4, <2>1, <2>2
<1>7. /\ Reaches(student, k, o.machine)
      /\ Decided(student, k) => (o.ok <=> Passes(student, k))
  <2>1. checkFunctions = checker(student.hw)
    BY DEF SuiteInv
  <2>2. k = 1 => machine = PoweredUp(student.hw)
    BY <1>0, <1>3 DEF SuiteInv, MachineReached
  <2>3. k > 1 => Reaches(student, k - 1, machine)
    <3>1. k > 1 => Ran > 0 /\ Ran = k - 1
      BY <1>0, <1>3
    <3> QED BY <3>1 DEF SuiteInv, MachineReached
  <2>4. ~Faults(checker(student.hw)[k], student)
    BY <1>1, <2>1
  <2>5. o = Run(checker(student.hw)[k], student, machine)
    BY <2>1
  <2> HIDE DEF o, k
  <2> QED BY <1>0, <1>3, <2>2, <2>3, <2>4, <2>5, CheckGives
<1> HIDE DEF k, o, r
<1>8. /\ Ran' = k /\ check_results'[k] = r
      /\ \A j \in 1..Ran : check_results'[j] = check_results[j]
  BY <1>0, <1>2, <1>3, <1>6, AppendLooks DEF Ran
<1>9. MachineReached'
  BY <1>1, <1>3, <1>7, <1>8 DEF MachineReached
<1>10. VerdictsRecorded'
  <2> SUFFICES ASSUME NEW j \in 1..Ran'
               PROVE  /\ ~Faults(checkFunctions'[j], student')
                      /\ Decided(student', j) => (check_results'[j].passed <=> Passes(student', j))
    BY DEF VerdictsRecorded
  <2>1. j \in 1..Ran \/ j = k
    BY <1>0, <1>3, <1>8
  <2>2. CASE j = k
    BY <1>1, <1>2, <1>6, <1>7, <1>8, <2>2
  <2>3. CASE j \in 1..Ran
    <3>1. check_results'[j] = check_results[j]
      BY <1>8, <2>3
    <3>2. /\ ~Faults(checkFunctions[j], student)
          /\ Decided(student, j) => (check_results[j].passed <=> Passes(student, j))
      BY <2>3 DEF SuiteInv, VerdictsRecorded
    <3> QED BY <1>1, <1>2, <3>1, <3>2
  <2> QED BY <2>1, <2>2, <2>3
<1>11. EndsAsItShould'
  BY <1>2, ExitCodes, SMT DEF EndsAsItShould
<1> QED
  BY <1>1, <1>2, <1>5, <1>9, <1>10, <1>11 DEF SuiteInv

\* A check that dies kills the process.
LEMMA SuiteFaults ==
  ASSUME SuiteInv, RunFaultyCheck
  PROVE  SuiteInv'
<1>1. /\ Crash /\ Faults(checkFunctions[CurrentCheck], student)
      /\ student' = student /\ machine' = machine
  BY DEF RunFaultyCheck
<1>2. /\ checkFunctions' = checkFunctions /\ check_results' = check_results
      /\ exitCode' = Killed /\ CurrentCheck \in 1..Len(checkFunctions)
  BY <1>1 DEF Crash, InTheLoop
<1>3. ValidatorInv'
  BY <1>1, CrashPreserves DEF SuiteInv
<1>4. MachineReached' /\ VerdictsRecorded'
  BY <1>1, <1>2 DEF SuiteInv, MachineReached, VerdictsRecorded, Ran
<1>5. EndsAsItShould'
  <2>1. Len(checkFunctions) = Length(student)
    BY SuiteFacts
  <2> QED BY <1>1, <1>2, <2>1, ExitCodes DEF EndsAsItShould
<1> QED BY <1>1, <1>2, <1>3, <1>4, <1>5 DEF SuiteInv

\* The process ends once every check has run.
LEMMA SuiteFinishes ==
  ASSUME SuiteInv, WriteReportAndExit
  PROVE  SuiteInv'
<1>1. Finish /\ student' = student /\ machine' = machine
  BY DEF WriteReportAndExit
<1>2. /\ checkFunctions' = checkFunctions /\ check_results' = check_results
      /\ exitCode' \in {0, 1} /\ CurrentCheck = Len(checkFunctions) + 1
  BY <1>1 DEF Finish, ExitStatus
<1>3. ValidatorInv'
  BY <1>1, FinishPreserves DEF SuiteInv
<1>4. MachineReached' /\ VerdictsRecorded'
  BY <1>1, <1>2 DEF SuiteInv, MachineReached, VerdictsRecorded, Ran
<1>5. EndsAsItShould'
  <2>1. Ran \in Nat /\ Len(checkFunctions) \in Nat
    BY SuiteFacts
  <2>2. Ran = Len(checkFunctions)
    BY <1>2, <2>1 DEF CurrentCheck, Ran
  <2>3. Ran' = Ran
    BY <1>2 DEF Ran
  <2> QED BY <1>2, <2>2, <2>3, ExitCodes DEF EndsAsItShould
<1> QED BY <1>1, <1>2, <1>3, <1>4, <1>5 DEF SuiteInv

\* The invariant of every run of every suite.
LEMMA SuiteInvariant == Spec => []SuiteInv
<1>1. Init => SuiteInv
  BY SuiteInit
<1>2. SuiteInv /\ [Next]_vars => SuiteInv'
  <2> SUFFICES ASSUME SuiteInv, [Next]_vars PROVE SuiteInv'
    OBVIOUS
  <2>1. CASE RunNextCheck
    BY <2>1, SuiteRunsCheck
  <2>2. CASE RunFaultyCheck
    BY <2>2, SuiteFaults
  <2>3. CASE WriteReportAndExit
    BY <2>3, SuiteFinishes
  <2>4. CASE UNCHANGED vars
    <3>1. /\ student' = student /\ machine' = machine /\ checkFunctions' = checkFunctions
          /\ check_results' = check_results /\ exitCode' = exitCode
          /\ UNCHANGED validatorVars
      BY <2>4 DEF vars, validatorVars
    <3>2. ValidatorInv'
      BY <3>1, StutterPreserves DEF SuiteInv
    <3> QED
      BY <3>1, <3>2 DEF SuiteInv, MachineReached, VerdictsRecorded, EndsAsItShould, Ran
  <2> QED BY <2>1, <2>2, <2>3, <2>4 DEF Next
<1> QED BY <1>1, <1>2, PTL DEF Spec

\* Once the process has ended by itself, every check has run, none of them dies,
\* and it has succeeded exactly when all passed.
LEMMA Ended ==
  ASSUME SuiteInv, exitCode \in {0, 1}
  PROVE  /\ Ran = Length(student)
         /\ \A k \in 1..Length(student) : ~Faults(checker(student.hw)[k], student)
         /\ exitCode = 0 <=> \A k \in 1..Length(student) : check_results[k].passed
         /\ \A k \in 1..Length(student) :
              Decided(student, k) => (check_results[k].passed <=> Passes(student, k))
<1>1. Ran = Len(checkFunctions) /\ Len(checkFunctions) = Length(student)
  BY SuiteFacts DEF SuiteInv, EndsAsItShould
<1>2. exitCode # Running
  BY ExitCodes
<1>3. exitCode = 0 <=> \A k \in 1..Length(student) : check_results[k].passed
  BY <1>1, <1>2 DEF SuiteInv, ValidatorInv, ExitAgreesWithReport, Ran
<1>4. checkFunctions = checker(student.hw) /\ VerdictsRecorded
  BY DEF SuiteInv
<1> QED BY <1>1, <1>3, <1>4 DEF VerdictsRecorded

(* ConformingProgramsPass, for every program of the five shapes: the suite   *)
(* never fails, nor dies of, a program that does what the comments of its    *)
(* checks ask.                                                               *)
THEOREM ConformingPass == Spec => []ConformingProgramsPass
<1>1. SuiteInv => ConformingProgramsPass
  <2> SUFFICES ASSUME SuiteInv, Conforms(student) PROVE exitCode \in {Running, 0}
    BY DEF ConformingProgramsPass
  <2>0. IsStudent(student) /\ checkFunctions = checker(student.hw)
    BY SuiteFacts DEF SuiteInv
  <2>1. \A k \in 1..Length(student) :
          Decided(student, k) /\ Passes(student, k) /\ ~Faults(checker(student.hw)[k], student)
    BY <2>0, ConformingGive
  <2>2. exitCode # Killed
    BY <2>0, <2>1 DEF SuiteInv, EndsAsItShould
  <2>3. exitCode \in {0, 1} => exitCode = 0
    BY <2>1, Ended
  <2> QED BY <2>2, <2>3 DEF SuiteInv, EndsAsItShould
<1> QED BY <1>1, SuiteInvariant, PTL

(* PassingProgramsAreSound, for every program of the five shapes: exit 0     *)
(* means that none of the mistakes the suite looks for was made.             *)
THEOREM PassingSound == Spec => []PassingProgramsAreSound
<1>1. SuiteInv => PassingProgramsAreSound
  <2> SUFFICES ASSUME SuiteInv, exitCode = 0 PROVE Sound(student)
    BY DEF PassingProgramsAreSound
  <2>0. IsStudent(student)
    BY SuiteFacts
  <2>1. /\ \A k \in 1..Length(student) : ~Faults(checker(student.hw)[k], student)
        /\ \A k \in 1..Length(student) : Decided(student, k) => Passes(student, k)
    BY Ended
  <2> QED BY <2>0, <2>1, PassingGive
<1> QED BY <1>1, SuiteInvariant, PTL

(* VerdictsIndependent, for every program whose counters the checks put back:*)
(* it exits 0 exactly when each check passes right after the initialisation, *)
(* although the machine the later checks meet is another one.                *)
THEOREM OrderDoesNotMatter == Spec => []VerdictsIndependent
<1>1. SuiteInv => VerdictsIndependent
  <2> DEFINE n == Length(student)
             alone(k) == IF k = 1 THEN PoweredUp(student.hw) ELSE AfterInit(student)
             ok(k) == Run(checker(student.hw)[k], student, alone(k)).ok
  <2> SUFFICES ASSUME SuiteInv, KnownState(student), exitCode \in {0, 1}
               PROVE  exitCode = 0 <=>
                        /\ Run("check_initialization", student, PoweredUp(student.hw)).ok
                        /\ \A k \in 2..Len(checkFunctions) :
                             Run(checkFunctions[k], student, AfterInit(student)).ok
    BY DEF VerdictsIndependent
  <2>0. /\ IsStudent(student) /\ checkFunctions = checker(student.hw)
        /\ Len(checkFunctions) = n /\ n \in Nat /\ n >= 4
        /\ checker(student.hw)[1] = "check_initialization"
    BY SuiteFacts, SuiteShape DEF SuiteInv
  <2>1. /\ \A k \in 1..n : ~Faults(checker(student.hw)[k], student)
        /\ exitCode = 0 <=> \A k \in 1..n : check_results[k].passed
        /\ \A k \in 1..n : Decided(student, k) => (check_results[k].passed <=> Passes(student, k))
    BY Ended
  <2>2. \A k \in 1..n : Decided(student, k) => (ok(k) <=> Passes(student, k))
    <3> SUFFICES ASSUME NEW k \in 1..n, Decided(student, k) PROVE ok(k) <=> Passes(student, k)
      OBVIOUS
    <3>1. k > 1 => k - 1 \in 1..n
      BY <2>0
    <3>2. k > 1 => Reaches(student, k - 1, alone(k))
      BY <2>0, <3>1, AlwaysReached
    <3>3. k = 1 => alone(k) = PoweredUp(student.hw)
      OBVIOUS
    <3> HIDE DEF alone
    <3> QED BY <2>0, <2>1, <3>2, <3>3, CheckGives
  <2>3. (\A k \in 1..n : check_results[k].passed) <=> \A k \in 1..n : ok(k)
    <3>1. CASE \A k \in 1..n : Decided(student, k)
      BY <2>1, <2>2, <3>1
    <3>2. CASE \E k \in 1..n : ~Decided(student, k)
      <4>1. 2 \in 1..n /\ Decided(student, 2) /\ ~Passes(student, 2)
        BY <2>0, <2>1, <3>2, UndecidedFails
      <4> QED BY <2>1, <2>2, <4>1
    <3> QED BY <3>1, <3>2
  <2>4. /\ ok(1) <=> Run("check_initialization", student, PoweredUp(student.hw)).ok
        /\ \A k \in 2..n : ok(k) <=> Run(checkFunctions[k], student, AfterInit(student)).ok
    BY <2>0
  <2> HIDE DEF ok
  <2>5. \A k : k \in 1..n <=> k = 1 \/ k \in 2..n
    BY <2>0
  <2> QED BY <2>0, <2>1, <2>3, <2>4, <2>5
<1> QED BY <1>1, SuiteInvariant, PTL

(* EachVerdictIndependent, for every program of HW1: each check recorded     *)
(* gave the verdict it gives right after the initialisation.                 *)
THEOREM NoHiddenCoupling == Spec => []EachVerdictIndependent
<1>1. SuiteInv => EachVerdictIndependent
  <2> SUFFICES ASSUME SuiteInv, student.hw = 1, NEW k \in 2..Len(check_results)
               PROVE  check_results[k].passed
                        <=> Run(checkFunctions[k], student, AfterInit(student)).ok
    BY DEF EachVerdictIndependent
  <2>0. /\ IsStudent(student) /\ checkFunctions = checker(student.hw)
        /\ Length(student) \in Nat /\ Ran \in Nat /\ Ran <= Length(student)
    BY SuiteFacts DEF SuiteInv
  <2>1. k \in 1..Ran /\ k \in 1..Length(student) /\ k - 1 \in 1..Length(student) /\ k # 1
    BY <2>0 DEF Ran
  <2>2. /\ ~Faults(checkFunctions[k], student)
        /\ Decided(student, k) => (check_results[k].passed <=> Passes(student, k))
    BY <2>1 DEF SuiteInv, VerdictsRecorded
  <2>3. Decided(student, k) /\ KnownState(student)
    BY SMT DEF Decided, KnownState
  <2>4. Reaches(student, k - 1, AfterInit(student))
    BY <2>0, <2>1, <2>3, AlwaysReached
  <2>5. Run(checkFunctions[k], student, AfterInit(student)).ok <=> Passes(student, k)
    BY <2>0, <2>1, <2>2, <2>3, <2>4, CheckGives
  <2> QED BY <2>2, <2>3, <2>5
<1> QED BY <1>1, SuiteInvariant, PTL

(* StateRestored, for every program of HW1: no check after the first leaves  *)
(* a register or global other than it found it.                              *)
THEOREM ChecksRestore == Spec => StateRestored
<1>1. SuiteInv /\ [Next]_vars =>
        [student.hw = 1 /\ check_results # <<>> =>
          machine' = [machine EXCEPT !.prev = machine'.prev, !.prints = machine'.prints]]_vars
  <2> SUFFICES ASSUME SuiteInv, Next, student.hw = 1, check_results # <<>>
               PROVE  machine' =
                        [machine EXCEPT !.prev = machine'.prev, !.prints = machine'.prints]
    OBVIOUS
  <2>0. /\ IsStudent(student) /\ checkFunctions = checker(student.hw)
        /\ Length(student) \in Nat /\ Ran \in Nat /\ Len(checkFunctions) = Length(student)
        /\ check_results \in Seq(CheckResult)
    BY SuiteFacts DEF SuiteInv
  <2>1. Ran > 0
    BY <2>0 DEF Ran
  <2>2. H1!IsStudent(student) /\ Reach1(student, Ran, machine)
    <3>1. Reaches(student, Ran, machine)
      BY <2>1 DEF SuiteInv, MachineReached
    <3> QED BY <2>0, <3>1, SMT DEF IsStudent, Reaches
  <2>3. machine \in Machine
    BY <2>2, SettledTypes DEF Reach1
  <2>4. CASE machine' = machine
    BY <2>3, <2>4 DEF Machine
  <2>5. CASE RunNextCheck
    <3> DEFINE k == CurrentCheck
    <3>1. k = Ran + 1 /\ k \in 1..Length(student)
      BY <2>0, <2>5 DEF RunNextCheck, InTheLoop, CurrentCheck, Ran
    <3>2. machine' = Run(checkFunctions[k], student, machine).machine
      BY <2>5 DEF RunNextCheck
    <3> HIDE DEF k
    <3>3. k \in 1..7 /\ k > 1 /\ k - 1 = Ran
      BY <2>1, <2>0, <3>1, SMT DEF Length
    <3>4. machine' = H1!Run(H1!checker[k], student, machine).machine
      BY <2>0, <3>2, SMT DEF Run, checker
    <3>5. AlikeBut(machine', machine)
      BY <2>2, <3>3, <3>4, Check1
    <3> QED BY <3>5 DEF AlikeBut
  <2>6. CASE RunFaultyCheck
    BY <2>4, <2>6 DEF RunFaultyCheck
  <2>7. CASE WriteReportAndExit
    BY <2>4, <2>7 DEF WriteReportAndExit
  <2> QED BY <2>5, <2>6, <2>7 DEF Next
<1> QED BY <1>1, SuiteInvariant, PTL DEF Spec, StateRestored

\* The registers right after the initialisation, in every machine reached.
LEMMA ReachedTypes ==
  ASSUME NEW s, IsStudent(s), NEW k, NEW m, Reaches(s, k, m), s.hw # 1
  PROVE  /\ DOMAIN m = DOMAIN PoweredUp(s.hw)
         /\ m.regs = AfterInit(s).regs
         /\ m.UARTPrint \in {0, 1} /\ m.prints \in Nat
<1>2. CASE s.hw = 2
  <2>1. Typed2(s, m) /\ H2!IsStudent(s)
    BY <1>2, SMT DEF Reaches, Reach2, IsStudent
  <2>2. AfterInit(s) = H2!check_initialization(s, H2!PoweredUp).machine
    BY <1>2, SMT DEF AfterInit, Run, PoweredUp, H2!Run
  <2>3. Reach2(s, 1, AfterInit(s))
    BY <2>1, <2>2, Init2
  <2>4. DOMAIN PoweredUp(s.hw) = Names2
    BY <1>2, SMT DEF PoweredUp, H2!PoweredUp, Names2
  <2> QED BY <2>1, <2>3, <2>4 DEF Typed2, Reach2
<1>3. CASE s.hw = 3
  <2>1. Typed3(s, m) /\ H3!IsStudent(s)
    BY <1>3, SMT DEF Reaches, Reach3, IsStudent
  <2>2. AfterInit(s) = H3!check_initialization(s, H3!PoweredUp).machine
    BY <1>3, SMT DEF AfterInit, Run, PoweredUp, H3!Run
  <2>3. Reach3(s, 1, AfterInit(s))
    BY <2>1, <2>2, Init3
  <2>4. DOMAIN PoweredUp(s.hw) = Names3
    BY <1>3, SMT DEF PoweredUp, H3!PoweredUp, Names3
  <2> QED BY <2>1, <2>3, <2>4 DEF Typed3, Reach3
<1>4. CASE s.hw = 4
  <2>1. Typed4(s, m) /\ H4!IsStudent(s)
    BY <1>4, SMT DEF Reaches, Reach4, IsStudent
  <2>2. AfterInit(s) = H4!check_initialization(s, H4!PoweredUp).machine
    BY <1>4, SMT DEF AfterInit, Run, PoweredUp, H4!Run
  <2>3. Reach4(s, 1, AfterInit(s))
    BY <2>1, <2>2, Init4
  <2>4. DOMAIN PoweredUp(s.hw) = Names4
    BY <1>4, SMT DEF PoweredUp, H4!PoweredUp, Names4
  <2> QED BY <2>1, <2>3, <2>4 DEF Typed4, Reach4
<1>5. CASE s.hw = 5
  <2>1. Typed5(s, m) /\ H5!IsStudent(s)
    BY <1>5, SMT DEF Reaches, Reach5, IsStudent
  <2>2. AfterInit(s) = H5!check_initialization(s, H5!PoweredUp).machine
    BY <1>5, SMT DEF AfterInit, Run, PoweredUp, H5!Run
  <2>3. Reach5(s, 1, AfterInit(s))
    BY <2>1, <2>2, Init5
  <2>4. DOMAIN PoweredUp(s.hw) = Names5
    BY <1>5, SMT DEF PoweredUp, H5!PoweredUp, Names5
  <2> QED BY <2>1, <2>3, <2>4 DEF Typed5, Reach5
<1> QED BY <1>2, <1>3, <1>4, <1>5, Assignments

(* Type correctness of the suites: after the initialisation the registers    *)
(* are the ones it wrote, in every machine a check of HW2 to HW5 meets.      *)
THEOREM SuitesTypeCorrect == Spec => []TypeOK
<1>1. SuiteInv => TypeOK
  <2> SUFFICES ASSUME SuiteInv PROVE TypeOK
    OBVIOUS
  <2>0. /\ IsStudent(student) /\ Ran \in Nat /\ check_results \in Seq(CheckResult)
        /\ student \in Students /\ checkFunctions = checker(student.hw)
    BY SuiteFacts DEF SuiteInv
  <2>1. check_results = <<>> => machine = PoweredUp(student.hw)
    BY DEF SuiteInv, MachineReached, Ran
  <2>2. check_results # <<>> => Reaches(student, Ran, machine)
    <3>1. check_results # <<>> => Ran > 0
      BY <2>0 DEF Ran
    <3> QED BY <3>1 DEF SuiteInv, MachineReached
  <2>3. check_results # <<>> /\ student.hw = 1 => H1!IsMachine(student, machine)
    BY <2>2, SMT DEF Reaches, Reach1
  <2>4. check_results # <<>> /\ student.hw # 1 =>
            /\ DOMAIN machine = DOMAIN PoweredUp(student.hw)
            /\ machine.regs = AfterInit(student).regs
            /\ machine.UARTPrint \in {0, 1} /\ machine.prints \in Nat
    BY <2>0, <2>2, ReachedTypes
  <2>5. result \in {0, 1} /\ exitCode \in {Running, 0, 1, Killed}
    BY DEF SuiteInv, ValidatorInv, ResultIsConjunction, EndsAsItShould
  <2>6. report \in Seq(CheckResult)
    <3>1. report = <<>> \/ report = check_results
      BY DEF SuiteInv, ValidatorInv, ExitAgreesWithReport
    <3>2. <<>> \in Seq(CheckResult)
      OBVIOUS
    <3> QED BY <2>0, <3>1, <3>2
  <2>7. CASE check_results = <<>>
    BY <2>0, <2>1, <2>5, <2>6, <2>7, SMT DEF TypeOK
  <2>8. CASE check_results # <<>>
    <3> DEFINE hw1 == student.hw = 1
               typed1 == H1!IsMachine(student, machine)
               typed == /\ DOMAIN machine = DOMAIN PoweredUp(student.hw)
                        /\ machine.regs = AfterInit(student).regs
                        /\ machine.UARTPrint \in {0, 1} /\ machine.prints \in Nat
    <3>1. (hw1 => typed1) /\ (~hw1 => typed)
      BY <2>3, <2>4, <2>8
    <3>2. (CASE check_results = <<>> -> machine = PoweredUp(student.hw)
             [] check_results # <<>> /\ hw1 -> typed1
             [] check_results # <<>> /\ ~hw1 -> typed)
      <4> HIDE DEF hw1, typed1, typed
      <4> QED BY <2>8, <3>1
    <3> QED BY <2>0, <2>5, <2>6, <3>2 DEF TypeOK
  <2> QED BY <2>7, <2>8
<1> QED BY <1>1, SuiteInvariant, PTL
=============================================================================
