------------------------ MODULE PatchedProgram_proofs ------------------------
(***************************************************************************)
(* Conforming programs run under the driver as they were written, for all  *)
(* programs and however their run is divided into entries; and every entry *)
(* comes closer to its end with each step.                                 *)
(***************************************************************************)
EXTENDS PatchedProgram, FiniteSetTheorems, TLAPS

before == [n \in 1..Len(main) - 1 |-> main[n].kind]
body == main[Len(main)].body

Cleared(kinds, n) == \E c \in 1..n - 1 : kinds[c] = "clear"

\* Where a conforming program can stand, and when main's variable has the value
\* it is meant to have: once this entry, or this pass, has cleared it.
Standing ==
  /\ at = "main" => grader_inited
  /\ at = "main" /\ k < Len(main) => j = 0
  /\ at = "main" /\ k > Len(main) => j = 0
  /\ j \in 0..Len(body)

ClearedIsMeant ==
  /\ at = "main" /\ k < Len(main) /\ Cleared(before, k)
       => local = meant
  /\ at = "main" /\ k = Len(main) /\ j > 0 /\ Cleared(body, j) => local = meant

\* Only a program that compiled is run.
BuiltInv == (at # "check" => built = "patched") /\ (built = "patched" => Compiles)

IInv == TypeOK /\ BuiltInv /\ (Conforms => Standing /\ ClearedIsMeant)

(* What the assignment's contract says of main's statements.                *)
LEMMA ConformingMain ==
  ASSUME program \in Programs, Conforms
  PROVE  /\ main \in Seq(Statements) /\ Len(main) \in Nat \ {0}
         /\ IsLoop(main[Len(main)]) /\ main[Len(main)].how = "while1"
         /\ body \in Seq(SimpleKinds) /\ Len(body) \in Nat \ {0} /\ body # <<>>
         /\ \A n \in 1..Len(main) - 1 :
              ~IsLoop(main[n]) /\ main[n].kind \in SimpleKinds \ {"trap"}
         /\ \A n \in 1..Len(body) : body[n] \in SimpleKinds \ {"trap"}
         /\ Guarded /\ LoopStart = Len(main) /\ Compiles
<1>1. main \in Seq(Statements)
  BY ProgramsAssumption DEF main
<1>2. Labels = {Len(main)}
  BY DEF Conforms
<1>3. Len(main) \in DOMAIN main /\ IsLoop(main[Len(main)]) /\ main[Len(main)].how = "while1"
  BY <1>2 DEF Labels
<1>4. Len(main) \in Nat /\ DOMAIN main = 1..Len(main)
  BY <1>1
<1>5. Len(main) \in Nat \ {0}
  BY <1>3, <1>4
<1>6. main[Len(main)] \in Statements
  BY <1>1, <1>3
<1>7. body \in Seq(SimpleKinds)
  BY <1>3, <1>6 DEF Statements, SimpleKinds, IsLoop, body
<1>8. body # <<>> /\ Len(body) \in Nat \ {0}
  BY <1>7 DEF Conforms, body
<1>9. ASSUME NEW n \in 1..Len(main) - 1
      PROVE  ~IsLoop(main[n]) /\ main[n].kind \in SimpleKinds \ {"trap"}
  <2>1. n \in DOMAIN main /\ n < Len(main)
    BY <1>4
  <2>2. main[n] \in Statements
    BY <1>1, <2>1
  <2> QED
    BY <2>1, <2>2 DEF Conforms, Statements, IsLoop, SimpleKinds
<1>10. ASSUME NEW n \in 1..Len(body) PROVE body[n] \in SimpleKinds \ {"trap"}
  BY <1>7 DEF Conforms, body
<1>11. Guarded
  BY DEF Conforms, Guarded
<1>12. LoopStart = Len(main)
  BY <1>2 DEF LoopStart
<1>13. Cardinality(Labels) = 1
  BY <1>2, FS_Singleton
<1>14. Compiles
  BY <1>2, <1>13 DEF Compiles
<1> QED
  BY <1>1, <1>3, <1>5, <1>7, <1>8, <1>9, <1>10, <1>11, <1>12, <1>14
-----------------------------------------------------------------------------
LEMMA AfterInRange ==
  ASSUME NEW kind, NEW value \in 0..Wrap - 1
  PROVE  F!After(kind, value) \in 0..Wrap - 1
<1>1. (value + 1) % Wrap \in 0..Wrap - 1 /\ 0 \in 0..Wrap - 1
  BY WrapAssumption
<1> QED
  BY <1>1 DEF F!After

LEMMA ExecuteTypes ==
  ASSUME TypeOK, NEW kind, Execute(kind)
  PROVE  local' \in 0..Wrap - 1 /\ meant' \in 0..Wrap - 1 /\ output'.n \in 0..2
<1>1. CASE kind = "trap"
  BY <1>1 DEF Execute, TypeOK
<1>2. CASE kind # "trap"
  <2>1. output'.n = (output.n + 1) % 3
    BY <1>2 DEF Execute, F!Shown
  <2>2. output'.n \in 0..2
    BY <2>1 DEF TypeOK
  <2> QED
    BY <1>2, <2>2, AfterInRange DEF Execute, TypeOK
<1> QED
  BY <1>1, <1>2

LEMMA InitIInv == Init => IInv
<1> SUFFICES ASSUME Init PROVE IInv
  OBVIOUS
<1>1. main \in Seq(Statements)
  BY ProgramsAssumption DEF Init, main
<1>2. TypeOK
  <2>1. k \in 1..Len(main) + 1 /\ j \in Nat /\ grader_i \in Nat /\ g_iters \in Nat
    BY <1>1 DEF Init
  <2>2. local \in 0..Wrap - 1 /\ meant \in 0..Wrap - 1 /\ output.n \in 0..2
    BY WrapAssumption DEF Init
  <2>3. /\ program \in Programs /\ built \in {"source", "patched", "rejected"}
        /\ at \in {"check", "guard", "main"} /\ grader_inited \in BOOLEAN
    BY DEF Init
  <2> QED
    BY <2>1, <2>2, <2>3 DEF TypeOK
<1>3. ASSUME Conforms PROVE Standing /\ ClearedIsMeant
  BY <1>2, <1>3, ConformingMain DEF Init, TypeOK, Standing, ClearedIsMeant
<1>4. BuiltInv
  BY DEF Init, BuiltInv
<1> QED
  BY <1>2, <1>3, <1>4 DEF IInv

\* The program is never changed, nor what is derived from it alone.
LEMMA ProgramIsFixed ==
  ASSUME program' = program
  PROVE  /\ main' = main /\ body' = body /\ Conforms' = Conforms /\ Guarded' = Guarded
         /\ LoopStart' = LoopStart /\ Compiles' = Compiles
  BY DEF main, body, Conforms, Guarded, Labels, LoopStart, Compiles

LEMMA BuiltStep == TypeOK /\ BuiltInv /\ [Next]_vars => BuiltInv'
<1> SUFFICES ASSUME TypeOK, BuiltInv, [Next]_vars PROVE BuiltInv'
  OBVIOUS
<1>1. program' = program
  BY DEF Next, Build, Enter, InMain, Guard, Statement, LoopHead, BodyStatement, Return, vars
<1>2. Compiles' = Compiles
  BY <1>1, ProgramIsFixed
<1> QED
  BY <1>2 DEF BuiltInv, TypeOK, Next, Build, Enter, InMain, Guard, Statement, LoopHead,
              BodyStatement, Return, vars

LEMMA TypeStep == TypeOK /\ BuiltInv /\ [Next]_vars => TypeOK'
<1> SUFFICES ASSUME TypeOK, BuiltInv, [Next]_vars PROVE TypeOK'
  OBVIOUS
<1> USE DEF TypeOK
<1>1. /\ main \in Seq(Statements) /\ Len(main) \in Nat
  BY ProgramsAssumption DEF main
<1>2. program' = program /\ main' = main
  BY DEF Next, Build, Enter, InMain, Guard, Statement, LoopHead, BodyStatement, Return,
         vars, main
<1>3. CASE Build
  BY <1>2, <1>3 DEF Build, frame
<1>4. ASSUME NEW n \in 0..MaxIters, Enter(n) PROVE TypeOK'
  BY <1>2, <1>4, IterationsAssumption DEF Enter
<1>5. CASE Guard
  <2>1. ASSUME Guarded PROVE LoopStart \in 1..Len(main) + 1
    <3>1. Labels # {}
      BY <1>5, <2>1 DEF Guard, BuiltInv, Compiles
    <3>2. LoopStart \in Labels
      BY <3>1, Zenon DEF LoopStart
    <3>3. LoopStart \in 1..Len(main)
      BY <1>1, <3>2 DEF Labels
    <3> QED
      BY <1>1, <3>3
  <2>2. k' \in 1..Len(main) + 1
    <3>1. CASE Guarded /\ grader_inited
      BY <1>5, <2>1, <3>1 DEF Guard
    <3>2. CASE ~(Guarded /\ grader_inited)
      BY <1>1, <1>5, <3>2 DEF Guard
    <3> QED
      BY <3>1, <3>2
  <2>3. grader_inited' \in BOOLEAN
    BY <1>5, Zenon DEF Guard, Guarded
  <2> QED
    BY <1>2, <1>5, <2>2, <2>3 DEF Guard
<1>6. CASE Statement
  <2>1. local' \in 0..Wrap - 1 /\ meant' \in 0..Wrap - 1 /\ output'.n \in 0..2
    BY <1>6, ExecuteTypes DEF Statement
  <2> QED
    BY <1>1, <1>2, <1>6, <2>1 DEF Statement
<1>7. CASE LoopHead
  BY <1>1, <1>2, <1>7 DEF LoopHead
<1>8. CASE BodyStatement
  <2>1. local' \in 0..Wrap - 1 /\ meant' \in 0..Wrap - 1 /\ output'.n \in 0..2
    BY <1>8, ExecuteTypes DEF BodyStatement
  <2> QED
    BY <1>1, <1>2, <1>8, <2>1 DEF BodyStatement
<1>9. CASE Return
  BY <1>2, <1>9 DEF Return, frame
<1>10. CASE UNCHANGED vars
  BY <1>2, <1>10 DEF vars, frame
<1> QED
  BY <1>3, <1>4, <1>5, <1>6, <1>7, <1>8, <1>9, <1>10 DEF Next, InMain
-----------------------------------------------------------------------------
(* What one statement does to main's variable and to the value it is meant to *)
(* have, where the two need only agree once the variable was cleared.         *)
LEMMA ExecuteCleared ==
  ASSUME NEW kinds, NEW n \in Nat \ {0}, kinds[n] # "trap", Execute(kinds[n]),
         Cleared(kinds, n) => local = meant
  PROVE  Cleared(kinds, n + 1) => local' = meant'
<1> SUFFICES ASSUME Cleared(kinds, n + 1) PROVE local' = meant'
  OBVIOUS
<1>1. local' = F!After(kinds[n], local) /\ meant' = F!After(kinds[n], meant)
  BY DEF Execute
<1>2. PICK c \in 1..n : kinds[c] = "clear"
  BY DEF Cleared
<1>3. CASE c = n
  BY <1>1, <1>2, <1>3 DEF F!After
<1>4. CASE c # n
  <2>1. Cleared(kinds, n)
    BY <1>2, <1>4 DEF Cleared
  <2> QED
    BY <1>1, <2>1
<1> QED
  BY <1>3, <1>4

\* Where a statement of a conforming main can stand.
LEMMA StandingOfMain ==
  ASSUME TypeOK, Conforms, Standing
  PROVE  /\ Statement => k \in 1..Len(main) - 1 /\ j = 0 /\ before[k] = main[k].kind
                         /\ before[k] # "trap" /\ grader_inited
         /\ LoopHead => k = Len(main) /\ j = 0 /\ grader_inited
         /\ BodyStatement => k = Len(main) /\ j \in 1..Len(body) /\ body[j] # "trap"
                             /\ grader_inited
<1>1. /\ program \in Programs /\ k \in 1..Len(main) + 1
  BY DEF TypeOK
<1>2. /\ Len(main) \in Nat \ {0} /\ IsLoop(main[Len(main)])
      /\ Len(body) \in Nat \ {0}
      /\ \A n \in 1..Len(main) - 1 :
           ~IsLoop(main[n]) /\ main[n].kind \in SimpleKinds \ {"trap"}
      /\ \A n \in 1..Len(body) : body[n] \in SimpleKinds \ {"trap"}
  BY <1>1, ConformingMain
<1>3. ASSUME Statement
      PROVE  k \in 1..Len(main) - 1 /\ j = 0 /\ before[k] = main[k].kind
             /\ before[k] # "trap" /\ grader_inited
  <2>1. at = "main" /\ k \in 1..Len(main) - 1
    BY <1>1, <1>2, <1>3 DEF Statement
  <2> QED
    BY <1>2, <2>1 DEF Standing, before
<1>4. ASSUME LoopHead PROVE k = Len(main) /\ j = 0 /\ grader_inited
  BY <1>1, <1>2, <1>4 DEF LoopHead, Standing
<1>5. ASSUME BodyStatement
      PROVE  k = Len(main) /\ j \in 1..Len(body) /\ body[j] # "trap" /\ grader_inited
  <2>1. k = Len(main) /\ grader_inited
    BY <1>1, <1>2, <1>5 DEF BodyStatement, Standing
  <2>2. j \in 1..Len(body)
    BY <1>2, <1>5 DEF BodyStatement, Standing
  <2> QED
    BY <1>2, <2>1, <2>2
<1> QED
  BY <1>3, <1>4, <1>5

LEMMA StandingStep ==
  TypeOK /\ Conforms /\ Standing /\ ClearedIsMeant /\ [Next]_vars
    => Standing' /\ ClearedIsMeant'
<1> SUFFICES ASSUME TypeOK, Conforms, Standing, ClearedIsMeant, [Next]_vars
             PROVE  Standing' /\ ClearedIsMeant'
  OBVIOUS
<1>1. program' = program
  BY DEF Next, Build, Enter, InMain, Guard, Statement, LoopHead, BodyStatement, Return, vars
<1>2. /\ main' = main /\ body' = body /\ before' = before
  BY <1>1, ProgramIsFixed DEF before, main
<1>3. /\ Len(main) \in Nat \ {0} /\ Len(body) \in Nat \ {0}
      /\ Guarded /\ LoopStart = Len(main)
      /\ k \in 1..Len(main) + 1 /\ j \in Nat
      /\ main[Len(main)].body = body
  BY ConformingMain DEF TypeOK, body
<1>4. ASSUME at' # "main", j' \in 0..Len(body) PROVE Standing' /\ ClearedIsMeant'
  BY <1>2, <1>4 DEF Standing, ClearedIsMeant
<1>5. CASE Build
  <2>1. at' = at /\ k' = k /\ j' = j /\ local' = local /\ meant' = meant
        /\ grader_inited' = grader_inited
    BY <1>5 DEF Build, frame
  <2> QED
    BY <1>2, <2>1 DEF Standing, ClearedIsMeant, Cleared
<1>6. ASSUME NEW n \in 0..MaxIters, Enter(n) PROVE Standing' /\ ClearedIsMeant'
  BY <1>4, <1>6 DEF Enter, Standing
<1>7. CASE Guard
  <2>1. at' = "main" /\ j' = 0 /\ grader_inited' /\ k' \in {1, Len(main)}
    BY <1>3, <1>7 DEF Guard
  <2>2. ~Cleared(before, 1)
    BY DEF Cleared
  <2>3. Standing'
    BY <1>2, <1>3, <2>1 DEF Standing
  <2>4. ClearedIsMeant'
    BY <1>2, <1>3, <2>1, <2>2 DEF ClearedIsMeant, before
  <2> QED
    BY <2>3, <2>4
<1>8. CASE Statement
  <2>1. k \in 1..Len(main) - 1 /\ j = 0 /\ before[k] = main[k].kind /\ before[k] # "trap"
        /\ grader_inited
    BY <1>8, StandingOfMain
  <2>2. at = "main" /\ at' = at /\ k' = k + 1 /\ j' = 0 /\ grader_inited'
        /\ Execute(before[k])
    BY <1>8, <2>1 DEF Statement
  <2>3. Cleared(before, k) => local = meant
    BY <1>3, <2>1, <2>2 DEF ClearedIsMeant, before
  <2>4. Cleared(before, k + 1) => local' = meant'
    BY <2>1, <2>2, <2>3, ExecuteCleared
  <2>5. Standing'
    BY <1>2, <1>3, <2>1, <2>2 DEF Standing
  <2>6. ClearedIsMeant'
    BY <1>2, <2>2, <2>4 DEF ClearedIsMeant, before
  <2> QED
    BY <2>5, <2>6
<1>9. CASE LoopHead
  <2>1. k = Len(main) /\ j = 0 /\ grader_inited /\ at = "main"
    BY <1>9, StandingOfMain DEF LoopHead
  <2>2. at' = at /\ grader_inited' = grader_inited
        /\ \/ k' = k /\ j' \in {0, 1}
           \/ k' = k + 1 /\ j' = 0
    BY <1>9, <2>1 DEF LoopHead
  <2>3. Standing'
    BY <1>2, <1>3, <2>1, <2>2 DEF Standing
  <2>4. ~Cleared(body, 1)
    BY DEF Cleared
  <2>5. ClearedIsMeant'
    BY <1>2, <1>3, <2>1, <2>2, <2>4 DEF ClearedIsMeant
  <2> QED
    BY <2>3, <2>5
<1>10. CASE BodyStatement
  <2>1. k = Len(main) /\ j \in 1..Len(body) /\ body[j] # "trap" /\ grader_inited
    BY <1>10, StandingOfMain
  <2>2. at = "main" /\ at' = at /\ k' = k /\ grader_inited' = grader_inited
        /\ Execute(body[j]) /\ j' = (IF j = Len(body) THEN 0 ELSE j + 1)
    BY <1>3, <1>10, <2>1 DEF BodyStatement
  <2>3. Cleared(body, j) => local = meant
    BY <2>1, <2>2 DEF ClearedIsMeant
  <2>4. Cleared(body, j + 1) => local' = meant'
    BY <2>1, <2>2, <2>3, ExecuteCleared
  <2>5. Standing'
    BY <1>2, <1>3, <2>1, <2>2 DEF Standing
  <2>6. ClearedIsMeant'
    BY <1>2, <1>3, <2>1, <2>2, <2>4 DEF ClearedIsMeant
  <2> QED
    BY <2>5, <2>6
<1>11. CASE Return
  BY <1>4, <1>11 DEF Return, frame, Standing
<1>12. CASE UNCHANGED vars
  <2>1. at' = at /\ k' = k /\ j' = j /\ local' = local /\ meant' = meant
        /\ grader_inited' = grader_inited
    BY <1>12 DEF vars, frame
  <2> QED
    BY <1>2, <2>1 DEF Standing, ClearedIsMeant, Cleared
<1> QED
  BY <1>5, <1>6, <1>7, <1>8, <1>9, <1>10, <1>11, <1>12 DEF Next, InMain
-----------------------------------------------------------------------------
LEMMA Invariance == Spec => []IInv
<1>1. Init => IInv
  BY InitIInv
<1>2. IInv /\ [Next]_vars => IInv'
  <2> SUFFICES ASSUME IInv, [Next]_vars PROVE IInv'
    OBVIOUS
  <2>1. TypeOK' /\ BuiltInv'
    BY TypeStep, BuiltStep DEF IInv
  <2>2. program' = program
    BY DEF Next, Build, Enter, InMain, Guard, Statement, LoopHead, BodyStatement, Return,
           vars
  <2>3. Conforms' = Conforms
    BY <2>2, ProgramIsFixed
  <2>4. Conforms => Standing' /\ ClearedIsMeant'
    BY StandingStep DEF IInv
  <2> QED
    BY <2>1, <2>3, <2>4 DEF IInv
<1> QED
  BY <1>1, <1>2, PTL DEF Spec

\* The types, for every set of programs.
THEOREM TypeCorrect == Spec => []TypeOK
<1>1. IInv => TypeOK
  BY DEF IInv
<1> QED
  BY <1>1, Invariance, PTL

\* What a statement shows, once main's variable has its value whenever it counts.
LEMMA ExecuteShows ==
  ASSUME NEW kinds, NEW n \in Nat \ {0}, kinds[n] # "trap", Execute(kinds[n]),
         Cleared(kinds, n) => local = meant,
         kinds[n] = "count" => Cleared(kinds, n)
  PROVE  /\ meant' = Written!After(kinds[n], meant)
         /\ output' = Written!Shown(kinds[n], <<k, j>>, meant, output)
<1>1. /\ local' = F!After(kinds[n], local) /\ meant' = F!After(kinds[n], meant)
      /\ output' = F!Shown(kinds[n], <<k, j>>, local, output)
  BY DEF Execute
<1>2. meant' = Written!After(kinds[n], meant)
  BY <1>1 DEF F!After, Written!After
<1>3. CASE kinds[n] = "count"
  BY <1>1, <1>3 DEF F!Shown, F!After, Written!Shown, Written!After
<1>4. CASE kinds[n] # "count"
  BY <1>1, <1>4 DEF F!Shown, F!After, Written!Shown, Written!After
<1> QED
  BY <1>2, <1>3, <1>4

\* Where the program as written stands (the mapping of Written).
kbar == IF at = "main" /\ k <= Len(main) THEN k ELSE IF grader_inited THEN Len(main) ELSE 1
jbar == IF at = "main" THEN j ELSE 0

LEMMA StepShows ==
  IInv /\ Conforms /\ [Next]_vars => [Written!FNext]_(Written!fvars)
<1> SUFFICES ASSUME IInv, Conforms, [Next]_vars PROVE [Written!FNext]_(Written!fvars)
  OBVIOUS
<1>0. TypeOK /\ Standing /\ ClearedIsMeant
  BY DEF IInv
<1>1. program' = program
  BY DEF Next, Build, Enter, InMain, Guard, Statement, LoopHead, BodyStatement, Return, vars
<1>2. main' = main
  BY <1>1, ProgramIsFixed
<1>3. /\ Len(main) \in Nat \ {0} /\ Len(body) \in Nat \ {0} /\ body # <<>>
      /\ IsLoop(main[Len(main)]) /\ main[Len(main)].how = "while1"
      /\ Guarded /\ LoopStart = Len(main)
      /\ k \in 1..Len(main) + 1 /\ j \in Nat
      /\ main[Len(main)].body = body
      /\ \A n \in 1..Len(main) - 1 :
           ~IsLoop(main[n]) /\ main[n].kind \in SimpleKinds \ {"trap"}
  BY <1>0, ConformingMain DEF TypeOK, body
<1>4. ASSUME kbar' = kbar, jbar' = jbar, meant' = meant, output' = output
      PROVE  UNCHANGED Written!fvars
  BY <1>2, <1>4 DEF Written!fvars, kbar, jbar
<1>5. CASE Build
  BY <1>2, <1>4, <1>5 DEF Build, frame, kbar, jbar
<1>6. ASSUME NEW n \in 0..MaxIters, Enter(n) PROVE UNCHANGED Written!fvars
  BY <1>2, <1>4, <1>6 DEF Enter, kbar, jbar
<1>7. CASE Guard
  <2>1. at = "guard" /\ at' = "main" /\ j' = 0 /\ grader_inited'
        /\ k' = (IF grader_inited THEN Len(main) ELSE 1)
        /\ meant' = meant /\ output' = output
    BY <1>3, <1>7 DEF Guard
  <2>2. kbar' = kbar /\ jbar' = jbar
    BY <1>2, <1>3, <2>1 DEF kbar, jbar
  <2> QED
    BY <1>4, <2>1, <2>2
<1>8. CASE Statement
  <2>1. k \in 1..Len(main) - 1 /\ j = 0 /\ before[k] = main[k].kind /\ before[k] # "trap"
        /\ grader_inited
    BY <1>0, <1>8, StandingOfMain
  <2>2. at = "main" /\ at' = at /\ k' = k + 1 /\ j' = j /\ Execute(before[k])
    BY <1>8, <2>1 DEF Statement
  <2>3. Cleared(before, k) => local = meant
    BY <1>0, <1>3, <2>1, <2>2 DEF ClearedIsMeant
  <2>4. before[k] = "count" => Cleared(before, k)
    BY <2>1 DEF Conforms, KeepsNothing, Cleared, before
  <2>5. /\ meant' = Written!After(before[k], meant)
        /\ output' = Written!Shown(before[k], <<k, j>>, meant, output)
    BY <2>1, <2>2, <2>3, <2>4, ExecuteShows
  <2>6. kbar = k /\ kbar' = k + 1 /\ jbar = j /\ jbar' = jbar /\ k <= Len(main)
    BY <1>2, <1>3, <2>1, <2>2 DEF kbar, jbar
  <2>7. main[k].kind \notin {"loop", "trap"}
    BY <1>3, <2>1 DEF IsLoop
  <2>8. Written!Straight
    BY <1>2, <2>1, <2>5, <2>6, <2>7 DEF Written!Straight, Written!Simple, kbar, jbar
  <2> QED
    BY <2>8 DEF Written!FNext
<1>9. CASE LoopHead
  <2>1. k = Len(main) /\ j = 0 /\ grader_inited /\ at = "main"
    BY <1>0, <1>9, StandingOfMain DEF LoopHead
  <2>2. at' = at /\ grader_inited' = grader_inited /\ meant' = meant /\ output' = output
    BY <1>9 DEF LoopHead
  <2>3. CASE k' = k /\ j' = 1
    <3>1. kbar = k /\ kbar' = k /\ jbar = 0 /\ jbar' = 1 /\ k <= Len(main)
      BY <1>2, <1>3, <2>1, <2>2, <2>3 DEF kbar, jbar
    <3>2. Written!EnterPass
      BY <1>2, <1>3, <2>1, <2>2, <3>1 DEF Written!EnterPass, kbar, jbar, IsLoop
    <3> QED
      BY <3>2 DEF Written!FNext
  <2>4. CASE k' = k + 1 /\ j' = j
    <3>1. kbar' = kbar /\ jbar' = jbar
      BY <1>2, <1>3, <2>1, <2>2, <2>4 DEF kbar, jbar
    <3> QED
      BY <1>4, <2>2, <3>1
  <2>5. (k' = k /\ j' = 1) \/ (k' = k + 1 /\ j' = j)
    BY <1>3, <1>9, <2>1 DEF LoopHead
  <2> QED
    BY <2>3, <2>4, <2>5
<1>10. CASE BodyStatement
  <2>1. k = Len(main) /\ j \in 1..Len(body) /\ body[j] # "trap" /\ grader_inited
    BY <1>0, <1>10, StandingOfMain
  <2>2. at = "main" /\ at' = at /\ k' = k
        /\ Execute(body[j]) /\ j' = (IF j = Len(body) THEN 0 ELSE j + 1)
    BY <1>3, <1>10, <2>1 DEF BodyStatement
  <2>3. Cleared(body, j) => local = meant
    BY <1>0, <2>1, <2>2 DEF ClearedIsMeant
  <2>4. body[j] = "count" => Cleared(body, j)
    BY <1>3, <2>1, ConformingMain, <1>0 DEF Conforms, KeepsNothing, Cleared, body, TypeOK
  <2>5. /\ meant' = Written!After(body[j], meant)
        /\ output' = Written!Shown(body[j], <<k, j>>, meant, output)
    BY <2>1, <2>2, <2>3, <2>4, ExecuteShows
  <2>6. kbar = k /\ kbar' = k /\ jbar = j /\ jbar' = j' /\ k <= Len(main)
    BY <1>2, <1>3, <2>1, <2>2 DEF kbar, jbar
  <2>7. Written!InPass
    BY <1>2, <1>3, <2>1, <2>2, <2>5, <2>6
       DEF Written!InPass, Written!Simple, kbar, jbar, IsLoop
  <2> QED
    BY <2>7 DEF Written!FNext
<1>11. CASE Return
  <2>1. at = "main" /\ k > Len(main) /\ at' = "check" /\ k' = k /\ j' = j
        /\ grader_inited' = grader_inited /\ meant' = meant /\ output' = output
    BY <1>11 DEF Return, frame
  <2>2. j = 0 /\ grader_inited
    BY <1>0, <2>1 DEF Standing
  <2>3. kbar' = kbar /\ jbar' = jbar
    BY <1>2, <1>3, <2>1, <2>2 DEF kbar, jbar
  <2> QED
    BY <1>4, <2>1, <2>3
<1>12. CASE UNCHANGED vars
  BY <1>2, <1>4, <1>12 DEF vars, frame, kbar, jbar
<1> QED
  BY <1>5, <1>6, <1>7, <1>8, <1>9, <1>10, <1>11, <1>12 DEF Next, InMain

\* However the checks divide its run into entries, a conforming program shows
\* exactly what it shows on the target: the patched program refines Firmware.
THEOREM RunsAsOnTheTarget == Spec => RunsAsWritten
<1>1. Init => (Conforms => Written!FInit)
  <2> SUFFICES ASSUME Init, Conforms PROVE Written!FInit
    OBVIOUS
  <2>1. program \in Programs
    BY DEF Init
  <2>2. Len(main) \in Nat \ {0}
    BY <2>1, ConformingMain
  <2> QED
    BY <2>2 DEF Init, Written!FInit
<1>2. IInv /\ [Next]_vars => [Conforms => [Written!FNext]_(Written!fvars)]_vars
  BY StepShows
<1> QED
  BY <1>1, <1>2, Invariance, PTL DEF Spec, RunsAsWritten
-----------------------------------------------------------------------------
(* How long an entry takes.                                                 *)

\* The hypothesis of EntriesReturn: the script recognised every loop of main.
Spelled == \A n \in DOMAIN main : IsLoop(main[n]) => main[n].how = "while1"

\* What an entry still has before it: statements of main, passes of the loop it stands
\* at, and statements of this pass.
Place  == IF at = "guard" THEN Len(main) + 3
          ELSE IF at = "main" THEN Len(main) + 2 - k ELSE 0
Passes == g_iters - grader_i
Rest   == IF at = "main" /\ k <= Len(main) /\ IsLoop(main[k])
          THEN IF j = 0 THEN Len(main[k].body) + 1 ELSE Len(main[k].body) + 1 - j
          ELSE 0

\* Statements come first, then passes, then the statements of a pass.
Closer ==
  \/ Place' < Place
  \/ Place' = Place /\ Passes' < Passes
  \/ Place' = Place /\ Passes' = Passes /\ Rest' < Rest

\* No more passes are made than were asked for, and a pass once begun is one of them.
PassInv ==
  at = "main" /\ Spelled =>
    /\ grader_i <= g_iters
    /\ j > 0 => /\ grader_i < g_iters
                /\ k <= Len(main) /\ IsLoop(main[k]) /\ j <= Len(main[k].body)

\* A recognised loop and its body.
LEMMA SpelledLoop ==
  ASSUME TypeOK, Spelled, k <= Len(main), IsLoop(main[k])
  PROVE  main[k].how = "while1" /\ main[k].body \in Seq(SimpleKinds)
<1>1. main \in Seq(Statements) /\ k \in DOMAIN main
  BY ProgramsAssumption DEF TypeOK, main
<1>2. main[k] \in Statements
  BY <1>1
<1> QED
  BY <1>1, <1>2 DEF Spelled, IsLoop, Statements, SimpleKinds

\* The program stays as it is, and so does its spelling.
LEMMA SpellingIsFixed ==
  ASSUME [Next]_vars
  PROVE  main' = main /\ Spelled' = Spelled
BY DEF Next, Build, Enter, InMain, Guard, Statement, LoopHead, BodyStatement, Return, vars,
       main, Spelled

\* The bound on the passes is kept.
LEMMA PassStep == TypeOK /\ PassInv /\ [Next]_vars => PassInv'
<1> SUFFICES ASSUME TypeOK, PassInv, [Next]_vars, at' = "main", Spelled
             PROVE  /\ grader_i' <= g_iters'
                    /\ j' > 0 => /\ grader_i' < g_iters'
                                 /\ k' <= Len(main) /\ IsLoop(main[k'])
                                 /\ j' <= Len(main[k'].body)
  BY SpellingIsFixed DEF PassInv
<1>1. k \in Nat /\ j \in Nat /\ grader_i \in Nat /\ g_iters \in Nat /\ Len(main) \in Nat
  BY ProgramsAssumption DEF TypeOK, main
<1>2. CASE Build \/ UNCHANGED vars
  BY <1>1, <1>2 DEF Build, PassInv, frame, vars
<1>3. CASE Guard
  BY <1>1, <1>3 DEF Guard
<1>4. CASE Statement
  BY <1>1, <1>4 DEF Statement, PassInv
<1>5. CASE LoopHead
  <2>1. main[k].how = "while1" /\ main[k].body \in Seq(SimpleKinds) /\ IsLoop(main[k])
        /\ k <= Len(main)
    BY <1>5, SpelledLoop DEF LoopHead
  <2>2. main[k].body # <<>> => 1 <= Len(main[k].body)
    <3> DEFINE b == main[k].body
    <3>1. b \in Seq(SimpleKinds)
      BY <2>1
    <3> HIDE DEF b
    <3>2. b # <<>> => 1 <= Len(b)
      BY <3>1
    <3> QED
      BY <3>2 DEF b
  <2> QED
    BY <1>1, <1>5, <2>1, <2>2 DEF LoopHead, AnotherPass, PassInv
<1>6. CASE BodyStatement
  <2>1. main[k].how = "while1" /\ main[k].body \in Seq(SimpleKinds)
    BY <1>6, SpelledLoop DEF BodyStatement
  <2>2. Len(main[k].body) \in Nat
    BY <2>1
  <2> QED
    BY <1>1, <1>6, <2>1, <2>2 DEF BodyStatement, PassInv
<1>7. ~Return /\ ~(\E n \in 0..MaxIters : Enter(n))
  BY DEF Return, Enter
<1> QED
  BY <1>2, <1>3, <1>4, <1>5, <1>6, <1>7 DEF Next, InMain

\* Each of the three counts is one.
LEMMA CountsAreNatural ==
  ASSUME TypeOK, PassInv, Spelled
  PROVE  Place \in Nat /\ (at = "main" => Passes \in Nat) /\ Rest \in Nat
<1>1. k \in 1..Len(main) + 1 /\ j \in Nat /\ grader_i \in Nat /\ g_iters \in Nat
      /\ Len(main) \in Nat
  BY ProgramsAssumption DEF TypeOK, main
<1>2. Place \in Nat /\ (at = "main" => Passes \in Nat)
  BY <1>1 DEF Place, Passes, PassInv
<1>3. CASE at = "main" /\ k <= Len(main) /\ IsLoop(main[k])
  <2>1. main[k].body \in Seq(SimpleKinds)
    BY <1>3, SpelledLoop
  <2>2. Len(main[k].body) \in Nat
    BY <2>1
  <2> QED
    BY <1>1, <1>2, <1>3, <2>2 DEF Rest, PassInv
<1>4. CASE ~(at = "main" /\ k <= Len(main) /\ IsLoop(main[k]))
  BY <1>2, <1>4 DEF Rest
<1> QED
  BY <1>3, <1>4

\* Each step of an entry brings it closer to its end.
LEMMA StepsComeCloser ==
  ASSUME TypeOK, BuiltInv, PassInv, Next, at # "check", Spelled
  PROVE  Closer
<1>1. k \in 1..Len(main) + 1 /\ j \in Nat /\ grader_i \in Nat /\ g_iters \in Nat
      /\ Len(main) \in Nat
  BY ProgramsAssumption DEF TypeOK, main
<1>2. main' = main /\ k' \in 1..Len(main) + 1
  BY SpellingIsFixed, TypeStep DEF TypeOK
<1>3. ASSUME at = "main", at' = "main", k' = k, k <= Len(main), IsLoop(main[k]),
             main[k].body \in Seq(SimpleKinds),
             \/ grader_i' = grader_i + 1 /\ g_iters' = g_iters
             \/ /\ grader_i' = grader_i /\ g_iters' = g_iters
                /\ j' = j + 1 /\ j <= Len(main[k].body)
      PROVE  Closer
  <2>1. Place' = Place
    BY <1>2, <1>3 DEF Place
  <2>2. CASE grader_i' = grader_i + 1 /\ g_iters' = g_iters
    BY <1>1, <2>1, <2>2 DEF Closer, Passes
  <2>3. CASE /\ grader_i' = grader_i /\ g_iters' = g_iters
             /\ j' = j + 1 /\ j <= Len(main[k].body)
    <3> DEFINE length == Len(main[k].body)
    <3>1. length \in Nat
      BY <1>3
    <3>2. Rest = (IF j = 0 THEN length + 1 ELSE length + 1 - j)
      BY <1>3 DEF Rest
    <3>3. Rest' = (IF j' = 0 THEN length + 1 ELSE length + 1 - j')
      BY <1>2, <1>3 DEF Rest
    <3> HIDE DEF length
    <3>4. Rest' < Rest
      BY <1>1, <2>3, <3>1, <3>2, <3>3
    <3> QED
      BY <2>1, <2>3, <3>4 DEF Closer, Passes
  <2> QED
    BY <1>3, <2>2, <2>3
<1>4. CASE Guard
  BY <1>1, <1>2, <1>4 DEF Guard, Closer, Place
<1>5. CASE Statement
  BY <1>1, <1>2, <1>5 DEF Statement, Closer, Place
<1>6. CASE LoopHead
  <2>1. main[k].how = "while1" /\ main[k].body \in Seq(SimpleKinds)
    BY <1>6, SpelledLoop DEF LoopHead
  <2>2. CASE k' = k + 1
    BY <1>1, <1>2, <1>6, <2>2 DEF LoopHead, Closer, Place
  <2>3. CASE k' = k
    <3>1. 0 <= Len(main[k].body)
      BY <2>1
    <3>2. at' = "main" /\ at = "main" /\ k <= Len(main) /\ IsLoop(main[k])
          /\ g_iters' = g_iters /\ j = 0
      BY <1>6 DEF LoopHead
    <3>3. \/ grader_i' = grader_i + 1
          \/ grader_i' = grader_i /\ j' = j + 1
      BY <1>1, <1>6, <2>1, <2>3 DEF LoopHead
    <3> QED
      BY <1>3, <2>1, <2>3, <3>1, <3>2, <3>3
  <2> QED
    BY <1>6, <2>2, <2>3 DEF LoopHead
<1>7. CASE BodyStatement
  <2>1. main[k].how = "while1" /\ main[k].body \in Seq(SimpleKinds)
    BY <1>7, SpelledLoop DEF BodyStatement
  <2>2. at' = "main" /\ at = "main" /\ k' = k /\ k <= Len(main) /\ IsLoop(main[k])
        /\ g_iters' = g_iters /\ j > 0
    BY <1>7 DEF BodyStatement
  <2>3. j <= Len(main[k].body)
    BY <2>2 DEF PassInv
  <2>4. \/ grader_i' = grader_i + 1
        \/ grader_i' = grader_i /\ j' = j + 1
    BY <1>7, <2>1 DEF BodyStatement
  <2> QED
    BY <1>3, <2>1, <2>2, <2>3, <2>4
<1>8. CASE Return
  BY <1>1, <1>2, <1>8 DEF Return, Closer, Place
<1>9. ~Build /\ ~(\E n \in 0..MaxIters : Enter(n))
  BY DEF Build, Enter, BuiltInv
<1> QED
  BY <1>4, <1>5, <1>6, <1>7, <1>8, <1>9 DEF Next, InMain

\* No entry into a program whose endless loops the script recognised is endless,
\* whatever the program: each step leaves fewer statements of main, or as many and fewer
\* passes of its loop, or as many of both and fewer statements of this pass; and no
\* more passes are made than the driver asked for.  With the thread's fairness,
\* EntriesReturn follows.
THEOREM EntriesAreBounded ==
  Spec => /\ [](Spelled =>
                  /\ Place \in Nat /\ (at = "main" => Passes \in Nat) /\ Rest \in Nat
                  /\ at = "main" => grader_i <= g_iters)
          /\ [][at # "check" /\ Spelled => Closer]_vars
<1>1. Init => PassInv
  BY DEF Init, PassInv
<1>2. IInv /\ PassInv /\ [Next]_vars => PassInv'
  BY PassStep DEF IInv
<1>3. IInv /\ PassInv =>
        (Spelled => /\ Place \in Nat /\ (at = "main" => Passes \in Nat) /\ Rest \in Nat
                    /\ at = "main" => grader_i <= g_iters)
  BY CountsAreNatural DEF IInv, PassInv
<1>4. IInv /\ PassInv /\ [Next]_vars => [at # "check" /\ Spelled => Closer]_vars
  BY StepsComeCloser DEF IInv
<1> QED
  BY Invariance, <1>1, <1>2, <1>3, <1>4, PTL DEF Spec
=============================================================================
