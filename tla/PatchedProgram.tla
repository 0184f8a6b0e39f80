---------------------------- MODULE PatchedProgram ----------------------------
(***************************************************************************)
(* A student's program on its way through tools/patch_student_source.py,   *)
(* the compiler and the main-loop driver.  The script puts                 *)
(* GRADER_MAIN_INIT_GUARD after the first text that looks like the head of *)
(* main and turns each while(1) into the label _grader_loop_start and      *)
(* GRADER_MAIN_LOOP, wherever it stands; it knows neither comments nor     *)
(* functions.  The driver then enters main again and again, each time for  *)
(* a few turns.                                                            *)
(*                                                                         *)
(* Statements are those of Firmware; a loop also has a spelling, "while1"  *)
(* or another one ("for").                                                 *)
(***************************************************************************)
EXTENDS Naturals, Sequences, FiniteSets

CONSTANTS
  Programs,   \* the sources: main, and whether an earlier comment has its head
  Wrap,       \* main's own variable counts modulo Wrap
  MaxIters    \* bound: iterations asked of one entry

SimpleKinds == {"effect", "clear", "count", "trap"}
Statements ==
  [kind : SimpleKinds] \cup [kind : {"loop"}, how : {"while1", "for"}, body : Seq(SimpleKinds)]

ASSUME ProgramsAssumption ==
  \A p \in Programs : p.main \in Seq(Statements) /\ p.commentedHead \in BOOLEAN
ASSUME WrapAssumption == Wrap \in Nat \ {0}
ASSUME IterationsAssumption == MaxIters \in Nat

VARIABLES
  program,
  built,      \* "source", "patched", "rejected" by the compiler
  at,         \* "check", or in temp_main at its "guard" or in its "main"
  k, j,       \* the statement of main, and of its loop's body (0: the head)
  grader_i,   \* GRADER_MAIN_LOOP's variable
  g_iters,    \* what grader_main_loop_iterations() returns
  grader_inited,  \* the static latch of the guard
  local,      \* main's own variable, on the stack of this entry
  output,     \* what the statements have shown
  meant       \* records: the value main's variable has in the program as written

frame == <<k, j, grader_i, local>>
vars == <<program, built, at, frame, g_iters, grader_inited, output, meant>>

main == program.main

IsLoop(s) == s.kind = "loop"

\* The loops of main that the script rewrites.
Labels == {n \in DOMAIN main : IsLoop(main[n]) /\ main[n].how = "while1"}

\* re.sub(..., count=1): only the first text that looks like main's head.
Guarded == ~program.commentedHead

\* In one function a label is defined at most once, and a goto needs its label.
Compiles == Cardinality(Labels) <= 1 /\ (Guarded => Labels # {})

LoopStart == CHOOSE n \in Labels : TRUE
-----------------------------------------------------------------------------
Init ==
  /\ program \in Programs
  /\ built = "source" /\ at = "check"
  /\ k = 1 /\ j = 0 /\ grader_i = 0 /\ g_iters = 0 /\ grader_inited = FALSE
  /\ local = 0 /\ meant = 0
  /\ output = [n |-> 0, place |-> <<0, 0>>, value |-> 0]

\* The build patches the source and compiles the result.
Build ==
  /\ built = "source"
  /\ built' = IF Compiles THEN "patched" ELSE "rejected"
  /\ UNCHANGED <<program, at, frame, g_iters, grader_inited, output, meant>>

\* run_student_init (n = 0) or step_main_loop(n): the driver sets the count and
\* calls temp_main, whose variables start as what the stack holds.
Enter(n) ==
  /\ built = "patched" /\ at = "check"
  /\ g_iters' = n
  /\ at' = "guard"
  /\ local' \in 0..Wrap - 1
  /\ UNCHANGED <<program, built, k, j, grader_i, grader_inited, output, meant>>

\* Mutant: the guard does not set its latch.
Guard_NoLatch ==
  /\ at = "guard" /\ at' = "main"
  /\ k' = (IF Guarded /\ grader_inited THEN LoopStart ELSE 1)
  /\ j' = 0 /\ grader_i' = 0
  /\ UNCHANGED <<program, built, g_iters, grader_inited, local, output, meant>>

\* GRADER_MAIN_INIT_GUARD: from the second entry on, straight to the label.
\* Without a guard each entry starts over.
Guard ==
  /\ at = "guard" /\ at' = "main"
  /\ k' = (IF Guarded /\ grader_inited THEN LoopStart ELSE 1)
  /\ grader_inited' = Guarded
  /\ j' = 0 /\ grader_i' = 0
  /\ UNCHANGED <<program, built, g_iters, local, output, meant>>

F == INSTANCE Firmware

\* A simple statement; a trap's own while(1) is bounded too, so the call returns
\* and shows nothing.
Execute(kind) ==
  IF kind = "trap" THEN UNCHANGED <<local, output, meant>>
  ELSE /\ local' = F!After(kind, local)
       /\ meant' = F!After(kind, meant)
       /\ output' = F!Shown(kind, <<k, j>>, local, output)

\* Mutant: the statement after this one is skipped.
Statement_SkipsNext ==
  /\ at = "main" /\ k <= Len(main) /\ ~IsLoop(main[k])
  /\ Execute(main[k].kind)
  /\ k' = k + 2
  /\ UNCHANGED <<program, built, at, j, grader_i, g_iters, grader_inited>>

Statement ==
  /\ at = "main" /\ k <= Len(main) /\ ~IsLoop(main[k])
  /\ Execute(main[k].kind)
  /\ k' = k + 1
  /\ UNCHANGED <<program, built, at, j, grader_i, g_iters, grader_inited>>

\* GRADER_MAIN_LOOP's condition, or a loop the script did not recognise.
AnotherPass == main[k].how = "while1" => grader_i < g_iters

LoopHead ==
  /\ at = "main" /\ k <= Len(main) /\ IsLoop(main[k]) /\ j = 0
  /\ \/ /\ AnotherPass /\ main[k].body # <<>>
        /\ j' = 1 /\ UNCHANGED <<k, grader_i>>
     \/ /\ AnotherPass /\ main[k].body = <<>>
        /\ grader_i' = (IF main[k].how = "while1" THEN grader_i + 1 ELSE grader_i)
        /\ UNCHANGED <<k, j>>
     \/ /\ ~AnotherPass
        /\ k' = k + 1 /\ grader_i' = 0 /\ UNCHANGED j
  /\ UNCHANGED <<program, built, at, g_iters, grader_inited, local, output, meant>>

\* Mutant: passes are not counted.
BodyStatement_NotCounted ==
  /\ at = "main" /\ k <= Len(main) /\ IsLoop(main[k]) /\ j > 0
  /\ Execute(main[k].body[j])
  /\ j' = (IF j = Len(main[k].body) THEN 0 ELSE j + 1)
  /\ UNCHANGED <<program, built, at, k, grader_i, g_iters, grader_inited>>

BodyStatement ==
  /\ at = "main" /\ k <= Len(main) /\ IsLoop(main[k]) /\ j > 0
  /\ Execute(main[k].body[j])
  /\ j' = (IF j = Len(main[k].body) THEN 0 ELSE j + 1)
  /\ grader_i' = (IF j = Len(main[k].body) /\ main[k].how = "while1"
                  THEN grader_i + 1 ELSE grader_i)
  /\ UNCHANGED <<program, built, at, k, g_iters, grader_inited>>

\* main ends, as it never does on the target, and the driver resets the count.
Return ==
  /\ at = "main" /\ k > Len(main)
  /\ at' = "check" /\ g_iters' = 0
  /\ UNCHANGED <<program, built, frame, grader_inited, output, meant>>

InMain == Guard \/ Statement \/ LoopHead \/ BodyStatement \/ Return

Next == Build \/ InMain \/ \E n \in 0..MaxIters : Enter(n)

Spec == Init /\ [][Next]_vars

\* A call, once made, goes on; the driver need not make another one.
FairSpec == Spec /\ WF_vars(InMain)
-----------------------------------------------------------------------------
(* Properties.                                                             *)

\* The types.
TypeOK ==
  /\ program \in Programs
  /\ built \in {"source", "patched", "rejected"} /\ at \in {"check", "guard", "main"}
  /\ k \in 1..Len(main) + 1 /\ j \in Nat /\ grader_i \in Nat /\ g_iters \in Nat
  /\ grader_inited \in BOOLEAN /\ local \in 0..Wrap - 1 /\ meant \in 0..Wrap - 1
  /\ output.n \in 0..2

\* Is every "count" of the statements preceded by a "clear" among them?
KeepsNothing(kinds) ==
  \A n \in DOMAIN kinds :
    kinds[n] = "count" => \E c \in 1..n - 1 : kinds[c] = "clear"

\* What docs/architecture/cooperative-driver.md asks of a program, and what it
\* does not say: one while(1) in main and nothing after it, no other endless
\* loop, nothing kept in a variable of main from one pass to the next, no second
\* text that looks like main's head, and no trap that is ever entered.
Conforms ==
  /\ ~program.commentedHead
  /\ Labels = {Len(main)}
  /\ main[Len(main)].body # <<>>
  /\ \A n \in DOMAIN main : n < Len(main) => ~IsLoop(main[n]) /\ main[n].kind # "trap"
  /\ KeepsNothing([n \in 1..Len(main) - 1 |-> main[n].kind])
  /\ LET body == main[Len(main)].body IN
       KeepsNothing(body) /\ \A n \in DOMAIN body : body[n] # "trap"

\* Where the program as written stands: while main is not being run, at the head
\* of its loop, or at its beginning if it never ran.
Written ==
  INSTANCE Firmware WITH
    k <- IF at = "main" /\ k <= Len(main) THEN k
         ELSE IF grader_inited THEN Len(main) ELSE 1,
    j <- IF at = "main" THEN j ELSE 0,
    local <- meant

\* However the checks divide its run into entries of so many turns, a conforming
\* program shows exactly what it shows on the target, in that order and with
\* those values: its initialisation once, then its loop body over and over
\* (cooperative-driver.md, "Student contract").
RunsAsWritten ==
  /\ Conforms => Written!FInit
  /\ [][Conforms => [Written!FNext]_(Written!fvars)]_vars

\* A program that builds and spells all its endless loops while(1) always comes
\* back to the check.
EntriesReturn ==
  (\A n \in DOMAIN main : IsLoop(main[n]) => main[n].how = "while1")
    => (at # "check" ~> at = "check")
=============================================================================
