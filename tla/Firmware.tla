------------------------------- MODULE Firmware -------------------------------
(***************************************************************************)
(* A student's program as written, running on the target: main's           *)
(* statements in order, then its endless loop.  This is what the grader,   *)
(* which runs a patched copy of the program a few turns at a time, is      *)
(* supposed to observe.                                                    *)
(*                                                                         *)
(* main is a sequence of statements.  A statement of kind "loop" is an     *)
(* endless loop with a body of simple statements; how it is spelled does   *)
(* not matter here.  The simple ones are "effect", a write to something    *)
(* outside main; "clear" and "count", which set and advance a variable of  *)
(* main's own and show it; and "trap", a call of a function that stops in  *)
(* an endless loop of its own.                                             *)
(***************************************************************************)
EXTENDS Naturals, Sequences

CONSTANT Wrap          \* main's own variable counts modulo Wrap

VARIABLES
  main,                \* the statements
  k, j,                \* where it stands: in main, and in a loop's body (0: its head)
  local,               \* main's own variable
  output               \* what it has shown: what last, and a running number

fvars == <<main, k, j, local, output>>

\* The value main's variable has after a simple statement.
After(kind, value) ==
  CASE kind = "clear" -> 0 [] kind = "count" -> (value + 1) % Wrap [] OTHER -> value

\* What a simple statement shows, where it stands, after out.  Effects are counted
\* modulo 3, which is enough to tell one from the next.
Shown(kind, place, value, out) ==
  [n |-> (out.n + 1) % 3, place |-> place,
   value |-> IF kind \in {"clear", "count"} THEN After(kind, value) ELSE 0]

FInit == k = 1 /\ j = 0 /\ local = 0 /\ output = [n |-> 0, place |-> <<0, 0>>, value |-> 0]

Simple(kind) ==
  /\ local' = After(kind, local)
  /\ output' = Shown(kind, <<k, j>>, local, output)

\* A statement of main outside its loops.
Straight ==
  /\ k <= Len(main) /\ main[k].kind \notin {"loop", "trap"}
  /\ Simple(main[k].kind)
  /\ k' = k + 1 /\ UNCHANGED <<main, j>>

\* while (1): into the next pass.
EnterPass ==
  /\ k <= Len(main) /\ main[k].kind = "loop" /\ j = 0 /\ main[k].body # <<>>
  /\ j' = 1 /\ UNCHANGED <<main, k, local, output>>

\* A statement of the loop's body; the last one ends the pass.
InPass ==
  /\ k <= Len(main) /\ main[k].kind = "loop" /\ j > 0 /\ main[k].body[j] # "trap"
  /\ Simple(main[k].body[j])
  /\ j' = IF j = Len(main[k].body) THEN 0 ELSE j + 1
  /\ UNCHANGED <<main, k>>

FNext == Straight \/ EnterPass \/ InPass

FSpec == FInit /\ [][FNext]_fvars
=============================================================================
