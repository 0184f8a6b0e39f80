----------------------------- MODULE ReportLedger -----------------------------
(***************************************************************************)
(* What a student repository's autograder/ folder promises: a report with  *)
(* one entry per manifest row, and a history per row that every published  *)
(* grading run extends.  A run publishes once, in one step, on top of      *)
(* everything published before it, and touches only the rows it graded:    *)
(* "entries not in this run are preserved verbatim" (render_report.py).    *)
(***************************************************************************)
EXTENDS Sequences

CONSTANTS
  Row,      \* manifest rows
  Commit,   \* student commits; each has one grading run
  NoResult, \* the entry of a row never graded
  AddLine(_, _) \* AddLine(h, e): the history h with entry e added

VARIABLES report, history, published

ledger == <<report, history, published>>

Init ==
  /\ report = [r \in Row |-> NoResult]
  /\ history = [r \in Row |-> <<>>]
  /\ published = {}

\* The run of commit c publishes its results for the rows in graded.
Publish(c, graded, verdict) ==
  /\ c \notin published
  /\ published' = published \cup {c}
  /\ LET fresh(r) == [commit |-> c, verdict |-> verdict[r]]
     IN /\ report' = [r \in Row |-> IF r \in graded THEN fresh(r)
                                                   ELSE report[r]]
        /\ history' = [r \in Row |-> IF r \in graded
                                       THEN AddLine(history[r], fresh(r))
                                       ELSE history[r]]

Next ==
  \E c \in Commit, graded \in SUBSET Row, verdict \in [Row -> {"pass", "fail"}] :
    Publish(c, graded, verdict)

Spec == Init /\ [][Next]_ledger
=============================================================================
