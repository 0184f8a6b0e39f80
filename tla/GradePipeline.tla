---------------------------- MODULE GradePipeline ----------------------------
(***************************************************************************)
(* The reusable grading workflow (grade.reusable.yml) with its two tools,  *)
(* select_assignments.py and render_report.py, on one branch of a student  *)
(* repository.  Every push and every manual dispatch starts a run:         *)
(* `select' computes the rows to grade, one `grade' leg per row builds and *)
(* runs the grader, and `aggregate' checks the branch out, renders the new *)
(* results over the report found there and pushes it back.  Nothing orders *)
(* two runs: the workflow has no concurrency group.                        *)
(*                                                                         *)
(* Manifest rows have distinct ids here, so that slot = id, and the        *)
(* manifest does not change.  GitHub itself (which legs run when, the      *)
(* conclusion of a run, the rejection of a push that is not a fast         *)
(* forward) is modelled as the workflow relies on it.                      *)
(***************************************************************************)
EXTENDS Naturals, Sequences

CONSTANTS
  Row,          \* manifest rows
  NoResult,     \* the report's entry of a row never graded
  HISTORY_LIMIT, \* lines kept in history/<slot>.jsonl
  MaxPushes     \* bound: pushes and dispatches by the student

ASSUME LimitAssumption == HISTORY_LIMIT \in Nat \ {0}
ASSUME PushAssumption == MaxPushes \in Nat

VARIABLES
  patient, \* the student waits for a run to end before pushing again
  pushed,  \* the commits that start a run: rows changed, and what grading gives
  version, \* the tip of the branch: number of pushes, the bot's included
  report,  \* autograder/ at the tip: one entry per row
  history, \* autograder/history/<slot>.jsonl at the tip
  runs     \* the workflow run of each commit

vars == <<patient, pushed, version, report, history, runs>>

Commit == 1..MaxPushes

\* What becomes of a grade leg of a given source: the grader reports all checks
\* passed, or some failed; it dies before it writes its JSON ("crash"); or the
\* leg fails before the grader runs, for lack of a *_main.c, a compiler error
\* or a lost runner ("nobuild").
Outcome == {"pass", "fail", "crash", "nobuild"}
Verdict == {"pass", "fail"}
Result == [commit : Commit, verdict : Verdict]

ASSUME NoResultAssumption == NoResult \notin Result

Legs == {"skipped", "queued"} \cup Outcome
RunState == {"none", "select", "grade", "render", "push", "done"}

\* The aggregate job's working copy of the branch.
Checkout == [version : Nat, report : [Row -> Result \cup {NoResult}],
             history : [Row -> Seq(Result)]]

Commits == [changed : SUBSET Row, outcome : [Row -> Outcome]]

Run == [pc : RunState, legs : [Row -> Legs], copy : Checkout,
        conclusion : {"none", "success", "failure", "rejected"}]

NotStarted ==
  [pc |-> "none", legs |-> [r \in Row |-> "skipped"], conclusion |-> "none",
   copy |-> [version |-> 0, report |-> [r \in Row |-> NoResult],
             history |-> [r \in Row |-> <<>>]]]

Init ==
  /\ patient \in BOOLEAN
  /\ pushed = <<>>
  /\ version = 0
  /\ report = [r \in Row |-> NoResult]
  /\ history = [r \in Row |-> <<>>]
  /\ runs = [c \in Commit |-> NotStarted]

-----------------------------------------------------------------------------
(* The student. *)

StartRun(changed, outcome) ==
  /\ Len(pushed) < MaxPushes
  /\ patient => \A c \in 1..Len(pushed) : runs[c].pc = "done"
  /\ pushed' = Append(pushed, [changed |-> changed, outcome |-> outcome])
  /\ runs' = [runs EXCEPT ![Len(pushed) + 1].pc = "select"]
  /\ UNCHANGED <<patient, report, history>>

\* The student pushes a commit on top of the tip, having pulled the bot's
\* commits; rows not changed keep their source.
StudentPush(changed, outcome) ==
  /\ StartRun(changed, outcome)
  /\ \A r \in Row \ changed :
       pushed # <<>> => outcome[r] = pushed[Len(pushed)].outcome[r]
  /\ version' = version + 1

\* "Run workflow" with grade-all: every row of the tip is graded.
Dispatch ==
  /\ pushed # <<>>
  /\ StartRun(Row, pushed[Len(pushed)].outcome)
  /\ UNCHANGED version

-----------------------------------------------------------------------------
(* select_assignments.py *)

\* The matrix: every row on the first push to the branch (and on a dispatch),
\* otherwise the rows with a path changed since the commit before.
RowsSelected(c) == IF c = 1 THEN Row ELSE pushed[c].changed

\* With an empty matrix the other two jobs are skipped.
Select(c) ==
  /\ runs[c].pc = "select"
  /\ IF RowsSelected(c) = {}
       THEN runs' = [runs EXCEPT ![c].pc = "done", ![c].conclusion = "success"]
       ELSE runs' = [runs EXCEPT
              ![c].pc = "grade",
              ![c].legs = [r \in Row |-> IF r \in RowsSelected(c)
                                           THEN "queued" ELSE "skipped"]]
  /\ UNCHANGED <<patient, pushed, version, report, history>>

-----------------------------------------------------------------------------
(* The grade job's matrix legs: independent of each other (fail-fast: false). *)

\* Mutant: the leg checks out the tip of the branch instead of github.sha.
GradeLeg_Tip(c, r) ==
  /\ runs[c].pc = "grade" /\ runs[c].legs[r] = "queued"
  /\ runs' = [runs EXCEPT ![c].legs[r] = pushed[Len(pushed)].outcome[r]]
  /\ UNCHANGED <<patient, pushed, version, report, history>>

GradeLeg(c, r) ==
  /\ runs[c].pc = "grade" /\ runs[c].legs[r] = "queued"
  /\ runs' = [runs EXCEPT ![c].legs[r] = pushed[c].outcome[r]]
  /\ UNCHANGED <<patient, pushed, version, report, history>>

\* Mutant: a row counts as graded as soon as its leg left any artifact.
FreshRows_AnyArtifact(c) ==
  {r \in Row : runs[c].legs[r] \in {"pass", "fail", "crash"}}

\* Rows whose leg left a <slot>.json among the artifacts.  A leg whose grader
\* died uploads its log only, and succeeds (continue-on-error).
FreshRows(c) == {r \in Row : runs[c].legs[r] \in Verdict}

GradeDone(c) == \A r \in Row : runs[c].legs[r] # "queued"

-----------------------------------------------------------------------------
(* The aggregate job: runs even after failed legs (always()). *)

\* The checkout of the branch, whatever its tip is by now.
CheckoutBranch(c) ==
  /\ runs[c].pc = "grade" /\ GradeDone(c)
  /\ runs' = [runs EXCEPT ![c].pc = "render",
                          ![c].copy = [version |-> version, report |-> report,
                                       history |-> history]]
  /\ UNCHANGED <<patient, pushed, version, report, history>>

FreshResult(c, r) == [commit |-> c, verdict |-> runs[c].legs[r]]

\* append_history keeps the last HISTORY_LIMIT lines.
AppendHistory(h, entry) ==
  IF Len(h) < HISTORY_LIMIT THEN Append(h, entry)
                            ELSE Append(Tail(h), entry)

\* Mutant: the report is rendered from this run's results alone.
Rendered_FreshOnly(c) ==
  [runs[c].copy EXCEPT
     !.report = [r \in Row |-> IF r \in FreshRows(c) THEN FreshResult(c, r)
                                                     ELSE NoResult],
     !.history = [r \in Row |-> IF r \in FreshRows(c)
                                  THEN AppendHistory(@[r], FreshResult(c, r))
                                  ELSE @[r]]]

\* render_report.py: this run's results replace their rows, the others stay.
Rendered(c) ==
  [runs[c].copy EXCEPT
     !.report = [r \in Row |-> IF r \in FreshRows(c) THEN FreshResult(c, r)
                                                     ELSE @[r]],
     !.history = [r \in Row |-> IF r \in FreshRows(c)
                                  THEN AppendHistory(@[r], FreshResult(c, r))
                                  ELSE @[r]]]

Render(c) ==
  /\ runs[c].pc = "render"
  /\ runs' = [runs EXCEPT ![c].pc = "push", ![c].copy = Rendered(c)]
  /\ UNCHANGED <<patient, pushed, version, report, history>>

\* Mutant: the conclusion of the aggregate job alone.
Conclusion_IgnoresLegs(c) == "success"

\* The conclusion of a run whose push went through: a lost leg fails it, a failed
\* check does not.  The render step runs under bash -e, so render_report.py's
\* status 1 ends it before it writes rc; the step is continue-on-error; and `Fail
\* job' compares the output that is not there with '0', which GitHub finds equal.
Conclusion(c) ==
  IF \E r \in Row : runs[c].legs[r] = "nobuild" THEN "failure" ELSE "success"

\* Mutant: the report is pushed with --force.
PushReport_Force(c) ==
  /\ runs[c].pc = "push"
  /\ version' = version + 1
  /\ report' = runs[c].copy.report
  /\ history' = runs[c].copy.history
  /\ runs' = [runs EXCEPT ![c].pc = "done", ![c].conclusion = Conclusion(c)]
  /\ UNCHANGED <<patient, pushed>>

\* The bot commits (index.md carries the time of the run, so there is always
\* something to commit) and pushes: accepted only if the branch has not moved
\* since the checkout.
PushReport(c) ==
  /\ runs[c].pc = "push" /\ runs[c].copy.version = version
  /\ version' = version + 1
  /\ report' = runs[c].copy.report
  /\ history' = runs[c].copy.history
  /\ runs' = [runs EXCEPT ![c].pc = "done", ![c].conclusion = Conclusion(c)]
  /\ UNCHANGED <<patient, pushed>>

\* Mutant: the same push is tried again until it is accepted.
PushRejected_Again(c) ==
  /\ runs[c].pc = "push" /\ runs[c].copy.version # version
  /\ UNCHANGED vars

\* A rejected push fails the job; nothing tries again.
PushRejected(c) ==
  /\ runs[c].pc = "push" /\ runs[c].copy.version # version
  /\ runs' = [runs EXCEPT ![c].pc = "done", ![c].conclusion = "rejected"]
  /\ UNCHANGED <<patient, pushed, version, report, history>>

-----------------------------------------------------------------------------

RunStep(c) ==
  \/ Select(c) \/ (\E r \in Row : GradeLeg(c, r))
  \/ CheckoutBranch(c) \/ Render(c) \/ PushReport(c) \/ PushRejected(c)

Push ==
  \/ Dispatch
  \/ \E changed \in SUBSET Row, outcome \in [Row -> Outcome] :
       StudentPush(changed, outcome)

Next == Push \/ \E c \in Commit : RunStep(c)

\* GitHub gets round to every job of every run (a hung grader is a lost leg
\* after the job's time limit); the student need not push.
Spec == Init /\ [][Next]_vars /\ \A c \in Commit : WF_vars(RunStep(c))

-----------------------------------------------------------------------------
(* Properties. *)

\* Every variable has the shape the workflow gives it.
TypeOK ==
  /\ patient \in BOOLEAN
  /\ pushed \in Seq(Commits) /\ Len(pushed) <= MaxPushes
  /\ version \in Nat
  /\ report \in [Row -> Result \cup {NoResult}]
  /\ history \in [Row -> Seq(Result)]
  /\ runs \in [Commit -> Run]

\* Traceability: however the runs interleave, an entry of the report holds the
\* verdict of the source that its commit had, and that commit's run graded the
\* row ("every row of the rendered report links to the exact commit + folder
\* pair that produced it", manifest-and-slots.md).
TraceableReport(rep) ==
  \A r \in Row : rep[r] # NoResult =>
    /\ rep[r].commit \in 1..Len(pushed)
    /\ rep[r].verdict = pushed[rep[r].commit].outcome[r]
    /\ r \in RowsSelected(rep[r].commit)

Traceable == TraceableReport(report)

\* The report and the histories are one atomic ledger: checkout, rendering and
\* push together behave as a single merge of the run's results on top of
\* everything published so far, and no published result is ever lost.
Published == {c \in Commit : runs[c].conclusion \in {"success", "failure"}
                               /\ RowsSelected(c) # {}}

Ledger == INSTANCE ReportLedger
            WITH AddLine <- AppendHistory, published <- Published

LedgerSpec == Ledger!Spec

\* What a green run does vouch for: as it ends every row it selected has been
\* built, and each verdict it reached stands in the report of the branch.
GreenRunsPublish ==
  [][\A c \in Commit :
       runs'[c].conclusion = "success" /\ runs[c].conclusion # "success" =>
         \A r \in RowsSelected(c) :
           /\ pushed[c].outcome[r] # "nobuild"
           /\ pushed[c].outcome[r] \in Verdict =>
                report'[r] = [commit |-> c, verdict |-> pushed[c].outcome[r]]]_vars

\* Every run ends.
RunsEnd == \A c \in Commit : (runs[c].pc = "select") ~> (runs[c].pc = "done")

\* Nothing is left to do.
Quiet == \A c \in 1..Len(pushed) : runs[c].pc = "done"

\* The last commit whose push changed row r, the first commit changing them all.
LastChange(r) ==
  CHOOSE c \in 1..Len(pushed) :
    /\ r \in RowsSelected(c)
    /\ \A d \in c+1 .. Len(pushed) : r \notin RowsSelected(d)

\* Once the runs are over the report shows every row as its newest source was
\* graded, if that grading gave a verdict at all.
ReportIsCurrent ==
  Quiet /\ pushed # <<>> =>
    \A r \in Row : pushed[LastChange(r)].outcome[r] \in Verdict =>
      report[r] = [commit |-> LastChange(r),
                   verdict |-> pushed[LastChange(r)].outcome[r]]

\* It does as long as the student waits for each run before pushing again.
PatientReportIsCurrent == patient => ReportIsCurrent

\* "Fails the workflow if any graded check failed" (ci-cd.md), "exit non-zero if
\* any check failed" (instructor-guide.md): it is not so that a run with a failed
\* check ends green, and so does another whose graders all died.
FailuresTurnRed ==
  ~ \E c, d \in 1..Len(pushed) :
      /\ runs[c].conclusion = "success" /\ runs[d].conclusion = "success"
      /\ \E r \in RowsSelected(c) : pushed[c].outcome[r] = "fail"
      /\ RowsSelected(d) # {}
      /\ \A r \in RowsSelected(d) : pushed[d].outcome[r] = "crash"
=============================================================================
