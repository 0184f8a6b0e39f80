------------------------- MODULE GradePipeline_proofs -------------------------
(***************************************************************************)
(* Theorems about GradePipeline for every set of rows, every number of     *)
(* pushes, every cap on the history and any overlap of the runs: the       *)
(* invariants, the refinement of the ledger, the patient student, the      *)
(* length of a run, and what a green run vouches for.                      *)
(***************************************************************************)
EXTENDS GradePipeline, FiniteSetTheorems, WellFoundedInduction, TLAPS

-----------------------------------------------------------------------------
(* The inductive invariant. *)

\* A run has started exactly when its commit was pushed.
Started == \A c \in Commit : runs[c].pc # "none" <=> c <= Len(pushed)

\* The legs of a run are those its matrix selected, and a finished leg has the
\* outcome of the source of its own commit.
LegsOf(c) ==
  /\ runs[c].pc \in {"none", "select"} => \A r \in Row : runs[c].legs[r] = "skipped"
  /\ runs[c].pc \in {"grade", "render", "push"} => RowsSelected(c) # {}
  /\ \A r \in Row : runs[c].legs[r] # "skipped" =>
       /\ r \in RowsSelected(c)
       /\ runs[c].legs[r] \in {"queued", pushed[c].outcome[r]}

\* A run's working copy is traceable too, is never newer than the branch, and
\* as long as the branch has not moved it is the branch's own report, with the
\* run's results merged into it once they are rendered.
CopyOf(c) ==
  runs[c].pc \in {"render", "push"} =>
    /\ runs[c].copy.version <= version
    /\ TraceableReport(runs[c].copy.report)
    /\ runs[c].copy.version = version =>
         IF runs[c].pc = "render"
           THEN runs[c].copy.report = report /\ runs[c].copy.history = history
           ELSE /\ runs[c].copy.report =
                     [r \in Row |-> IF r \in FreshRows(c) THEN FreshResult(c, r)
                                                         ELSE report[r]]
                /\ runs[c].copy.history =
                     [r \in Row |-> IF r \in FreshRows(c)
                                      THEN AppendHistory(history[r], FreshResult(c, r))
                                      ELSE history[r]]

\* A run has a conclusion exactly when it is over, and a green one lost no leg.
ConclusionOf(c) ==
  /\ runs[c].conclusion = "none" <=> runs[c].pc # "done"
  /\ runs[c].conclusion = "success" =>
       \A r \in Row : runs[c].legs[r] # "nobuild"

RunOK(c) == LegsOf(c) /\ CopyOf(c) /\ ConclusionOf(c)

IInv ==
  /\ TypeOK /\ Started /\ Traceable
  /\ \A c \in Commit : RunOK(c)

-----------------------------------------------------------------------------
(* Lemmas. *)

LEMMA EmptyHistory == ASSUME NEW S PROVE <<>> \in Seq(S)
  OBVIOUS

LEMMA AppendHistoryType ==
  ASSUME NEW S, NEW h \in Seq(S), NEW e \in S
  PROVE  AppendHistory(h, e) \in Seq(S)
<1>1. CASE Len(h) < HISTORY_LIMIT
  BY <1>1 DEF AppendHistory
<1>2. CASE ~(Len(h) < HISTORY_LIMIT)
  <2>1. h # <<>>
    BY <1>2, LimitAssumption
  <2>2. Tail(h) \in Seq(S)
    BY <2>1
  <2> QED BY <1>2, <2>2 DEF AppendHistory
<1> QED BY <1>1, <1>2

\* A step that leaves the branch and a run alone leaves the run's facts alone.
LEMMA OtherRuns ==
  ASSUME NEW d \in Commit, RunOK(d),
         runs'[d] = runs[d], UNCHANGED <<patient, pushed, version, report, history>>
  PROVE  RunOK(d)'
  BY DEF RunOK, LegsOf, CopyOf, ConclusionOf, TraceableReport, RowsSelected,
         FreshRows, FreshResult, AppendHistory

\* A report stays traceable when commits are added.
LEMMA TraceableGrows ==
  ASSUME NEW rep, NEW new, pushed \in Seq(Commits), new \in Commits,
         pushed' = Append(pushed, new), TraceableReport(rep),
         \A r \in Row : rep[r] # NoResult => rep[r].commit \in Nat
  PROVE  \A r \in Row : rep[r] # NoResult =>
           /\ rep[r].commit \in 1..Len(pushed')
           /\ rep[r].verdict = pushed'[rep[r].commit].outcome[r]
           /\ rep[r].commit = 1 \/ r \in pushed'[rep[r].commit].changed
<1> SUFFICES ASSUME NEW r \in Row, rep[r] # NoResult
             PROVE  /\ rep[r].commit \in 1..Len(pushed')
                    /\ rep[r].verdict = pushed'[rep[r].commit].outcome[r]
                    /\ rep[r].commit = 1 \/ r \in pushed'[rep[r].commit].changed
  OBVIOUS
<1>1. rep[r].commit \in 1..Len(pushed)
  BY DEF TraceableReport
<1>2. pushed'[rep[r].commit] = pushed[rep[r].commit] /\ Len(pushed') = Len(pushed) + 1
  BY <1>1
<1> QED BY <1>1, <1>2 DEF TraceableReport, RowsSelected

-----------------------------------------------------------------------------
(* The invariant holds initially and every action preserves it. *)

LEMMA InitEstablishes == Init => IInv
<1> SUFFICES ASSUME Init PROVE IInv
  OBVIOUS
<1>1. NotStarted \in Run
  BY EmptyHistory DEF NotStarted, Run, RunState, Legs, Checkout
<1>2. TypeOK
  BY <1>1, EmptyHistory, PushAssumption DEF Init, TypeOK
<1>3. Started
  BY PushAssumption DEF Init, Started, NotStarted, Commit
<1>4. Traceable
  BY DEF Init, Traceable, TraceableReport
<1>5. \A c \in Commit : RunOK(c)
  BY DEF Init, RunOK, LegsOf, CopyOf, ConclusionOf, NotStarted
<1> QED BY <1>2, <1>3, <1>4, <1>5 DEF IInv

LEMMA StartRunPreserves ==
  ASSUME IInv, NEW changed \in SUBSET Row, NEW outcome \in [Row -> Outcome],
         StartRun(changed, outcome), version' \in {version, version + 1}
  PROVE  IInv'
<1> DEFINE new == [changed |-> changed, outcome |-> outcome]
           k == Len(pushed) + 1
<1>0. TypeOK /\ Started /\ Traceable /\ \A c \in Commit : RunOK(c)
  BY DEF IInv
<1>1. new \in Commits /\ pushed \in Seq(Commits) /\ pushed' = Append(pushed, new)
  BY <1>0 DEF TypeOK, Commits, StartRun
<1>2. k \in Commit /\ Len(pushed') = k /\ Len(pushed) \in Nat /\ version \in Nat
  BY <1>0, <1>1, PushAssumption DEF TypeOK, Commit, StartRun
<1>3. \A c \in 1..Len(pushed) : pushed'[c] = pushed[c]
  BY <1>1
<1>4. /\ runs \in [Commit -> Run]
      /\ runs' = [runs EXCEPT ![k].pc = "select"]
      /\ report' = report /\ history' = history /\ patient' = patient
  BY <1>0 DEF TypeOK, StartRun
<1>5. runs[k].pc = "none"
  BY <1>0, <1>2 DEF Started
<1>6. TypeOK'
  <2>1. pushed' \in Seq(Commits) /\ Len(pushed') <= MaxPushes
    BY <1>1, <1>2, PushAssumption DEF StartRun
  <2>2. runs' \in [Commit -> Run]
    BY <1>4 DEF Run, RunState
  <2> QED BY <1>0, <1>2, <1>4, <2>1, <2>2 DEF TypeOK
<1>7. Started'
  <2> SUFFICES ASSUME NEW c \in Commit
               PROVE  runs'[c].pc # "none" <=> c <= Len(pushed')
    BY DEF Started
  <2>1. CASE c = k
    BY <1>2, <1>4, <2>1 DEF Run
  <2>2. CASE c # k
    <3>1. runs'[c] = runs[c]
      BY <1>4, <2>2
    <3>2. c \in Nat /\ (runs[c].pc # "none" <=> c <= Len(pushed))
      BY <1>0 DEF Started, Commit
    <3> QED BY <1>2, <2>2, <3>1, <3>2
  <2> QED BY <2>1, <2>2
<1>8. ASSUME NEW rep \in [Row -> Result \cup {NoResult}], TraceableReport(rep)
      PROVE  \A r \in Row : rep[r] # NoResult =>
               /\ rep[r].commit \in 1..Len(pushed')
               /\ rep[r].verdict = pushed'[rep[r].commit].outcome[r]
               /\ rep[r].commit = 1 \/ r \in pushed'[rep[r].commit].changed
  <2>1. \A r \in Row : rep[r] # NoResult => rep[r].commit \in Nat
    BY <1>8 DEF Result, Commit
  <2> QED BY <1>1, <1>8, <2>1, TraceableGrows
<1>9. Traceable'
  <2>1. TraceableReport(report) /\ report \in [Row -> Result \cup {NoResult}]
    BY <1>0 DEF Traceable, TypeOK
  <2> QED BY <1>4, <1>8, <2>1 DEF Traceable, TraceableReport, RowsSelected
<1>10. ASSUME NEW c \in Commit PROVE RunOK(c)'
  <2>0. RunOK(c) /\ c \in Nat
    BY <1>0 DEF Commit
  <2>1. CASE c = k
    <3>1. /\ runs'[c].pc = "select" /\ runs'[c].legs = runs[c].legs
          /\ runs'[c].conclusion = runs[c].conclusion
      BY <1>4, <2>1 DEF Run
    <3>2. \A r \in Row : runs[c].legs[r] = "skipped"
      BY <1>5, <2>0, <2>1 DEF RunOK, LegsOf
    <3>3. runs[c].conclusion = "none"
      BY <1>5, <2>0, <2>1 DEF RunOK, ConclusionOf
    <3> QED BY <3>1, <3>2, <3>3 DEF RunOK, LegsOf, CopyOf, ConclusionOf
  <2>2. CASE c # k
    <3>1. runs'[c] = runs[c]
      BY <1>4, <2>2
    <3>2. LegsOf(c)'
      <4>1. CASE c <= Len(pushed)
        <5>1. pushed'[c] = pushed[c]
          BY <1>2, <1>3, <2>0, <4>1 DEF Commit
        <5> QED BY <2>0, <3>1, <5>1 DEF RunOK, LegsOf, RowsSelected
      <4>2. CASE ~(c <= Len(pushed))
        <5>1. runs[c].pc = "none"
          BY <1>0, <4>2 DEF Started
        <5> QED BY <2>0, <3>1, <5>1 DEF RunOK, LegsOf
      <4> QED BY <4>1, <4>2
    <3>3. CopyOf(c)'
      <4> SUFFICES ASSUME runs[c].pc \in {"render", "push"} PROVE CopyOf(c)'
        BY <3>1 DEF CopyOf
      <4>1. CopyOf(c) /\ runs[c].copy \in Checkout
        BY <1>4, <2>0 DEF RunOK, Run
      <4>2. /\ runs[c].copy.version \in Nat
            /\ runs[c].copy.report \in [Row -> Result \cup {NoResult}]
        BY <4>1 DEF Checkout
      <4>3. /\ runs[c].copy.version <= version'
            /\ runs[c].copy.version = version' => runs[c].copy.version = version
        BY <1>2, <4>1, <4>2 DEF CopyOf
      <4>4. TraceableReport(runs[c].copy.report)
        BY <4>1 DEF CopyOf
      <4>5. TraceableReport(runs[c].copy.report)'
        <5> DEFINE rep == runs[c].copy.report
        <5>1. \A r \in Row : rep[r] # NoResult =>
                /\ rep[r].commit \in 1..Len(pushed')
                /\ rep[r].verdict = pushed'[rep[r].commit].outcome[r]
                /\ rep[r].commit = 1 \/ r \in pushed'[rep[r].commit].changed
          BY <1>8, <4>2, <4>4
        <5>2. runs'[c].copy.report = rep
          BY <3>1
        <5> HIDE DEF rep
        <5> QED BY <5>1, <5>2 DEF TraceableReport, RowsSelected
      <4>6. FreshRows(c)' = FreshRows(c)
        BY <3>1 DEF FreshRows
      <4>7. \A r \in Row : FreshResult(c, r)' = FreshResult(c, r)
        BY <3>1 DEF FreshResult
      <4> QED BY <1>4, <3>1, <4>1, <4>3, <4>5, <4>6, <4>7 DEF CopyOf, AppendHistory
    <3>4. ConclusionOf(c)'
      BY <2>0, <3>1 DEF RunOK, ConclusionOf
    <3> QED BY <3>2, <3>3, <3>4 DEF RunOK
  <2> QED BY <2>1, <2>2
<1> QED BY <1>6, <1>7, <1>9, <1>10 DEF IInv

\* A step of run c that leaves the branch alone.
LEMMA LocalStep ==
  ASSUME IInv, NEW c \in Commit, UNCHANGED <<patient, pushed, version, report, history>>,
         runs' \in [Commit -> Run], \A d \in Commit \ {c} : runs'[d] = runs[d],
         runs[c].pc # "none", runs'[c].pc # "none", RunOK(c)'
  PROVE  IInv'
<1>1. TypeOK'
  BY DEF IInv, TypeOK
<1>2. Started'
  BY DEF IInv, Started
<1>3. Traceable'
  BY DEF IInv, Traceable, TraceableReport, RowsSelected
<1>4. \A d \in Commit : RunOK(d)'
  BY OtherRuns DEF IInv
<1> QED BY <1>1, <1>2, <1>3, <1>4 DEF IInv

LEMMA SelectPreserves ==
  ASSUME IInv, NEW c \in Commit, Select(c) PROVE IInv'
<1>0. /\ runs \in [Commit -> Run] /\ runs[c].pc = "select"
      /\ LegsOf(c) /\ ConclusionOf(c)
      /\ UNCHANGED <<patient, pushed, version, report, history>>
  BY DEF IInv, TypeOK, RunOK, Select
<1>1. \A r \in Row : runs[c].legs[r] = "skipped"
  BY <1>0 DEF LegsOf
<1>2. CASE RowsSelected(c) = {}
  <2>1. runs' = [runs EXCEPT ![c].pc = "done", ![c].conclusion = "success"]
    BY <1>2 DEF Select
  <2>2. /\ runs' \in [Commit -> Run] /\ runs'[c].pc = "done"
        /\ runs'[c].conclusion = "success" /\ runs'[c].legs = runs[c].legs
        /\ \A d \in Commit \ {c} : runs'[d] = runs[d]
    BY <1>0, <2>1 DEF Run, RunState
  <2>3. RunOK(c)'
    BY <1>1, <2>2 DEF RunOK, LegsOf, CopyOf, ConclusionOf
  <2> QED BY <1>0, <2>2, <2>3, LocalStep
<1>3. CASE RowsSelected(c) # {}
  <2> DEFINE legs == [r \in Row |-> IF r \in RowsSelected(c)
                                      THEN "queued" ELSE "skipped"]
  <2>1. runs' = [runs EXCEPT ![c].pc = "grade", ![c].legs = legs]
    BY <1>3 DEF Select
  <2>2. legs \in [Row -> Legs]
    BY DEF Legs
  <2>3. /\ \A r \in Row : legs[r] # "skipped" =>
              r \in RowsSelected(c) /\ legs[r] = "queued"
    OBVIOUS
  <2> HIDE DEF legs
  <2>4. /\ runs' \in [Commit -> Run] /\ runs'[c].pc = "grade"
        /\ runs'[c].conclusion = runs[c].conclusion /\ runs'[c].legs = legs
        /\ \A d \in Commit \ {c} : runs'[d] = runs[d]
    BY <1>0, <2>1, <2>2 DEF Run, RunState
  <2>5. RunOK(c)'
    BY <1>0, <1>3, <2>3, <2>4
       DEF RunOK, LegsOf, CopyOf, ConclusionOf, RowsSelected
  <2> QED BY <1>0, <2>4, <2>5, LocalStep
<1> QED BY <1>2, <1>3

LEMMA GradeLegPreserves ==
  ASSUME IInv, NEW c \in Commit, NEW r \in Row, GradeLeg(c, r) PROVE IInv'
<1> DEFINE leg == pushed[c].outcome[r]
<1>0. /\ runs \in [Commit -> Run] /\ runs[c].pc = "grade"
      /\ runs[c].legs[r] = "queued" /\ LegsOf(c) /\ ConclusionOf(c)
      /\ UNCHANGED <<patient, pushed, version, report, history>>
      /\ runs' = [runs EXCEPT ![c].legs[r] = leg]
  BY DEF IInv, TypeOK, RunOK, GradeLeg
<1>1. leg \in Outcome
  <2>1. c \in 1..Len(pushed) /\ pushed \in Seq(Commits)
    BY <1>0 DEF IInv, TypeOK, Started, Commit
  <2>2. pushed[c] \in Commits
    BY <2>1
  <2> QED BY <2>2 DEF Commits
<1>2. runs[c].legs \in [Row -> Legs]
  BY <1>0 DEF Run
<1>3. r \in RowsSelected(c)
  BY <1>0 DEF LegsOf
<1>4. /\ runs' \in [Commit -> Run] /\ runs'[c].pc = "grade"
      /\ runs'[c].conclusion = runs[c].conclusion
      /\ runs'[c].legs = [runs[c].legs EXCEPT ![r] = leg]
      /\ \A d \in Commit \ {c} : runs'[d] = runs[d]
  <2> HIDE DEF leg
  <2> QED BY <1>0, <1>1, <1>2 DEF Run, Legs
<1>5. LegsOf(c)'
  <2>1. RowsSelected(c)' = RowsSelected(c)
    BY <1>0 DEF RowsSelected
  <2> SUFFICES ASSUME NEW q \in Row, runs'[c].legs[q] # "skipped"
               PROVE  /\ q \in RowsSelected(c)
                      /\ runs'[c].legs[q] \in {"queued", pushed[c].outcome[q]}
    BY <1>0, <1>3, <1>4, <2>1 DEF LegsOf
  <2>2. CASE q = r
    BY <1>2, <1>3, <1>4, <2>2
  <2>3. CASE q # r
    <3>1. runs'[c].legs[q] = runs[c].legs[q]
      BY <1>2, <1>4, <2>3
    <3> QED BY <1>0, <3>1 DEF LegsOf
  <2> QED BY <2>2, <2>3
<1>6. RunOK(c)'
  BY <1>0, <1>4, <1>5 DEF RunOK, CopyOf, ConclusionOf
<1> QED BY <1>0, <1>4, <1>6, LocalStep

LEMMA CheckoutPreserves ==
  ASSUME IInv, NEW c \in Commit, CheckoutBranch(c) PROVE IInv'
<1> DEFINE copy == [version |-> version, report |-> report, history |-> history]
<1>0. /\ runs \in [Commit -> Run] /\ runs[c].pc = "grade"
      /\ LegsOf(c) /\ ConclusionOf(c) /\ TraceableReport(report)
      /\ UNCHANGED <<patient, pushed, version, report, history>>
      /\ runs' = [runs EXCEPT ![c].pc = "render", ![c].copy = copy]
  BY DEF IInv, TypeOK, RunOK, Traceable, CheckoutBranch
<1>1. copy \in Checkout
  BY DEF IInv, TypeOK, Checkout
<1>2. /\ copy.version = version /\ copy.report = report
      /\ copy.history = history /\ version \in Nat
  BY DEF IInv, TypeOK
<1> HIDE DEF copy
<1>3. /\ runs' \in [Commit -> Run] /\ runs'[c].pc = "render"
      /\ runs'[c].conclusion = runs[c].conclusion
      /\ runs'[c].legs = runs[c].legs /\ runs'[c].copy = copy
      /\ \A d \in Commit \ {c} : runs'[d] = runs[d]
  BY <1>0, <1>1 DEF Run, RunState
<1>4. LegsOf(c)' /\ ConclusionOf(c)'
  BY <1>0, <1>3 DEF LegsOf, ConclusionOf, RowsSelected
<1>5. CopyOf(c)'
  BY <1>0, <1>2, <1>3 DEF CopyOf, TraceableReport, RowsSelected
<1> QED BY <1>0, <1>3, <1>4, <1>5, LocalStep DEF RunOK

\* What rendering does to a run's working copy.
LEMMA RenderedCopy ==
  ASSUME IInv, NEW c \in Commit, runs[c].pc = "render"
  PROVE  /\ Rendered(c) \in Checkout
         /\ Rendered(c).version = runs[c].copy.version
         /\ Rendered(c).report =
              [r \in Row |-> IF r \in FreshRows(c) THEN FreshResult(c, r)
                                                  ELSE runs[c].copy.report[r]]
         /\ Rendered(c).history =
              [r \in Row |-> IF r \in FreshRows(c)
                               THEN AppendHistory(runs[c].copy.history[r],
                                                  FreshResult(c, r))
                               ELSE runs[c].copy.history[r]]
<1> DEFINE copy == runs[c].copy
           rep == [r \in Row |-> IF r \in FreshRows(c) THEN FreshResult(c, r)
                                                      ELSE copy.report[r]]
           his == [r \in Row |-> IF r \in FreshRows(c)
                                   THEN AppendHistory(copy.history[r], FreshResult(c, r))
                                   ELSE copy.history[r]]
<1>1. copy \in Checkout
  BY DEF IInv, TypeOK, Run
<1>2. \A r \in FreshRows(c) : FreshResult(c, r) \in Result
  BY DEF FreshRows, FreshResult, Result
<1>3. rep \in [Row -> Result \cup {NoResult}]
  BY <1>1, <1>2 DEF Checkout
<1>4. his \in [Row -> Seq(Result)]
  <2> SUFFICES ASSUME NEW r \in Row PROVE his[r] \in Seq(Result)
    OBVIOUS
  <2>1. copy.history[r] \in Seq(Result)
    BY <1>1 DEF Checkout
  <2>2. CASE r \in FreshRows(c)
    BY <1>2, <2>1, <2>2, AppendHistoryType
  <2>3. CASE r \notin FreshRows(c)
    BY <2>1, <2>3
  <2> QED BY <2>2, <2>3
<1>5. Rendered(c) = [copy EXCEPT !.report = rep, !.history = his]
  BY DEF Rendered
<1> HIDE DEF rep, his, copy
<1>6. /\ Rendered(c) \in Checkout /\ Rendered(c).version = copy.version
      /\ Rendered(c).report = rep /\ Rendered(c).history = his
  BY <1>1, <1>3, <1>4, <1>5 DEF Checkout
<1> QED BY <1>6 DEF rep, his, copy

LEMMA RenderPreserves ==
  ASSUME IInv, NEW c \in Commit, Render(c) PROVE IInv'
<1> DEFINE copy == Rendered(c)
<1>0. /\ runs \in [Commit -> Run] /\ runs[c].pc = "render"
      /\ LegsOf(c) /\ CopyOf(c) /\ ConclusionOf(c)
      /\ UNCHANGED <<patient, pushed, version, report, history>>
      /\ runs' = [runs EXCEPT ![c].pc = "push", ![c].copy = copy]
  BY DEF IInv, TypeOK, RunOK, Render
<1>1. c \in 1..Len(pushed) /\ version \in Nat
  BY <1>0 DEF IInv, TypeOK, Started, Commit
<1>2. /\ copy \in Checkout
      /\ copy.version = runs[c].copy.version
      /\ copy.report =
              [r \in Row |-> IF r \in FreshRows(c) THEN FreshResult(c, r)
                                                  ELSE runs[c].copy.report[r]]
      /\ copy.history =
              [r \in Row |-> IF r \in FreshRows(c)
                               THEN AppendHistory(runs[c].copy.history[r],
                                                  FreshResult(c, r))
                               ELSE runs[c].copy.history[r]]
  BY <1>0, RenderedCopy
<1> HIDE DEF copy
<1>3. /\ runs' \in [Commit -> Run] /\ runs'[c].pc = "push"
      /\ runs'[c].conclusion = runs[c].conclusion
      /\ runs'[c].legs = runs[c].legs /\ runs'[c].copy = copy
      /\ \A d \in Commit \ {c} : runs'[d] = runs[d]
  BY <1>0, <1>2 DEF Run, RunState
<1>4. LegsOf(c)' /\ ConclusionOf(c)'
  BY <1>0, <1>3 DEF LegsOf, ConclusionOf, RowsSelected
<1>5. /\ FreshRows(c)' = FreshRows(c)
      /\ \A r \in Row : FreshResult(c, r)' = FreshResult(c, r)
  BY <1>3 DEF FreshRows, FreshResult
<1>6. TraceableReport(copy.report)
  <2> SUFFICES ASSUME NEW r \in Row, copy.report[r] # NoResult
               PROVE  /\ copy.report[r].commit \in 1..Len(pushed)
                      /\ copy.report[r].verdict =
                           pushed[copy.report[r].commit].outcome[r]
                      /\ r \in RowsSelected(copy.report[r].commit)
    BY DEF TraceableReport
  <2>1. CASE r \in FreshRows(c)
    <3>1. copy.report[r].commit = c /\ copy.report[r].verdict = runs[c].legs[r]
      BY <1>2, <2>1 DEF FreshResult
    <3>2. runs[c].legs[r] \in Verdict
      BY <2>1 DEF FreshRows
    <3>3. r \in RowsSelected(c) /\ runs[c].legs[r] = pushed[c].outcome[r]
      BY <1>0, <3>2 DEF LegsOf, Verdict
    <3> QED BY <1>1, <3>1, <3>3
  <2>2. CASE r \notin FreshRows(c)
    BY <1>0, <1>2, <2>2 DEF CopyOf, TraceableReport
  <2> QED BY <2>1, <2>2
<1>7. CopyOf(c)'
  <2>1. /\ runs'[c].copy.version <= version'
        /\ TraceableReport(runs[c].copy.report)'
    <3>1. runs'[c].copy.version <= version'
      BY <1>0, <1>2, <1>3 DEF CopyOf
    <3>2. TraceableReport(runs[c].copy.report)'
      BY <1>0, <1>3, <1>6 DEF TraceableReport, RowsSelected
    <3> QED BY <3>1, <3>2
  <2>2. ASSUME copy.version = version
        PROVE  /\ copy.report =
                    [r \in Row |-> IF r \in FreshRows(c) THEN FreshResult(c, r)
                                                        ELSE report[r]]
               /\ copy.history =
                    [r \in Row |-> IF r \in FreshRows(c)
                                     THEN AppendHistory(history[r], FreshResult(c, r))
                                     ELSE history[r]]
    BY <1>0, <1>2, <2>2 DEF CopyOf
  <2>3. [r \in Row |-> IF r \in FreshRows(c)' THEN FreshResult(c, r)'
                                              ELSE report'[r]]
         = [r \in Row |-> IF r \in FreshRows(c) THEN FreshResult(c, r)
                                               ELSE report[r]]
    BY <1>0, <1>5
  <2>4. [r \in Row |-> IF r \in FreshRows(c)'
                         THEN AppendHistory(history'[r], FreshResult(c, r)')
                         ELSE history'[r]]
         = [r \in Row |-> IF r \in FreshRows(c)
                            THEN AppendHistory(history[r], FreshResult(c, r))
                            ELSE history[r]]
    BY <1>0, <1>5
  <2>5. runs'[c].copy.version = version' => copy.version = version
    BY <1>0, <1>3
  <2> QED BY <1>3, <2>1, <2>2, <2>3, <2>4, <2>5 DEF CopyOf
<1> QED BY <1>0, <1>3, <1>4, <1>7, LocalStep DEF RunOK

LEMMA PushReportPreserves ==
  ASSUME IInv, NEW c \in Commit, PushReport(c) PROVE IInv'
<1>0. /\ runs \in [Commit -> Run] /\ runs[c].pc = "push"
      /\ runs[c].copy.version = version
      /\ version \in Nat /\ version' = version + 1
      /\ pushed' = pushed /\ patient' = patient
      /\ report' = runs[c].copy.report /\ history' = runs[c].copy.history
      /\ runs' = [runs EXCEPT ![c].pc = "done", ![c].conclusion = Conclusion(c)]
  BY DEF IInv, TypeOK, PushReport
<1>1. \A d \in Commit : LegsOf(d) /\ CopyOf(d) /\ ConclusionOf(d)
  BY DEF IInv, RunOK
<1>2. Conclusion(c) \in {"success", "failure"}
  BY DEF Conclusion
<1>3. /\ runs' \in [Commit -> Run] /\ runs'[c].pc = "done"
      /\ runs'[c].conclusion = Conclusion(c) /\ runs'[c].legs = runs[c].legs
      /\ \A d \in Commit \ {c} : runs'[d] = runs[d]
  BY <1>0, <1>2 DEF Run, RunState
<1>4. TypeOK'
  <2>1. runs[c].copy \in Checkout
    BY <1>0 DEF Run
  <2> QED BY <1>0, <1>3, <2>1 DEF IInv, TypeOK, Checkout
<1>5. Started'
  BY <1>0, <1>3 DEF IInv, Started
<1>6. Traceable'
  BY <1>0, <1>1 DEF CopyOf, Traceable, TraceableReport, RowsSelected
<1>7. ASSUME NEW d \in Commit PROVE RunOK(d)'
  <2>1. CASE d = c
    <3>1. LegsOf(c)'
      BY <1>0, <1>1, <1>3 DEF LegsOf, RowsSelected
    <3>2. ConclusionOf(c)'
      BY <1>2, <1>3 DEF Conclusion, ConclusionOf
    <3> QED BY <1>3, <2>1, <3>1, <3>2 DEF RunOK, CopyOf
  <2>2. CASE d # c
    <3>1. runs'[d] = runs[d]
      BY <1>3, <2>2
    <3>2. LegsOf(d)' /\ ConclusionOf(d)'
      BY <1>0, <1>1, <3>1 DEF LegsOf, ConclusionOf, RowsSelected
    <3>3. CopyOf(d)'
      <4> SUFFICES ASSUME runs[d].pc \in {"render", "push"} PROVE CopyOf(d)'
        BY <3>1 DEF CopyOf
      <4>0. runs[d].copy.version <= version /\ TraceableReport(runs[d].copy.report)
        BY <1>1 DEF CopyOf
      <4>1. runs[d].copy.version \in Nat
        BY <1>0 DEF Run, Checkout
      <4>2. runs'[d].copy.version <= version' /\ runs'[d].copy.version # version'
        BY <1>0, <3>1, <4>0, <4>1
      <4>3. TraceableReport(runs[d].copy.report)'
        BY <1>0, <3>1, <4>0 DEF TraceableReport, RowsSelected
      <4> QED BY <4>2, <4>3 DEF CopyOf
    <3> QED BY <3>2, <3>3 DEF RunOK
  <2> QED BY <2>1, <2>2
<1> QED BY <1>4, <1>5, <1>6, <1>7 DEF IInv

LEMMA PushRejectedPreserves ==
  ASSUME IInv, NEW c \in Commit, PushRejected(c) PROVE IInv'
<1>0. /\ runs \in [Commit -> Run] /\ runs[c].pc = "push" /\ LegsOf(c)
      /\ UNCHANGED <<patient, pushed, version, report, history>>
      /\ runs' = [runs EXCEPT ![c].pc = "done", ![c].conclusion = "rejected"]
  BY DEF IInv, TypeOK, RunOK, PushRejected
<1>1. /\ runs' \in [Commit -> Run] /\ runs'[c].pc = "done"
      /\ runs'[c].conclusion = "rejected" /\ runs'[c].legs = runs[c].legs
      /\ \A d \in Commit \ {c} : runs'[d] = runs[d]
  BY <1>0 DEF Run, RunState
<1>2. LegsOf(c)' /\ ConclusionOf(c)' /\ CopyOf(c)'
  BY <1>0, <1>1 DEF LegsOf, ConclusionOf, CopyOf, RowsSelected
<1> QED BY <1>0, <1>1, <1>2, LocalStep DEF RunOK

\* The student's outcomes in a dispatch are those of the tip.
LEMMA DispatchPreserves == IInv /\ Dispatch => IInv'
<1> SUFFICES ASSUME IInv, Dispatch PROVE IInv'
  OBVIOUS
<1>1. pushed[Len(pushed)] \in Commits
  BY DEF IInv, TypeOK, Dispatch
<1>2. pushed[Len(pushed)].outcome \in [Row -> Outcome]
  BY <1>1 DEF Commits
<1> QED BY <1>2, StartRunPreserves DEF Dispatch

LEMMA NextPreserves == IInv /\ [Next]_vars => IInv'
<1> SUFFICES ASSUME IInv, [Next]_vars PROVE IInv'
  OBVIOUS
<1>1. CASE Dispatch
  BY <1>1, DispatchPreserves
<1>2. ASSUME NEW changed \in SUBSET Row, NEW outcome \in [Row -> Outcome],
             StudentPush(changed, outcome)
      PROVE  IInv'
  BY <1>2, StartRunPreserves DEF StudentPush
<1>3. ASSUME NEW c \in Commit, RunStep(c) PROVE IInv'
  BY <1>3, SelectPreserves, GradeLegPreserves, CheckoutPreserves,
     RenderPreserves, PushReportPreserves, PushRejectedPreserves DEF RunStep
<1>4. CASE UNCHANGED vars
  <2>1. \A c \in Commit : RunOK(c)'
    BY <1>4, OtherRuns DEF IInv, vars
  <2> QED BY <1>4, <2>1 DEF vars, IInv, TypeOK, Started, Traceable,
                            TraceableReport, RowsSelected
<1> QED BY <1>1, <1>2, <1>3, <1>4 DEF Next, Push

-----------------------------------------------------------------------------
(* The theorems. *)

THEOREM Invariance == Spec => []IInv
  BY InitEstablishes, NextPreserves, PTL DEF Spec

\* Every variable keeps the shape the workflow gives it.
THEOREM TypeCorrect == Spec => []TypeOK
<1>1. IInv => TypeOK
  BY DEF IInv
<1> QED BY <1>1, Invariance, PTL

\* Every entry of the report at the tip of the branch is the verdict on the
\* source of the commit it names, whose run graded that row: no interleaving of
\* runs, pushes and rejected pushes attributes a result to the wrong commit.
THEOREM EntriesAreTraceable == Spec => []Traceable
<1>1. IInv => Traceable
  BY DEF IInv
<1> QED BY <1>1, Invariance, PTL

-----------------------------------------------------------------------------
(* The pipeline implements the ledger. *)

LEMMA InitMaps == Init => Ledger!Init
  BY DEF Init, NotStarted, Published, Ledger!Init

\* A step that leaves the branch, the conclusions and the commits of finished
\* runs alone publishes nothing.
LEMMA Stutters ==
  ASSUME report' = report, history' = history,
         \A c \in Commit : runs'[c].conclusion = runs[c].conclusion,
         \A c \in Commit : runs[c].conclusion # "none" =>
                             RowsSelected(c)' = RowsSelected(c)
  PROVE  UNCHANGED Ledger!ledger
<1>1. Published' = Published
  BY DEF Published
<1> QED BY <1>1 DEF Ledger!ledger

LEMMA StartRunMaps ==
  ASSUME IInv, NEW changed \in SUBSET Row, NEW outcome \in [Row -> Outcome],
         StartRun(changed, outcome)
  PROVE  UNCHANGED Ledger!ledger
<1> DEFINE new == [changed |-> changed, outcome |-> outcome]
<1>0. /\ pushed \in Seq(Commits) /\ Len(pushed) \in Nat
      /\ pushed' = Append(pushed, new) /\ new \in Commits
      /\ runs \in [Commit -> Run] /\ report' = report /\ history' = history
      /\ runs' = [runs EXCEPT ![Len(pushed) + 1].pc = "select"]
  BY DEF IInv, TypeOK, StartRun, Commits
<1>1. \A c \in Commit : runs'[c].conclusion = runs[c].conclusion
  BY <1>0 DEF Run
<1>2. ASSUME NEW c \in Commit, runs[c].conclusion # "none"
      PROVE  RowsSelected(c)' = RowsSelected(c)
  <2>1. runs[c].pc = "done"
    BY <1>2 DEF IInv, RunOK, ConclusionOf
  <2>2. c \in 1..Len(pushed)
    BY <2>1 DEF IInv, Started, Commit
  <2>3. pushed'[c] = pushed[c]
    BY <1>0, <2>2
  <2> QED BY <2>3 DEF RowsSelected
<1> QED BY <1>0, <1>1, <1>2, Stutters

\* An accepted push is the publication of the run's results.
LEMMA PushReportMaps ==
  ASSUME IInv, NEW c \in Commit, PushReport(c)
  PROVE  Ledger!Next
<1> DEFINE verdict == [r \in Row |-> IF r \in FreshRows(c)
                                       THEN runs[c].legs[r] ELSE "pass"]
<1>0. /\ runs \in [Commit -> Run] /\ runs[c].pc = "push"
      /\ runs[c].copy.version = version /\ pushed' = pushed
      /\ report' = runs[c].copy.report /\ history' = runs[c].copy.history
      /\ runs' = [runs EXCEPT ![c].pc = "done", ![c].conclusion = Conclusion(c)]
      /\ LegsOf(c) /\ CopyOf(c) /\ ConclusionOf(c)
  BY DEF IInv, TypeOK, RunOK, PushReport
<1>1. verdict \in [Row -> {"pass", "fail"}] /\ FreshRows(c) \in SUBSET Row
  BY DEF FreshRows, Verdict
<1>2. /\ report' = [r \in Row |-> IF r \in FreshRows(c) THEN FreshResult(c, r)
                                                       ELSE report[r]]
      /\ history' = [r \in Row |-> IF r \in FreshRows(c)
                                     THEN AppendHistory(history[r], FreshResult(c, r))
                                     ELSE history[r]]
  BY <1>0 DEF CopyOf
<1>3. \A r \in FreshRows(c) :
        r \in Row /\ FreshResult(c, r) = [commit |-> c, verdict |-> verdict[r]]
  BY DEF FreshResult, FreshRows
<1>4. c \notin Published
  BY <1>0 DEF ConclusionOf, Published
<1>5. Published' = Published \cup {c}
  <2>1. /\ Conclusion(c) \in {"success", "failure"} /\ RowsSelected(c) # {}
        /\ \A d \in Commit : RowsSelected(d)' = RowsSelected(d)
    BY <1>0 DEF Conclusion, LegsOf, RowsSelected
  <2>2. /\ runs'[c].conclusion = Conclusion(c)
        /\ \A d \in Commit \ {c} : runs'[d] = runs[d]
    BY <1>0 DEF Run
  <2> QED BY <2>1, <2>2 DEF Published
<1> HIDE DEF verdict
<1>6. Ledger!Publish(c, FreshRows(c), verdict)
  <2>1. /\ report' = [r \in Row |-> IF r \in FreshRows(c)
                        THEN [commit |-> c, verdict |-> verdict[r]] ELSE report[r]]
        /\ history' = [r \in Row |-> IF r \in FreshRows(c)
             THEN AppendHistory(history[r], [commit |-> c, verdict |-> verdict[r]])
             ELSE history[r]]
    BY <1>2, <1>3
  <2> QED BY <1>4, <1>5, <2>1 DEF Ledger!Publish
<1> QED BY <1>1, <1>6 DEF Ledger!Next

\* Every other step of a run publishes nothing: a run with no rows to grade
\* has no results, and a rejected push changes nothing.
LEMMA RunStepMaps ==
  ASSUME IInv, NEW c \in Commit, RunStep(c), ~PushReport(c)
  PROVE  UNCHANGED Ledger!ledger
<1>0. /\ runs \in [Commit -> Run] /\ ConclusionOf(c)
      /\ UNCHANGED <<pushed, report, history>>
      /\ \A d \in Commit : RowsSelected(d)' = RowsSelected(d)
  BY DEF IInv, TypeOK, RunOK, RunStep, Select, GradeLeg, CheckoutBranch, Render,
         PushRejected, RowsSelected
<1>1. \A d \in Commit \ {c} : runs'[d] = runs[d]
  BY <1>0 DEF RunStep, Select, GradeLeg, CheckoutBranch, Render, PushRejected
<1>2. CASE runs'[c].conclusion = runs[c].conclusion
  BY <1>0, <1>1, <1>2, Stutters
<1>3. CASE runs'[c].conclusion # runs[c].conclusion
  <2>1. \/ Select(c) /\ RowsSelected(c) = {}
        \/ PushRejected(c)
    BY <1>0, <1>3 DEF RunStep, Select, GradeLeg, CheckoutBranch, Render, Run
  <2>2. runs[c].conclusion = "none"
    BY <1>0, <2>1 DEF ConclusionOf, Select, PushRejected
  <2>3. RowsSelected(c) = {} \/ runs'[c].conclusion = "rejected"
    BY <1>0, <2>1 DEF PushRejected, Run
  <2>4. Published' = Published
    BY <1>0, <1>1, <2>2, <2>3 DEF Published
  <2> QED BY <1>0, <2>4 DEF Ledger!ledger
<1> QED BY <1>2, <1>3

LEMMA NextMaps == IInv /\ [Next]_vars => [Ledger!Next]_(Ledger!ledger)
<1> SUFFICES ASSUME IInv, [Next]_vars PROVE [Ledger!Next]_(Ledger!ledger)
  OBVIOUS
<1>1. CASE Dispatch
  <2>1. pushed[Len(pushed)] \in Commits
    BY <1>1 DEF IInv, TypeOK, Dispatch
  <2>2. pushed[Len(pushed)].outcome \in [Row -> Outcome]
    BY <2>1 DEF Commits
  <2> QED BY <1>1, <2>2, StartRunMaps DEF Dispatch
<1>2. ASSUME NEW changed \in SUBSET Row, NEW outcome \in [Row -> Outcome],
             StudentPush(changed, outcome)
      PROVE  UNCHANGED Ledger!ledger
  BY <1>2, StartRunMaps DEF StudentPush
<1>3. ASSUME NEW c \in Commit, RunStep(c) PROVE [Ledger!Next]_(Ledger!ledger)
  BY <1>3, PushReportMaps, RunStepMaps
<1>4. CASE UNCHANGED vars
  BY <1>4 DEF vars, Ledger!ledger, Published, RowsSelected
<1> QED BY <1>1, <1>2, <1>3, <1>4 DEF Next, Push

\* Whatever the student's pushes and other runs do between the checkout of the
\* aggregate job and its push, the runs that publish do so as if checkout,
\* rendering and push were one step: no update of the report is lost.
THEOREM ImplementsLedger == Spec => LedgerSpec
  BY InitEstablishes, NextPreserves, InitMaps, NextMaps, PTL
     DEF Spec, LedgerSpec, Ledger!Spec

-----------------------------------------------------------------------------
(* A student who waits. *)

\* Every nonempty set of numbers has a least element, and a bounded one a largest.
LEMMA LeastElement ==
  ASSUME NEW T \in SUBSET Nat, T # {}
  PROVE  \E m \in T : \A x \in T : m <= x
<1>0. T \subseteq Nat
  OBVIOUS
<1>1. PICK m \in T : \A x \in T : <<x, m>> \notin OpToRel(<, Nat)
  BY <1>0, WFMin, NatLessThanWellFounded, Zenon
<1>2. \A x \in T : ~(x < m)
  BY <1>0, <1>1, Zenon DEF OpToRel
<1> QED BY <1>0, <1>2

LEMMA LargestElement ==
  ASSUME NEW n \in Nat, NEW S \in SUBSET (1..n), S # {}
  PROVE  \E c \in S : \A d \in S : d <= c
<1> DEFINE T == {m \in Nat : n - m \in S}
<1>1. \A d \in S : n - d \in T
  <2> SUFFICES ASSUME NEW d \in S PROVE n - d \in T
    OBVIOUS
  <2>1. n - d \in Nat /\ n - (n - d) = d
    OBVIOUS
  <2> QED BY <2>1
<1>2. T # {} /\ T \in SUBSET Nat
  BY <1>1
<1>3. \A m \in T : n - m \in S
  OBVIOUS
<1> HIDE DEF T
<1>4. PICK m \in T : \A x \in T : m <= x
  BY <1>2, LeastElement
<1>5. \A d \in S : d <= n - m
  BY <1>1, <1>2, <1>4
<1> QED BY <1>3, <1>5

\* Only the run of the newest commit is under way.
OneAtATime == \A c \in Commit : c < Len(pushed) => runs[c].pc = "done"

\* Nothing moves the branch between a run's checkout and its push.
BranchWaits ==
  \A c \in Commit : runs[c].pc \in {"render", "push"} => runs[c].copy.version = version

Accepted == \A c \in Commit : runs[c].conclusion # "rejected"

\* A run grades every row it selected, and renders when all of them are graded.
Complete(c) ==
  /\ runs[c].pc \in {"grade", "render", "push"} =>
       \A r \in RowsSelected(c) : runs[c].legs[r] # "skipped"
  /\ runs[c].pc \in {"render", "push"} => GradeDone(c)

\* The newest finished run that selected row r is that of commit c.
Settled(c, r) ==
  /\ runs[c].pc = "done" /\ r \in RowsSelected(c)
  /\ \A d \in Commit : d > c /\ runs[d].pc = "done" => r \notin RowsSelected(d)

Shown ==
  \A c \in Commit, r \in Row : Settled(c, r) /\ pushed[c].outcome[r] \in Verdict =>
    report[r] = [commit |-> c, verdict |-> pushed[c].outcome[r]]

PatientInv ==
  /\ \A c \in Commit : Complete(c)
  /\ patient => OneAtATime /\ BranchWaits /\ Accepted /\ Shown

LEMMA PatientInit == Init => PatientInv
<1> SUFFICES ASSUME Init PROVE PatientInv
  OBVIOUS
<1>1. \A c \in Commit : runs[c].pc = "none" /\ runs[c].conclusion = "none"
  BY DEF Init, NotStarted
<1>2. ~ \E c \in Commit : c < Len(pushed)
  BY PushAssumption DEF Init, Commit
<1> QED BY <1>1, <1>2 DEF PatientInv, Complete, OneAtATime, BranchWaits, Accepted, Shown,
                         Settled

LEMMA SelectedRows ==
  ASSUME IInv, NEW c \in Commit, c <= Len(pushed)
  PROVE  RowsSelected(c) \subseteq Row
<1>1. c \in 1..Len(pushed) /\ pushed \in Seq(Commits)
  BY DEF IInv, TypeOK, Commit
<1>2. pushed[c] \in Commits
  BY <1>1
<1> QED BY <1>2 DEF Commits, RowsSelected

LEMMA PatientStart ==
  ASSUME IInv, PatientInv, NEW changed \in SUBSET Row, NEW outcome \in [Row -> Outcome],
         StartRun(changed, outcome)
  PROVE  PatientInv'
<1> DEFINE new == [changed |-> changed, outcome |-> outcome]
           k == Len(pushed) + 1
<1>0. /\ pushed \in Seq(Commits) /\ Len(pushed) \in Nat
      /\ pushed' = Append(pushed, new) /\ new \in Commits
      /\ runs \in [Commit -> Run] /\ report' = report /\ patient' = patient
      /\ runs' = [runs EXCEPT ![k].pc = "select"]
      /\ k \in Commit /\ MaxPushes \in Nat
  BY PushAssumption DEF IInv, TypeOK, StartRun, Commits, Commit
<1>1. Len(pushed') = k /\ \A c \in 1..Len(pushed) : pushed'[c] = pushed[c]
  BY <1>0
<1>2. runs'[k].pc = "select" /\ \A c \in Commit \ {k} : runs'[c] = runs[c]
  BY <1>0 DEF Run
<1>3. \A c \in Commit : runs[c].pc # "none" => c \in 1..Len(pushed)
  BY <1>0 DEF IInv, Started, Commit
<1>4. \A c \in 1..Len(pushed) : RowsSelected(c)' = RowsSelected(c)
  BY <1>1 DEF RowsSelected
<1> HIDE DEF new
<1>5. ASSUME NEW c \in Commit PROVE Complete(c)'
  <2>1. CASE c = k
    BY <1>2, <2>1 DEF Complete
  <2>2. CASE c # k
    <3>1. runs'[c] = runs[c] /\ Complete(c)
      BY <1>2, <2>2 DEF PatientInv
    <3>2. CASE runs[c].pc = "none"
      BY <3>1, <3>2 DEF Complete
    <3>3. CASE runs[c].pc # "none"
      BY <1>3, <1>4, <3>1, <3>3 DEF Complete, GradeDone
    <3> QED BY <3>2, <3>3
  <2> QED BY <2>1, <2>2
<1>6. ASSUME patient PROVE OneAtATime' /\ BranchWaits' /\ Accepted' /\ Shown'
  <2>1. \A c \in 1..Len(pushed) : runs[c].pc = "done"
    BY <1>6 DEF StartRun
  <2>2. OneAtATime'
    BY <1>0, <1>1, <1>2, <2>1 DEF OneAtATime, Commit
  <2>3. \A c \in Commit : runs'[c].pc \notin {"render", "push"}
    BY <1>2, <1>3, <2>1
  <2>4. Shown'
    <3> SUFFICES ASSUME NEW c \in Commit, NEW r \in Row, Settled(c, r)',
                        pushed'[c].outcome[r] \in Verdict
                 PROVE  report'[r] = [commit |-> c, verdict |-> pushed'[c].outcome[r]]
      BY DEF Shown
    <3>1. c # k /\ runs'[c] = runs[c] /\ runs[c].pc = "done"
      BY <1>2 DEF Settled
    <3>2. c \in 1..Len(pushed) /\ pushed'[c] = pushed[c] /\ r \in RowsSelected(c)
      BY <1>1, <1>3, <1>4, <3>1 DEF Settled
    <3>3. ASSUME NEW d \in Commit, d > c, runs[d].pc = "done" PROVE r \notin RowsSelected(d)
      <4>1. d \in 1..Len(pushed) /\ d # k
        BY <1>0, <1>3, <3>3
      <4>2. runs'[d].pc = "done"
        BY <1>2, <3>3, <4>1
      <4> QED BY <1>4, <3>3, <4>1, <4>2 DEF Settled
    <3>4. Settled(c, r)
      BY <3>1, <3>2, <3>3 DEF Settled
    <3> QED BY <1>0, <1>6, <3>2, <3>4 DEF PatientInv, Shown
  <2>5. Accepted'
    BY <1>0, <1>6 DEF PatientInv, Accepted, Run
  <2> QED BY <2>2, <2>3, <2>4, <2>5 DEF BranchWaits
<1> QED BY <1>0, <1>5, <1>6 DEF PatientInv

\* A step of one run that publishes nothing and ends it only if it has no rows.
LEMMA PatientLocal ==
  ASSUME IInv, PatientInv, NEW c \in Commit,
         UNCHANGED <<patient, pushed, version, report, history>>,
         \A d \in Commit \ {c} : runs'[d] = runs[d],
         runs[c].pc # "done", runs'[c].pc # "none", Complete(c)',
         runs'[c].pc = "done" => RowsSelected(c) = {},
         runs'[c].conclusion # "rejected",
         patient /\ runs'[c].pc \in {"render", "push"} =>
           runs'[c].copy.version = version
  PROVE  PatientInv'
<1>1. \A d \in Commit : RowsSelected(d)' = RowsSelected(d)
  BY DEF RowsSelected
<1>2. \A d \in Commit : Complete(d)'
  BY <1>1 DEF PatientInv, Complete, GradeDone
<1>3. ASSUME patient PROVE OneAtATime' /\ BranchWaits' /\ Accepted' /\ Shown'
  <2>1. OneAtATime'
    BY <1>3 DEF PatientInv, OneAtATime
  <2>2. BranchWaits'
    BY <1>3 DEF PatientInv, BranchWaits
  <2>3. ASSUME NEW d \in Commit, NEW r \in Row, Settled(d, r)' PROVE Settled(d, r)
    BY <1>1, <2>3 DEF Settled
  <2>4. Shown'
    BY <1>3, <2>3 DEF PatientInv, Shown
  <2>5. Accepted'
    BY <1>3 DEF PatientInv, Accepted
  <2> QED BY <2>1, <2>2, <2>4, <2>5
<1> QED BY <1>2, <1>3 DEF PatientInv

LEMMA PatientSelect ==
  ASSUME IInv, PatientInv, NEW c \in Commit, Select(c) PROVE PatientInv'
<1>0. /\ runs \in [Commit -> Run] /\ runs[c].pc = "select" /\ ConclusionOf(c)
      /\ UNCHANGED <<patient, pushed, version, report, history>>
      /\ RowsSelected(c)' = RowsSelected(c)
  BY DEF IInv, TypeOK, RunOK, Select, RowsSelected
<1>1. RowsSelected(c) \subseteq Row
  BY <1>0, SelectedRows DEF IInv, Started
<1>2. CASE RowsSelected(c) = {}
  <2>1. /\ runs'[c].pc = "done" /\ runs'[c].conclusion = "success"
        /\ \A d \in Commit \ {c} : runs'[d] = runs[d]
    BY <1>0, <1>2 DEF Select, Run
  <2>2. Complete(c)'
    BY <2>1 DEF Complete
  <2> QED BY <1>0, <1>2, <2>1, <2>2, PatientLocal DEF ConclusionOf
<1>3. CASE RowsSelected(c) # {}
  <2>1. /\ runs'[c].pc = "grade" /\ runs'[c].conclusion = runs[c].conclusion
        /\ \A d \in Commit \ {c} : runs'[d] = runs[d]
        /\ \A r \in RowsSelected(c) : runs'[c].legs[r] = "queued"
    BY <1>0, <1>1, <1>3 DEF Select, Run
  <2>2. Complete(c)'
    BY <1>0, <2>1 DEF Complete
  <2> QED BY <1>0, <2>1, <2>2, PatientLocal DEF ConclusionOf
<1> QED BY <1>2, <1>3

LEMMA PatientGradeLeg ==
  ASSUME IInv, PatientInv, NEW c \in Commit, NEW r \in Row, GradeLeg(c, r)
  PROVE  PatientInv'
<1> DEFINE leg == pushed[c].outcome[r]
<1>0. /\ runs \in [Commit -> Run] /\ runs[c].pc = "grade" /\ Complete(c) /\ ConclusionOf(c)
      /\ UNCHANGED <<patient, pushed, version, report, history>>
      /\ RowsSelected(c)' = RowsSelected(c)
      /\ runs' = [runs EXCEPT ![c].legs[r] = leg]
  BY DEF IInv, TypeOK, RunOK, GradeLeg, RowsSelected, PatientInv
<1>1. leg # "skipped"
  <2>1. c \in 1..Len(pushed) /\ pushed \in Seq(Commits)
    BY <1>0 DEF IInv, TypeOK, Started, Commit
  <2>2. pushed[c] \in Commits
    BY <2>1
  <2> QED BY <2>2 DEF Commits, Outcome
<1>2. RowsSelected(c) \subseteq Row
  BY <1>0, SelectedRows DEF IInv, Started
<1> HIDE DEF leg
<1>3. /\ runs'[c].pc = "grade" /\ runs'[c].conclusion = runs[c].conclusion
      /\ \A d \in Commit \ {c} : runs'[d] = runs[d]
      /\ \A q \in Row : runs'[c].legs[q] = IF q = r THEN leg ELSE runs[c].legs[q]
  BY <1>0 DEF Run
<1>4. Complete(c)'
  BY <1>0, <1>1, <1>2, <1>3 DEF Complete
<1> QED BY <1>0, <1>3, <1>4, PatientLocal DEF ConclusionOf

LEMMA PatientCheckout ==
  ASSUME IInv, PatientInv, NEW c \in Commit, CheckoutBranch(c) PROVE PatientInv'
<1>0. /\ runs \in [Commit -> Run] /\ runs[c].pc = "grade" /\ Complete(c) /\ ConclusionOf(c) /\ GradeDone(c)
      /\ UNCHANGED <<patient, pushed, version, report, history>>
      /\ RowsSelected(c)' = RowsSelected(c)
  BY DEF IInv, TypeOK, RunOK, CheckoutBranch, RowsSelected, PatientInv
<1>1. /\ runs'[c].pc = "render" /\ runs'[c].legs = runs[c].legs
      /\ runs'[c].conclusion = runs[c].conclusion
      /\ runs'[c].copy.version = version
      /\ \A d \in Commit \ {c} : runs'[d] = runs[d]
  BY <1>0 DEF Run, CheckoutBranch
<1>2. Complete(c)'
  BY <1>0, <1>1 DEF Complete, GradeDone
<1> QED BY <1>0, <1>1, <1>2, PatientLocal DEF ConclusionOf

LEMMA PatientRender ==
  ASSUME IInv, PatientInv, NEW c \in Commit, Render(c) PROVE PatientInv'
<1> DEFINE copy == Rendered(c)
<1>0. /\ runs \in [Commit -> Run] /\ runs[c].pc = "render" /\ Complete(c) /\ ConclusionOf(c)
      /\ UNCHANGED <<patient, pushed, version, report, history>>
      /\ RowsSelected(c)' = RowsSelected(c)
      /\ runs' = [runs EXCEPT ![c].pc = "push", ![c].copy = copy]
  BY DEF IInv, TypeOK, RunOK, Render, RowsSelected, PatientInv
<1>1. copy.version = runs[c].copy.version
  BY <1>0, RenderedCopy
<1> HIDE DEF copy
<1>2. /\ runs'[c].pc = "push" /\ runs'[c].legs = runs[c].legs /\ runs'[c].copy = copy
      /\ runs'[c].conclusion = runs[c].conclusion
      /\ \A d \in Commit \ {c} : runs'[d] = runs[d]
  BY <1>0 DEF Run
<1>3. Complete(c)'
  BY <1>0, <1>2 DEF Complete, GradeDone
<1>4. patient => runs'[c].copy.version = version
  BY <1>0, <1>1, <1>2 DEF PatientInv, BranchWaits
<1> QED BY <1>0, <1>2, <1>3, <1>4, PatientLocal DEF ConclusionOf

LEMMA PatientPushReport ==
  ASSUME IInv, PatientInv, NEW c \in Commit, PushReport(c) PROVE PatientInv'
<1>0. /\ runs \in [Commit -> Run] /\ runs[c].pc = "push" /\ Complete(c)
      /\ runs[c].copy.version = version /\ LegsOf(c) /\ CopyOf(c)
      /\ pushed' = pushed /\ patient' = patient
      /\ report' = runs[c].copy.report
      /\ \A d \in Commit : RowsSelected(d)' = RowsSelected(d)
      /\ Len(pushed) \in Nat
  BY DEF IInv, TypeOK, RunOK, PushReport, RowsSelected, PatientInv
<1>1. /\ runs'[c].pc = "done" /\ runs'[c].conclusion # "rejected"
      /\ \A d \in Commit \ {c} : runs'[d] = runs[d]
  BY <1>0 DEF Run, PushReport, Conclusion
<1>2. \A d \in Commit : Complete(d)'
  BY <1>0, <1>1 DEF PatientInv, Complete, GradeDone
<1>3. ASSUME patient PROVE OneAtATime' /\ BranchWaits' /\ Accepted' /\ Shown'
  <2>1. OneAtATime'
    BY <1>0, <1>1, <1>3 DEF PatientInv, OneAtATime
  <2>2. c = Len(pushed)
    BY <1>0, <1>3 DEF PatientInv, OneAtATime, IInv, Started, Commit
  <2>3. \A d \in Commit : d # c => runs[d].pc \in {"none", "done"}
    BY <1>0, <1>3, <2>2 DEF PatientInv, OneAtATime, IInv, Started, Commit
  <2>4. BranchWaits'
    BY <1>1, <2>3 DEF BranchWaits
  <2>5. Shown'
    <3> SUFFICES ASSUME NEW d \in Commit, NEW r \in Row, Settled(d, r)',
                        pushed[d].outcome[r] \in Verdict
                 PROVE  report'[r] = [commit |-> d, verdict |-> pushed[d].outcome[r]]
      BY <1>0 DEF Shown
    <3>1. report'[r] = IF r \in FreshRows(c) THEN FreshResult(c, r) ELSE report[r]
      BY <1>0 DEF CopyOf
    <3>2. r \in FreshRows(c) => /\ r \in RowsSelected(c)
                                /\ runs[c].legs[r] = pushed[c].outcome[r]
      BY <1>0 DEF LegsOf, FreshRows, Verdict
    <3>3. CASE d = c
      <4>1. runs[c].legs[r] = pushed[c].outcome[r]
        BY <1>0, <3>3 DEF Settled, Complete, GradeDone, LegsOf
      <4>2. r \in FreshRows(c)
        BY <3>3, <4>1 DEF FreshRows
      <4> QED BY <3>1, <3>3, <4>1, <4>2 DEF FreshResult
    <3>4. CASE d # c
      <4>1. runs[d].pc = "done" /\ d < c
        BY <1>0, <1>1, <2>2, <3>4 DEF Settled, IInv, Started, Commit
      <4>2. r \notin RowsSelected(c)
        BY <1>0, <1>1, <4>1 DEF Settled, Commit
      <4>3. Settled(d, r)
        BY <1>0, <1>1, <4>1 DEF Settled
      <4> QED BY <1>3, <3>1, <3>2, <4>2, <4>3 DEF PatientInv, Shown
    <3> QED BY <3>3, <3>4
  <2>6. Accepted'
    BY <1>1, <1>3 DEF PatientInv, Accepted
  <2> QED BY <2>1, <2>4, <2>5, <2>6
<1> QED BY <1>0, <1>2, <1>3 DEF PatientInv

\* The push of a run is rejected only if the student did not wait for it.
LEMMA PatientPushRejected ==
  ASSUME IInv, PatientInv, NEW c \in Commit, PushRejected(c) PROVE PatientInv'
<1>0. /\ runs \in [Commit -> Run] /\ runs[c].pc = "push"
      /\ runs[c].copy.version # version
      /\ UNCHANGED <<patient, pushed, version, report, history>>
  BY DEF IInv, TypeOK, PushRejected
<1>1. runs'[c].pc = "done" /\ \A d \in Commit \ {c} : runs'[d] = runs[d]
  BY <1>0 DEF Run, PushRejected
<1>2. ~patient
  BY <1>0 DEF PatientInv, BranchWaits
<1>3. \A d \in Commit : Complete(d)'
  BY <1>0, <1>1 DEF PatientInv, Complete, GradeDone, RowsSelected
<1> QED BY <1>0, <1>2, <1>3 DEF PatientInv

LEMMA PatientPreserved == IInv /\ PatientInv /\ [Next]_vars => PatientInv'
<1> SUFFICES ASSUME IInv, PatientInv, [Next]_vars PROVE PatientInv'
  OBVIOUS
<1>1. CASE Dispatch
  <2>1. pushed[Len(pushed)] \in Commits
    BY <1>1 DEF IInv, TypeOK, Dispatch
  <2>2. pushed[Len(pushed)].outcome \in [Row -> Outcome]
    BY <2>1 DEF Commits
  <2> QED BY <1>1, <2>2, PatientStart DEF Dispatch
<1>2. ASSUME NEW changed \in SUBSET Row, NEW outcome \in [Row -> Outcome],
             StudentPush(changed, outcome)
      PROVE  PatientInv'
  BY <1>2, PatientStart DEF StudentPush
<1>3. ASSUME NEW c \in Commit, RunStep(c) PROVE PatientInv'
  BY <1>3, PatientSelect, PatientGradeLeg, PatientCheckout, PatientRender,
     PatientPushReport, PatientPushRejected DEF RunStep
<1>4. CASE UNCHANGED vars
  BY <1>4 DEF vars, PatientInv, Complete, GradeDone, OneAtATime, BranchWaits,
              Accepted, Shown, Settled, RowsSelected
<1> QED BY <1>1, <1>2, <1>3, <1>4 DEF Next, Push

\* Some commit was the last to change a row: the first one changes them all.
LEMMA LastChangeExists ==
  ASSUME IInv, pushed # <<>>, NEW r \in Row
  PROVE  /\ LastChange(r) \in 1..Len(pushed)
         /\ r \in RowsSelected(LastChange(r))
         /\ \A d \in LastChange(r) + 1 .. Len(pushed) : r \notin RowsSelected(d)
<1> DEFINE S == {c \in 1..Len(pushed) : r \in RowsSelected(c)}
           Last(c) == /\ r \in RowsSelected(c)
                      /\ \A d \in c+1 .. Len(pushed) : r \notin RowsSelected(d)
<1>1. Len(pushed) \in Nat /\ Len(pushed) # 0
  BY DEF IInv, TypeOK
<1>2. 1 \in S
  BY <1>1 DEF RowsSelected
<1>3. PICK c \in S : \A d \in S : d <= c
  BY <1>1, <1>2, LargestElement
<1>4. \A d \in c+1 .. Len(pushed) : r \notin RowsSelected(d)
  BY <1>1, <1>3
<1>5. \E x \in 1..Len(pushed) : Last(x)
  BY <1>3, <1>4
<1>6. LastChange(r) = CHOOSE x \in 1..Len(pushed) : Last(x)
  BY DEF LastChange
<1> HIDE DEF Last
<1>7. LastChange(r) \in 1..Len(pushed) /\ Last(LastChange(r))
  BY <1>5, <1>6, Zenon
<1> QED BY <1>7 DEF Last

LEMMA PatientInvImplies == IInv /\ PatientInv => PatientReportIsCurrent
<1> SUFFICES ASSUME IInv, PatientInv, patient, Quiet, pushed # <<>>,
                    NEW r \in Row, pushed[LastChange(r)].outcome[r] \in Verdict
             PROVE  report[r] = [commit |-> LastChange(r),
                                 verdict |-> pushed[LastChange(r)].outcome[r]]
  BY DEF PatientReportIsCurrent, ReportIsCurrent
<1> DEFINE c == LastChange(r)
<1>1. /\ c \in 1..Len(pushed) /\ r \in RowsSelected(c)
      /\ \A d \in c+1 .. Len(pushed) : r \notin RowsSelected(d)
  BY LastChangeExists
<1> HIDE DEF c
<1>2. c \in Commit /\ Len(pushed) \in Nat
  BY <1>1, PushAssumption DEF IInv, TypeOK, Commit
<1>3. \A d \in Commit : runs[d].pc = "done" => d \in 1..Len(pushed)
  BY <1>2 DEF IInv, Started, Commit
<1>4. runs[c].pc = "done"
  BY <1>1 DEF Quiet
<1>5. Settled(c, r)
  BY <1>1, <1>2, <1>3, <1>4 DEF Settled
<1> QED BY <1>2, <1>5 DEF PatientInv, Shown, c

\* A student who waits for each run to end before pushing again finds, once the
\* last run is over, every row of the report as its newest source was graded.
THEOREM PatientSeesCurrent == Spec => []PatientReportIsCurrent
<1>1. Init => IInv /\ PatientInv
  BY InitEstablishes, PatientInit
<1>2. IInv /\ PatientInv /\ [Next]_vars => IInv' /\ PatientInv'
  BY NextPreserves, PatientPreserved
<1> QED BY <1>1, <1>2, PatientInvImplies, PTL DEF Spec

\* No report of such a student is ever lost to a rejected push: overlapping runs
\* are the only cause of one.
THEOREM PatientNeverRejected == Spec => [](patient => Accepted)
<1>1. Init => IInv /\ PatientInv
  BY InitEstablishes, PatientInit
<1>2. IInv /\ PatientInv /\ [Next]_vars => IInv' /\ PatientInv'
  BY NextPreserves, PatientPreserved
<1>3. PatientInv => (patient => Accepted)
  BY DEF PatientInv
<1> QED BY <1>1, <1>2, <1>3, PTL DEF Spec

-----------------------------------------------------------------------------
(* How long a run takes. *)

Waiting(run) == {r \in Row : run.legs[r] = "queued"}

\* The steps that a run still has to make, at most: the selection, its legs, the
\* checkout, the rendering, and one push, accepted or not.
StepsOf(run) ==
  IF run.pc = "select" THEN Cardinality(Row) + 4
  ELSE IF run.pc = "grade" THEN Cardinality(Waiting(run)) + 3
  ELSE IF run.pc = "render" THEN 2
  ELSE IF run.pc = "push" THEN 1 ELSE 0

\* They can be counted where the manifest has finitely many rows.
LEMMA StepsAreCounted ==
  ASSUME IsFiniteSet(Row), NEW run
  PROVE  /\ StepsOf(run) \in Nat /\ Cardinality(Waiting(run)) <= Cardinality(Row)
         /\ IsFiniteSet(Waiting(run))
         /\ run.pc \in RunState => (StepsOf(run) = 0 <=> run.pc \in {"none", "done"})
<1>1. Waiting(run) \subseteq Row
  BY DEF Waiting
<1>2. IsFiniteSet(Waiting(run)) /\ Cardinality(Waiting(run)) <= Cardinality(Row)
  BY <1>1, FS_Subset
<1>3. Cardinality(Row) \in Nat /\ Cardinality(Waiting(run)) \in Nat
  BY <1>2, FS_CardinalityType
<1> QED BY <1>2, <1>3 DEF StepsOf, RunState

\* What grading a leg leaves to grade.
LEMMA OneLegLess ==
  ASSUME IInv, IsFiniteSet(Row), NEW c \in Commit, NEW r \in Row, GradeLeg(c, r)
  PROVE  /\ runs'[c].pc = "grade"
         /\ Cardinality(Waiting(runs'[c])) = Cardinality(Waiting(runs[c])) - 1
<1>1. /\ runs \in [Commit -> Run] /\ runs[c].pc = "grade"
      /\ runs[c].legs[r] = "queued"
  BY DEF IInv, TypeOK, GradeLeg
<1>2. pushed[c].outcome[r] # "queued"
  <2>1. c \in 1..Len(pushed) /\ pushed \in Seq(Commits)
    BY <1>1 DEF IInv, TypeOK, Started, Commit
  <2>2. pushed[c] \in Commits
    BY <2>1
  <2> QED BY <2>2 DEF Commits, Outcome
<1>3. runs[c].legs \in [Row -> Legs]
  BY <1>1 DEF Run
<1>4. /\ runs'[c].pc = "grade"
      /\ runs'[c].legs = [runs[c].legs EXCEPT ![r] = pushed[c].outcome[r]]
  BY <1>1, <1>3 DEF GradeLeg, Run
<1>5. Waiting(runs'[c]) = Waiting(runs[c]) \ {r} /\ r \in Waiting(runs[c])
  BY <1>1, <1>2, <1>3, <1>4 DEF Waiting
<1>6. IsFiniteSet(Waiting(runs[c]))
  BY StepsAreCounted
<1> QED BY <1>4, <1>5, <1>6, FS_RemoveElement

\* Each of its own steps leaves a run fewer to make.
LEMMA OwnStep ==
  ASSUME IInv, IsFiniteSet(Row), NEW c \in Commit, RunStep(c)
  PROVE  StepsOf(runs'[c]) < StepsOf(runs[c])
<1>1. runs \in [Commit -> Run]
  BY DEF IInv, TypeOK
<1>2. /\ Cardinality(Row) \in Nat
      /\ Cardinality(Waiting(runs[c])) \in Nat
      /\ Cardinality(Waiting(runs'[c])) \in Nat
      /\ Cardinality(Waiting(runs'[c])) <= Cardinality(Row)
  BY StepsAreCounted, FS_CardinalityType
<1>3. CASE Select(c)
  <2>1. runs[c].pc = "select" /\ runs'[c].pc \in {"done", "grade"}
    BY <1>1, <1>3 DEF Select, Run
  <2> QED BY <1>2, <2>1 DEF StepsOf
<1>4. CASE \E r \in Row : GradeLeg(c, r)
  <2>1. /\ runs[c].pc = "grade" /\ runs'[c].pc = "grade"
        /\ Cardinality(Waiting(runs'[c])) = Cardinality(Waiting(runs[c])) - 1
    BY <1>4, OneLegLess DEF GradeLeg
  <2> QED BY <1>2, <2>1 DEF StepsOf
<1>5. CASE CheckoutBranch(c)
  <2>1. runs[c].pc = "grade" /\ runs'[c].pc = "render"
    BY <1>1, <1>5 DEF CheckoutBranch, Run
  <2> QED BY <1>2, <2>1 DEF StepsOf
<1>6. CASE Render(c)
  <2>1. runs[c].pc = "render" /\ runs'[c].pc = "push"
    BY <1>1, <1>6 DEF Render, Run
  <2> QED BY <2>1 DEF StepsOf
<1>7. CASE PushReport(c) \/ PushRejected(c)
  <2>1. runs[c].pc = "push" /\ runs'[c].pc = "done"
    BY <1>1, <1>7 DEF PushReport, PushRejected, Run
  <2> QED BY <2>1 DEF StepsOf
<1> QED BY <1>3, <1>4, <1>5, <1>6, <1>7 DEF RunStep

\* The steps of another run take none away, and add none.
LEMMA AnothersStep ==
  ASSUME IInv, NEW c \in Commit, NEW d \in Commit, d # c, RunStep(d)
  PROVE  runs'[c] = runs[c]
BY DEF IInv, TypeOK, RunStep, Select, GradeLeg, CheckoutBranch, Render, PushReport,
       PushRejected

\* A push starts a run that was none, and touches no other.
LEMMA StartOfRun ==
  ASSUME IInv, NEW c \in Commit, Push
  PROVE  runs'[c] = runs[c] \/ (runs[c].pc = "none" /\ runs'[c].pc = "select")
<1>1. PICK changed, outcome : StartRun(changed, outcome)
  BY DEF Push, Dispatch, StudentPush
<1>2. runs \in [Commit -> Run] /\ runs' = [runs EXCEPT ![Len(pushed) + 1].pc = "select"]
  BY <1>1 DEF IInv, TypeOK, StartRun
<1>3. CASE c = Len(pushed) + 1
  <2>1. runs'[c].pc = "select"
    BY <1>2, <1>3 DEF Run
  <2>2. Len(pushed) \in Nat
    BY DEF IInv, TypeOK
  <2>3. runs[c].pc = "none"
    BY <1>3, <2>2 DEF IInv, Started
  <2> QED BY <2>1, <2>3
<1>4. CASE c # Len(pushed) + 1
  BY <1>2, <1>4
<1> QED BY <1>3, <1>4

\* No run is endless, however many others it overlaps and whether or not its push is
\* accepted: a run of a manifest with n rows makes at most n + 4 steps, each of its steps
\* leaves it fewer, no step of another run or of the student gives it any more, and when
\* none is left it is done.  With GitHub's fairness to each run, RunsEnd follows.
THEOREM RunsAreBounded ==
  ASSUME IsFiniteSet(Row)
  PROVE  Spec =>
           /\ [](\A c \in Commit :
                   /\ StepsOf(runs[c]) \in 0..Cardinality(Row) + 4
                   /\ StepsOf(runs[c]) = 0 <=> runs[c].pc \in {"none", "done"})
           /\ [][\A c \in Commit :
                   \/ RunStep(c) /\ StepsOf(runs'[c]) < StepsOf(runs[c])
                   \/ ~RunStep(c) /\ runs'[c] = runs[c]
                   \/ Push /\ runs[c].pc = "none" /\ runs'[c].pc = "select"]_vars
<1>1. IInv => \A c \in Commit :
                /\ StepsOf(runs[c]) \in 0..Cardinality(Row) + 4
                /\ StepsOf(runs[c]) = 0 <=> runs[c].pc \in {"none", "done"}
  <2> SUFFICES ASSUME IInv, NEW c \in Commit
               PROVE  /\ StepsOf(runs[c]) \in 0..Cardinality(Row) + 4
                      /\ StepsOf(runs[c]) = 0 <=> runs[c].pc \in {"none", "done"}
    OBVIOUS
  <2>1. runs[c].pc \in RunState
    BY DEF IInv, TypeOK, Run
  <2>2. /\ Cardinality(Row) \in Nat /\ Cardinality(Waiting(runs[c])) \in Nat
        /\ Cardinality(Waiting(runs[c])) <= Cardinality(Row)
    BY StepsAreCounted, FS_CardinalityType
  <2>3. StepsOf(runs[c]) \in 0..Cardinality(Row) + 4
    BY <2>2 DEF StepsOf
  <2> QED BY <2>1, <2>3, StepsAreCounted
<1>2. IInv /\ [Next]_vars =>
        [\A c \in Commit :
           \/ RunStep(c) /\ StepsOf(runs'[c]) < StepsOf(runs[c])
           \/ ~RunStep(c) /\ runs'[c] = runs[c]
           \/ Push /\ runs[c].pc = "none" /\ runs'[c].pc = "select"]_vars
  <2> SUFFICES ASSUME IInv, Next, NEW c \in Commit
               PROVE  \/ RunStep(c) /\ StepsOf(runs'[c]) < StepsOf(runs[c])
                      \/ ~RunStep(c) /\ runs'[c] = runs[c]
                      \/ Push /\ runs[c].pc = "none" /\ runs'[c].pc = "select"
    OBVIOUS
  <2>1. CASE RunStep(c)
    BY <2>1, OwnStep
  <2>2. CASE ~RunStep(c)
    BY <2>2, AnothersStep, StartOfRun DEF Next
  <2> QED BY <2>1, <2>2
<1> QED BY <1>1, <1>2, Invariance, PTL DEF Spec

-----------------------------------------------------------------------------
(* What a green run vouches for. *)

\* Every selected row has a leg, and after the grade job a leg that is over.
LegsAreOver(c) ==
  /\ runs[c].pc \in {"grade", "render", "push", "done"} =>
       \A r \in RowsSelected(c) : runs[c].legs[r] # "skipped"
  /\ runs[c].pc \in {"render", "push", "done"} =>
       \A r \in Row : runs[c].legs[r] # "queued"

AllOver == \A c \in Commit : LegsAreOver(c)

\* A run's own step keeps this.
LEMMA OverAfterOwn ==
  ASSUME IInv, NEW c \in Commit, LegsAreOver(c), RunStep(c)
  PROVE  LegsAreOver(c)'
<1>0. runs \in [Commit -> Run] /\ LegsOf(c)
  BY DEF IInv, TypeOK, RunOK
<1>1. RowsSelected(c)' = RowsSelected(c)
  BY DEF RunStep, Select, GradeLeg, CheckoutBranch, Render, PushReport, PushRejected,
         RowsSelected
<1>2. CASE Select(c)
  <2>1. \A r \in Row : runs[c].legs[r] = "skipped"
    BY <1>0, <1>2 DEF LegsOf, Select
  <2>2. CASE RowsSelected(c) = {}
    <3>1. runs'[c].pc = "done" /\ runs'[c].legs = runs[c].legs
      BY <1>0, <1>2, <2>2 DEF Select, Run
    <3> QED BY <1>1, <2>1, <2>2, <3>1 DEF LegsAreOver
  <2>3. CASE RowsSelected(c) # {}
    <3> DEFINE legs == [r \in Row |-> IF r \in RowsSelected(c)
                                        THEN "queued" ELSE "skipped"]
    <3>0. runs' = [runs EXCEPT ![c].pc = "grade", ![c].legs = legs]
      BY <1>2, <2>3 DEF Select
    <3>1. runs'[c].pc = "grade" /\ runs'[c].legs = legs
      <4> HIDE DEF legs
      <4> QED BY <1>0, <3>0 DEF Run
    <3>2. RowsSelected(c) \subseteq Row
      <4>1. c \in 1..Len(pushed) /\ pushed \in Seq(Commits)
        BY <1>2 DEF IInv, TypeOK, Started, Select, Commit
      <4>2. pushed[c] \in Commits
        BY <4>1
      <4> QED BY <4>2 DEF RowsSelected, Commits
    <3> QED BY <1>1, <3>1, <3>2 DEF LegsAreOver
  <2> QED BY <2>2, <2>3
<1>3. ASSUME NEW r \in Row, GradeLeg(c, r) PROVE LegsAreOver(c)'
  <2>1. c \in 1..Len(pushed) /\ pushed \in Seq(Commits)
    BY <1>3 DEF IInv, TypeOK, Started, GradeLeg, Commit
  <2>2. pushed[c] \in Commits
    BY <2>1
  <2>3. pushed[c].outcome[r] # "skipped"
    BY <2>2 DEF Commits, Outcome
  <2>4. runs[c].legs \in [Row -> Legs] /\ runs[c].pc = "grade"
    BY <1>0, <1>3 DEF Run, GradeLeg
  <2>5. /\ runs'[c].pc = "grade"
        /\ runs'[c].legs = [runs[c].legs EXCEPT ![r] = pushed[c].outcome[r]]
    BY <1>0, <1>3, <2>4 DEF GradeLeg, Run
  <2>6. ASSUME NEW q \in RowsSelected(c) PROVE runs'[c].legs[q] # "skipped"
    <3>1. q \in Row
      BY <2>2 DEF RowsSelected, Commits
    <3>2. runs[c].legs[q] # "skipped"
      BY <2>4 DEF LegsAreOver
    <3> QED BY <2>3, <2>4, <2>5, <3>1, <3>2
  <2> QED BY <1>1, <2>5, <2>6 DEF LegsAreOver
<1>4. CASE CheckoutBranch(c)
  <2>1. /\ runs[c].pc = "grade" /\ GradeDone(c)
        /\ runs'[c].pc = "render" /\ runs'[c].legs = runs[c].legs
    BY <1>0, <1>4 DEF CheckoutBranch, Run
  <2> QED BY <1>1, <2>1 DEF LegsAreOver, GradeDone
<1>5. CASE Render(c)
  <2>1. /\ runs[c].pc = "render"
        /\ runs'[c].pc = "push" /\ runs'[c].legs = runs[c].legs
    BY <1>0, <1>5 DEF Render, Run
  <2> QED BY <1>1, <2>1 DEF LegsAreOver
<1>6. CASE PushReport(c) \/ PushRejected(c)
  <2>1. /\ runs[c].pc = "push"
        /\ runs'[c].pc = "done" /\ runs'[c].legs = runs[c].legs
    BY <1>0, <1>6 DEF PushReport, PushRejected, Run
  <2> QED BY <1>1, <2>1 DEF LegsAreOver
<1> QED BY <1>2, <1>3, <1>4, <1>5, <1>6 DEF RunStep

LEMMA OverKept == IInv /\ AllOver /\ [Next]_vars => AllOver'
<1> SUFFICES ASSUME IInv, AllOver, [Next]_vars, NEW c \in Commit PROVE LegsAreOver(c)'
  BY DEF AllOver
<1>0. LegsAreOver(c)
  BY DEF AllOver
<1>1. CASE RunStep(c)
  BY <1>0, <1>1, OverAfterOwn
<1>2. ASSUME NEW d \in Commit, d # c, RunStep(d) PROVE LegsAreOver(c)'
  <2>1. runs'[c] = runs[c] /\ pushed' = pushed
    BY <1>2, AnothersStep DEF RunStep, Select, GradeLeg, CheckoutBranch, Render, PushReport,
                              PushRejected
  <2> QED BY <1>0, <2>1 DEF LegsAreOver, RowsSelected
<1>3. CASE Push
  <2>1. CASE runs[c].pc = "none" /\ runs'[c].pc = "select"
    BY <2>1 DEF LegsAreOver
  <2>2. CASE runs'[c] = runs[c] /\ runs[c].pc = "none"
    BY <2>2 DEF LegsAreOver
  <2>3. CASE runs'[c] = runs[c] /\ runs[c].pc # "none"
    <3>1. PICK changed, outcome : StartRun(changed, outcome)
      BY <1>3 DEF Push, Dispatch, StudentPush
    <3>2. c \in 1..Len(pushed) /\ pushed \in Seq(Commits)
      BY <2>3 DEF IInv, TypeOK, Started, Commit
    <3>3. pushed'[c] = pushed[c]
      BY <3>1, <3>2 DEF StartRun
    <3> QED BY <1>0, <2>3, <3>3 DEF LegsAreOver, RowsSelected
  <2> QED BY <1>3, <2>1, <2>2, <2>3, StartOfRun
<1>4. CASE UNCHANGED vars
  BY <1>0, <1>4 DEF vars, LegsAreOver, RowsSelected
<1> QED BY <1>1, <1>2, <1>3, <1>4 DEF Next

\* Green means delivered, however the runs overlap: when a run ends green every row it
\* selected has been built, and each verdict it reached is in the report it leaves on the
\* branch.  What it does not mean is that the checks passed (FailuresTurnRed).
THEOREM GreenMeansDelivered == Spec => GreenRunsPublish
<1>1. Init => AllOver
  BY DEF Init, AllOver, LegsAreOver, NotStarted
<1>2. ASSUME IInv, AllOver, Next, NEW c \in Commit,
             runs'[c].conclusion = "success", runs[c].conclusion # "success",
             NEW r \in RowsSelected(c)
      PROVE  /\ pushed[c].outcome[r] # "nobuild"
             /\ pushed[c].outcome[r] \in Verdict =>
                  report'[r] = [commit |-> c, verdict |-> pushed[c].outcome[r]]
  <2>1. /\ runs \in [Commit -> Run] /\ LegsAreOver(c)
        /\ LegsOf(c) /\ CopyOf(c) /\ ConclusionOf(c)
    BY <1>2 DEF IInv, TypeOK, RunOK, AllOver
  <2>2. ConclusionOf(c)'
    BY <1>2, NextPreserves DEF IInv, RunOK
  <2>3. RunStep(c)
    <3>1. runs'[c].pc = "done" /\ runs'[c] # runs[c]
      BY <1>2, <2>2 DEF ConclusionOf
    <3>2. ~Push
      BY <1>2, <3>1, StartOfRun
    <3>3. PICK d \in Commit : RunStep(d)
      BY <1>2, <3>2 DEF Next
    <3> QED BY <1>2, <3>1, <3>3, AnothersStep
  <2>4. CASE PushReport(c)
    <3>1. /\ runs[c].pc = "push" /\ runs[c].copy.version = version
          /\ report' = runs[c].copy.report
          /\ runs'[c].conclusion = Conclusion(c)
      BY <2>1, <2>4 DEF PushReport, Run
    <3>2. /\ r \in Row /\ runs[c].legs[r] = pushed[c].outcome[r]
      <4>1. c \in 1..Len(pushed) /\ pushed \in Seq(Commits)
        BY <1>2, <3>1 DEF IInv, TypeOK, Started, Commit
      <4>2. pushed[c] \in Commits
        BY <4>1
      <4>3. r \in Row
        BY <1>2, <4>2 DEF RowsSelected, Commits
      <4> QED BY <2>1, <3>1, <4>3 DEF LegsAreOver, LegsOf
    <3>3. runs[c].legs[r] # "nobuild"
      BY <1>2, <3>1, <3>2 DEF Conclusion
    <3>4. ASSUME runs[c].legs[r] \in Verdict
          PROVE  report'[r] = [commit |-> c, verdict |-> runs[c].legs[r]]
      <4>1. r \in FreshRows(c)
        BY <3>2, <3>4 DEF FreshRows
      <4>2. report' = [q \in Row |-> IF q \in FreshRows(c) THEN FreshResult(c, q)
                                                          ELSE report[q]]
        BY <2>1, <3>1 DEF CopyOf
      <4> QED BY <3>2, <4>1, <4>2 DEF FreshResult
    <3> QED BY <3>2, <3>3, <3>4
  <2>5. CASE Select(c)
    <3>1. RowsSelected(c) = {}
      <4> SUFFICES ASSUME RowsSelected(c) # {} PROVE FALSE
        OBVIOUS
      <4>1. runs'[c].conclusion = runs[c].conclusion
        <5> DEFINE legs == [q \in Row |-> IF q \in RowsSelected(c)
                                            THEN "queued" ELSE "skipped"]
        <5>1. runs' = [runs EXCEPT ![c].pc = "grade", ![c].legs = legs]
          BY <2>5 DEF Select
        <5> HIDE DEF legs
        <5> QED BY <2>1, <5>1 DEF Run
      <4> QED BY <1>2, <4>1
    <3> QED BY <1>2, <3>1
  <2>6. ASSUME NEW q \in Row, GradeLeg(c, q) PROVE FALSE
    BY <1>2, <2>1, <2>6 DEF GradeLeg, Run
  <2>7. CASE CheckoutBranch(c) \/ Render(c) \/ PushRejected(c)
    BY <1>2, <2>1, <2>7 DEF CheckoutBranch, Render, PushRejected, Run
  <2> QED BY <2>3, <2>4, <2>5, <2>6, <2>7 DEF RunStep
<1>3. IInv /\ AllOver /\ [Next]_vars =>
        [\A c \in Commit :
           runs'[c].conclusion = "success" /\ runs[c].conclusion # "success" =>
             \A r \in RowsSelected(c) :
               /\ pushed[c].outcome[r] # "nobuild"
               /\ pushed[c].outcome[r] \in Verdict =>
                    report'[r] = [commit |-> c,
                                  verdict |-> pushed[c].outcome[r]]]_vars
  BY <1>2
<1> QED BY Invariance, OverKept, <1>1, <1>3, PTL DEF Spec, GreenRunsPublish
=============================================================================
