----------------------------- MODULE ReportFolder -----------------------------
(***************************************************************************)
(* The files of autograder/ and the manifest rows they stand for:          *)
(* select_assignments.py (slots, selection) and render_report.py, with the *)
(* sidecar that grade.reusable.yml writes between them.  One step is one   *)
(* whole grading run; GradePipeline has the interleaving of runs and the   *)
(* histories.                                                              *)
(*                                                                         *)
(* A slot is the tuple of the parts its name is joined from: <<id>>, or    *)
(* <<id, slug, k>> for the k-th row of that id and slug.  A result counts  *)
(* as one passed or one failed check.                                      *)
(***************************************************************************)
EXTENDS Naturals, Sequences, FiniteSets

CONSTANTS
  Manifests,  \* the manifests the student may write: sequences of [id, folder]
  Slug,       \* _slugify, as a function of the folder
  Outcomes(_), \* what grading a row of a manifest may give: "pass", "fail" or
              \* "none" (no JSON)
  Edits,      \* pairs of manifests: the edits the student may make
  MaxCommits  \* bound: pushes

ASSUME ManifestAssumption ==
  \A man \in Manifests : Len(man) \in Nat /\ DOMAIN man = 1..Len(man)
ASSUME OutcomeAssumption ==
  \A man \in Manifests : Outcomes(man) \subseteq {"pass", "fail", "none"}
ASSUME BoundAssumption == MaxCommits \in Nat

VARIABLES
  manifest, \* workspace/assignment.txt
  commit,   \* pushes so far
  file,     \* <name>.json: the detail of a slot, or the aggregate of an id
  index,    \* index.md: one row per id of the manifest
  graded    \* history variable: every result, as the grade job produced it

vars == <<manifest, commit, file, index, graded>>

Row(man) == DOMAIN man
Id(man) == {man[i].id : i \in Row(man)}
RowsOf(man, id) == {i \in Row(man) : man[i].id = id}
Multi(man, id) == Cardinality(RowsOf(man, id)) > 1

\* Mutant: the suffix of a repeated slug is forgotten.
SlotOf_NoSuffix(man, i) ==
  LET id == man[i].id
  IN IF Multi(man, id) THEN <<id, Slug[man[i].folder], 1>> ELSE <<id>>

\* assign_slots
SlotOf(man, i) ==
  LET id == man[i].id
      before == {j \in RowsOf(man, id) :
                   j < i /\ Slug[man[j].folder] = Slug[man[i].folder]}
  IN IF Multi(man, id)
       THEN <<id, Slug[man[i].folder], Cardinality(before) + 1>>
       ELSE <<id>>

Folders == UNION {{man[i].folder : i \in Row(man)} : man \in Manifests}
Ids == UNION {Id(man) : man \in Manifests}
Name == {<<id>> : id \in Ids} \cup UNION {{SlotOf(man, i) : i \in Row(man)} : man \in Manifests}

Entry == [slot : Name, folder : Folders, commit : 1..MaxCommits,
          verdict : {"pass", "fail"}]

NoFile == [kind |-> "none", runs |-> {}, folders |-> {}]

Init ==
  /\ manifest \in Manifests
  /\ commit = 0
  /\ file = [n \in Name |-> NoFile]
  /\ index = <<>>
  /\ graded = {}

-----------------------------------------------------------------------------
(* The results of a run and their attribution. *)

\* Mutant: the first row of the manifest, whatever its id.
FallbackFolder_AnyRow(man, slot) == man[1].folder

\* _slot_to_id_folder: without a sidecar the folder is that of the first row of
\* the slot's id.
FallbackFolder(man, slot) ==
  LET first == CHOOSE i \in RowsOf(man, slot[1]) :
                 \A j \in RowsOf(man, slot[1]) : i <= j
  IN man[first].folder

\* The run step is a `bash -e' script with pipefail: when the grader exits
\* non-zero, because a check failed, it ends before it writes the sidecar.
Sidecar(verdict) == verdict = "pass"

\* What render_report.py makes of one row's JSON.
Attribute(man, result) ==
  IF Sidecar(result.verdict) THEN result
  ELSE [result EXCEPT !.folder = FallbackFolder(man, result.slot)]

\* The rows of man graded by a push that changed the paths of some folders.
Selected(man, touched, all) ==
  {i \in Row(man) : all \/ man[i].folder \in touched}

Results(man, rows, outcome) ==
  {[slot |-> SlotOf(man, i), folder |-> man[i].folder, commit |-> commit + 1,
    verdict |-> outcome[i]] : i \in {j \in rows : outcome[j] # "none"}}

-----------------------------------------------------------------------------
(* render_report.py *)

Of(fresh, id) == {e \in fresh : e.slot[1] = id}

\* The runs of an aggregate already there; a slot's detail file has none.
PriorRuns(id) == IF file[<<id>>].kind = "aggregate" THEN file[<<id>>].runs ELSE {}

\* Mutant: only this run's rows make the aggregate.
Aggregate_FreshOnly(man, id, fresh) ==
  [kind |-> "aggregate", folders |-> {man[i].folder : i \in RowsOf(man, id)},
   runs |-> Of(fresh, id)]

\* <id>.json of an id with several rows: fresh runs over the prior ones.
Aggregate(man, id, fresh) ==
  [kind |-> "aggregate", folders |-> {man[i].folder : i \in RowsOf(man, id)},
   runs |-> Of(fresh, id) \cup
     {p \in PriorRuns(id) : \A e \in fresh : e.slot # p.slot}]

Aggregated(man, fresh) ==
  {id \in Id(man) : Multi(man, id) /\ Of(fresh, id) # {}}

Files(man, fresh) ==
  [n \in Name |->
     IF Len(n) = 1 /\ n[1] \in Aggregated(man, fresh)
       THEN Aggregate(man, n[1], fresh)
     ELSE IF \E e \in fresh : e.slot = n
       THEN [kind |-> "slot", folders |-> {}, runs |-> {e \in fresh : e.slot = n}]
     ELSE file[n]]

Count(runs, verdict) == Cardinality({e \in runs : e.verdict = verdict})

\* Mutant: the index counts only what this run graded.
IndexRow_FreshOnly(man, id, fresh, f) ==
  LET runs == IF Of(fresh, id) # {} THEN Of(fresh, id) ELSE f.runs
  IN [passed |-> Count(runs, "pass"), failed |-> Count(runs, "fail"),
      folders |-> {man[i].folder : i \in RowsOf(man, id)}]

\* _build_index_rows: a row of the index from <id>.json, f.  Only an aggregate
\* records its folders; for a single row they come from its fresh result or,
\* when there is none, from the manifest.
IndexRow(man, id, fresh, f) ==
  [passed |-> Count(f.runs, "pass"), failed |-> Count(f.runs, "fail"),
   folders |->
     IF f.kind = "aggregate" THEN f.folders
     ELSE IF Of(fresh, id) # {} THEN {e.folder : e \in Of(fresh, id)}
     ELSE {man[i].folder : i \in RowsOf(man, id)}]

\* A run with an empty matrix renders nothing.
Run(man, rows, outcome) ==
  LET results == Results(man, rows, outcome)
      fresh == {Attribute(man, r) : r \in results}
      files == Files(man, fresh)
  IN /\ graded' = graded \cup results
     /\ file' = files
     /\ index' = IF rows = {} THEN index
                 ELSE [id \in Id(man) |-> IndexRow(man, id, fresh, files[<<id>>])]

-----------------------------------------------------------------------------

\* The student changes the sources of some folders.
Push(touched, outcome) ==
  /\ commit < MaxCommits
  /\ commit' = commit + 1
  /\ Run(manifest, Selected(manifest, touched, commit = 0), outcome)
  /\ UNCHANGED manifest

\* The student edits the manifest (and, maybe, sources): every row is graded.
PushManifest(man, outcome) ==
  /\ <<manifest, man>> \in Edits
  /\ commit < MaxCommits
  /\ commit' = commit + 1
  /\ manifest' = man
  /\ Run(man, Row(man), outcome)

Next ==
  \/ \E touched \in SUBSET Folders, outcome \in [Row(manifest) -> Outcomes(manifest)] :
       Push(touched, outcome)
  \/ \E man \in Manifests : \E outcome \in [Row(man) -> Outcomes(man)] :
       PushManifest(man, outcome)

Spec == Init /\ [][Next]_vars

-----------------------------------------------------------------------------
(* Properties. *)

\* Every file holds what its name says: a slot's file the one result of that
\* slot, an aggregate at most one result per slot, all of its own id.
TypeOK ==
  /\ manifest \in Manifests /\ commit \in 0..MaxCommits
  /\ graded \subseteq Entry
  /\ \A n \in Name :
       /\ file[n].kind \in {"none", "slot", "aggregate"}
       /\ file[n].runs \subseteq Entry /\ file[n].folders \subseteq Folders
       /\ file[n].kind = "slot" =>
            Cardinality(file[n].runs) = 1 /\ \A e \in file[n].runs : e.slot = n
       /\ file[n].kind = "aggregate" =>
            \A d, e \in file[n].runs : e.slot[1] = n[1] /\ (d.slot = e.slot => d = e)
  /\ index # <<>> => \A id \in Id(manifest) :
       index[id].passed \in Nat /\ index[id].failed \in Nat

\* The traceability contract (manifest-and-slots.md): "every row of the
\* rendered report links to the exact commit + folder pair that produced it".
Attributed == \A n \in Name : file[n].runs \subseteq graded

\* "Partial regrades don't clobber sibling rows": while the manifest stands, a
\* result in an aggregate gives way only to a newer result of its own slot.
SiblingsKept ==
  [][manifest' = manifest =>
       \A id \in Ids : \A e \in PriorRuns(id) :
         \/ e \in file'[<<id>>].runs
         \/ \E d \in file'[<<id>>].runs : d.slot = e.slot /\ d.commit > e.commit]_vars

\* The results of the manifest's rows of an id, the newest of each row.
Newest(id) ==
  {g \in graded :
     \E i \in RowsOf(manifest, id) :
       /\ g.slot = SlotOf(manifest, i) /\ g.folder = manifest[i].folder
       /\ \A h \in graded : h.slot = g.slot /\ h.folder = g.folder
                              => h.commit <= g.commit}

\* The index counts the newest result of every row of the manifest, and nothing
\* else: the manifest is "the single source of truth for which folders contain
\* which assignments".
IndexShowsManifest ==
  commit > 0 => \A id \in Id(manifest) :
    /\ index[id].passed = Count(Newest(id), "pass")
    /\ index[id].failed = Count(Newest(id), "fail")
    /\ index[id].folders = {manifest[i].folder : i \in RowsOf(manifest, id)}
=============================================================================
