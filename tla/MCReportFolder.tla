---------------------------- MODULE MCReportFolder ----------------------------
(* Small manifests for ReportFolder. *)
EXTENDS ReportFolder

R(id, folder) == [id |-> id, folder |-> folder]

\* Folders suba and sub_a stand for `sub-a' and `sub/a', which have one slug.
MCSlug == [a |-> "a", b |-> "b", suba |-> "sub-a", sub_a |-> "sub-a"]

Unique == {<<R("HW1", "a"), R("HW2", "b")>>, <<R("HW1", "a")>>}
Duplicated == {<<R("HW1", "a"), R("HW1", "b"), R("HW2", "b")>>,
               <<R("HW1", "a"), R("HW1", "a")>>,
               <<R("HW1", "suba"), R("HW1", "sub_a")>>}
MCManifests == Unique \cup Duplicated

\* Rows come and go in the manifests without repeated ids; the others stand.
MCEdits == {<<m, n>> \in Unique \X Unique : m # n}
NoEdits == {}

\* Where ids repeat, no check fails: ReportFailedRow.cfg shows what then happens.
MCOutcomes(man) ==
  IF man \in Unique THEN {"pass", "fail", "none"} ELSE {"pass", "none"}
AnyOutcomes(man) == {"pass", "fail", "none"}
=============================================================================
