------------------------- MODULE ReportFolder_proofs -------------------------
(***************************************************************************)
(* Traceability of the report when no id has two rows: what is lost with   *)
(* the sidecar of a failed row is then recovered from the manifest.  And,  *)
(* for ids with several rows, that a partial regrade keeps the others.     *)
(***************************************************************************)
EXTENDS ReportFolder, FiniteSetTheorems, TLAPS

UniqueIds(man) == \A i, j \in Row(man) : man[i].id = man[j].id => i = j

\* Where an id has two rows, no check fails: the sidecar is never lost there.
RepeatedNeverFail ==
  \A man \in Manifests : UniqueIds(man) \/ "fail" \notin Outcomes(man)

IInv == manifest \in Manifests /\ Attributed

\* The first element of a slot's name is its row's id.
LEMMA SlotId ==
  ASSUME NEW man, NEW i \in Row(man) PROVE SlotOf(man, i)[1] = man[i].id
  BY DEF SlotOf

\* With unique ids the fallback finds the row's own folder.
LEMMA FallbackIsExact ==
  ASSUME NEW man \in Manifests, UniqueIds(man), NEW i \in Row(man),
         \A j \in Row(man) : j \in Nat
  PROVE  FallbackFolder(man, SlotOf(man, i)) = man[i].folder
<1>1. RowsOf(man, SlotOf(man, i)[1]) = {i}
  BY SlotId DEF RowsOf, UniqueIds
<1> QED BY <1>1 DEF FallbackFolder

LEMMA AttributeIsExact ==
  ASSUME RepeatedNeverFail, NEW man \in Manifests, \A j \in Row(man) : j \in Nat,
         NEW rows \in SUBSET Row(man), NEW outcome \in [Row(man) -> Outcomes(man)],
         NEW r \in Results(man, rows, outcome)
  PROVE  Attribute(man, r) = r
<1>1. PICK i \in rows :
        /\ r = [slot |-> SlotOf(man, i), folder |-> man[i].folder,
                commit |-> commit + 1, verdict |-> outcome[i]]
        /\ outcome[i] # "none"
  BY DEF Results
<1>2. CASE UniqueIds(man)
  <2>1. FallbackFolder(man, r.slot) = r.folder
    BY <1>1, <1>2, FallbackIsExact
  <2>2. [r EXCEPT !.folder = r.folder] = r
    BY <1>1
  <2> QED BY <2>1, <2>2 DEF Attribute
<1>3. CASE "fail" \notin Outcomes(man)
  <2>1. outcome[i] = "pass"
    BY <1>1, <1>3, OutcomeAssumption
  <2> QED BY <1>1, <2>1 DEF Attribute, Sidecar
<1> QED BY <1>2, <1>3 DEF RepeatedNeverFail

\* A name of one part is that of an id.
LEMMA ShortName ==
  ASSUME NEW n \in Name, Len(n) = 1 PROVE n = <<n[1]>>
<1>1. (\E x : n = <<x>>) \/ (\E x, y, z : n = <<x, y, z>>)
  <2>1. CASE n \in {<<id>> : id \in Ids}
    BY <2>1
  <2>2. ASSUME NEW m \in Manifests, NEW i \in Row(m), n = SlotOf(m, i)
        PROVE  (\E x : n = <<x>>) \/ (\E x, y, z : n = <<x, y, z>>)
    BY <2>2, Zenon DEF SlotOf
  <2> QED BY <2>1, <2>2 DEF Name
<1>2. CASE \E x : n = <<x>>
  BY <1>2
<1>3. CASE \E x, y, z : n = <<x, y, z>>
  BY <1>3
<1> QED BY <1>1, <1>2, <1>3

\* Every run in a file written is fresh, or was in a file before.
LEMMA FilesFrom ==
  ASSUME NEW man, NEW fresh, NEW n \in Name
  PROVE  Files(man, fresh)[n].runs \subseteq fresh \cup file[n].runs
<1>1. CASE Len(n) = 1 /\ n[1] \in Aggregated(man, fresh)
  <2>1. <<n[1]>> = n
    BY <1>1, ShortName
  <2>2. Aggregate(man, n[1], fresh).runs \subseteq fresh \cup file[n].runs
    BY <2>1 DEF Aggregate, PriorRuns, Of
  <2>3. Files(man, fresh)[n] = Aggregate(man, n[1], fresh)
    BY <1>1 DEF Files
  <2> QED BY <2>2, <2>3
<1>2. CASE ~(Len(n) = 1 /\ n[1] \in Aggregated(man, fresh))
  BY <1>2 DEF Files
<1> QED BY <1>1, <1>2

LEMMA RunKeepsAttribution ==
  ASSUME RepeatedNeverFail, Attributed, NEW man \in Manifests,
         \A j \in Row(man) : j \in Nat,
         NEW rows \in SUBSET Row(man), NEW outcome \in [Row(man) -> Outcomes(man)], Run(man, rows, outcome)
  PROVE  Attributed'
<1> DEFINE results == Results(man, rows, outcome)
           fresh == {Attribute(man, r) : r \in results}
<1>1. fresh = results
  BY AttributeIsExact
<1>2. graded' = graded \cup results /\ file' = Files(man, fresh)
  BY DEF Run
<1> HIDE DEF results, fresh
<1>3. \A n \in Name : file'[n].runs \subseteq fresh \cup file[n].runs
  BY <1>2, FilesFrom
<1> QED BY <1>1, <1>2, <1>3 DEF Attributed

\* If no check fails where a manifest repeats an id, every entry of every file names the slot, the
\* folder, the commit and the verdict of a grading that took place, whether the
\* grader passed, failed (and left no sidecar) or died, and whatever the edits
\* to the manifest.
THEOREM EntriesAreAttributed ==
  ASSUME RepeatedNeverFail
  PROVE  Spec => []Attributed
<1>0. \A man \in Manifests : \A j \in Row(man) : j \in Nat
  BY ManifestAssumption DEF Row
<1>1. Init => IInv
  BY DEF Init, IInv, Attributed, NoFile
<1>2. IInv /\ [Next]_vars => IInv'
  <2> SUFFICES ASSUME IInv, [Next]_vars PROVE IInv'
    OBVIOUS
  <2>1. ASSUME NEW touched \in SUBSET Folders,
               NEW outcome \in [Row(manifest) -> Outcomes(manifest)], Push(touched, outcome)
        PROVE  IInv'
    <3>1. Selected(manifest, touched, commit = 0) \in SUBSET Row(manifest)
      BY DEF Selected
    <3> QED BY <2>1, <3>1, <1>0, RunKeepsAttribution DEF Push, IInv
  <2>2. ASSUME NEW man \in Manifests, NEW outcome \in [Row(man) -> Outcomes(man)],
               PushManifest(man, outcome)
        PROVE  IInv'
    BY <1>0, <2>2, RunKeepsAttribution DEF PushManifest, IInv
  <2>3. CASE UNCHANGED vars
    BY <2>3 DEF vars, IInv, Attributed
  <2> QED BY <2>1, <2>2, <2>3 DEF Next
<1>3. IInv => Attributed
  BY DEF IInv
<1> QED BY <1>1, <1>2, <1>3, PTL DEF Spec

-----------------------------------------------------------------------------
(* Rows of a repeated id. *)

\* The edits that the partial regrade is made for: an id with several rows
\* keeps several.
RepeatedStayRepeated ==
  \A m, n \in Manifests : <<m, n>> \in Edits => \A id \in Ids : Multi(m, id) => Multi(n, id)

\* <id>.json is an aggregate only while the id has several rows, and its
\* results are of this id and of no later push.
AggregateInv ==
  /\ manifest \in Manifests /\ commit \in Nat
  /\ \A id \in Ids : file[<<id>>].kind = "aggregate" =>
       /\ Multi(manifest, id)
       /\ \A e \in file[<<id>>].runs : e.slot[1] = id /\ e.commit \in Nat /\ e.commit <= commit

\* The fresh results of a run carry its commit and the slots of its rows.
LEMMA FreshOf ==
  ASSUME NEW man, NEW rows \in SUBSET Row(man), NEW outcome,
         NEW e \in {Attribute(man, r) : r \in Results(man, rows, outcome)}
  PROVE  e.commit = commit + 1 /\ \E i \in Row(man) : e.slot = SlotOf(man, i)
<1>1. PICK r \in Results(man, rows, outcome) : e = Attribute(man, r)
  OBVIOUS
<1>2. PICK i \in rows :
        r = [slot |-> SlotOf(man, i), folder |-> man[i].folder,
             commit |-> commit + 1, verdict |-> outcome[i]]
  BY DEF Results
<1>3. e.commit = r.commit /\ e.slot = r.slot
  BY <1>1, <1>2 DEF Attribute
<1> QED BY <1>2, <1>3

\* A slot named by an id alone belongs to an id with one row.
LEMMA PlainSlot ==
  ASSUME NEW man, NEW i \in Row(man), NEW id, SlotOf(man, i) = <<id>>
  PROVE  ~Multi(man, id)
<1>1. CASE Multi(man, man[i].id)
  <2>1. \E x, y, z : SlotOf(man, i) = <<x, y, z>>
    BY <1>1, Zenon DEF SlotOf
  <2> QED BY <2>1
<1>2. CASE ~Multi(man, man[i].id)
  <2>1. SlotOf(man, i) = <<man[i].id>>
    BY <1>2, Zenon DEF SlotOf
  <2> QED BY <1>2, <2>1
<1> QED BY <1>1, <1>2

\* What a run makes of <id>.json: the aggregate if the id has several rows and
\* one was graded; otherwise the file of a slot or what it was.
LEMMA AggregateFile ==
  ASSUME NEW man, NEW fresh, NEW id \in Ids
  PROVE  /\ id \in Aggregated(man, fresh)
              => Files(man, fresh)[<<id>>] = Aggregate(man, id, fresh)
         /\ id \notin Aggregated(man, fresh) /\ (\A e \in fresh : e.slot # <<id>>)
              => Files(man, fresh)[<<id>>] = file[<<id>>]
         /\ id \notin Aggregated(man, fresh) /\ Files(man, fresh)[<<id>>].kind = "aggregate"
              => Files(man, fresh)[<<id>>] = file[<<id>>]
<1>1. <<id>> \in Name /\ Len(<<id>>) = 1 /\ <<id>>[1] = id
  BY DEF Name
<1>2. id \in Aggregated(man, fresh) => Files(man, fresh)[<<id>>] = Aggregate(man, id, fresh)
  BY <1>1 DEF Files
<1>3. ASSUME id \notin Aggregated(man, fresh)
      PROVE  Files(man, fresh)[<<id>>] =
               IF \E e \in fresh : e.slot = <<id>>
                 THEN [kind |-> "slot", folders |-> {}, runs |-> {e \in fresh : e.slot = <<id>>}]
                 ELSE file[<<id>>]
  BY <1>1, <1>3 DEF Files
<1> QED BY <1>2, <1>3

LEMMA RunKeepsAggregates ==
  ASSUME AggregateInv, NEW man \in Manifests, NEW rows \in SUBSET Row(man), NEW outcome,
         \A id \in Ids : Multi(manifest, id) => Multi(man, id),
         manifest' = man, commit' = commit + 1, Run(man, rows, outcome)
  PROVE  AggregateInv'
<1> DEFINE fresh == {Attribute(man, r) : r \in Results(man, rows, outcome)}
<1>1. file' = Files(man, fresh)
  BY DEF Run
<1>2. \A e \in fresh : e.commit = commit + 1
  BY FreshOf
<1> HIDE DEF fresh
<1>3. ASSUME NEW id \in Ids, file'[<<id>>].kind = "aggregate"
      PROVE  /\ Multi(man, id)
             /\ \A e \in file'[<<id>>].runs :
                  e.slot[1] = id /\ e.commit \in Nat /\ e.commit <= commit + 1
  <2> DEFINE OfId(e) == e.slot[1] = id /\ e.commit \in Nat /\ e.commit <= commit + 1
  <2>1. CASE id \in Aggregated(man, fresh)
    <3>1. file'[<<id>>].runs \subseteq Of(fresh, id) \cup PriorRuns(id)
      <4>1. file'[<<id>>] = Aggregate(man, id, fresh)
        BY <1>1, <2>1, AggregateFile
      <4> QED BY <4>1 DEF Aggregate
    <3>2. \A e \in PriorRuns(id) : OfId(e)
      <4> SUFFICES ASSUME NEW e \in PriorRuns(id) PROVE OfId(e)
        OBVIOUS
      <4>1. e.slot[1] = id /\ e.commit \in Nat /\ e.commit <= commit
        BY DEF PriorRuns, AggregateInv
      <4> QED BY <4>1 DEF AggregateInv
    <3>3. \A e \in Of(fresh, id) : OfId(e)
      BY <1>2 DEF Of, AggregateInv
    <3>4. Multi(man, id)
      BY <2>1 DEF Aggregated
    <3> QED BY <3>1, <3>2, <3>3, <3>4
  <2>2. CASE id \notin Aggregated(man, fresh)
    <3>1. file'[<<id>>] = file[<<id>>]
      BY <1>1, <1>3, <2>2, AggregateFile
    <3> QED BY <1>3, <3>1 DEF AggregateInv
  <2> QED BY <2>1, <2>2
<1> QED BY <1>3 DEF AggregateInv

LEMMA RunKeepsSiblings ==
  ASSUME AggregateInv, NEW rows \in SUBSET Row(manifest), NEW outcome,
         Run(manifest, rows, outcome), NEW id \in Ids, NEW e \in PriorRuns(id)
  PROVE  \/ e \in file'[<<id>>].runs
         \/ \E d \in file'[<<id>>].runs : d.slot = e.slot /\ d.commit > e.commit
<1> DEFINE fresh == {Attribute(manifest, r) : r \in Results(manifest, rows, outcome)}
<1>1. file' = Files(manifest, fresh)
  BY DEF Run
<1>2. /\ file[<<id>>].kind = "aggregate" /\ e \in file[<<id>>].runs
      /\ Multi(manifest, id) /\ e.slot[1] = id /\ e.commit \in Nat /\ e.commit <= commit
  BY DEF PriorRuns, AggregateInv
<1>3. \A d \in fresh : d.commit = commit + 1 /\ d.slot # <<id>>
  <2> SUFFICES ASSUME NEW d \in fresh PROVE d.commit = commit + 1 /\ d.slot # <<id>>
    OBVIOUS
  <2> QED BY <1>2, FreshOf, PlainSlot
<1> HIDE DEF fresh
<1>4. CASE id \notin Aggregated(manifest, fresh)
  <2>1. file'[<<id>>] = file[<<id>>]
    BY <1>1, <1>3, <1>4, AggregateFile
  <2> QED BY <1>2, <2>1
<1>5. CASE id \in Aggregated(manifest, fresh)
  <2>1. file'[<<id>>].runs = Of(fresh, id) \cup
          {p \in PriorRuns(id) : \A d \in fresh : d.slot # p.slot}
    <3>1. file'[<<id>>] = Aggregate(manifest, id, fresh)
      BY <1>1, <1>5, AggregateFile
    <3> QED BY <3>1 DEF Aggregate
  <2>2. CASE \A d \in fresh : d.slot # e.slot
    BY <2>1, <2>2
  <2>3. ASSUME NEW d \in fresh, d.slot = e.slot
        PROVE  d \in file'[<<id>>].runs /\ d.commit > e.commit
    <3>1. d.commit = commit + 1 /\ commit \in Nat
      BY <1>3 DEF AggregateInv
    <3>2. d.commit > e.commit
      BY <1>2, <3>1, SMT
    <3>3. d \in Of(fresh, id)
      BY <1>2, <2>3 DEF Of
    <3> QED BY <2>1, <3>2, <3>3
  <2> QED BY <2>2, <2>3
<1> QED BY <1>4, <1>5

\* While the manifest stands, a result of a repeated id's aggregate gives way
\* only to a newer result of its own slot, whichever rows are graded and however
\* the sidecars are lost, if earlier edits left every repeated id repeated.
THEOREM SiblingsAreKept ==
  ASSUME RepeatedStayRepeated
  PROVE  Spec => SiblingsKept
<1>1. Init => AggregateInv
  BY DEF Init, AggregateInv, NoFile, Name
<1>2. AggregateInv /\ [Next]_vars =>
        /\ AggregateInv'
        /\ [manifest' = manifest =>
             \A id \in Ids : \A e \in PriorRuns(id) :
               \/ e \in file'[<<id>>].runs
               \/ \E d \in file'[<<id>>].runs : d.slot = e.slot /\ d.commit > e.commit]_vars
  <2> SUFFICES ASSUME AggregateInv, [Next]_vars
               PROVE  /\ AggregateInv'
                      /\ UNCHANGED vars \/ \A id \in Ids : \A e \in PriorRuns(id) :
                           \/ manifest' # manifest
                           \/ e \in file'[<<id>>].runs
                           \/ \E d \in file'[<<id>>].runs :
                                d.slot = e.slot /\ d.commit > e.commit
    OBVIOUS
  <2>1. ASSUME NEW touched \in SUBSET Folders,
               NEW outcome \in [Row(manifest) -> Outcomes(manifest)], Push(touched, outcome)
        PROVE  /\ AggregateInv'
               /\ \A id \in Ids : \A e \in PriorRuns(id) :
                    \/ e \in file'[<<id>>].runs
                    \/ \E d \in file'[<<id>>].runs : d.slot = e.slot /\ d.commit > e.commit
    <3>1. PICK rows \in SUBSET Row(manifest) : Run(manifest, rows, outcome)
      BY <2>1 DEF Push, Selected
    <3>2. manifest' = manifest /\ commit' = commit + 1 /\ manifest \in Manifests
      BY <2>1 DEF Push, AggregateInv
    <3>3. AggregateInv'
      BY <3>1, <3>2, RunKeepsAggregates
    <3> QED BY <3>1, <3>3, RunKeepsSiblings
  <2>2. ASSUME NEW man \in Manifests, NEW outcome \in [Row(man) -> Outcomes(man)],
               PushManifest(man, outcome)
        PROVE  /\ AggregateInv'
               /\ manifest' = manifest =>
                    \A id \in Ids : \A e \in PriorRuns(id) :
                      \/ e \in file'[<<id>>].runs
                      \/ \E d \in file'[<<id>>].runs : d.slot = e.slot /\ d.commit > e.commit
    <3>1. /\ manifest' = man /\ commit' = commit + 1 /\ Run(man, Row(man), outcome)
          /\ <<manifest, man>> \in Edits /\ manifest \in Manifests
      BY <2>2 DEF PushManifest, AggregateInv
    <3>2. \A id \in Ids : Multi(manifest, id) => Multi(man, id)
      BY <3>1 DEF RepeatedStayRepeated
    <3>3. AggregateInv'
      BY <3>1, <3>2, RunKeepsAggregates
    <3>4. manifest' = manifest => Run(manifest, Row(manifest), outcome)
      BY <3>1
    <3> QED BY <3>3, <3>4, RunKeepsSiblings
  <2>3. CASE UNCHANGED vars
    BY <2>3 DEF vars, AggregateInv
  <2> QED BY <2>1, <2>2, <2>3 DEF Next
<1> QED BY <1>1, <1>2, PTL DEF Spec, SiblingsKept

-----------------------------------------------------------------------------
(* Slots and types, for every manifest. *)

\* Every nonempty set of numbers has a least element.
LEMMA LeastElement ==
  ASSUME NEW T \in SUBSET Nat, T # {}
  PROVE  \E m \in T : \A x \in T : m <= x
<1>0. T \subseteq Nat
  OBVIOUS
<1>1. PICK m \in T : \A x \in T : <<x, m>> \notin OpToRel(<, Nat)
  BY <1>0, WFMin, NatLessThanWellFounded, Zenon
<1>2. \A x \in T : ~(x < m)
  BY <1>0, <1>1, Zenon DEF OpToRel
<1> QED BY <1>0, <1>2

LEMMA FiniteImage ==
  ASSUME NEW S, IsFiniteSet(S), NEW T, NEW f, \A t \in T : \E s \in S : f[s] = t
  PROVE  IsFiniteSet(T)
<1> DEFINE U == {s \in S : f[s] \in T}
           g == [s \in U |-> f[s]]
<1>1. IsFiniteSet(U)
  BY FS_Subset
<1>2. g \in Surjection(U, T)
  BY DEF Surjection
<1> QED BY <1>1, <1>2, FS_Surjection

LEMMA RowsFinite ==
  ASSUME NEW man \in Manifests
  PROVE  /\ IsFiniteSet(Row(man)) /\ \A i \in Row(man) : i \in Nat
         /\ \A id : IsFiniteSet(RowsOf(man, id))
<1>1. Row(man) = 1..Len(man) /\ Len(man) \in Nat
  BY ManifestAssumption DEF Row
<1>2. IsFiniteSet(Row(man)) /\ \A i \in Row(man) : i \in Nat
  BY <1>1, FS_Interval
<1>3. ASSUME NEW id PROVE IsFiniteSet(RowsOf(man, id))
  <2>1. RowsOf(man, id) \in SUBSET Row(man)
    BY DEF RowsOf
  <2> QED BY <1>2, <2>1, FS_Subset
<1> QED BY <1>2, <1>3

\* The rows before j that share its slug include i and those before i.
LEMMA LaterSlot ==
  ASSUME NEW man \in Manifests, NEW i \in Row(man), NEW j \in Row(man), i < j
  PROVE  SlotOf(man, i) # SlotOf(man, j)
<1> DEFINE Before(k) == {h \in RowsOf(man, man[k].id) :
                           h < k /\ Slug[man[h].folder] = Slug[man[k].folder]}
<1>0. /\ i \in Nat /\ j \in Nat
      /\ \A id : IsFiniteSet(RowsOf(man, id))
  BY RowsFinite
<1>1. CASE man[i].id # man[j].id
  BY <1>1, SlotId
<1>2. CASE man[i].id = man[j].id
  <2>1. Multi(man, man[i].id)
    <3>1. {i, j} \in SUBSET RowsOf(man, man[i].id)
      BY <1>2 DEF RowsOf
    <3>2. Cardinality({i, j}) = 2
      <4>1. i # j /\ {i, j} = {i} \cup {j}
        BY <1>0
      <4>2. IsFiniteSet({i}) /\ Cardinality({i}) = 1 /\ j \notin {i}
        BY <4>1, FS_Singleton
      <4> QED BY <4>1, <4>2, FS_AddElement
    <3>3. /\ Cardinality({i, j}) <= Cardinality(RowsOf(man, man[i].id))
          /\ Cardinality(RowsOf(man, man[i].id)) \in Nat
      BY <1>0, <3>1, FS_Subset, FS_CardinalityType
    <3> QED BY <3>2, <3>3 DEF Multi
  <2>2. /\ SlotOf(man, i) = <<man[i].id, Slug[man[i].folder], Cardinality(Before(i)) + 1>>
        /\ SlotOf(man, j) = <<man[j].id, Slug[man[j].folder], Cardinality(Before(j)) + 1>>
    BY <1>2, <2>1 DEF SlotOf
  <2>3. CASE Slug[man[i].folder] # Slug[man[j].folder]
    <3> HIDE DEF Before
    <3> QED BY <2>2, <2>3
  <2>4. CASE Slug[man[i].folder] = Slug[man[j].folder]
    <3>1. Before(i) \in SUBSET Before(j) /\ i \in Before(j) /\ i \notin Before(i)
      <4>1. \A h \in RowsOf(man, man[i].id) : h \in Nat /\ (h < i => h < j)
        BY <1>0, RowsFinite DEF RowsOf
      <4>2. RowsOf(man, man[i].id) = RowsOf(man, man[j].id) /\ i \in RowsOf(man, man[j].id)
        BY <1>2 DEF RowsOf
      <4>3. ~(i < i)
        BY <1>0
      <4> QED BY <2>4, <4>1, <4>2, <4>3, Zenon
    <3>2. IsFiniteSet(Before(j))
      <4>1. Before(j) \in SUBSET RowsOf(man, man[j].id)
        OBVIOUS
      <4> QED BY <1>0, <4>1, FS_Subset
    <3> HIDE DEF Before
    <3>3. /\ IsFiniteSet(Before(i)) /\ Cardinality(Before(j)) # Cardinality(Before(i))
          /\ Cardinality(Before(i)) \in Nat /\ Cardinality(Before(j)) \in Nat
      BY <3>1, <3>2, FS_Subset, FS_CardinalityType
    <3> QED BY <2>2, <3>3
  <2> QED BY <2>3, <2>4
<1> QED BY <1>1, <1>2

\* assign_slots gives no two rows of a manifest the same slot.
LEMMA SlotsDiffer ==
  ASSUME NEW man \in Manifests, NEW i \in Row(man), NEW j \in Row(man),
         SlotOf(man, i) = SlotOf(man, j)
  PROVE  i = j
<1>1. i \in Nat /\ j \in Nat
  BY RowsFinite
<1>2. i < j \/ j < i \/ i = j
  BY <1>1
<1> QED BY <1>2, LaterSlot

\* The results of a run, as they are attributed: at most one of each slot.
FreshOK(fresh) ==
  /\ fresh \subseteq Entry /\ IsFiniteSet(fresh)
  /\ \A d, e \in fresh : d.slot = e.slot => d = e

LEMMA FallbackType ==
  ASSUME NEW man \in Manifests, NEW i \in Row(man)
  PROVE  FallbackFolder(man, SlotOf(man, i)) \in Folders
<1> DEFINE R == RowsOf(man, man[i].id)
           Is(h) == \A j \in R : h <= j
<1>1. R \in SUBSET Nat /\ R # {} /\ R \subseteq Row(man)
  BY RowsFinite DEF RowsOf
<1>2. \E h \in R : Is(h)
  <2> HIDE DEF R
  <2> QED BY <1>1, LeastElement
<1>3. FallbackFolder(man, SlotOf(man, i)) = man[CHOOSE h \in R : Is(h)].folder
  BY SlotId DEF FallbackFolder
<1> HIDE DEF Is
<1>4. (CHOOSE h \in R : Is(h)) \in R
  BY <1>2, Zenon
<1>5. \A h \in Row(man) : man[h].folder \in Folders
  BY DEF Folders
<1> QED BY <1>1, <1>3, <1>4, <1>5

LEMMA ResultEntries ==
  ASSUME commit \in Nat, commit < MaxCommits, NEW man \in Manifests,
         NEW rows \in SUBSET Row(man), NEW outcome \in [Row(man) -> Outcomes(man)]
  PROVE  /\ Results(man, rows, outcome) \subseteq Entry
         /\ FreshOK({Attribute(man, r) : r \in Results(man, rows, outcome)})
<1> DEFINE R(i) == [slot |-> SlotOf(man, i), folder |-> man[i].folder,
                    commit |-> commit + 1, verdict |-> outcome[i]]
           fresh == {Attribute(man, r) : r \in Results(man, rows, outcome)}
<1>1. Results(man, rows, outcome) = {R(i) : i \in {j \in rows : outcome[j] # "none"}}
  BY DEF Results
<1>2. commit + 1 \in 1..MaxCommits
  BY BoundAssumption
<1>3. ASSUME NEW i \in rows, outcome[i] # "none"
      PROVE  /\ R(i) \in Entry /\ Attribute(man, R(i)) \in Entry
             /\ Attribute(man, R(i)).slot = SlotOf(man, i)
  <2>1. SlotOf(man, i) \in Name /\ man[i].folder \in Folders
    BY DEF Name, Folders
  <2>2. outcome[i] \in {"pass", "fail"}
    BY <1>3, OutcomeAssumption
  <2>3. FallbackFolder(man, SlotOf(man, i)) \in Folders
    BY FallbackType
  <2>4. R(i) \in Entry /\ R(i).slot = SlotOf(man, i)
    BY <1>2, <2>1, <2>2 DEF Entry
  <2> HIDE DEF R
  <2>5. \A f \in Folders : /\ [R(i) EXCEPT !.folder = f] \in Entry
                           /\ [R(i) EXCEPT !.folder = f].slot = SlotOf(man, i)
    BY <2>4 DEF Entry
  <2> QED BY <2>3, <2>4, <2>5 DEF Attribute
<1> HIDE DEF R
<1>4. \A e \in fresh : \E i \in rows : outcome[i] # "none" /\ e = Attribute(man, R(i))
  BY <1>1
<1>5. fresh \subseteq Entry
  BY <1>3, <1>4
<1>6. IsFiniteSet(fresh)
  <2> DEFINE f == [i \in Row(man) |-> Attribute(man, R(i))]
  <2>1. \A e \in fresh : \E i \in Row(man) : f[i] = e
    BY <1>4
  <2> HIDE DEF f, fresh
  <2> QED BY <2>1, RowsFinite, FiniteImage
<1>7. ASSUME NEW d \in fresh, NEW e \in fresh, d.slot = e.slot PROVE d = e
  <2>1. PICK i \in rows : outcome[i] # "none" /\ d = Attribute(man, R(i))
    BY <1>4
  <2>2. PICK j \in rows : outcome[j] # "none" /\ e = Attribute(man, R(j))
    BY <1>4
  <2>3. i = j
    BY <1>3, <1>7, <2>1, <2>2, SlotsDiffer
  <2> QED BY <2>1, <2>2, <2>3
<1> HIDE DEF fresh
<1>8. FreshOK(fresh)
  BY <1>5, <1>6, <1>7 DEF FreshOK
<1> QED BY <1>1, <1>3, <1>8 DEF fresh

\* What TypeOK says of a file, and that it is finite.
FileOK(n, f) ==
  /\ f.kind \in {"none", "slot", "aggregate"}
  /\ f.runs \subseteq Entry /\ f.folders \subseteq Folders /\ IsFiniteSet(f.runs)
  /\ f.kind = "slot" => Cardinality(f.runs) = 1 /\ \A e \in f.runs : e.slot = n
  /\ f.kind = "aggregate" =>
       \A d, e \in f.runs : e.slot[1] = n[1] /\ (d.slot = e.slot => d = e)

IndexOK == index # <<>> => \A id \in Id(manifest) :
             index[id].passed \in Nat /\ index[id].failed \in Nat

TypeInv ==
  /\ manifest \in Manifests /\ commit \in 0..MaxCommits /\ graded \subseteq Entry
  /\ \A n \in Name : FileOK(n, file[n])
  /\ IndexOK

LEMMA FilesType ==
  ASSUME TypeInv, NEW man \in Manifests, NEW fresh, FreshOK(fresh), NEW n \in Name
  PROVE  FileOK(n, Files(man, fresh)[n])
<1>1. CASE Len(n) = 1 /\ n[1] \in Aggregated(man, fresh)
  <2> DEFINE id == n[1]
             prior == {p \in PriorRuns(id) : \A e \in fresh : e.slot # p.slot}
             f == Aggregate(man, id, fresh)
  <2>1. n = <<id>> /\ Files(man, fresh)[n] = f
    BY <1>1, ShortName DEF Files
  <2>2. /\ PriorRuns(id) \subseteq Entry /\ IsFiniteSet(PriorRuns(id))
        /\ \A d, e \in PriorRuns(id) : e.slot[1] = id /\ (d.slot = e.slot => d = e)
    <3>1. FileOK(<<id>>, file[<<id>>]) /\ <<id>>[1] = id
      BY <2>1 DEF TypeInv
    <3>2. CASE file[<<id>>].kind = "aggregate"
      BY <3>1, <3>2 DEF PriorRuns, FileOK
    <3>3. CASE file[<<id>>].kind # "aggregate"
      BY <3>3, FS_EmptySet DEF PriorRuns
    <3> QED BY <3>2, <3>3
  <2>3. f.kind = "aggregate" /\ f.runs = Of(fresh, id) \cup prior
    BY DEF Aggregate
  <2>4. f.folders \subseteq Folders
    BY DEF Aggregate, Folders, RowsOf
  <2> HIDE DEF f
  <2>5. IsFiniteSet(f.runs)
    <3>1. IsFiniteSet(Of(fresh, id)) /\ IsFiniteSet(prior)
      <4>1. Of(fresh, id) \in SUBSET fresh /\ prior \in SUBSET PriorRuns(id)
        BY DEF Of
      <4> QED BY <2>2, <4>1, FS_Subset DEF FreshOK
    <3> HIDE DEF prior
    <3>2. IsFiniteSet(Of(fresh, id) \cup prior)
      BY <3>1, FS_Union
    <3> QED BY <2>3, <3>2
  <2>6. \A d, e \in f.runs : e.slot[1] = id /\ (d.slot = e.slot => d = e)
    BY <2>2, <2>3 DEF Of, FreshOK
  <2>7. f.runs \subseteq Entry
    BY <2>2, <2>3 DEF Of, FreshOK
  <2> QED BY <2>1, <2>3, <2>4, <2>5, <2>6, <2>7 DEF FileOK
<1>2. CASE ~(Len(n) = 1 /\ n[1] \in Aggregated(man, fresh)) /\ \E e \in fresh : e.slot = n
  <2> DEFINE one == {e \in fresh : e.slot = n}
  <2>1. Files(man, fresh)[n] = [kind |-> "slot", folders |-> {}, runs |-> one]
    BY <1>2 DEF Files
  <2>2. PICK e \in fresh : one = {e}
    BY <1>2 DEF FreshOK
  <2>3. IsFiniteSet(one) /\ Cardinality(one) = 1 /\ one \subseteq Entry
    BY <2>2, FS_Singleton DEF FreshOK
  <2> QED BY <2>1, <2>3 DEF FileOK
<1>3. CASE ~(Len(n) = 1 /\ n[1] \in Aggregated(man, fresh)) /\ ~\E e \in fresh : e.slot = n
  BY <1>3 DEF Files, TypeInv
<1> QED BY <1>1, <1>2, <1>3

LEMMA CountType ==
  ASSUME NEW runs, IsFiniteSet(runs), NEW verdict PROVE Count(runs, verdict) \in Nat
<1>1. {e \in runs : e.verdict = verdict} \in SUBSET runs
  OBVIOUS
<1> QED BY <1>1, FS_Subset, FS_CardinalityType DEF Count

LEMMA RunKeepsTypes ==
  ASSUME TypeInv, NEW man \in Manifests, NEW rows \in SUBSET Row(man),
         NEW outcome \in [Row(man) -> Outcomes(man)],
         commit < MaxCommits, commit' = commit + 1, manifest' = man,
         rows = {} => man = manifest \/ Row(man) = {},
         Run(man, rows, outcome)
  PROVE  TypeInv'
<1> DEFINE fresh == {Attribute(man, r) : r \in Results(man, rows, outcome)}
<1>0. commit \in Nat /\ commit' \in 0..MaxCommits
  BY BoundAssumption DEF TypeInv
<1>1. FreshOK(fresh) /\ Results(man, rows, outcome) \subseteq Entry
  BY <1>0, ResultEntries
<1>2. /\ file' = Files(man, fresh) /\ graded' = graded \cup Results(man, rows, outcome)
      /\ index' = IF rows = {} THEN index
                  ELSE [id \in Id(man) |-> IndexRow(man, id, fresh, file'[<<id>>])]
  BY DEF Run
<1> HIDE DEF fresh
<1>3. \A n \in Name : FileOK(n, file'[n])
  BY <1>1, <1>2, FilesType
<1>4. IndexOK'
  <2>1. CASE rows = {}
    <3>1. index' = index /\ (Id(man) = {} \/ man = manifest)
      BY <1>2, <2>1 DEF Id
    <3> QED BY <3>1 DEF TypeInv, IndexOK
  <2>2. CASE rows # {}
    <3>1. ASSUME NEW id \in Id(man)
          PROVE  index'[id].passed \in Nat /\ index'[id].failed \in Nat
      <4>1. <<id>> \in Name
        BY DEF Name, Ids
      <4>2. IsFiniteSet(file'[<<id>>].runs)
        BY <1>3, <4>1 DEF FileOK
      <4>3. index'[id] = IndexRow(man, id, fresh, file'[<<id>>])
        BY <1>2, <2>2
      <4> QED BY <4>2, <4>3, CountType DEF IndexRow
    <3> QED BY <3>1 DEF IndexOK
  <2> QED BY <2>1, <2>2
<1> QED BY <1>0, <1>1, <1>2, <1>3, <1>4 DEF TypeInv

\* The rows a step grades: all of the manifest's after an edit and on the first
\* push, some of them otherwise.
LEMMA NextIsRun ==
  ASSUME Next, manifest \in Manifests
  PROVE  \E man \in Manifests : \E rows \in SUBSET Row(man) :
           \E outcome \in [Row(man) -> Outcomes(man)] :
             /\ manifest' = man /\ commit < MaxCommits /\ commit' = commit + 1
             /\ rows = {} => (man = manifest /\ commit # 0) \/ Row(man) = {}
             /\ man = manifest \/ <<manifest, man>> \in Edits
             /\ Run(man, rows, outcome)
<1>1. ASSUME NEW touched \in SUBSET Folders,
             NEW outcome \in [Row(manifest) -> Outcomes(manifest)], Push(touched, outcome)
      PROVE  \E rows \in SUBSET Row(manifest) :
               /\ manifest' = manifest /\ commit < MaxCommits /\ commit' = commit + 1
               /\ rows = {} => commit # 0 \/ Row(manifest) = {}
               /\ Run(manifest, rows, outcome)
  <2> DEFINE rows == Selected(manifest, touched, commit = 0)
  <2>1. rows \in SUBSET Row(manifest) /\ (rows = {} => commit # 0 \/ Row(manifest) = {})
    BY DEF Selected
  <2>2. /\ manifest' = manifest /\ commit < MaxCommits /\ commit' = commit + 1
        /\ Run(manifest, rows, outcome)
    BY <1>1 DEF Push
  <2> HIDE DEF rows
  <2> QED BY <2>1, <2>2
<1>2. ASSUME NEW man \in Manifests, NEW outcome \in [Row(man) -> Outcomes(man)],
             PushManifest(man, outcome)
      PROVE  /\ manifest' = man /\ commit < MaxCommits /\ commit' = commit + 1
             /\ <<manifest, man>> \in Edits
             /\ Run(man, Row(man), outcome)
  BY <1>2 DEF PushManifest
<1> QED BY <1>1, <1>2 DEF Next

LEMMA InitTypes == Init => TypeInv
  BY FS_EmptySet, BoundAssumption DEF Init, TypeInv, FileOK, IndexOK, NoFile

LEMMA NextTypes == TypeInv /\ Next => TypeInv'
  BY NextIsRun, RunKeepsTypes DEF TypeInv

\* Whatever the manifests and the edits to them, a slot's file holds the one
\* result of that slot, an aggregate at most one result per slot, all of its id,
\* and the index counts.
THEOREM TypeCorrect == Spec => []TypeOK
<1>1. TypeInv /\ UNCHANGED vars => TypeInv'
  BY DEF vars, TypeInv, IndexOK
<1>2. TypeInv => TypeOK
  BY DEF TypeInv, TypeOK, FileOK, IndexOK
<1> QED BY <1>1, <1>2, InitTypes, NextTypes, PTL DEF Spec

-----------------------------------------------------------------------------
(* The index. *)

\* Manifests with repeated ids are not edited, and in the others an id keeps its
\* folder: the JSON of an id that moves to another folder is still there when the
\* first grading of the new folder leaves none.
RepeatedStand ==
  \A m, n \in Manifests : <<m, n>> \in Edits => m = n \/ (UniqueIds(m) /\ UniqueIds(n))

IdsKeepFolders ==
  \A m, n \in Manifests : UniqueIds(m) /\ UniqueIds(n) =>
    \A i \in Row(m), j \in Row(n) : m[i].id = n[j].id => m[i].folder = n[j].folder

\* The slots of an id: those of its rows, or the plain one it would have.
Slots(man, id) ==
  IF Multi(man, id) THEN {SlotOf(man, i) : i \in RowsOf(man, id)} ELSE {<<id>>}

Latest(slots) ==
  {g \in graded : g.slot \in slots /\ \A h \in graded : h.slot = g.slot => h.commit <= g.commit}

\* Manifests whose rows the results so far may stand for.
Same(m) == m = manifest \/ (UniqueIds(m) /\ UniqueIds(manifest))

IndexInv ==
  /\ TypeInv
  /\ \A g \in graded : g.commit <= commit
  /\ \A m \in Manifests : Same(m) =>
       \A i \in Row(m), g \in graded : g.slot = SlotOf(m, i) => g.folder = m[i].folder
  /\ \A id \in Ids :
       /\ file[<<id>>].runs = Latest(Slots(manifest, id))
       /\ file[<<id>>].kind = "none" => file[<<id>>].runs = {}
       /\ file[<<id>>].kind = "aggregate" <=>
            Multi(manifest, id) /\ file[<<id>>].kind # "none"
       /\ file[<<id>>].kind = "aggregate" =>
            file[<<id>>].folders = {manifest[i].folder : i \in RowsOf(manifest, id)}
  /\ commit > 0 => \A id \in Id(manifest) :
       index[id] = [passed |-> Count(file[<<id>>].runs, "pass"),
                    failed |-> Count(file[<<id>>].runs, "fail"),
                    folders |-> {manifest[i].folder : i \in RowsOf(manifest, id)}]

LEMMA UniqueSlots ==
  ASSUME NEW man \in Manifests, UniqueIds(man)
  PROVE  /\ \A id : ~Multi(man, id) /\ Slots(man, id) = {<<id>>}
         /\ \A i \in Row(man) : SlotOf(man, i) = <<man[i].id>>
<1>1. ASSUME NEW id PROVE ~Multi(man, id)
  <2>1. CASE RowsOf(man, id) = {}
    BY <2>1, FS_EmptySet DEF Multi
  <2>2. ASSUME NEW i \in RowsOf(man, id) PROVE ~Multi(man, id)
    <3>1. RowsOf(man, id) = {i}
      BY <2>2 DEF RowsOf, UniqueIds
    <3>2. Cardinality(RowsOf(man, id)) = 1
      BY <3>1, FS_Singleton
    <3> QED BY <3>2 DEF Multi
  <2> QED BY <2>1, <2>2
<1> QED BY <1>1 DEF Slots, SlotOf

\* A row's slot is one of its id's and of no other's.
LEMMA SlotsOfId ==
  ASSUME NEW man \in Manifests, NEW i \in Row(man), NEW id
  PROVE  SlotOf(man, i) \in Slots(man, id) <=> man[i].id = id
<1>1. CASE Multi(man, id)
  <2>1. Slots(man, id) = {SlotOf(man, j) : j \in RowsOf(man, id)}
    BY <1>1 DEF Slots
  <2> QED BY <2>1, SlotsDiffer DEF RowsOf
<1>2. CASE ~Multi(man, id)
  <2>1. man[i].id = id => SlotOf(man, i) = <<id>>
    BY <1>2 DEF SlotOf
  <2>2. SlotOf(man, i) = <<id>> => man[i].id = id
    BY SlotId
  <2> QED BY <1>2, <2>1, <2>2 DEF Slots
<1> QED BY <1>1, <1>2

\* Whether an id is repeated or not, its file holds what was there, but for the
\* slots that this run graded.
LEMMA RunsMerge ==
  ASSUME IndexInv, NEW man \in Manifests, NEW id \in Ids, NEW fresh,
         \A e \in fresh : \E i \in Row(man) : e.slot = SlotOf(man, i),
         Slots(man, id) = Slots(manifest, id), Multi(man, id) = Multi(manifest, id)
  PROVE  LET f == Files(man, fresh)[<<id>>]
             Fresh == {e \in fresh : e.slot \in Slots(man, id)}
         IN /\ f.runs = Fresh \cup {p \in file[<<id>>].runs : \A e \in fresh : e.slot # p.slot}
            /\ Fresh = {} => f = file[<<id>>]
            /\ Fresh # {} =>
                 /\ f.kind = IF Multi(man, id) THEN "aggregate" ELSE "slot"
                 /\ Multi(man, id) => f.folders = {man[i].folder : i \in RowsOf(man, id)}
<1> DEFINE f == Files(man, fresh)[<<id>>]
           Fresh == {e \in fresh : e.slot \in Slots(man, id)}
           old == file[<<id>>].runs
<1>1. Of(fresh, id) = Fresh
  <2> SUFFICES ASSUME NEW e \in fresh PROVE e.slot[1] = id <=> e.slot \in Slots(man, id)
    BY DEF Of
  <2>1. PICK i \in Row(man) : e.slot = SlotOf(man, i)
    OBVIOUS
  <2> QED BY <2>1, SlotId, SlotsOfId
<1>2. \A p \in old : p.slot \in Slots(man, id)
  BY DEF IndexInv, Latest
<1>3. CASE Fresh = {}
  <2>1. id \notin Aggregated(man, fresh)
    BY <1>1, <1>3 DEF Aggregated
  <2>2. \A e \in fresh : e.slot # <<id>>
    <3> SUFFICES ASSUME NEW e \in fresh, e.slot = <<id>> PROVE FALSE
      OBVIOUS
    <3>1. e \in Of(fresh, id)
      BY DEF Of
    <3> QED BY <1>1, <1>3, <3>1
  <2>3. f = file[<<id>>]
    BY <2>1, <2>2, AggregateFile
  <2>4. {p \in old : \A e \in fresh : e.slot # p.slot} = old
    BY <1>2, <1>3
  <2> HIDE DEF f
  <2> QED BY <1>3, <2>3, <2>4 DEF f
<1>4. CASE Fresh # {} /\ Multi(man, id)
  <2>1. id \in Aggregated(man, fresh)
    <3>1. id \in Id(man)
      <4>1. PICK e \in fresh : e.slot \in Slots(man, id)
        BY <1>4
      <4>2. PICK i \in Row(man) : e.slot = SlotOf(man, i)
        OBVIOUS
      <4>3. man[i].id = id
        BY <4>1, <4>2, SlotsOfId
      <4> QED BY <4>3 DEF Id
    <3> QED BY <1>1, <1>4, <3>1 DEF Aggregated
  <2>2. f = Aggregate(man, id, fresh)
    BY <2>1, AggregateFile
  <2>3. PriorRuns(id) = old
    BY <1>4 DEF IndexInv, PriorRuns, TypeInv, FileOK
  <2>4. /\ f.kind = "aggregate" /\ f.folders = {man[i].folder : i \in RowsOf(man, id)}
        /\ f.runs = Fresh \cup {p \in old : \A e \in fresh : e.slot # p.slot}
    <3> HIDE DEF Fresh
    <3> QED BY <1>1, <2>2, <2>3 DEF Aggregate
  <2> HIDE DEF f, Fresh
  <2> QED BY <1>4, <2>4 DEF f, Fresh
<1>5. CASE Fresh # {} /\ ~Multi(man, id)
  <2>1. Slots(man, id) = {<<id>>} /\ id \notin Aggregated(man, fresh)
    BY <1>5 DEF Slots, Aggregated
  <2>2. f = [kind |-> "slot", folders |-> {}, runs |-> {e \in fresh : e.slot = <<id>>}]
    BY <1>5, <2>1 DEF Files, Name
  <2>3. {p \in old : \A e \in fresh : e.slot # p.slot} = {}
    BY <1>2, <1>5, <2>1
  <2>4. f.runs = Fresh /\ f.kind = "slot"
    BY <2>1, <2>2
  <2> HIDE DEF f, Fresh
  <2> QED BY <1>5, <2>3, <2>4 DEF f, Fresh
<1> QED BY <1>3, <1>4, <1>5

\* The newest results of some slots, when a run with a new commit adds its own.
LEMMA LatestMerge ==
  ASSUME NEW slots, NEW fresh, commit \in Nat,
         \A g \in graded : g.commit \in Nat /\ g.commit <= commit,
         \A e \in fresh : e.commit = commit + 1,
         graded' = graded \cup fresh
  PROVE  {g \in graded' : /\ g.slot \in slots
                          /\ \A h \in graded' : h.slot = g.slot => h.commit <= g.commit}
           = {e \in fresh : e.slot \in slots}
               \cup {p \in Latest(slots) : \A e \in fresh : e.slot # p.slot}
<1> DEFINE New(g) == \A h \in graded' : h.slot = g.slot => h.commit <= g.commit
           Old(g) == \A h \in graded : h.slot = g.slot => h.commit <= g.commit
<1>1. ASSUME NEW e \in fresh PROVE New(e)
  <2> SUFFICES ASSUME NEW h \in graded' PROVE h.commit <= e.commit
    OBVIOUS
  <2>1. e.commit = commit + 1
    OBVIOUS
  <2>2. CASE h \in fresh
    BY <2>1, <2>2
  <2>3. CASE h \in graded
    BY <2>1, <2>3
  <2> QED BY <2>2, <2>3
<1>2. ASSUME NEW g \in graded, g \notin fresh
      PROVE  New(g) <=> Old(g) /\ \A e \in fresh : e.slot # g.slot
  <2>1. ASSUME NEW e \in fresh, e.slot = g.slot, New(g) PROVE FALSE
    <3>1. e.commit <= g.commit /\ e.commit = commit + 1 /\ g.commit <= commit /\ g.commit \in Nat
      BY <2>1
    <3> QED BY <3>1
  <2> QED BY <2>1
<1>3. \A g \in fresh : g \notin graded
  <2> SUFFICES ASSUME NEW g \in fresh, g \in graded PROVE FALSE
    OBVIOUS
  <2>1. g.commit = commit + 1 /\ g.commit <= commit
    OBVIOUS
  <2> QED BY <2>1
<1>4. Latest(slots) = {g \in graded : g.slot \in slots /\ Old(g)}
  BY DEF Latest
<1> HIDE DEF New, Old
<1>5. {g \in graded' : g.slot \in slots /\ New(g)}
        = {e \in fresh : e.slot \in slots}
            \cup {p \in Latest(slots) : \A e \in fresh : e.slot # p.slot}
  BY <1>1, <1>2, <1>3, <1>4
<1> QED BY <1>5 DEF New

LEMMA RunKeepsIndex ==
  ASSUME RepeatedNeverFail, RepeatedStand, IdsKeepFolders, IndexInv, TypeInv',
         NEW man \in Manifests, man = manifest \/ (UniqueIds(man) /\ UniqueIds(manifest)),
         NEW rows \in SUBSET Row(man), NEW outcome \in [Row(man) -> Outcomes(man)],
         commit' = commit + 1, manifest' = man,
         rows = {} => (man = manifest /\ commit # 0) \/ Row(man) = {},
         Run(man, rows, outcome)
  PROVE  IndexInv'
<1> DEFINE fresh == {Attribute(man, r) : r \in Results(man, rows, outcome)}
<1>0. /\ commit \in Nat /\ manifest \in Manifests
      /\ \A g \in graded : g.commit \in Nat /\ g.commit <= commit
      /\ \A j \in Row(man) : j \in Nat
  BY RowsFinite DEF IndexInv, TypeInv, Entry
<1>1. fresh = Results(man, rows, outcome)
  BY <1>0, AttributeIsExact
<1>2. /\ file' = Files(man, fresh) /\ graded' = graded \cup fresh
      /\ index' = IF rows = {} THEN index
                  ELSE [id \in Id(man) |-> IndexRow(man, id, fresh, file'[<<id>>])]
  BY <1>1 DEF Run
<1>3. \A e \in fresh : /\ e.commit = commit + 1
                       /\ \E i \in rows : e.slot = SlotOf(man, i) /\ e.folder = man[i].folder
  BY <1>1 DEF Results
<1>4. rows = {} => fresh = {}
  BY <1>3
<1> HIDE DEF fresh
<1>5. \A g \in graded' : g.commit <= commit'
  <2>1. \A g \in graded' : g \in graded \/ g \in fresh
    BY <1>2
  <2>2. \A g \in graded : g.commit \in Nat /\ g.commit <= commit + 1
    BY <1>0
  <2> QED BY <1>0, <1>3, <2>1, <2>2
<1>6. ASSUME NEW m \in Manifests, m = man \/ (UniqueIds(m) /\ UniqueIds(man)),
             NEW i \in Row(m), NEW g \in graded', g.slot = SlotOf(m, i)
      PROVE  g.folder = m[i].folder
  <2>1. CASE g \in graded
    <3>1. Same(m)
      BY <1>6 DEF Same
    <3> QED BY <1>6, <2>1, <3>1 DEF IndexInv
  <2>2. CASE g \in fresh
    <3>1. PICK j \in Row(man) : g.slot = SlotOf(man, j) /\ g.folder = man[j].folder
      BY <1>3, <2>2
    <3>2. m[i].id = man[j].id
      <4>1. SlotOf(m, i)[1] = m[i].id
        BY <1>6, SlotId
      <4>2. SlotOf(man, j)[1] = man[j].id
        BY SlotId
      <4> QED BY <1>6, <3>1, <4>1, <4>2
    <3>3. CASE m = man
      BY <1>6, <3>1, <3>3, SlotsDiffer
    <3>4. CASE UniqueIds(m) /\ UniqueIds(man)
      BY <3>1, <3>2, <3>4 DEF IdsKeepFolders
    <3> QED BY <1>6, <3>3, <3>4
  <2> QED BY <1>2, <2>1, <2>2
<1>7. ASSUME NEW id \in Ids
      PROVE  Slots(man, id) = Slots(manifest, id) /\ Multi(man, id) = Multi(manifest, id)
  <2>1. CASE man = manifest
    BY <2>1
  <2>2. CASE UniqueIds(man) /\ UniqueIds(manifest)
    <3>1. ~Multi(man, id) /\ Slots(man, id) = {<<id>>}
      BY <2>2, UniqueSlots
    <3>2. ~Multi(manifest, id) /\ Slots(manifest, id) = {<<id>>}
      BY <1>0, <2>2, UniqueSlots
    <3>3. Multi(man, id) \in BOOLEAN /\ Multi(manifest, id) \in BOOLEAN
      BY DEF Multi
    <3> QED BY <3>1, <3>2, <3>3
  <2> QED BY <2>1, <2>2
<1>8. ASSUME NEW id \in Ids
      PROVE  /\ file'[<<id>>].runs = Latest(Slots(manifest, id))'
             /\ file'[<<id>>].kind = "none" => file'[<<id>>].runs = {}
             /\ file'[<<id>>].kind = "aggregate" <=>
                  Multi(man, id) /\ file'[<<id>>].kind # "none"
             /\ file'[<<id>>].kind = "aggregate" =>
                  file'[<<id>>].folders = {man[i].folder : i \in RowsOf(man, id)}
  <2> DEFINE f == file'[<<id>>]
             old == file[<<id>>].runs
             Fresh == {e \in fresh : e.slot \in Slots(man, id)}
  <2>1. \A e \in fresh : \E i \in Row(man) : e.slot = SlotOf(man, i)
    BY <1>3
  <2>2. /\ f.runs = Fresh \cup {p \in old : \A e \in fresh : e.slot # p.slot}
        /\ Fresh = {} => f = file[<<id>>]
        /\ Fresh # {} =>
                 /\ f.kind = IF Multi(man, id) THEN "aggregate" ELSE "slot"
                 /\ Multi(man, id) => f.folders = {man[i].folder : i \in RowsOf(man, id)}
    BY <1>2, <1>7, <2>1, RunsMerge
  <2>3. old = Latest(Slots(man, id))
    BY <1>7 DEF IndexInv
  <2>4. Latest(Slots(manifest, id))' =
          {g \in graded' : /\ g.slot \in Slots(man, id)
                           /\ \A h \in graded' : h.slot = g.slot => h.commit <= g.commit}
    BY DEF Latest, Slots, Multi, RowsOf, Row, SlotOf
  <2>5. f.runs = Latest(Slots(manifest, id))'
    BY <1>0, <1>2, <1>3, <2>2, <2>3, <2>4, LatestMerge
  <2>6. CASE Fresh = {}
    <3>1. f = file[<<id>>]
      BY <2>2, <2>6
    <3>2. f.kind = "aggregate" =>
            f.folders = {man[i].folder : i \in RowsOf(man, id)}
      <4> SUFFICES ASSUME f.kind = "aggregate"
                   PROVE  f.folders = {man[i].folder : i \in RowsOf(man, id)}
        OBVIOUS
      <4>1. Multi(man, id)
        BY <1>7, <3>1 DEF IndexInv
      <4>2. man = manifest
        BY <4>1, UniqueSlots
      <4> QED BY <3>1, <4>2 DEF IndexInv
    <3> QED BY <1>7, <2>5, <3>1, <3>2 DEF IndexInv
  <2>7. CASE Fresh # {}
    <3> HIDE DEF f, Fresh
    <3> QED BY <2>2, <2>5, <2>7 DEF f
  <2> QED BY <2>6, <2>7
<1>9. ASSUME NEW id \in Id(man)
      PROVE  index'[id] = [passed |-> Count(file'[<<id>>].runs, "pass"),
                           failed |-> Count(file'[<<id>>].runs, "fail"),
                           folders |-> {man[i].folder : i \in RowsOf(man, id)}]
  <2> DEFINE f == file'[<<id>>]
             folders == {man[i].folder : i \in RowsOf(man, id)}
  <2>0. id \in Ids
    BY DEF Ids
  <2>1. CASE rows = {}
    <3>1. man = manifest /\ commit > 0 /\ index' = index
      <4>1. Row(man) # {}
        BY DEF Id
      <4> QED BY <1>0, <1>2, <2>1, <4>1
    <3>2. file'[<<id>>] = file[<<id>>]
      <4>1. id \notin Aggregated(man, fresh) /\ \A e \in fresh : e.slot # <<id>>
        BY <1>4, <2>1 DEF Aggregated, Of
      <4> QED BY <1>2, <2>0, <4>1, AggregateFile
    <3> QED BY <3>1, <3>2 DEF IndexInv
  <2>2. CASE rows # {}
    <3>1. index'[id] = IndexRow(man, id, fresh, f)
      BY <1>2, <2>2
    <3>2. f.kind = "aggregate" => f.folders = folders
      BY <1>8, <2>0
    <3>3. ASSUME f.kind # "aggregate", Of(fresh, id) # {}
          PROVE  {e.folder : e \in Of(fresh, id)} = folders
      <4>1. ~Multi(man, id)
        <5>1. f.kind # "none"
          <6>1. PICK e \in fresh : e.slot[1] = id
            BY <3>3 DEF Of
          <6>2. PICK i \in Row(man) : e.slot = SlotOf(man, i)
            BY <1>3
          <6>3. e.slot \in Slots(man, id)
            BY <6>1, <6>2, SlotId, SlotsOfId
          <6>4. f.kind = IF Multi(man, id) THEN "aggregate" ELSE "slot"
            BY <1>2, <1>3, <1>7, <2>0, <6>3, RunsMerge
          <6> QED BY <6>4
        <5> QED BY <1>8, <2>0, <3>3, <5>1
      <4>2. \A i, j \in RowsOf(man, id) : i = j
        <5> SUFFICES ASSUME NEW i \in RowsOf(man, id), NEW j \in RowsOf(man, id)
                     PROVE  i = j
          OBVIOUS
        <5>1. i \in Row(man) /\ j \in Row(man) /\ man[i].id = id /\ man[j].id = id
          BY DEF RowsOf
        <5>2. SlotOf(man, i) = <<id>> /\ SlotOf(man, j) = <<id>>
          BY <4>1, <5>1 DEF SlotOf
        <5> QED BY <5>1, <5>2, SlotsDiffer
      <4>3. \A e \in Of(fresh, id) : \E i \in RowsOf(man, id) : e.folder = man[i].folder
        <5> SUFFICES ASSUME NEW e \in Of(fresh, id)
                     PROVE  \E i \in RowsOf(man, id) : e.folder = man[i].folder
          OBVIOUS
        <5>1. e \in fresh /\ e.slot[1] = id
          BY DEF Of
        <5>2. PICK i \in Row(man) : e.slot = SlotOf(man, i) /\ e.folder = man[i].folder
          BY <1>3, <5>1
        <5>3. man[i].id = id
          BY <5>1, <5>2, SlotId
        <5> QED BY <5>2, <5>3 DEF RowsOf
      <4> QED BY <3>3, <4>2, <4>3
    <3> HIDE DEF f, folders
    <3> QED BY <3>1, <3>2, <3>3 DEF IndexRow, f, folders
  <2> QED BY <2>1, <2>2
<1>10. \A m \in Manifests : Same(m)' =>
         \A i \in Row(m), g \in graded' : g.slot = SlotOf(m, i) => g.folder = m[i].folder
  <2>1. \A m \in Manifests : Same(m)' => m = man \/ (UniqueIds(m) /\ UniqueIds(man))
    BY DEF Same, UniqueIds, Row
  <2> QED BY <1>6, <2>1
<1> QED BY <1>5, <1>8, <1>9, <1>10 DEF IndexInv

\* An id's newest results, by slot and folder, are those its file keeps.
LEMMA NewestIsLatest ==
  ASSUME IndexInv, NEW id \in Id(manifest)
  PROVE  Newest(id) = Latest(Slots(manifest, id))
<1>1. /\ manifest \in Manifests /\ Same(manifest)
      /\ \A i \in Row(manifest), g \in graded :
           g.slot = SlotOf(manifest, i) => g.folder = manifest[i].folder
  BY DEF IndexInv, TypeInv, Same
<1>2. \A s : s \in Slots(manifest, id) <=>
               \E i \in RowsOf(manifest, id) : s = SlotOf(manifest, i)
  <2>1. CASE Multi(manifest, id)
    BY <2>1 DEF Slots
  <2>2. CASE ~Multi(manifest, id)
    <3>1. \A i \in RowsOf(manifest, id) : SlotOf(manifest, i) = <<id>>
      BY <2>2 DEF SlotOf, RowsOf
    <3>2. PICK i \in Row(manifest) : manifest[i].id = id
      BY DEF Id
    <3>3. i \in RowsOf(manifest, id)
      BY <3>2 DEF RowsOf
    <3> QED BY <2>2, <3>1, <3>3 DEF Slots
  <2> QED BY <2>1, <2>2
<1>3. ASSUME NEW g \in graded, NEW i \in RowsOf(manifest, id), g.slot = SlotOf(manifest, i)
      PROVE  /\ g.folder = manifest[i].folder
             /\ \A h \in graded : h.slot = g.slot => h.folder = g.folder
  BY <1>1, <1>3 DEF RowsOf
<1> QED BY <1>2, <1>3 DEF Newest, Latest

\* Once something was graded the index counts, for every row of the manifest as
\* it now is, the newest result of that row, whatever the edits to the manifest,
\* the partial regrades and the gradings that left no result; if manifests with
\* repeated ids stand, no check fails in them, and ids keep their folders.
THEOREM IndexFollowsManifest ==
  ASSUME RepeatedNeverFail, RepeatedStand, IdsKeepFolders
  PROVE  Spec => []IndexShowsManifest
<1>1. Init => IndexInv
  <2> SUFFICES ASSUME Init PROVE IndexInv
    OBVIOUS
  <2>1. TypeInv
    BY InitTypes
  <2>2. \A id \in Ids : file[<<id>>].kind = "none" /\ file[<<id>>].runs = {}
    BY DEF Init, Name, NoFile
  <2>3. \A slots : Latest(slots) = {}
    BY DEF Init, Latest
  <2>4. graded = {} /\ ~(commit > 0)
    BY DEF Init
  <2> QED BY <2>1, <2>2, <2>3, <2>4, Zenon DEF IndexInv
<1>2. IndexInv /\ [Next]_vars => IndexInv'
  <2> SUFFICES ASSUME IndexInv, [Next]_vars PROVE IndexInv'
    OBVIOUS
  <2>1. CASE Next
    <3>1. TypeInv' /\ manifest \in Manifests
      BY <2>1, NextTypes DEF IndexInv, TypeInv
    <3>2. PICK man \in Manifests : \E rows \in SUBSET Row(man) :
           \E outcome \in [Row(man) -> Outcomes(man)] :
             /\ manifest' = man /\ commit < MaxCommits /\ commit' = commit + 1
             /\ rows = {} => (man = manifest /\ commit # 0) \/ Row(man) = {}
             /\ man = manifest \/ <<manifest, man>> \in Edits
             /\ Run(man, rows, outcome)
      BY <2>1, <3>1, NextIsRun
    <3>3. man = manifest \/ (UniqueIds(man) /\ UniqueIds(manifest))
      BY <3>1, <3>2 DEF RepeatedStand
    <3> QED BY <3>1, <3>2, <3>3, RunKeepsIndex
  <2>2. CASE UNCHANGED vars
    BY <2>2 DEF vars, IndexInv, TypeInv, IndexOK, Same, Latest
  <2> QED BY <2>1, <2>2
<1>3. IndexInv => IndexShowsManifest
  <2> SUFFICES ASSUME IndexInv, commit > 0, NEW id \in Id(manifest)
               PROVE  /\ index[id].passed = Count(Newest(id), "pass")
                      /\ index[id].failed = Count(Newest(id), "fail")
                      /\ index[id].folders = {manifest[i].folder : i \in RowsOf(manifest, id)}
    BY DEF IndexShowsManifest
  <2>1. id \in Ids
    BY DEF IndexInv, TypeInv, Ids
  <2>2. Newest(id) = file[<<id>>].runs
    BY <2>1, NewestIsLatest DEF IndexInv
  <2>3. index[id] = [passed |-> Count(file[<<id>>].runs, "pass"),
                     failed |-> Count(file[<<id>>].runs, "fail"),
                     folders |-> {manifest[i].folder : i \in RowsOf(manifest, id)}]
    BY Zenon DEF IndexInv
  <2> DEFINE passed == Count(file[<<id>>].runs, "pass")
             failed == Count(file[<<id>>].runs, "fail")
             folders == {manifest[i].folder : i \in RowsOf(manifest, id)}
  <2>4. /\ passed = Count(Newest(id), "pass") /\ failed = Count(Newest(id), "fail")
        /\ index[id] = [passed |-> passed, failed |-> failed, folders |-> folders]
    BY <2>2, <2>3
  <2>5. folders = {manifest[i].folder : i \in RowsOf(manifest, id)}
    OBVIOUS
  <2> HIDE DEF passed, failed, folders
  <2> QED BY <2>4, <2>5
<1> QED BY <1>1, <1>2, <1>3, PTL DEF Spec
=============================================================================
