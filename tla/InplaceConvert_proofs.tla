------------------------ MODULE InplaceConvert_proofs ------------------------
(***************************************************************************)
(* The content that an owner delivered survives the two conversions in     *)
(* place, whichever of their steps fails and whenever the daemon dies, and *)
(* what a job leaves beside the archive is in order, for any members of an *)
(* archive and any number of versions.  The argument follows the order of  *)
(* the steps: the source is whole until the step that takes it away, and   *)
(* from then on the backup (of a zip) or the new output (of a 7z) is.      *)
(***************************************************************************)
EXTENDS InplaceConvert, TLAPS

Final == IF zip THEN 10 ELSE 9

\* What a job has made by the step it is at.
JobInv ==
    /\ at \in 0..Final
    /\ at > 3 => work \in Works
    /\ at \in (IF zip THEN 5..9 ELSE 6..8) => partial \in Archives /\ partial.form = "made"
    /\ at = Final => partial = Nothing
    /\ ~zip => dest = Nothing /\ backup = Nothing /\ owed["dest"] = 0

\* No version is newer than the last one delivered.
BoundInv ==
    /\ meta <= last
    /\ source # Nothing => source.v <= last
    /\ work # Nothing => work.v <= last
    /\ partial \in Archives => partial.v <= last

Full(x, v) == x.v = v /\ Whole(x.has, Droppable(x.failed))

\* Where the content of the source is; the source is taken away by step 7.
SourceKept(v) ==
    /\ source # Nothing \/ at \in 1..7 \/ (~zip /\ at = 9) => Holds(source, v)
    /\ source = Nothing => Holds(IF zip THEN backup ELSE partial, v)
    /\ zip /\ at > 7 => Holds(backup, v)
    /\ ~zip => /\ at > 3 => Full(work, v)
               /\ at \in 6..8 => Holds(partial, v)

KeptInv ==
    /\ owed["dest"] # 0 => at = 0 /\ Holds(dest, owed["dest"])
    /\ owed["source"] # 0 => SourceKept(owed["source"])

\* An original beside the work of a job that is about to write its sidecar was
\* delivered since.
Result == IF zip THEN dest ELSE source
SidecarInv ==
    at = Final /\ Result # Nothing /\ Result.form = "original" => Result.v > work.v

\* Leftovers are those of a job that was cut short; step 2 of a zip cleans.
LeftInv ==
    at = 0 \/ (zip /\ at \in 1..2) =>
      /\ partial # Nothing => cut # "no"
      /\ work # Nothing /\ at # 2 => cut = "crash"

PlaceIInv ==
    TypeOK /\ JobInv /\ BoundInv /\ KeptInv /\ SidecarInv /\ SidecarMeansConverted /\ LeftInv

-----------------------------------------------------------------------------
(* The order of the steps.                                                 *)

LEMMA LenSteps == Len(Steps) = Final /\ Len(Steps)' = Final'
BY DEF Steps, Final

LEMMA StepNumbers ==
    ASSUME TypeOK
    PROVE  /\ at \in 0..Final
           /\ zip => /\ At("space") <=> at = 1
                     /\ At("clean") <=> at = 2
                     /\ At("extract") <=> at = 3
                     /\ ~At("expand")
                     /\ At("create") <=> at = 4
                     /\ At("check") <=> at = 5
                     /\ At("unback") <=> at = 6
                     /\ At("backup") <=> at = 7
                     /\ At("unplace") <=> at = 8
                     /\ At("place") <=> at = 9
                     /\ At("sidecar") <=> at = 10
                     /\ ~At("remove")
           /\ ~zip => /\ At("clean") <=> at = 1
                      /\ At("space") <=> at = 2
                      /\ At("extract") <=> at = 3
                      /\ At("expand") <=> at = 4
                      /\ At("create") <=> at = 5
                      /\ At("check") <=> at = 6
                      /\ At("remove") <=> at = 7
                      /\ At("place") <=> at = 8
                      /\ At("sidecar") <=> at = 9
                      /\ ~At("unback") /\ ~At("backup") /\ ~At("unplace")
<1>1. CASE zip = TRUE
  <2>1. Steps = <<"space", "clean", "extract", "create", "check", "unback",
                  "backup", "unplace", "place", "sidecar">>
    BY <1>1 DEF Steps
  <2>2. at \in 0..10 /\ Final = 10
    BY <1>1, LenSteps DEF TypeOK, Final
  <2> QED
    BY <1>1, <2>1, <2>2 DEF At
<1>2. CASE zip = FALSE
  <2>1. Steps = <<"clean", "space", "extract", "expand", "create", "check", "remove",
                  "place", "sidecar">>
    BY <1>2 DEF Steps
  <2>2. at \in 0..9 /\ Final = 9
    BY <1>2, LenSteps DEF TypeOK, Final
  <2> QED
    BY <1>2, <2>1, <2>2 DEF At
<1> QED
  BY <1>1, <1>2 DEF TypeOK

LEMMA Typed ==
    ASSUME TypeOK
    PROVE  /\ zip \in BOOLEAN /\ at \in 0..Final /\ Final \in {9, 10} /\ last \in Nat
           /\ budget \in 0..Budget /\ meta \in Nat /\ Versions \subseteq Nat
           /\ \A x : x \in Archives => /\ x.v \in Versions /\ x.has \subseteq Members
                                       /\ x.failed \subseteq Members /\ x # Nothing
           /\ \A x : x \in Works => /\ x.v \in Versions /\ x.has \subseteq Members
                                    /\ x.failed \subseteq Members /\ x # Nothing
BY StepNumbers, BoundsAssumption, NothingAssumption
   DEF TypeOK, Final, Versions, Archives, Works

\* What is there has a version.
LEMMA Found ==
    ASSUME TypeOK
    PROVE  /\ source # Nothing => source \in Archives /\ source.v \in Nat
           /\ dest # Nothing => dest \in Archives /\ dest.v \in Nat
           /\ work # Nothing => work \in Works /\ work.v \in Nat
           /\ partial \in Archives => partial.v \in Nat
BY Typed DEF TypeOK

\* The next step of a job, in the sequence and by its number.
LEMMA Advance ==
    ASSUME TypeOK, Done, at # 0, zip' = zip
    PROVE  /\ at' = (IF at = Final THEN 0 ELSE at + 1)
           /\ at' \in 0..Final /\ at' \in 0..Len(Steps)' /\ Final' = Final
<1>1. Final' = Final
  BY DEF Final
<1> QED
  BY <1>1, LenSteps, Typed DEF Done

-----------------------------------------------------------------------------
(* The owner of the files.                                                 *)

LEMMA OriginalIsWhole ==
    ASSUME NEW v \in Versions
    PROVE  /\ Original(v) \in Archives /\ Original(v).v = v
           /\ Original(v).form = "original"
           /\ \A gone : Whole(Original(v).has, gone)
<1>1. /\ Original(v) \in Archives /\ Original(v).v = v
      /\ Original(v).form = "original"
      /\ Original(v).has = Top /\ Original(v).failed = {}
  BY MembersAssumption DEF Original, Archives
<1>2. \A gone : Whole(Top, gone)
  BY MembersAssumption DEF Whole
<1> QED
  BY <1>1, <1>2

LEMMA DeliverKeeps ==
    ASSUME PlaceIInv, NEW path \in Paths, Deliver(path)
    PROVE  PlaceIInv'
<1> USE DEF PlaceIInv
<1> DEFINE o == Original(last')
<1>1. /\ last' = last + 1 /\ last' \in Versions /\ last' \in 0..MaxVersion
      /\ zip' = zip /\ at' = at /\ Final' = Final
      /\ UNCHANGED <<partial, backup, work, meta, cut, budget>>
  BY BoundsAssumption, Typed DEF Deliver, TypeOK, Versions, ours, Final
<1>2. /\ path = "source" => source' = o /\ dest' = dest
      /\ path = "dest" => source' = source /\ dest' = o /\ zip
  BY DEF Deliver, Paths
<1>3. /\ owed' \in [Paths -> Versions \cup {0}]
      /\ owed'[path] = IF at = 0 THEN last' ELSE 0
      /\ \A other \in Paths : other # path => owed'[other] = owed[other]
  BY <1>1 DEF Deliver, TypeOK
<1>4. path \in {"source", "dest"} /\ "source" \in Paths /\ "dest" \in Paths
  BY DEF Paths
<1>5. /\ o \in Archives /\ o.v = last' /\ o.form = "original"
      /\ (\A gone : Whole(o.has, gone)) /\ o # Nothing
  BY <1>1, OriginalIsWhole, Typed
<1> HIDE DEF o
<1>6. TypeOK'
  BY <1>1, <1>2, <1>3, <1>4, <1>5, LenSteps DEF TypeOK
<1>7. JobInv' /\ BoundInv'
  <2>1. JobInv'
    BY <1>1, <1>2, <1>3, <1>4 DEF JobInv
  <2>2. BoundInv'
    BY <1>1, <1>2, <1>4, <1>5, Found, Typed DEF BoundInv
  <2> QED
    BY <2>1, <2>2
<1>8. KeptInv'
  <2>1. CASE path = "source"
    BY <1>1, <1>2, <1>3, <1>4, <1>5, <2>1, Typed
       DEF KeptInv, SourceKept, Holds, TypeOK
  <2>2. CASE path = "dest"
    BY <1>1, <1>2, <1>3, <1>4, <1>5, <2>2, Typed
       DEF KeptInv, SourceKept, Holds, Full, TypeOK
  <2> QED
    BY <1>4, <2>1, <2>2
<1>9. SidecarInv' /\ SidecarMeansConverted' /\ LeftInv'
  <2>1. at = Final => work # Nothing /\ work.v \in Nat /\ work.v <= last
    BY Typed, Found DEF JobInv, BoundInv
  <2>2. SidecarInv'
    BY <1>1, <1>2, <1>4, <1>5, <2>1, Typed DEF SidecarInv, Result
  <2>3. SidecarMeansConverted'
    BY <1>1, <1>2, <1>4, <1>5, Typed DEF SidecarMeansConverted, BoundInv
  <2>4. LeftInv'
    BY <1>1 DEF LeftInv
  <2> QED
    BY <2>2, <2>3, <2>4
<1> QED
  BY <1>6, <1>7, <1>8, <1>9

LEMMA TakeKeeps ==
    ASSUME PlaceIInv, NEW path \in Paths, Take(path)
    PROVE  PlaceIInv'
<1> USE DEF PlaceIInv
<1>1. /\ budget' \in 0..Budget /\ zip' = zip /\ at' = at /\ Final' = Final
      /\ UNCHANGED <<partial, backup, work, meta, cut, last>>
  BY BoundsAssumption DEF Take, Spend, TypeOK, ours, Final
<1>2. /\ path = "source" => source' = Nothing /\ dest' = dest
      /\ path = "dest" => source' = source /\ dest' = Nothing
  BY DEF Take, Paths
<1>3. /\ owed' \in [Paths -> Versions \cup {0}] /\ owed'[path] = 0
      /\ \A other \in Paths : other # path => owed'[other] = owed[other]
  BY DEF Take, TypeOK
<1>4. path \in {"source", "dest"} /\ "source" \in Paths /\ "dest" \in Paths
  BY DEF Paths
<1>5. TypeOK'
  BY <1>1, <1>2, <1>3, <1>4, LenSteps DEF TypeOK
<1>6. JobInv' /\ BoundInv'
  BY <1>1, <1>2, <1>3, <1>4 DEF JobInv, BoundInv
<1>7. KeptInv'
  BY <1>1, <1>2, <1>3, <1>4 DEF KeptInv, SourceKept, Holds, Full
<1>8. SidecarInv' /\ SidecarMeansConverted' /\ LeftInv'
  BY <1>1, <1>2, <1>4 DEF SidecarInv, SidecarMeansConverted, LeftInv, Result
<1> QED
  BY <1>5, <1>6, <1>7, <1>8

-----------------------------------------------------------------------------
(* The job.                                                                *)

LEMMA BeginKeeps ==
    ASSUME PlaceIInv, Begin
    PROVE  PlaceIInv'
<1> USE DEF PlaceIInv
<1>1. /\ at = 0 /\ at' = 1 /\ source # Nothing /\ (zip => dest = Nothing)
      /\ UNCHANGED <<zip, source, dest, partial, backup, work, meta, owed, cut,
                     last, budget>>
      /\ Final' = Final /\ Final \in {9, 10}
  BY Typed DEF Begin, NeedsConvert, ours, history, Final
<1>2. TypeOK'
  BY <1>1, LenSteps DEF TypeOK
<1>3. JobInv' /\ BoundInv'
  BY <1>1 DEF JobInv, BoundInv
<1>4. KeptInv'
  BY <1>1, Typed DEF KeptInv, SourceKept, Holds, JobInv
<1>5. SidecarInv' /\ SidecarMeansConverted' /\ LeftInv'
  BY <1>1 DEF SidecarInv, SidecarMeansConverted, LeftInv, Result
<1> QED
  BY <1>2, <1>3, <1>4, <1>5

\* Steps that look at the disk and change nothing.
LEMMA LookKeeps ==
    ASSUME PlaceIInv, EnoughSpace \/ ExpandEnds \/ Check
    PROVE  PlaceIInv'
<1> USE DEF PlaceIInv
<1>1. UNCHANGED <<zip, source, dest, partial, backup, work, meta, owed, cut,
                  last, budget>>
  BY DEF EnoughSpace, ExpandEnds, Check, ours, history
<1>2. /\ at \in (IF zip THEN {1, 5} ELSE {2, 4, 6}) /\ at' = at + 1 /\ Final' = Final
      /\ at' \in 0..Len(Steps)' /\ at' \in 0..Final /\ Final = (IF zip THEN 10 ELSE 9)
      /\ zip \in BOOLEAN
  BY <1>1, StepNumbers, Advance, Typed DEF EnoughSpace, ExpandEnds, Check, Final
<1>3. TypeOK'
  BY <1>1, <1>2 DEF TypeOK
<1>4. JobInv' /\ BoundInv'
  BY <1>1, <1>2 DEF JobInv, BoundInv
<1>5. KeptInv'
  BY <1>1, <1>2 DEF KeptInv, SourceKept, Holds, Full
<1>6. SidecarInv' /\ SidecarMeansConverted' /\ LeftInv'
  BY <1>1, <1>2 DEF SidecarInv, SidecarMeansConverted, LeftInv, Result
<1> QED
  BY <1>3, <1>4, <1>5, <1>6

LEMMA CleanKeeps ==
    ASSUME PlaceIInv, Clean
    PROVE  PlaceIInv'
<1> USE DEF PlaceIInv
<1>1. /\ UNCHANGED <<zip, source, dest, backup, meta, owed, last, budget>>
      /\ partial' = Nothing /\ work' = Nothing /\ cut' = "no"
  BY DEF Clean
<1>2. /\ at = (IF zip THEN 2 ELSE 1) /\ at' = at + 1 /\ Final' = Final
      /\ at' \in 0..Len(Steps)' /\ at' \in 0..Final /\ Final = (IF zip THEN 10 ELSE 9)
      /\ zip \in BOOLEAN
  BY <1>1, StepNumbers, Advance, Typed DEF Clean, Final
<1>3. TypeOK'
  BY <1>1, <1>2 DEF TypeOK
<1>4. JobInv' /\ BoundInv'
  BY <1>1, <1>2, NothingAssumption DEF JobInv, BoundInv
<1>5. KeptInv'
  BY <1>1, <1>2 DEF KeptInv, SourceKept, Holds, Full
<1>6. SidecarInv' /\ SidecarMeansConverted' /\ LeftInv'
  BY <1>1, <1>2 DEF SidecarInv, SidecarMeansConverted, LeftInv, Result
<1> QED
  BY <1>3, <1>4, <1>5, <1>6

\* What the flatten leaves out is excluded.
LEMMA ExcludedMayGo ==
    ASSUME NEW has, NEW failed, Whole(has, Droppable(failed))
    PROVE  Whole(has \ Excluded, Droppable(failed))
BY DEF Whole, Droppable

LEMMA ExtractKeeps ==
    ASSUME PlaceIInv, Extract
    PROVE  PlaceIInv'
<1> USE DEF PlaceIInv
<1> DEFINE taken == IF zip THEN source.has ELSE source.has \ Excluded
           names == IF zip THEN {} ELSE {Name[n] : n \in taken \cap Nested}
           w == [v |-> source.v, has |-> taken, failed |-> source.failed,
                 todo |-> names]
<1>1. /\ UNCHANGED <<zip, source, dest, partial, backup, meta, owed, cut, last,
                     budget>>
      /\ source # Nothing /\ work' = w
  BY DEF Extract, history
<1>2. /\ at = 3 /\ at' = 4 /\ Final' = Final
      /\ at' \in 0..Len(Steps)' /\ Final = (IF zip THEN 10 ELSE 9)
      /\ zip \in BOOLEAN
  BY <1>1, StepNumbers, Advance, Typed DEF Extract, Final
<1>3. taken \subseteq Members /\ names \subseteq {Name[n] : n \in Nested}
  BY <1>1, Found, Typed, MembersAssumption
<1>4. ~zip => (Whole(source.has, Droppable(source.failed))
                  => Whole(taken, Droppable(source.failed)))
  BY <1>2, ExcludedMayGo
<1> HIDE DEF taken, names
<1>5. /\ w \in Works /\ w.v = source.v /\ w.has = taken /\ w.failed = source.failed
      /\ w # Nothing
  BY <1>1, <1>3, Found, Typed DEF Works
<1> HIDE DEF w
<1>6. TypeOK'
  BY <1>1, <1>2, <1>5 DEF TypeOK
<1>7. JobInv' /\ BoundInv'
  BY <1>1, <1>2, <1>5 DEF JobInv, BoundInv
<1>8. KeptInv'
  BY <1>1, <1>2, <1>4, <1>5 DEF KeptInv, SourceKept, Holds, Full
<1>9. SidecarInv' /\ SidecarMeansConverted' /\ LeftInv'
  BY <1>1, <1>2 DEF SidecarInv, SidecarMeansConverted, LeftInv, Result
<1> QED
  BY <1>6, <1>7, <1>8, <1>9

\* A nested archive that is given up may be dropped; so may a directory that goes
\* with one.
LEMMA FailedMayGo ==
    ASSUME NEW has, NEW failed, NEW gone, Whole(has, Droppable(failed))
    PROVE  Whole(has \ gone, Droppable(failed \cup gone))
BY DEF Whole, Droppable

\* What unpacking takes away has its name from something else, or is replaced by
\* its members.
LEMMA UnpackedIsWhole ==
    ASSUME NEW has \in SUBSET Members, NEW failed, NEW n \in Nested,
           Whole(has, Droppable(failed)),
           NEW new, new = Inside[n] \ Excluded,
           NEW old, old = {m \in has : \A k \in new : Name[k] # Name[m]},
           NEW left, left = {m \in old \cup new : Name[m] # Name[n]}
    PROVE  Whole(left, Droppable(failed))
<1> SUFFICES ASSUME NEW m \in Members \ Nested
             PROVE  Within[m] \cap (left \cup Droppable(failed)) # {}
  BY DEF Whole
<1>1. PICK w \in Within[m] : w \in has \cup Droppable(failed)
  BY DEF Whole
<1>2. n \in Members /\ Inside[n] \subseteq Members /\ n \notin Inside[n]
      /\ Within[m] \subseteq Members
  BY MembersAssumption
<1>3. CASE w \in Droppable(failed)
  BY <1>1, <1>3
<1>4. CASE w \in has /\ w = n
  <2>1. PICK k \in Inside[n] : k \in Within[m]
    BY <1>1, <1>4, MembersAssumption
  <2>2. CASE k \in Excluded
    BY <2>1, <2>2 DEF Droppable
  <2>3. CASE k \in new /\ Name[k] # Name[n]
    BY <2>1, <2>3
  <2>4. CASE Name[k] = Name[n]
    <3>1. k \in Clashing
      BY <1>2, <2>4 DEF Clashing
    <3> QED
      BY <2>1, <3>1 DEF Droppable
  <2> QED
    BY <2>1, <2>2, <2>3, <2>4
<1>5. CASE w \in has /\ w # n
  <2>1. CASE w \in left
    BY <1>1, <2>1
  <2>2. CASE w \notin left
    <3>1. \E k \in Members \ {w} : Name[k] = Name[w]
      <4>1. CASE w \in old
        BY <1>2, <1>5, <2>2, <4>1
      <4>2. CASE w \notin old
        <5>1. PICK k \in new : Name[k] = Name[w]
          BY <1>5, <4>2
        <5>2. CASE k = w
          BY <1>2, <1>5, <2>2, <5>2
        <5> QED
          BY <1>2, <5>1, <5>2
      <4> QED
        BY <4>1, <4>2
    <3>2. w \in Clashing
      BY <1>5, <3>1 DEF Clashing
    <3> QED
      BY <1>1, <3>2 DEF Droppable
  <2> QED
    BY <2>1, <2>2
<1> QED
  BY <1>1, <1>3, <1>4, <1>5

\* What becomes of a nested archive leaves a whole.
LEMMA ExpandIsWhole ==
    ASSUME work \in Works, NEW n \in work.has, n \in Nested,
           NEW left \in {GivenUp(n), BackedOut(n), Unpacked(n)}
    PROVE  /\ left[1] \in SUBSET Members /\ left[2] \in SUBSET Members
           /\ Whole(work.has, Droppable(work.failed)) => Whole(left[1], Droppable(left[2]))
<1>1. /\ work.has \in SUBSET Members /\ work.failed \in SUBSET Members
      /\ Under[n] \in SUBSET Members /\ Inside[n] \in SUBSET Members
  BY MembersAssumption DEF Works
<1>2. CASE left = GivenUp(n)
  <2>1. left[1] = work.has \ {n} /\ left[2] = work.failed \cup {n}
    BY <1>2 DEF GivenUp
  <2>2. Whole(work.has, Droppable(work.failed))
          => Whole(work.has \ {n}, Droppable(work.failed \cup {n}))
    BY FailedMayGo
  <2>3. n \in Members
    BY <1>1
  <2> QED
    BY <1>1, <2>1, <2>2, <2>3
<1>3. CASE left = BackedOut(n)
  <2> DEFINE gone == {n} \cup Under[n]
  <2>1. left[1] = work.has \ gone /\ left[2] = work.failed \cup gone
    BY <1>3 DEF BackedOut
  <2>2. gone \in SUBSET Members
    BY <1>1
  <2> HIDE DEF gone
  <2>3. Whole(work.has, Droppable(work.failed))
          => Whole(work.has \ gone, Droppable(work.failed \cup gone))
    BY FailedMayGo
  <2> QED
    BY <1>1, <2>1, <2>2, <2>3
<1>4. CASE left = Unpacked(n)
  <2> DEFINE new == Inside[n] \ Excluded
             old == {m \in work.has : \A k \in new : Name[k] # Name[m]}
             there == {m \in old \cup new : Name[m] # Name[n]}
  <2>1. left[1] = there /\ left[2] = work.failed
    BY <1>4 DEF Unpacked
  <2>2. there \in SUBSET Members
    BY <1>1
  <2>3. Whole(work.has, Droppable(work.failed)) => Whole(there, Droppable(work.failed))
    BY <1>1, UnpackedIsWhole
  <2> QED
    BY <1>1, <2>1, <2>2, <2>3
<1> QED
  BY <1>2, <1>3, <1>4

\* What is lost in expanding may be dropped.
LEMMA ExpandKeeps ==
    ASSUME PlaceIInv, NEW name \in Names, Expand(name)
    PROVE  PlaceIInv'
<1> USE DEF PlaceIInv
<1>1. UNCHANGED <<zip, source, dest, partial, backup, meta, at, owed, cut, last, budget>>
  BY DEF Expand, history
<1>2. at = 4 /\ Final = 9 /\ Final' = Final /\ zip = FALSE
  <2>1. zip = FALSE /\ at = 4
    BY StepNumbers, Typed DEF Expand
  <2> QED
    BY <1>1, <2>1 DEF Final
<1>3. work \in Works /\ work # Nothing
  BY <1>2, Typed DEF JobInv
<1>4. /\ work' \in Works /\ work'.v = work.v
      /\ Whole(work.has, Droppable(work.failed)) => Whole(work'.has, Droppable(work'.failed))
  <2> DEFINE rest == work.todo \ {name}
  <2>1. rest \in SUBSET {Name[n] : n \in Nested}
    BY <1>3 DEF Works
  <2> HIDE DEF rest
  <2>2. CASE work' = [work EXCEPT !.todo = rest]
    BY <1>3, <2>1, <2>2 DEF Works
  <2>3. ASSUME NEW n \in work.has, Name[n] = name,
               NEW left \in {GivenUp(n), BackedOut(n), Unpacked(n)},
               work' = [work EXCEPT !.todo = rest, !.has = left[1],
                                    !.failed = left[2]]
        PROVE  /\ work' \in Works /\ work'.v = work.v
               /\ Whole(work.has, Droppable(work.failed))
                    => Whole(work'.has, Droppable(work'.failed))
    <3>1. n \in Nested
      <4>1. PICK k \in Nested : Name[k] = name
        BY <1>3 DEF Works, Expand
      <4> QED
        BY <1>3, <2>3, <4>1, MembersAssumption DEF Works
    <3> QED
      BY <1>3, <2>1, <2>3, <3>1, ExpandIsWhole DEF Works
  <2> QED
    BY <2>2, <2>3 DEF Expand, rest
<1>5. work' # Nothing
  BY <1>4, Typed
<1>6. TypeOK'
  BY <1>1, <1>2, <1>4, LenSteps DEF TypeOK
<1>7. JobInv' /\ BoundInv'
  BY <1>1, <1>2, <1>3, <1>4 DEF JobInv, BoundInv
<1>8. KeptInv'
  BY <1>1, <1>2, <1>4 DEF KeptInv, SourceKept, Holds, Full
<1>9. SidecarInv' /\ SidecarMeansConverted' /\ LeftInv'
  BY <1>1, <1>2 DEF SidecarInv, SidecarMeansConverted, LeftInv, Result
<1> QED
  BY <1>6, <1>7, <1>8, <1>9

LEMMA CreateKeeps ==
    ASSUME PlaceIInv, Create
    PROVE  PlaceIInv'
<1> USE DEF PlaceIInv
<1> DEFINE x == [v |-> work.v, form |-> "made", has |-> work.has, failed |-> work.failed]
<1>1. /\ UNCHANGED <<zip, source, dest, backup, work, meta, owed, cut, last,
                     budget>>
      /\ partial' = x
  BY DEF Create, history
<1>2. /\ at = (IF zip THEN 4 ELSE 5) /\ at' = at + 1 /\ Final' = Final
      /\ at' \in 0..Len(Steps)' /\ at' \in 0..Final /\ Final = (IF zip THEN 10 ELSE 9)
      /\ zip \in BOOLEAN
  BY <1>1, StepNumbers, Advance, Typed DEF Create, Final
<1>3. /\ x \in Archives /\ x.v = work.v /\ x.form = "made"
      /\ x.has = work.has /\ x.failed = work.failed
  BY <1>2, Typed DEF JobInv, Archives, Works
<1>4. work # Nothing
  BY <1>2, Typed DEF JobInv
<1> HIDE DEF x
<1>5. TypeOK'
  BY <1>1, <1>2, <1>3 DEF TypeOK
<1>6. JobInv' /\ BoundInv'
  BY <1>1, <1>2, <1>3, <1>4 DEF JobInv, BoundInv
<1>7. KeptInv'
  BY <1>1, <1>2, <1>3 DEF KeptInv, SourceKept, Holds, Full
<1>8. SidecarInv' /\ SidecarMeansConverted' /\ LeftInv'
  BY <1>1, <1>2 DEF SidecarInv, SidecarMeansConverted, LeftInv, Result
<1> QED
  BY <1>5, <1>6, <1>7, <1>8

\* The old backup goes while the source is still there.
LEMMA RemoveBackupKeeps ==
    ASSUME PlaceIInv, RemoveBackup
    PROVE  PlaceIInv'
<1> USE DEF PlaceIInv
<1>1. /\ UNCHANGED <<zip, source, dest, partial, work, meta, owed, cut, last,
                     budget>>
      /\ backup' = Nothing
  BY DEF RemoveBackup, history
<1>2. /\ at = 6 /\ at' = 7 /\ Final' = Final /\ zip = TRUE
      /\ at' \in 0..Len(Steps)' /\ Final = 10
  <2>1. zip = TRUE /\ at = 6
    BY StepNumbers, Typed DEF RemoveBackup
  <2> QED
    BY <1>1, <2>1, Advance DEF RemoveBackup, Final
<1>3. TypeOK'
  BY <1>1, <1>2 DEF TypeOK
<1>4. JobInv' /\ BoundInv'
  BY <1>1, <1>2 DEF JobInv, BoundInv
<1>5. KeptInv'
  BY <1>1, <1>2, Typed DEF KeptInv, SourceKept, Holds, Full
<1>6. SidecarInv' /\ SidecarMeansConverted' /\ LeftInv'
  BY <1>1, <1>2 DEF SidecarInv, SidecarMeansConverted, LeftInv, Result
<1> QED
  BY <1>3, <1>4, <1>5, <1>6

LEMMA BackupSourceKeeps ==
    ASSUME PlaceIInv, BackupSource
    PROVE  PlaceIInv'
<1> USE DEF PlaceIInv
<1>1. /\ UNCHANGED <<zip, dest, partial, work, meta, owed, cut, last, budget>>
      /\ source # Nothing /\ backup' = source /\ source' = Nothing
  BY DEF BackupSource, history
<1>2. /\ at = 7 /\ at' = 8 /\ Final' = Final /\ zip = TRUE
      /\ at' \in 0..Len(Steps)' /\ Final = 10
  <2>1. zip = TRUE /\ at = 7
    BY StepNumbers, Typed DEF BackupSource
  <2> QED
    BY <1>1, <2>1, Advance DEF BackupSource, Final
<1>3. TypeOK'
  BY <1>1, <1>2 DEF TypeOK
<1>4. JobInv' /\ BoundInv'
  BY <1>1, <1>2 DEF JobInv, BoundInv
<1>5. KeptInv'
  BY <1>1, <1>2, Typed DEF KeptInv, SourceKept, Holds, Full
<1>6. SidecarInv' /\ SidecarMeansConverted' /\ LeftInv'
  BY <1>1, <1>2 DEF SidecarInv, SidecarMeansConverted, LeftInv, Result
<1> QED
  BY <1>3, <1>4, <1>5, <1>6

LEMMA RemoveSourceKeeps ==
    ASSUME PlaceIInv, RemoveSource
    PROVE  PlaceIInv'
<1> USE DEF PlaceIInv
<1>1. /\ UNCHANGED <<zip, dest, partial, backup, work, meta, owed, cut, last,
                     budget>>
      /\ source # Nothing /\ source' = Nothing
  BY DEF RemoveSource, ours, history
<1>2. /\ at = 7 /\ at' = 8 /\ Final' = Final /\ zip = FALSE
      /\ at' \in 0..Len(Steps)' /\ Final = 9
  <2>1. zip = FALSE /\ at = 7
    BY StepNumbers, Typed DEF RemoveSource
  <2> QED
    BY <1>1, <2>1, Advance DEF RemoveSource, Final
<1>3. TypeOK'
  BY <1>1, <1>2 DEF TypeOK
<1>4. JobInv' /\ BoundInv'
  BY <1>1, <1>2 DEF JobInv, BoundInv
<1>5. KeptInv'
  BY <1>1, <1>2, Typed DEF KeptInv, SourceKept, Holds, Full
<1>6. SidecarInv' /\ SidecarMeansConverted' /\ LeftInv'
  BY <1>1, <1>2 DEF SidecarInv, SidecarMeansConverted, LeftInv, Result
<1> QED
  BY <1>3, <1>4, <1>5, <1>6

\* What is at the place of the output while a job runs is nobody's to keep.
LEMMA RemoveDestKeeps ==
    ASSUME PlaceIInv, RemoveDest
    PROVE  PlaceIInv'
<1> USE DEF PlaceIInv
<1>1. /\ UNCHANGED <<zip, source, partial, backup, work, meta, owed, cut, last,
                     budget>>
      /\ dest' = Nothing
  BY DEF RemoveDest, ours, history
<1>2. /\ at = 8 /\ at' = 9 /\ Final' = Final /\ zip = TRUE
      /\ at' \in 0..Len(Steps)' /\ Final = 10
  <2>1. zip = TRUE /\ at = 8
    BY StepNumbers, Typed DEF RemoveDest
  <2> QED
    BY <1>1, <2>1, Advance DEF RemoveDest, Final
<1>3. TypeOK'
  BY <1>1, <1>2 DEF TypeOK
<1>4. JobInv' /\ BoundInv'
  BY <1>1, <1>2 DEF JobInv, BoundInv
<1>5. KeptInv'
  BY <1>1, <1>2, Typed DEF KeptInv, SourceKept, Holds, Full
<1>6. SidecarInv' /\ SidecarMeansConverted' /\ LeftInv'
  BY <1>1, <1>2 DEF SidecarInv, SidecarMeansConverted, LeftInv, Result
<1> QED
  BY <1>3, <1>4, <1>5, <1>6

LEMMA PlaceKeeps ==
    ASSUME PlaceIInv, Place
    PROVE  PlaceIInv'
<1> USE DEF PlaceIInv
<1>1. /\ UNCHANGED <<zip, backup, work, meta, owed, cut, last, budget>>
      /\ source' = (IF zip THEN source ELSE partial)
      /\ dest' = (IF zip THEN partial ELSE dest) /\ partial' = Nothing
  BY DEF Place, history
<1>2. /\ at = (IF zip THEN 9 ELSE 8) /\ at' = Final /\ Final' = Final
      /\ at' \in 0..Len(Steps)' /\ Final = (IF zip THEN 10 ELSE 9)
      /\ zip \in BOOLEAN
  BY <1>1, StepNumbers, Advance, Typed DEF Place, Final
<1>3. partial \in Archives /\ partial.form = "made" /\ partial # Nothing
  BY <1>2, Typed DEF JobInv
<1>4. TypeOK'
  BY <1>1, <1>2, <1>3 DEF TypeOK
<1>5. JobInv' /\ BoundInv'
  BY <1>1, <1>2, <1>3, NothingAssumption DEF JobInv, BoundInv
<1>6. KeptInv'
  BY <1>1, <1>2, <1>3, Typed DEF KeptInv, SourceKept, Holds, Full
<1>7. SidecarInv' /\ SidecarMeansConverted' /\ LeftInv'
  BY <1>1, <1>2, <1>3 DEF SidecarInv, SidecarMeansConverted, LeftInv, Result
<1> QED
  BY <1>4, <1>5, <1>6, <1>7

LEMMA WriteSidecarKeeps ==
    ASSUME PlaceIInv, WriteSidecar
    PROVE  PlaceIInv'
<1> USE DEF PlaceIInv
<1>1. /\ UNCHANGED <<zip, source, dest, partial, backup, owed, cut, last, budget>>
      /\ meta' = work.v /\ work' = Nothing
  BY DEF WriteSidecar, history
<1>2. /\ at = Final /\ at' = 0 /\ Final' = Final
      /\ at' \in 0..Len(Steps)' /\ Final = (IF zip THEN 10 ELSE 9)
      /\ zip \in BOOLEAN
  BY <1>1, StepNumbers, Advance, Typed DEF WriteSidecar, Final
<1>3. work \in Works /\ work.v \in Versions /\ work.v <= last /\ partial = Nothing
  BY <1>2, Typed DEF JobInv, BoundInv
<1>4. TypeOK'
  BY <1>1, <1>2, <1>3 DEF TypeOK
<1>5. JobInv' /\ BoundInv'
  BY <1>1, <1>2, <1>3 DEF JobInv, BoundInv
<1>6. KeptInv'
  BY <1>1, <1>2, Typed DEF KeptInv, SourceKept, Holds, Full
<1>7. SidecarInv' /\ SidecarMeansConverted' /\ LeftInv'
  BY <1>1, <1>2, <1>3 DEF SidecarInv, SidecarMeansConverted, LeftInv, Result
<1> QED
  BY <1>4, <1>5, <1>6, <1>7

-----------------------------------------------------------------------------
(* What goes wrong.                                                        *)

LEMMA StepFailsKeeps ==
    ASSUME PlaceIInv, StepFails
    PROVE  PlaceIInv'
<1> USE DEF PlaceIInv
<1>1. /\ UNCHANGED <<zip, source, dest, backup, meta, owed, last>>
      /\ at' = 0 /\ budget' \in 0..Budget /\ Final' = Final /\ zip \in BOOLEAN
      /\ at # 0
  BY BoundsAssumption, Typed DEF StepFails, Spend, Final, At
<1>2. /\ at = (IF zip THEN 9 ELSE 8) => partial' = partial /\ work' = Nothing /\ cut' = "place"
      /\ zip /\ at = 1 => partial' = partial /\ work' = work /\ cut' = cut
      /\ zip /\ at = 2 => partial' = partial /\ work' = Nothing /\ cut' = cut
      /\ at \notin (IF zip THEN {1, 2, 9} ELSE {8}) =>
           partial' = Nothing /\ work' = Nothing /\ cut' = cut
  BY <1>1, StepNumbers DEF StepFails, Leaves
<1>3. /\ partial' \in {partial, Nothing} /\ work' \in {work, Nothing}
      /\ cut' \in {cut, "place"}
  BY DEF StepFails, Leaves
<1>4. TypeOK'
  BY <1>1, <1>3, LenSteps, Typed DEF TypeOK
<1>5. JobInv' /\ BoundInv'
  BY <1>1, <1>3, NothingAssumption, Typed DEF JobInv, BoundInv
<1>6. KeptInv'
  BY <1>1, <1>2, Typed DEF KeptInv, SourceKept, Holds, Final
<1>7. SidecarInv' /\ SidecarMeansConverted'
  BY <1>1, Typed DEF SidecarInv, SidecarMeansConverted, Result
<1>8. LeftInv'
  BY <1>1, <1>2, Typed DEF LeftInv
<1> QED
  BY <1>4, <1>5, <1>6, <1>7, <1>8

LEMMA CrashKeeps ==
    ASSUME PlaceIInv, Crash
    PROVE  PlaceIInv'
<1> USE DEF PlaceIInv
<1>1. /\ UNCHANGED <<zip, source, dest, backup, work, meta, owed, last>>
      /\ at # 0 /\ at' = 0 /\ cut' = "crash"
      /\ budget' \in 0..Budget /\ Final' = Final /\ zip \in BOOLEAN
  BY BoundsAssumption, Typed DEF Crash, Spend, Final
<1>2. /\ partial' \in {partial, Broken}
      /\ at # (IF zip THEN 4 ELSE 5) => partial' = partial
  BY <1>1, StepNumbers DEF Crash
<1>3. TypeOK'
  BY <1>1, <1>2, LenSteps, Typed DEF TypeOK
<1>4. JobInv' /\ BoundInv'
  BY <1>1, <1>2, NothingAssumption, Typed DEF JobInv, BoundInv
<1>5. KeptInv'
  BY <1>1, <1>2, Typed DEF KeptInv, SourceKept, Holds, Final
<1>6. SidecarInv' /\ SidecarMeansConverted' /\ LeftInv'
  BY <1>1, Typed DEF SidecarInv, SidecarMeansConverted, Result, LeftInv
<1> QED
  BY <1>3, <1>4, <1>5, <1>6

-----------------------------------------------------------------------------
(* The whole of it.                                                        *)

LEMMA PlaceInit == Init => PlaceIInv
<1> SUFFICES ASSUME Init
             PROVE  PlaceIInv
  OBVIOUS
<1>1. /\ zip \in BOOLEAN /\ source = Nothing /\ dest = Nothing /\ partial = Nothing
      /\ backup = Nothing /\ work = Nothing /\ meta = 0 /\ at = 0 /\ cut = "no"
      /\ last = 0 /\ budget = Budget /\ owed = [path \in Paths |-> 0]
  BY DEF Init
<1>2. owed["source"] = 0 /\ owed["dest"] = 0
  BY <1>1 DEF Paths
<1>3. TypeOK
  BY <1>1, LenSteps, BoundsAssumption DEF TypeOK, Final
<1>4. JobInv /\ BoundInv
  BY <1>1, <1>2, NothingAssumption DEF JobInv, BoundInv, Final
<1>5. KeptInv /\ SidecarInv /\ SidecarMeansConverted /\ LeftInv
  BY <1>1, <1>2 DEF KeptInv, SidecarInv, SidecarMeansConverted, LeftInv, Result, Final
<1> QED
  BY <1>3, <1>4, <1>5 DEF PlaceIInv

LEMMA PlaceNext ==
    ASSUME PlaceIInv, [Next]_vars
    PROVE  PlaceIInv'
<1>1. CASE UNCHANGED vars
  <2>1. /\ UNCHANGED <<zip, source, dest, partial, backup, work, meta, at, owed,
                       cut, last, budget>>
        /\ Final' = Final /\ Result' = Result
    BY <1>1 DEF vars, ours, history, Final, Result
  <2>2. TypeOK'
    BY <2>1, LenSteps DEF TypeOK, PlaceIInv
  <2>3. JobInv' /\ BoundInv' /\ SidecarInv' /\ SidecarMeansConverted' /\ LeftInv'
    BY <2>1 DEF JobInv, BoundInv, SidecarInv, SidecarMeansConverted, LeftInv, PlaceIInv
  <2>4. KeptInv'
    BY <2>1 DEF KeptInv, SourceKept, Holds, Full, PlaceIInv
  <2> QED
    BY <2>2, <2>3, <2>4 DEF PlaceIInv
<1>2. CASE Next
  BY <1>2, DeliverKeeps, TakeKeeps, BeginKeeps, LookKeeps, CleanKeeps, ExtractKeeps,
     ExpandKeeps, CreateKeeps, RemoveBackupKeeps, BackupSourceKeeps, RemoveSourceKeeps,
     RemoveDestKeeps, PlaceKeeps, WriteSidecarKeeps, StepFailsKeeps, CrashKeeps DEF Next
<1> QED
  BY <1>1, <1>2

LEMMA PlaceIInvHolds == Spec => []PlaceIInv
BY PlaceInit, PlaceNext, PTL DEF Spec

\* Whatever step of RepackZipTo7zInplace or flatten7zInplace fails and whenever
\* the daemon dies, every file that the owner delivered is in one archive with
\* all others, but for what is excluded, what shares its name with something
\* else, and nested archives that could not be expanded, with their directories.
THEOREM ContentKeptHolds == Spec => []ContentKept
<1>1. PlaceIInv => ContentKept
  <2> SUFFICES ASSUME PlaceIInv, NEW path \in Paths, owed[path] # 0
               PROVE  \E f \in {source, dest, partial, backup} : Holds(f, owed[path])
    BY DEF ContentKept
  <2>1. CASE path = "dest"
    BY <2>1 DEF PlaceIInv, KeptInv
  <2>2. CASE path = "source"
    BY <2>2 DEF PlaceIInv, KeptInv, SourceKept
  <2> QED
    BY <2>1, <2>2 DEF Paths
<1> QED
  BY <1>1, PlaceIInvHolds, PTL

\* A sidecar tells of a file that was converted, and a job that ended by itself
\* leaves neither its work nor its output beside the archive.
THEOREM BesideInvHolds == Spec => []BesideInv
<1>1. PlaceIInv => BesideInv
  BY DEF PlaceIInv, LeftInv, BesideInv, NothingLeftBehind
<1> QED
  BY <1>1, PlaceIInvHolds, PTL

=============================================================================
