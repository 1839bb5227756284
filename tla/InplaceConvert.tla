--------------------------- MODULE InplaceConvert ---------------------------
(***************************************************************************)
(* The two conversions that write beside their source: a zip with archives *)
(* in it is repacked as a 7z and kept as a backup (RunZipRepack), a 7z is  *)
(* rebuilt flat in its own place (RunFlattenConvert).  One archive, its    *)
(* owner, 7z runs that fail, and crashes of the daemon.                    *)
(*                                                                         *)
(* A member is a file or an archive at a path, with its content.  Names    *)
(* are their paths once they are extracted; members of different archives  *)
(* may have one name, those of one archive do not.                         *)
(*                                                                         *)
(*   zip      whether the archive is a zip                                 *)
(*   source   foo.zip or foo.7z;  dest  foo.7z beside a zip                *)
(*   partial  the output being written;  backup  foo.zip.pre-repack.bak    *)
(*   work     what is extracted;  meta  the version the sidecar tells of   *)
(*   at       the next step of the job, 0 for none                         *)
(*   owed     the version that its owner put at source and dest, 0 if none *)
(*   cut      how the last job ended before its time (history)             *)
(*   last     the last version delivered (history);  budget  disturbances  *)
(***************************************************************************)
EXTENDS Integers, Sequences, FiniteSets

CONSTANTS
    Members,   \* what a delivered archive holds, in the archives inside it too
    Nested,    \* those named *.7z
    Top,       \* members of the delivered archive itself
    Inside,    \* the members of a nested one itself
    Within,    \* a member and the nested ones it is in
    Names, Name,
    Under,     \* members in the directory that a nested one is expanded to
    Excluded,  \* members that a pattern of convert_7z_flatten_exclude matches
    Nothing, Broken,
    MaxVersion, Budget  \* bounds

ASSUME MembersAssumption ==
    /\ Nested \subseteq Members /\ Top \subseteq Members
    /\ Excluded \subseteq Members
    /\ Inside \in [Nested -> SUBSET Members]
    /\ Within \in [Members -> SUBSET Members]
    /\ Name \in [Members -> Names]
    /\ Under \in [Nested -> SUBSET Members]
    /\ \A m \in Members : m \in Within[m] /\ Within[m] \cap Top # {}
    /\ \A n \in Nested : n \notin Inside[n]
    /\ \A n \in Nested : \A m \in Members \ {n} :
         n \in Within[m] => Inside[n] \cap Within[m] # {}
    /\ \A m, k \in Members : Name[m] = Name[k] /\ m \in Nested => k \in Nested
ASSUME BoundsAssumption == MaxVersion \in Nat /\ Budget \in Nat

VARIABLES zip, source, dest, partial, backup, work, meta, at, owed, cut, last,
          budget

ours == <<partial, backup, work, meta>>
history == <<owed, cut, last>>
vars == <<zip, source, dest, ours, at, history, budget>>

Versions == 1..MaxVersion

\* failed: nested archives given up while it was made, and the directories that
\* went with them (history).
Archives == [v : Versions, form : {"original", "made"}, has : SUBSET Members,
             failed : SUBSET Members]
Original(v) == [v |-> v, form |-> "original", has |-> Top, failed |-> {}]

\* todo: names of nested archives that the walk has found.
Works == [v : Versions, has : SUBSET Members, failed : SUBSET Members,
          todo : SUBSET {Name[n] : n \in Nested}]
Paths == {"source", "dest"}

\* No file, and half a one.
ASSUME NothingAssumption ==
    Nothing \notin Archives \cup Works /\ Broken \notin Archives

Init ==
    /\ zip \in BOOLEAN
    /\ source = Nothing /\ dest = Nothing /\ partial = Nothing
    /\ backup = Nothing /\ work = Nothing /\ meta = 0
    /\ at = 0
    /\ owed = [path \in Paths |-> 0]
    /\ cut = "no" /\ last = 0 /\ budget = Budget

Spend == budget > 0 /\ budget' = budget - 1

-----------------------------------------------------------------------------
(* The owner of the files. *)

\* What is delivered while a job runs is not counted: the job looks at the
\* file's content once and removes the file by its name.
Deliver(path) ==
    /\ path = "source" \/ zip
    /\ last < MaxVersion /\ last' = last + 1
    /\ source' = IF path = "source" THEN Original(last') ELSE source
    /\ dest' = IF path = "dest" THEN Original(last') ELSE dest
    /\ owed' = [owed EXCEPT ![path] = IF at = 0 THEN last' ELSE 0]
    /\ UNCHANGED <<zip, ours, at, cut, budget>>

Take(path) ==
    /\ Spend
    /\ \/ path = "source" /\ source # Nothing
          /\ source' = Nothing /\ UNCHANGED dest
       \/ path = "dest" /\ dest # Nothing
          /\ dest' = Nothing /\ UNCHANGED source
    /\ owed' = [owed EXCEPT ![path] = 0]
    /\ UNCHANGED <<zip, ours, at, cut, last>>

-----------------------------------------------------------------------------
(* The job. *)

\* Mutants: the source goes before its replacement is looked at; the sidecar
\* is written before the file it is about is in place.
RemovesFirst ==
    IF zip THEN <<"space", "clean", "extract", "create", "check", "unback",
                  "backup", "unplace", "place", "sidecar">>
    ELSE <<"clean", "space", "extract", "expand", "create", "remove", "check",
           "place", "sidecar">>

SidecarFirst ==
    IF zip THEN <<"space", "clean", "extract", "create", "check", "unback",
                  "backup", "unplace", "sidecar", "place">>
    ELSE <<"clean", "space", "extract", "expand", "create", "check", "sidecar",
           "remove", "place">>

\* The order of RepackZipTo7zInplace and flatten7zInplace.
Steps ==
    IF zip THEN <<"space", "clean", "extract", "create", "check", "unback",
                  "backup", "unplace", "place", "sidecar">>
    ELSE <<"clean", "space", "extract", "expand", "create", "check", "remove",
           "place", "sidecar">>

At(step) == at # 0 /\ Steps[at] = step

Done == at' = IF at = Len(Steps) THEN 0 ELSE at + 1

\* ShouldRepackZip, ShouldFlattenConvert: the sidecar of foo.7z counts
\* whatever foo.7z is now, and a rebuilt 7z is flat.
NeedsConvert ==
    /\ source # Nothing
    /\ meta = 0
    /\ IF zip THEN dest = Nothing ELSE source.form = "original"

Begin ==
    /\ at = 0 /\ NeedsConvert
    /\ at' = 1
    /\ UNCHANGED <<zip, source, dest, ours, history, budget>>

EnoughSpace ==
    /\ At("space") /\ Done
    /\ UNCHANGED <<zip, source, dest, ours, history, budget>>

\* What an earlier job left goes.
Clean ==
    /\ At("clean") /\ Done
    /\ partial' = Nothing /\ work' = Nothing
    /\ cut' = "no"
    /\ UNCHANGED <<zip, source, dest, backup, meta, owed, last, budget>>

\* The 7z of a flatten leaves out what is excluded and ends in success.
Extract ==
    /\ At("extract") /\ Done
    /\ source # Nothing
    /\ LET taken == IF zip THEN source.has ELSE source.has \ Excluded
       IN work' = [v |-> source.v, has |-> taken, failed |-> source.failed,
                   todo |-> IF zip THEN {} ELSE {Name[n] : n \in taken \cap Nested}]
    /\ UNCHANGED <<zip, source, dest, partial, backup, meta, history, budget>>

\* What comes of a nested archive n: has and failed.  One that does not test,
\* or whose directory would be outside, is removed.
GivenUp(n) == <<work.has \ {n}, work.failed \cup {n}>>

\* One that fails to expand goes with the whole directory.
BackedOut(n) ==
    LET gone == {n} \cup Under[n]
    IN  <<work.has \ gone, work.failed \cup gone>>

\* Else it is replaced by what is in it and not excluded, which overwrites what
\* has its name (7z x -y).
Unpacked(n) ==
    LET new == Inside[n] \ Excluded
        old == {m \in work.has : \A k \in new : Name[k] # Name[m]}
    IN  <<{m \in old \cup new : Name[m] # Name[n]}, work.failed>>

\* expandNestedSevenZ, one of the names at a time, in any order (the code takes
\* the longest first).  What is there by then is expanded, also when
\* another nested archive put it there.
Expand(name) ==
    /\ At("expand") /\ name \in work.todo
    /\ LET found == {n \in work.has : Name[n] = name}
       IN \/ /\ found = {}
             /\ work' = [work EXCEPT !.todo = @ \ {name}]
          \/ \E n \in found : \E left \in {GivenUp(n), BackedOut(n), Unpacked(n)} :
               work' = [work EXCEPT !.todo = @ \ {name}, !.has = left[1],
                                    !.failed = left[2]]
    /\ UNCHANGED <<zip, source, dest, partial, backup, meta, at, history, budget>>

ExpandEnds ==
    /\ At("expand") /\ Done
    /\ work.todo = {}
    /\ UNCHANGED <<zip, source, dest, ours, history, budget>>

Create ==
    /\ At("create") /\ Done
    /\ partial' = [v |-> work.v, form |-> "made", has |-> work.has,
                   failed |-> work.failed]
    /\ UNCHANGED <<zip, source, dest, backup, work, meta, history, budget>>

Check ==
    /\ At("check") /\ Done
    /\ UNCHANGED <<zip, source, dest, ours, history, budget>>

RemoveBackup ==
    /\ At("unback") /\ Done
    /\ backup' = Nothing
    /\ UNCHANGED <<zip, source, dest, partial, work, meta, history, budget>>

BackupSource ==
    /\ At("backup") /\ Done
    /\ source # Nothing
    /\ backup' = source /\ source' = Nothing
    /\ UNCHANGED <<zip, dest, partial, work, meta, history, budget>>

RemoveSource ==
    /\ At("remove") /\ Done
    /\ source # Nothing
    /\ source' = Nothing
    /\ UNCHANGED <<zip, dest, ours, history, budget>>

RemoveDest ==
    /\ At("unplace") /\ Done
    /\ dest' = Nothing
    /\ UNCHANGED <<zip, source, ours, history, budget>>

\* The rename of the partial output; the work directory goes with it.
Place ==
    /\ At("place") /\ Done
    /\ source' = IF zip THEN source ELSE partial
    /\ dest' = IF zip THEN partial ELSE dest
    /\ partial' = Nothing
    /\ UNCHANGED <<zip, backup, work, meta, history, budget>>

WriteSidecar ==
    /\ At("sidecar") /\ Done
    /\ meta' = work.v
    /\ work' = Nothing
    /\ UNCHANGED <<zip, source, dest, partial, backup, history, budget>>

\* What a failed job leaves of its output: the last rename keeps it, and a zip
\* job that could not start has not touched what another left.
Leaves ==
    IF At("place") \/ (zip /\ (At("space") \/ At("clean"))) THEN partial ELSE Nothing

\* The step under way fails: no space, 7z, a missing source, the size floor,
\* a rename, the sidecar.
StepFails ==
    /\ \/ at # 0 /\ Steps[at] \notin {"unback", "unplace"} /\ Spend
       \/ /\ At("extract") \/ At("backup") \/ At("remove")
          /\ source = Nothing
          /\ UNCHANGED budget
    /\ at' = 0
    /\ partial' = Leaves
    /\ work' = IF zip /\ At("space") THEN work ELSE Nothing
    /\ cut' = IF At("place") THEN "place" ELSE cut
    /\ UNCHANGED <<zip, source, dest, backup, meta, owed, last>>

\* A 7z that was writing leaves half an output.
Crash ==
    /\ at # 0 /\ Spend
    /\ at' = 0
    /\ partial' = IF At("create") THEN Broken ELSE partial
    /\ cut' = "crash"
    /\ UNCHANGED <<zip, source, dest, backup, work, meta, owed, last>>

Next ==
    \/ \E path \in Paths : Deliver(path) \/ Take(path)
    \/ Begin \/ EnoughSpace \/ Clean \/ Extract
    \/ \E name \in Names : Expand(name)
    \/ ExpandEnds
    \/ Create \/ Check \/ RemoveBackup \/ BackupSource \/ RemoveSource
    \/ RemoveDest \/ Place \/ WriteSidecar
    \/ StepFails \/ Crash

Spec == Init /\ [][Next]_vars

-----------------------------------------------------------------------------
TypeOK ==
    /\ zip \in BOOLEAN
    /\ source \in Archives \cup {Nothing}
    /\ dest \in Archives \cup {Nothing}
    /\ partial \in Archives \cup {Nothing, Broken}
    /\ backup \in Archives \cup {Nothing}
    /\ work \in Works \cup {Nothing}
    /\ meta \in Versions \cup {0}
    /\ at \in 0..Len(Steps)
    /\ owed \in [Paths -> Versions \cup {0}]
    /\ cut \in {"no", "crash", "place"}
    /\ last \in 0..MaxVersion /\ budget \in 0..Budget

Clashing == {m \in Members : \E k \in Members \ {m} : Name[k] = Name[m]}

\* What the flatten of a 7z may drop: what is excluded, what shares its name with
\* something else, nested archives that do not test, and those that fail to
\* expand with their directories.
Droppable(failed) == Excluded \cup Clashing \cup failed

\* Each file is there, or a nested archive that it is in; or one of them is gone.
Whole(has, gone) ==
    \A m \in Members \ Nested : Within[m] \cap (has \cup gone) # {}

\* The repack of a zip drops nothing.
Holds(f, v) ==
    /\ f \in Archives /\ f.v = v
    /\ Whole(f.has, IF zip THEN {} ELSE Droppable(f.failed))

\* Whatever fails and whenever the daemon dies, each file that the owner
\* delivered in an archive is in one archive that is there, together with all
\* others, but for those that a flatten drops by what it is configured and finds
\* (the orders of RepackZipTo7zInplace, flatten7zInplace and
\* expandNestedSevenZ, ShouldRepackZip's look at the 7z beside the zip).
ContentKept ==
    \A path \in Paths :
        LET v == owed[path]
        IN  v # 0 => \E f \in {source, dest, partial, backup} : Holds(f, v)

\* A sidecar says of an unconverted file that it is converted only if that
\* file was delivered later: what a crash interrupts is converted again
\* (WriteConvertMetadata after the rename).
SidecarMeansConverted ==
    LET result == IF zip THEN dest ELSE source
    IN  meta # 0 /\ result # Nothing /\ result.form = "original"
          => result.v > meta

\* A job that ended by itself leaves neither its work nor its output beside the
\* archive, where they would fill the disk; what a crash left goes with the
\* next job (the deferred RemoveAll, the removals on each error).
NothingLeftBehind ==
    at = 0 => /\ partial # Nothing => cut # "no"
              /\ work # Nothing => cut = "crash"

\* What a job leaves beside the archive, its sidecar and its work, is in order
\* whenever it ends (flatten_run.go, ziprepack_run.go).
BesideInv == TypeOK /\ SidecarMeansConverted /\ NothingLeftBehind

=============================================================================
