---------------------------- MODULE ConvertJobs ----------------------------
(***************************************************************************)
(* Conversion and relocation of archives (internal/mounter/engine_jobs.go, *)
(* internal/archives/relocate.go): where the file of a row is while        *)
(* archiveconverter jobs run beside the tick, products are adopted, files  *)
(* are moved to archives_dir and the converted source is deleted.          *)
(*                                                                         *)
(* The tick is the one of MountDaemon, with the parts that read or write   *)
(* archive_path; a claimed row mounts in one step, or fails if its file is *)
(* not whole (MountEngine has the children).  Conversion is by             *)
(* archiveconverter; zip repack and flatten, which write beside or over    *)
(* the source, are not modelled.  The base names of two paths differ.      *)
(***************************************************************************)
EXTENDS ArchiveRow, FiniteSets

CONSTANTS
    Archives, Paths,  \* archive ids; paths under the source directories
    PathOf,           \* the path at which an id is discovered
    Gone,             \* no file
    Convertible,      \* paths ShouldPreconvert is true for (.7z)
    MoveToLinux,      \* config move_archives_to_linux
    MaxConvert,       \* config max_concurrent_convert
    MaxIndex,         \* config max_concurrent_index
    Budget            \* disturbances in a behaviour

ASSUME ConvertAssumption ==
    /\ IsFiniteSet(Archives)
    /\ PathOf \in [Archives -> Paths]
    /\ Convertible \subseteq Paths
    /\ Gone \notin Contents
    /\ MoveToLinux \in BOOLEAN
    /\ MaxConvert \in Nat \ {0} /\ MaxIndex \in Nat \ {0} /\ Budget \in Nat

VARIABLES
    rows,    \* the archives table
    at,      \* archives.archive_path
    disk,    \* what is at a place, and whether a convert sidecar is beside it
    job,     \* Engine.convertJobs, with the state of the goroutine
    gate,    \* the stable-file gate
    phase, todo, budget

vars == <<rows, at, disk, job, gate, phase, todo, budget>>

\* {archiveconverter_output_dir}/{id}.7z, and the two names a file may get in
\* archives_dir: its own, and with the id when that one is taken.
OutOf(a)   == <<"out", a>>
KeptAs(a)  == <<"archives", PathOf[a]>>
KeptId(a)  == <<"archives", a>>
Kept       == {KeptAs(a) : a \in Archives} \cup {KeptId(a) : a \in Archives}
Products   == {OutOf(a) : a \in Archives}
Places     == Paths \cup Kept \cup Products


\* A product counts as a copy of the content it was made from.
Files   == [of : Contents, whole : BOOLEAN, meta : BOOLEAN]

\* The files of neither directory are among the sources.
ASSUME PlacesAssumption ==
    /\ Paths \cap (Kept \cup Products) = {}
    /\ Gone \notin Files

Archive(c) == [of |-> c, whole |-> TRUE, meta |-> FALSE]
Exists(d, x) == d[x] # Gone

NoJob == [state |-> "none", source |-> Gone, first |-> FALSE]
JobStates ==
    [state : {"queued", "writing", "done", "failed"}, source : Places,
     first : BOOLEAN] \cup {NoJob}

Follows ==
    [control   |-> {"reconcile", "poll"},
     scan      |-> {"absent"},
     absent    |-> {"reconcile", "poll"},
     reconcile |-> {"poll"},
     poll      |-> {"fresh"},
     fresh     |-> {"failed"},
     failed    |-> {"control"}]

TypeOK ==
    /\ rows \in [Archives -> Rows]
    /\ at \in [Archives -> Places]
    /\ disk \in [Places -> Files \cup {Gone}]
    /\ job \in [Archives -> JobStates]
    /\ gate \in [Paths -> [seen : Contents \cup {Gone}, n : 0..2]]
    /\ phase \in DOMAIN Follows \cup {"down"}
    /\ todo \in SUBSET (Archives \cup Paths)
    /\ budget \in 0..Budget

With(status) == {a \in Archives : rows[a].status = status}
Visit(name, a) == phase = name /\ a \in todo /\ todo' = todo \ {a}
Enter(name, ids) == phase' = name /\ todo' = ids
Spend == budget > 0 /\ budget' = budget - 1
NotSeen == [p \in Paths |-> [seen |-> Gone, n |-> 0]]

-----------------------------------------------------------------------------
(* The engine.  BeginMount and what it calls map the state s of one        *)
(* archive (its row, archive_path and job, and the disk) to the state      *)
(* after; err: an error is returned.                                       *)

StateOf(a) ==
    [row |-> rows[a], at |-> at[a], disk |-> disk, job |-> job[a], err |-> FALSE]

Becomes(a, s) ==
    /\ rows' = [rows EXCEPT ![a] = s.row]
    /\ at' = [at EXCEPT ![a] = s.at]
    /\ disk' = s.disk
    /\ job' = [job EXCEPT ![a] = s.job]

JobFailStatus(r) == IF r.first THEN "mount_failed" ELSE "index_failed"

\* failConvertClaim: a fresh row is stepped through indexing; where the table
\* has no way to the status, only the attempt is counted.
FailClaim(s) ==
    LET target == JobFailStatus(s.row)
        from   == IF s.row.status = "discovered" /\ target = "index_failed"
                    THEN "indexing" ELSE s.row.status
    IN  [s EXCEPT !.row = To(NextAttempt(ClearPid(@)),
                             IF CanTransition(from, target) THEN target ELSE from),
                  !.err = TRUE]

\* Mutant: a row that a reconcile pass failed meanwhile is not accepted.
PostConvertFromConverting == {"converting"}

PostConvertFromStatuses == {"converting", "mount_failed", "index_failed"}

\* completeConvertSuccess, from a job or by adoption: the product is the
\* archive now.
Accepts(a, s) == s.row.status \in PostConvertFromStatuses /\ Exists(s.disk, OutOf(a))

\* Mutant: the empty result path of a job is stored.
CompletedNoPath(a, s) ==
    [s EXCEPT !.row = To(@, "discovered"), !.at = Gone]

Completed(a, s) ==
    [s EXCEPT !.row = To([@ EXCEPT !.print = s.disk[OutOf(a)].of], "discovered"),
              !.at = OutOf(a)]

\* IsConvertedPath: what is in the output directory is a product.
IsConvertedPath(a, x) == x = OutOf(a)

\* ShouldPreconvert: not for a product, in the output directory or moved away
\* together with its sidecar.
ShouldPreconvert(a, s) ==
    /\ PathOf[a] \in Convertible
    /\ ~IsConvertedPath(a, s.at)
    /\ ~(Exists(s.disk, s.at) /\ s.disk[s.at].meta)

\* Mutant: rows are counted, which a reconcile pass takes out of converting.
ConvertLimitByRows == Cardinality(With("converting")) >= MaxConvert

ConvertLimitReached ==
    Cardinality({a \in Archives : job[a] # NoJob}) >= MaxConvert

\* ArchiveFilePath for a source that exists.
Dest(a, s) == IF Exists(s.disk, KeptAs(a)) THEN KeptId(a) ELSE KeptAs(a)

ShouldRelocate(a, s) ==
    /\ MoveToLinux
    /\ s.at \notin Kept
    /\ ~Exists(s.disk, Dest(a, s))

\* relocateSync: move the file and its sidecar, then store the path.  The
\* table refuses the path of another row, after the move.
MoveFile(a, s) == [s.disk EXCEPT ![Dest(a, s)] = s.disk[s.at], ![s.at] = Gone]
Relocated(a, s) ==
    LET dest  == Dest(a, s)
        taken == \E b \in Archives \ {a} : Tracked(rows[b]) /\ at[b] = dest
    IN  IF taken THEN [s EXCEPT !.disk = MoveFile(a, s), !.err = TRUE]
        ELSE [s EXCEPT !.disk = MoveFile(a, s), !.at = dest,
                       !.row = To([@ EXCEPT !.print = s.disk[s.at].of], @.status)]

\* beginMountProcess, if there is a slot.
Claimed(s, first) ==
    LET needs == first \/ ~s.row.indexed
        full  == needs /\ Cardinality(With("indexing")) >= MaxIndex
    IN  IF full \/ s.err THEN s
        ELSE [s EXCEPT !.row = To(@, IF needs THEN "indexing" ELSE "mounting")]

\* Mutant: the product of an earlier conversion is not looked for.
AdoptableNever(a, s) == FALSE

\* A product of this id is there and is not yet the archive.
Adoptable(a, s) == Exists(s.disk, OutOf(a)) /\ s.at # OutOf(a)

\* beginConvertAsync: the claim and the job.
Queued(s, first) ==
    [s EXCEPT !.row = To(ClearPid(@), "converting"),
              !.job = [state |-> "queued", source |-> s.at,
                       first |-> first \/ ~s.row.indexed]]

\* BeginMount.  ok: no file operation of this call fails.
BeginMount(a, s, first, ok) ==
    LET t == IF Adoptable(a, s) THEN Completed(a, s) ELSE s
    IN  IF \/ s.row.status = "converting"
           \/ s.job # NoJob
           \/ Adoptable(a, s) /\ ~Accepts(a, s)
          THEN s
        ELSE IF ShouldPreconvert(a, t) /\ ConvertLimitReached THEN t
        ELSE IF ShouldPreconvert(a, t)
          THEN IF ok THEN Queued(t, first) ELSE FailClaim(t)
        ELSE IF ShouldRelocate(a, t)
          THEN IF ok THEN Claimed(Relocated(a, t), first) ELSE FailClaim(t)
        ELSE Claimed(t, first)

\* A failing file operation is a disturbance.
Outcome(s, ok) == IF ok THEN UNCHANGED budget ELSE s.err /\ Spend

-----------------------------------------------------------------------------
(* PollConvert, one finished job at a time.                                *)

\* The failure is booked on the row as it is by now, if the table lets it.
JobFailed(r) == Move(r, {r.status}, JobFailStatus(r), NextAttempt(ClearPid(r)))

PollFailed(a) ==
    /\ \/ job[a].state = "failed"
       \/ job[a].state = "done" /\ ~Accepts(a, StateOf(a))
    /\ rows' = [rows EXCEPT ![a] = JobFailed(@)]
    /\ job' = [job EXCEPT ![a] = NoJob]
    /\ UNCHANGED <<at, disk, budget>>

\* RemoveSupersededSource, for the source of the job whose product is mounted
\* next.  pendingSourceRemovals is only read right after it is written, so an
\* error of BeginMount leaves the source where it is.
SourceRemoved(s, source) ==
    IF MoveToLinux /\ ~s.err /\ source \in Paths
      THEN [s EXCEPT !.disk = [@ EXCEPT ![source] = Gone]] ELSE s

\* Mutant: the error of a job is not looked at.
PollDoneUnchecked(a) ==
    LET t == Completed(a, [StateOf(a) EXCEPT !.job = NoJob])
    IN  /\ Accepts(a, StateOf(a))
        /\ \E ok \in BOOLEAN :
             LET s == BeginMount(a, t, job[a].first, ok)
             IN  Becomes(a, SourceRemoved(s, job[a].source)) /\ Outcome(s, ok)

PollDone(a) ==
    LET t == Completed(a, [StateOf(a) EXCEPT !.job = NoJob])
    IN  /\ job[a].state = "done" /\ Accepts(a, StateOf(a))
        /\ \E ok \in BOOLEAN :
             LET s == BeginMount(a, t, job[a].first, ok)
             IN  Becomes(a, SourceRemoved(s, job[a].source)) /\ Outcome(s, ok)

PollDue(a) == job[a].state \in {"done", "failed"}
PollConvert(a) ==
    /\ Visit("poll", a)
    /\ PollFailed(a) \/ PollDone(a)
    /\ UNCHANGED <<gate, phase>>

-----------------------------------------------------------------------------
(* startPendingWork, as far as archive_path and jobs are concerned.        *)

\* IsStable: a file in archives_dir always is, one never scanned is not.
Stable(x) == IF x \in Kept THEN Exists(disk, x) ELSE x \in Paths /\ gate[x].n >= 2

ConvertSlot(a) ==
    ShouldPreconvert(a, StateOf(a)) => Cardinality(With("converting")) < MaxConvert

WorkDue(a) ==
    /\ rows[a].retryable
    /\ Exists(disk, at[a])
    /\ job[a] = NoJob
    /\ ConvertSlot(a)
FreshDue(a) ==
    /\ rows[a].status = "discovered"
    /\ Cardinality(With("indexing")) < MaxIndex
    /\ Stable(at[a])
    /\ WorkDue(a)
FailedDue(a) ==
    /\ rows[a].status = "mount_failed"
    /\ WorkDue(a)

StartWork(a, first) ==
    /\ \E ok \in BOOLEAN :
         LET s == BeginMount(a, StateOf(a), first, ok)
         IN  Becomes(a, s) /\ Outcome(s, ok)
    /\ UNCHANGED <<gate, phase>>

StartFresh(a)  == Visit("fresh", a) /\ FreshDue(a) /\ StartWork(a, TRUE)
\* The retry of failed mounts ends at the first row that finds no slot.
NoSlot(a) == ~rows[a].indexed /\ Cardinality(With("indexing")) >= MaxIndex
RetryFailed(a) ==
    \/ Visit("failed", a) /\ FailedDue(a) /\ ~NoSlot(a) /\ StartWork(a, FALSE)
    \/ /\ phase = "failed" /\ a \in todo /\ FailedDue(a) /\ NoSlot(a)
       /\ todo' = {}
       /\ UNCHANGED <<rows, at, disk, job, gate, phase, budget>>

\* The mount phase: a whole file is indexed and mounted, any other fails.
Mounts(a) ==
    /\ phase = "poll"
    /\ rows[a].status \in {"indexing", "mounting"}
    /\ LET r     == rows[a]
           whole == Exists(disk, at[a]) /\ disk[at[a]].whole
           index == r.status = "indexing"
       IN  rows' = [rows EXCEPT ![a] =
             IF whole THEN To(To([r EXCEPT !.indexed = TRUE], "mounting"), "mounted")
             ELSE To(NextAttempt([ClearPid(r) EXCEPT !.indexed = @ /\ ~index]),
                     IF index THEN "index_failed" ELSE "mount_failed")]
    /\ UNCHANGED <<at, disk, job, gate, phase, todo, budget>>

-----------------------------------------------------------------------------
(* Scan and reconcile passes.                                              *)

RowsAt(p) == {a \in Archives : Tracked(rows[a]) /\ at[a] = p}
NewIds(p) == {a \in Archives : PathOf[a] = p /\ rows[a].status = "unborn"}

\* doScan begins: attempts are forgiven.
StartScan ==
    /\ phase = "control"
    /\ rows' = [a \in Archives |-> ResetPresentAttempts(rows[a])]
    /\ Enter("scan", Paths)
    /\ UNCHANGED <<at, disk, job, gate, budget>>

\* A row found at the path is brought up to date; a path that is no row's
\* archive_path, its row having moved on, gets a new row.
ObservePath(p) ==
    /\ Visit("scan", p)
    /\ gate' = [gate EXCEPT ![p] =
         IF ~Exists(disk, p) THEN NotSeen[p]
         ELSE [seen |-> disk[p].of, n |-> IF @.seen = disk[p].of THEN 2 ELSE 1]]
    /\ \/ /\ ~Exists(disk, p) \/ RowsAt(p) \cup NewIds(p) = {}
          /\ UNCHANGED <<rows, at>>
       \/ /\ Exists(disk, p)
          /\ \E a \in RowsAt(p) :
               rows' = [rows EXCEPT ![a] = ObservedRow(@, disk[p].of, FALSE)]
          /\ UNCHANGED at
       \/ /\ Exists(disk, p) /\ RowsAt(p) = {}
          /\ \E a \in NewIds(p) :
               /\ rows' = [rows EXCEPT ![a] = InsertDiscovered(@, disk[p].of)]
               /\ at' = [at EXCEPT ![a] = p]
    /\ UNCHANGED <<disk, job, phase, budget>>

\* Rows not seen become absent, but for those whose file is in archives_dir.
AbsentDue(a) ==
    /\ rows[a].status \in ActiveStatuses
    /\ CASE at[a] \in Paths -> gate[at[a]].n = 0
         [] at[a] \in Kept  -> ~Exists(disk, at[a])
         [] OTHER           -> TRUE
ScanAbsent(a) ==
    /\ Visit("absent", a)
    /\ AbsentDue(a)
    /\ rows' = [rows EXCEPT ![a] = MarkAbsent(@)]
    /\ UNCHANGED <<at, disk, job, gate, phase, budget>>

\* checkInProgress of a converting row: no probe tells of its job, so the row
\* fails whether it is supervised or not.
ReconcileDue(a) == rows[a].status = "converting"
Reconcile(a) ==
    /\ Visit("reconcile", a)
    /\ ReconcileDue(a)
    /\ rows' = [rows EXCEPT ![a] =
         To(NextAttempt([ClearPid(rows[a]) EXCEPT !.indexed = @ /\ rows[a].first]),
            "mount_failed")]
    /\ UNCHANGED <<at, disk, job, gate, phase, budget>>

Due ==
    CASE phase = "scan"      -> todo
      [] phase = "absent"    -> {a \in todo : AbsentDue(a)}
      [] phase = "reconcile" -> {a \in todo : ReconcileDue(a)}
      [] phase = "poll"      -> {a \in todo : PollDue(a)}
      [] phase = "fresh"     -> {a \in todo : FreshDue(a)}
      [] phase = "failed"    -> {a \in todo : FailedDue(a)}
      [] OTHER               -> {}

NextPhase ==
    /\ phase \in DOMAIN Follows
    /\ Due = {}
    /\ \E next \in Follows[phase] :
         Enter(next, IF next = "control" THEN {} ELSE Archives)
    /\ UNCHANGED <<rows, at, disk, job, gate, budget>>

-----------------------------------------------------------------------------
(* Start and crash.                                                        *)

Boot ==
    /\ phase = "down"
    /\ rows' = [a \in Archives |-> BootRow(rows[a], Exists(disk, at[a]))]
    /\ Enter("control", {})
    /\ UNCHANGED <<at, disk, job, gate, budget>>

\* What a relocation cut short leaves: the file moved without the row, with
\* or without its sidecar, or part of a copy to another file system.
HalfRelocated(a, s) ==
    {[s EXCEPT !.disk = MoveFile(a, s)],
     [s EXCEPT !.disk = [MoveFile(a, s) EXCEPT
         ![Dest(a, s)] = [@ EXCEPT !.meta = FALSE]]],
     [s EXCEPT !.disk = [@ EXCEPT
         ![Dest(a, s)] = [s.disk[s.at] EXCEPT !.whole = FALSE, !.meta = FALSE]]]}

\* States a crash may cut the handling of a off in, its job aside.
HalfDone(a) ==
    LET s == StateOf(a)
        t == IF phase = "poll" THEN Completed(a, s) ELSE s
    IN  CASE phase = "poll" /\ a \in todo /\ job[a].state = "done" /\ Accepts(a, s)
               -> {t} \cup IF ShouldRelocate(a, t) THEN HalfRelocated(a, t) ELSE {}
          [] \/ phase = "fresh" /\ a \in todo /\ FreshDue(a)
             \/ phase = "failed" /\ a \in todo /\ FailedDue(a)
               -> IF ~ShouldPreconvert(a, s) /\ ~Adoptable(a, s) /\ ShouldRelocate(a, s)
                    THEN HalfRelocated(a, s) ELSE {}
          [] OTHER -> {}

\* Jobs die with the daemon.  An archiveconverter that was writing dies too,
\* or lives on and finishes its file; the goroutine writes no sidecar.
Crash ==
    /\ phase # "down"
    /\ Spend
    /\ \E a \in Archives : \E s \in HalfDone(a) \cup {StateOf(a)} :
         /\ rows' = [rows EXCEPT ![a] = s.row]
         /\ at' = [at EXCEPT ![a] = s.at]
         /\ \E lives \in SUBSET {b \in Archives : job[b].state = "writing"} :
              disk' = [x \in Places |->
                         IF \E b \in lives : x = OutOf(b)
                           THEN [s.disk[x] EXCEPT !.whole = TRUE] ELSE s.disk[x]]
    /\ job' = [a \in Archives |-> NoJob]
    /\ gate' = NotSeen
    /\ Enter("down", {})

-----------------------------------------------------------------------------
(* The surroundings: archiveconverter and the files.                       *)

\* The goroutine of a job, and the archiveconverter it runs.  No product is
\* there when it starts, for BeginMount would have taken it.
JobStarts(a) ==
    /\ job[a].state = "queued"
    /\ \/ /\ Exists(disk, job[a].source) /\ disk[job[a].source].whole
          /\ job' = [job EXCEPT ![a] = [@ EXCEPT !.state = "writing"]]
          /\ disk' = [disk EXCEPT ![OutOf(a)] =
               [of |-> disk[job[a].source].of, whole |-> FALSE, meta |-> FALSE]]
       \/ /\ ~(Exists(disk, job[a].source) /\ disk[job[a].source].whole)
          /\ job' = [job EXCEPT ![a] = [@ EXCEPT !.state = "failed"]]
          /\ UNCHANGED disk
    /\ UNCHANGED <<rows, at, gate, phase, todo, budget>>

\* A sidecar that cannot be written is missing, nothing more.
JobEnds(a) ==
    /\ job[a].state = "writing"
    /\ job' = [job EXCEPT ![a] = [@ EXCEPT !.state = "done"]]
    /\ \E written \in BOOLEAN :
         /\ IF written THEN UNCHANGED budget ELSE Spend
         /\ disk' = [disk EXCEPT ![OutOf(a)] =
              [@ EXCEPT !.whole = TRUE, !.meta = written]]
    /\ UNCHANGED <<rows, at, gate, phase, todo>>

\* archiveconverter ends with an error or is killed by its timeout, and may
\* leave part of its output.
JobFails(a) ==
    /\ Spend
    /\ job[a].state = "writing"
    /\ job' = [job EXCEPT ![a] = [@ EXCEPT !.state = "failed"]]
    /\ \/ UNCHANGED disk
       \/ disk' = [disk EXCEPT ![OutOf(a)] = Gone]
    /\ UNCHANGED <<rows, at, gate, phase, todo>>

\* An archive appears, is replaced or is removed; a kept one is removed.
FileChanges(x) ==
    /\ Spend
    /\ \/ /\ x \in Paths /\ ~Exists(disk, x)
          /\ \E c \in Contents : disk' = [disk EXCEPT ![x] = Archive(c)]
       \/ /\ x \in Paths /\ Exists(disk, x)
          /\ \E c \in Contents \ {disk[x].of} :
               disk' = [disk EXCEPT ![x] = Archive(c)]
       \/ /\ x \in Paths \cup Kept /\ Exists(disk, x)
          /\ disk' = [disk EXCEPT ![x] = Gone]
    /\ UNCHANGED <<rows, at, job, gate, phase, todo>>

-----------------------------------------------------------------------------

NewRow(c) ==
    [status |-> "unborn", pid |-> NoChild, tries |-> 0, retryable |-> FALSE,
     first |-> FALSE, indexed |-> FALSE, hooks |-> "none", print |-> c,
     late |-> FALSE]

Init ==
    /\ rows \in [Archives -> {NewRow(CHOOSE c \in Contents : TRUE)}]
    /\ at = PathOf
    /\ \E first \in [Paths -> {Archive(c) : c \in Contents} \cup {Gone}] :
         disk = [x \in Places |-> IF x \in Paths THEN first[x] ELSE Gone]
    /\ job = [a \in Archives |-> NoJob]
    /\ gate = NotSeen
    /\ phase = "down"
    /\ todo = {}
    /\ budget = Budget

RowStep(a) ==
    \/ ScanAbsent(a) \/ Reconcile(a) \/ PollConvert(a)
    \/ StartFresh(a) \/ RetryFailed(a)
Tick ==
    \/ StartScan \/ NextPhase \/ Boot
    \/ \E p \in Paths : ObservePath(p)
    \/ \E a \in Archives : RowStep(a)
Users == \E x \in Paths \cup Kept : FileChanges(x)

Next ==
    \/ Tick \/ Crash \/ Users
    \/ \E a \in Archives : Mounts(a) \/ JobStarts(a) \/ JobEnds(a) \/ JobFails(a)

Spec == Init /\ [][Next]_vars

\* The run loop ticks for ever and scans at its interval; jobs and mounts get
\* on with their work.
Fairness ==
    /\ WF_vars(Tick)
    /\ SF_vars(StartScan)
    /\ \A a \in Archives : WF_vars(JobStarts(a) \/ JobEnds(a)) /\ SF_vars(Mounts(a))

FairSpec == Spec /\ Fairness

-----------------------------------------------------------------------------
(* Properties.                                                             *)

\* Conversions never exceed max_concurrent_convert, although a reconcile pass
\* takes rows out of converting while their jobs run.
ConvertSlotsBounded ==
    Cardinality({a \in Archives : job[a] # NoJob}) <= MaxConvert

Copies(d, c) == {x \in Places : Exists(d, x) /\ d[x].whole /\ d[x].of = c}

\* A source was replaced after its job had read it.
ReplacedUnderJob(c) ==
    \E a \in Archives :
      /\ job[a].state = "done"
      /\ Exists(disk, job[a].source) /\ disk[job[a].source].of = c
      /\ Exists(disk, OutOf(a)) /\ disk[OutOf(a)].of # c

\* The daemon never destroys the last whole copy of an archive: not with a
\* source it takes for superseded, not by a move, a crash or a failed job.
\* (The one exception: a source replaced after its job had read it is taken
\* for superseded with its new content.)
LastCopyKept ==
    [][\A c \in Contents :
         Copies(disk, c) # {} =>
           Copies(disk', c) # {} \/ Users \/ ReplacedUnderJob(c)]_vars

\* A finished product is not overwritten by a second conversion of its id.
ProductNotOverwritten ==
    [][\A a \in Archives :
         Exists(disk, OutOf(a)) /\ disk[OutOf(a)].whole
           => ~(Exists(disk', OutOf(a)) /\ ~disk'[OutOf(a)].whole)]_vars

\* No row stays in converting: the job ends, or a start requeues the row.
ConvertingEnds ==
    \A a \in Archives : rows[a].status = "converting" ~> rows[a].status # "converting"

\* Without disturbances every archive ends up mounted from archives_dir, also
\* when a reconcile pass fails its row while its job runs.
ArchiveServed ==
    [](budget = Budget) =>
      \A p \in Paths : \A c \in Contents :
        disk[p] = Archive(c) =>
          <>[](\E a \in Archives : /\ PathOf[a] = p
                                   /\ rows[a].status = "mounted"
                                   /\ at[a] \in Kept
                                   /\ at[a] \in Copies(disk, c))

=============================================================================
