---------------------------- MODULE ArchivePurge ----------------------------
(***************************************************************************)
(* What becomes of the edits made in a mount when its archive goes away    *)
(* (internal/cleaner: PurgeArchive, HandleOverlay, PruneQuarantine).  A    *)
(* purge is many steps on the file system and one on the database; each    *)
(* may fail, and the daemon may die after each.  The daemon does nothing   *)
(* else meanwhile (opMu), but a mount that it has lost, or failed to take  *)
(* down, is written to on.  overlay_dir changes with a restart, the other  *)
(* settings with a reload; the row keeps the path of the mount's start.  A *)
(* purged archive that is found again has a new id, and an overlay         *)
(* directory of its own.                                                   *)
(***************************************************************************)
EXTENDS Naturals, FiniteSets

CONSTANTS
    Edits,         \* what users write into mounts
    Policies,      \* values of config overlay_cleanup
    Roots,         \* values of config overlay_dir
    CleanupAfter,  \* config cleanup_after, in ticks of the clock
    RetainFor,     \* config quarantine_retain_for
    Cap,           \* config quarantine_max_bytes, one edit being one byte
    MaxId,         \* bound: ids given to the archive
    MaxName,       \* bound: names in the quarantine for one id
    Budget         \* bound: disturbances

ASSUME PurgeAssumption ==
    /\ IsFiniteSet(Edits)
    /\ Policies \subseteq {"quarantine", "delete", "retain"}
    /\ "none" \notin Roots
    /\ CleanupAfter \in Nat /\ RetainFor \in Nat /\ Cap \in Nat
    /\ MaxId \in Nat \ {0} /\ MaxName \in Nat /\ Budget \in Nat

VARIABLES
    conf,        \* config overlay_cleanup, overlay_dir and write_overlay
    present,     \* the archive file is there
    row,         \* its row; dir: where its overlay is, by the row
    overlay,     \* by place, the overlay directory
    writers,     \* places that running mounts write to
    quarantine,  \* entries of the directories .quarantine
    work,        \* what the cleaner is at
    written,     \* history: edits made, with their place
    pruned,      \* history: edits given up by policy
    overtaken,   \* history: edits made while their overlay was moved by copy
    left,        \* history: overlays that a setting took out of the row's care
    budget

files == <<overlay, quarantine>>
past == <<written, pruned, overtaken, left>>
vars == <<conf, present, row, files, writers, work, past, budget>>

Ids == 1..MaxId

\* filepath.Join(overlay_dir, id).
Places == Roots \X Ids

\* Time is kept as ages, up to where they are only "old".
Old == IF CleanupAfter > RetainFor THEN CleanupAfter ELSE RetainFor
Ages == 0..Old

Dirs == [exists : BOOLEAN, edits : SUBSET Edits, age : Ages]
NoDir == [exists |-> FALSE, edits |-> {}, age |-> 0]
Resting == [at |-> "rest", admin |-> FALSE, n |-> 0, todo |-> {}]

Configs == [policy : Policies, dir : Roots, write : BOOLEAN]
Rows == [status : {"discovered", "mounted", "unmounting", "absent", "none"},
         id : Ids, dir : Roots \cup {"none"}, age : Ages]

\* n: its name, unique among the entries of a place; put: since when it is
\* there; age: since its mtime.
Entries == [of : Places, n : 0..MaxName, put : Ages,
            edits : SUBSET Edits, age : Ages]

\* n: the name of a copy; todo: what was there when it began.
Works == [at : {"rest", "unmount", "overlay", "copy", "remove", "row",
                "prune"},
          admin : BOOLEAN, n : 0..MaxName, todo : SUBSET Edits]

TypeOK ==
    /\ conf \in Configs
    /\ present \in BOOLEAN
    /\ row \in Rows
    /\ overlay \in [Places -> Dirs]
    /\ writers \subseteq Places
    /\ quarantine \subseteq Entries
    /\ work \in Works
    /\ written \subseteq Places \X Edits
    /\ pruned \subseteq Places \X Edits
    /\ overtaken \subseteq Places \X Edits
    /\ left \subseteq Places
    /\ budget \in 0..Budget

Init ==
    /\ conf \in [policy : Policies, dir : Roots, write : {TRUE}]
    /\ present = TRUE
    /\ row = [status |-> "discovered", id |-> 1, dir |-> "none", age |-> 0]
    /\ overlay = [o \in Places |-> NoDir]
    /\ writers = {}
    /\ quarantine = {}
    /\ work = Resting
    /\ written = {} /\ pruned = {} /\ overtaken = {} /\ left = {}
    /\ budget = Budget

Spend == budget > 0 /\ budget' = budget - 1
AtRest == work.at = "rest"
GoTo(step) == work' = [work EXCEPT !.at = step]

\* The overlay that the row tells of.
Place == <<row.dir, row.id>>
Mine == overlay[Place]
Exists == Place \in Places /\ Mine.exists
Of(o, edits) == {o} \X edits

-----------------------------------------------------------------------------
(* Around the cleaner.                                                     *)

Older(age) == IF age = Old THEN Old ELSE age + 1

TimePasses ==
    /\ row' = IF row.status = "absent" THEN [row EXCEPT !.age = Older(@)] ELSE row
    /\ overlay' = [o \in Places |-> IF overlay[o].exists
                                    THEN [overlay[o] EXCEPT !.age = Older(@)]
                                    ELSE overlay[o]]
    /\ quarantine' = {[q EXCEPT !.age = Older(@), !.put = Older(@)] :
                        q \in quarantine}
    /\ UNCHANGED <<conf, present, writers, work, past, budget>>

Reconfigure ==
    /\ AtRest
    /\ Spend
    /\ \/ \E p \in Policies : conf' = [conf EXCEPT !.policy = p]
       \/ \E d \in Roots : conf' = [conf EXCEPT !.dir = d]
       \/ conf' = [conf EXCEPT !.write = ~@]
    /\ UNCHANGED <<present, row, files, writers, work, past>>

\* Each start of a mount makes its overlay directory, under overlay_dir as it
\* is now, and has the row tell of that one; without write_overlay of none.
Mount ==
    /\ AtRest
    /\ row.status = "discovered"
    /\ \E to \in {IF conf.write THEN conf.dir ELSE "none"} :
         LET o == <<to, row.id>> IN
         /\ row' = [row EXCEPT !.status = "mounted", !.dir = to]
         /\ overlay' = IF o \notin Places \/ overlay[o].exists THEN overlay
                       ELSE [overlay EXCEPT ![o] =
                               [exists |-> TRUE, edits |-> {}, age |-> 0]]
         /\ writers' = writers \cup ({o} \cap Places)
         /\ left' = (left \cup ({Place} \cap Places)) \ {o}
    /\ UNCHANGED <<conf, present, quarantine, work, written, pruned, overtaken,
                   budget>>

\* A user writes to a mount, whatever its row says.  An edit deep in the tree
\* leaves the mtime of the directory itself alone.
Edit(o, e) ==
    /\ o \in writers
    /\ overlay[o].exists
    /\ <<o, e>> \notin written
    /\ \E age \in {0, overlay[o].age} :
         overlay' = [overlay EXCEPT ![o] =
                       [overlay[o] EXCEPT !.edits = @ \cup {e}, !.age = age]]
    /\ written' = written \cup {<<o, e>>}
    /\ overtaken' = IF o = Place /\ work.at \in {"copy", "remove"}
                      THEN overtaken \cup {<<o, e>>} ELSE overtaken
    /\ UNCHANGED <<conf, present, row, quarantine, writers, work, pruned, left,
                   budget>>

\* A mount ends: unmounted, cleared for another, or dead.
MountEnds(o) ==
    /\ writers' = writers \ {o}
    /\ UNCHANGED <<conf, present, row, files, work, past, budget>>

\* The scanner marks absent what is gone, and finds it again; a purged one
\* gets a new row.  Mounts are not touched.
FileChanges ==
    /\ present' = ~present
    /\ Spend
    /\ UNCHANGED <<conf, row, files, writers, work, past>>

MarkAbsent ==
    /\ AtRest
    /\ ~present
    /\ row.status \in {"discovered", "mounted", "unmounting"}
    /\ row' = [row EXCEPT !.status = "absent", !.age = 0]
    /\ UNCHANGED <<conf, present, files, writers, work, past, budget>>

Discover ==
    /\ AtRest
    /\ present
    /\ \/ /\ row.status = "absent"
          /\ row' = [row EXCEPT !.status = "discovered", !.age = 0]
       \/ /\ row.status = "none" /\ row.id < MaxId
          /\ row' = [status |-> "discovered", id |-> row.id + 1,
                     dir |-> "none", age |-> 0]
    /\ UNCHANGED <<conf, present, files, writers, work, past, budget>>

\* A mount is dropped on a timeout or a changed file and runs on, or is taken
\* for dead; an interrupted purge leaves a mounted row unmounting.  The row is
\* up for another start.
Recover ==
    /\ AtRest
    /\ row.status \in {"mounted", "unmounting"}
    /\ row' = [row EXCEPT !.status = "discovered"]
    /\ UNCHANGED <<conf, present, files, writers, work, past, budget>>

-----------------------------------------------------------------------------
(* A pass of the cleaner, or a purge asked for.                            *)

\* ListAbsentPastGrace: removed_at at or before the cutoff.
PastGrace == row.age >= CleanupAfter

Run ==
    /\ AtRest
    /\ work' = [Resting EXCEPT !.at =
                  IF row.status = "absent" /\ PastGrace THEN "unmount"
                  ELSE "prune"]
    /\ UNCHANGED <<conf, present, row, files, writers, past, budget>>

AdminPurge ==
    /\ AtRest
    /\ row.status # "none"
    /\ work' = [Resting EXCEPT !.at = "unmount", !.admin = TRUE]
    /\ Spend
    /\ UNCHANGED <<conf, present, row, files, writers, past>>

\* purgeUnmountStatuses.  The purge goes on whether the row could be moved to
\* unmounting or not, and whether the mount is down or not; it asks nothing of
\* a mount whose row has left these statuses.
Unmount ==
    /\ work.at = "unmount"
    /\ \/ /\ row.status \in {"mounted", "unmounting"}
          /\ row' \in {row, [row EXCEPT !.status = "unmounting"]}
          /\ writers' \in {writers, writers \ {Place}}
       \/ row.status \notin {"mounted", "unmounting"} /\ UNCHANGED <<row, writers>>
    /\ GoTo("overlay")
    /\ UNCHANGED <<conf, present, files, past, budget>>

AfterPurge == IF work.admin THEN "rest" ELSE "prune"

\* An error returns before the row is deleted.
GiveUp ==
    /\ GoTo(AfterPurge)
    /\ Spend
    /\ UNCHANGED <<conf, present, row, writers, written, overtaken, left>>

\* The overlay is where the purge may touch it: PathUnderRoot.
UnderRoot == row.dir = conf.dir

\* Nothing there, or left in place.
KeepOverlay ==
    /\ work.at = "overlay"
    /\ ~Exists \/ (UnderRoot /\ conf.policy = "retain")
    /\ GoTo("row")
    /\ UNCHANGED <<conf, present, row, files, writers, past, budget>>

\* Mutant: a refused overlay stops the purge, as a failed one does.
RefusalIsFinal ==
    /\ work.at = "overlay"
    /\ Exists /\ ~UnderRoot
    /\ GoTo(AfterPurge)
    /\ UNCHANGED <<conf, present, row, files, writers, past, budget>>

\* An overlay outside overlay_dir is not touched under any policy, and this is
\* the one error of HandleOverlay after which the row goes all the same.
RefuseOverlay ==
    /\ work.at = "overlay"
    /\ Exists /\ ~UnderRoot
    /\ GoTo("row")
    /\ UNCHANGED <<conf, present, row, files, writers, past, budget>>

\* os.RemoveAll: all of it, or an error after some of it.
RemoveAll ==
    \/ /\ overlay' = [overlay EXCEPT ![Place] = NoDir]
       /\ GoTo("row")
       /\ UNCHANGED <<conf, present, row, writers, written, overtaken, left,
                      budget>>
    \/ /\ \E rest \in SUBSET Mine.edits :
            overlay' = [overlay EXCEPT ![Place] =
                          [Mine EXCEPT !.edits = rest, !.age = 0]]
       /\ GiveUp

DeleteOverlay ==
    /\ work.at = "overlay"
    /\ Exists /\ UnderRoot
    /\ conf.policy = "delete"
    /\ pruned' = pruned \cup Of(Place, Mine.edits)
    /\ RemoveAll
    /\ UNCHANGED quarantine

\* A name that is not taken.
Free(n) == \A q \in quarantine : q.of = Place => q.n # n
FreeName == CHOOSE n \in 0..MaxName : Free(n)

Entry(edits, age) ==
    [of |-> Place, n |-> FreeName, put |-> 0, edits |-> edits, age |-> age]

ToQuarantine ==
    /\ work.at = "overlay"
    /\ Exists /\ UnderRoot
    /\ conf.policy = "quarantine"
    /\ \E n \in 0..MaxName : Free(n)
    /\ UNCHANGED <<conf, present, row, writers, past, budget>>

\* movePath: a rename keeps the mtime.
RenameOverlay ==
    /\ ToQuarantine
    /\ quarantine' = quarantine \cup {Entry(Mine.edits, Mine.age)}
    /\ overlay' = [overlay EXCEPT ![Place] = NoDir]
    /\ GoTo("row")

\* Where it cannot rename it copies what it finds.
StartCopy ==
    /\ ToQuarantine
    /\ quarantine' = quarantine \cup {Entry({}, 0)}
    /\ work' = [work EXCEPT !.at = "copy", !.n = FreeName, !.todo = Mine.edits]
    /\ UNCHANGED overlay

Copying(q) == q.of = Place /\ q.n = work.n

CopyEdit(e) ==
    /\ work.at = "copy"
    /\ \E q \in quarantine :
         /\ Copying(q)
         /\ e \in Mine.edits \ q.edits
         /\ quarantine' = (quarantine \ {q})
                          \cup {[q EXCEPT !.edits = @ \cup {e}]}
    /\ UNCHANGED <<conf, present, row, overlay, writers, work, past, budget>>

\* Mutant: the source goes even if the copy failed.
CopyDoneAnyhow ==
    /\ work.at = "copy"
    /\ GoTo("remove")
    /\ UNCHANGED <<conf, present, row, files, writers, past, budget>>

\* What came after the copy had read the directory may not be in it.
CopyDone ==
    /\ work.at = "copy"
    /\ \E q \in quarantine : Copying(q) /\ work.todo \subseteq q.edits
    /\ GoTo("remove")
    /\ UNCHANGED <<conf, present, row, files, writers, past, budget>>

\* A copy that fails is taken back.
CopyFails ==
    /\ work.at = "copy"
    /\ quarantine' = {q \in quarantine : ~Copying(q)}
    /\ GiveUp
    /\ UNCHANGED <<overlay, pruned>>

RemoveSource ==
    /\ work.at = "remove"
    /\ RemoveAll
    /\ UNCHANGED <<quarantine, pruned>>

\* Store.PurgeArchive, which may fail too.  What was kept or refused stays
\* behind on disk.
DeleteRow ==
    /\ work.at = "row"
    /\ \/ /\ row' = [row EXCEPT !.status = "none", !.age = 0]
          /\ left' = IF Exists /\ (conf.policy = "retain" \/ ~UnderRoot)
                       THEN left \cup {Place} ELSE left
          /\ GoTo(AfterPurge)
          /\ UNCHANGED <<conf, present, writers, written, overtaken, budget>>
       \/ GiveUp
    /\ UNCHANGED <<files, pruned>>

\* PruneQuarantine, under overlay_dir: first what is too old, by mtime.
Here == {q \in quarantine : q.of[1] = conf.dir}
Young == {q \in Here : q.age < RetainFor}

EntriesSize(S) ==
    Cardinality(UNION {{<<q, e>> : e \in q.edits} : q \in S})

\* Then the oldest ones, until the rest fits under the cap (0 is no cap).
\* Entries of one mtime go in any order.
UnderCap ==
    {S \in SUBSET Young :
       /\ Cap = 0 => S = Young
       /\ EntriesSize(S) <= Cap \/ Cap = 0
       /\ \A q \in Young \ S :
            /\ \A r \in S : q.age >= r.age
            /\ EntriesSize(S \cup {q}) > Cap
               \/ \E r \in Young \ S : r # q /\ r.age <= q.age}

PruneQuarantine ==
    /\ work.at = "prune"
    /\ \E kept \in UnderCap :
         /\ quarantine' = (quarantine \ Here) \cup kept
         /\ pruned' = pruned \cup
                      UNION {Of(q.of, q.edits) : q \in Here \ kept}
    /\ work' = Resting
    /\ UNCHANGED <<conf, present, row, overlay, writers, written, overtaken,
                   left, budget>>

\* The daemon dies wherever it is, and boots: the boot ends the mounts it finds.
Crash ==
    /\ ~AtRest
    /\ work' = Resting
    /\ writers' \in SUBSET writers
    /\ Spend
    /\ UNCHANGED <<conf, present, row, files, past>>

Purge ==
    \/ Unmount \/ KeepOverlay \/ RefuseOverlay \/ DeleteOverlay
    \/ RenameOverlay \/ StartCopy \/ CopyDone \/ CopyFails \/ RemoveSource
    \/ DeleteRow \/ PruneQuarantine
    \/ \E e \in Edits : CopyEdit(e)

Next ==
    \/ TimePasses \/ Reconfigure
    \/ Mount \/ \E o \in Places : MountEnds(o) \/ \E e \in Edits : Edit(o, e)
    \/ FileChanges \/ MarkAbsent \/ Discover \/ Recover
    \/ Run \/ AdminPurge \/ Purge \/ Crash

\* Time passes; scans and cleaner passes come again and again, and a pass
\* that has begun goes on.
Fairness ==
    /\ WF_vars(TimePasses)
    /\ SF_vars(MarkAbsent)
    /\ SF_vars(Run)
    /\ WF_vars(Purge)

Spec == Init /\ [][Next]_vars
FairSpec == Spec /\ Fairness

-----------------------------------------------------------------------------

\* Every edit is in its overlay or in the quarantine until policy gives it up,
\* whatever step of a purge fails or is cut short and wherever overlay_dir has
\* moved (overlay.go); but for what a mount that outlived its purge writes
\* while its overlay is copied away.
EditsKept ==
    \A w \in written \ overtaken :
        \/ w[2] \in overlay[w[1]].edits
        \/ \E q \in quarantine : q.of = w[1] /\ w[2] \in q.edits
        \/ w \in pruned

\* A failed step of a purge does not leave an overlay that no row tells of:
\* only settings do, by retain, by write_overlay, or by an overlay_dir that is
\* not the one of the mount (cleaner.go, the early return of a failed overlay,
\* and refused paths).
NoOverlayLeftBehind ==
    \A o \in Places :
        overlay[o].exists => \/ o = Place /\ row.status # "none"
                             \/ o \in left

\* Overlays and rows go together but for settings that part them, and edits
\* are kept, after any step of a purge (PurgeArchive).
OverlayInv == TypeOK /\ EditsKept /\ NoOverlayLeftBehind

\* What is gone for good is purged, although steps fail and daemons die.
GoneIsPurged == <>[](present \/ row.status = "none")

\* An edit that was put in quarantine stays there for RetainFor.
QuarantineRetained ==
    [][\A q \in quarantine :
         /\ q.edits # {}
         /\ q.put < RetainFor
         => \/ \E r \in quarantine' : r.of = q.of /\ r.n = q.n
            \/ work.at = "copy"]_vars

=============================================================================
