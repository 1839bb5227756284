---------------------------- MODULE DaemonState ----------------------------
(***************************************************************************)
(* What the daemon of mount-wrapper and its surroundings keep: the rows of *)
(* the SQLite store, the supervisor's registry of live children, the       *)
(* ratarmount processes themselves, the index files, the archive files of  *)
(* the source directories, the stable-file gate, and the place of the      *)
(* daemon in its tick.  The modules that EXTEND this one model its parts;  *)
(* MountDaemon composes them.                                              *)
(*                                                                         *)
(* opMu is held for a whole tick and for every control operation, so the   *)
(* daemon is one thread of rows-at-a-time steps; only the children, the    *)
(* file system and a crash interleave with it.                             *)
(***************************************************************************)
EXTENDS ArchiveRow, FiniteSets

CONSTANTS
    Archives,            \* archive ids, in the order they may be used
    Paths,               \* archive paths in the source directories
    PathOf,              \* the path an id is inserted for
    Gone,                \* no file at a path
    NoArchive,           \* no archive
    MaxIndex,            \* config max_concurrent_index (>= 1)
    MaxMount,            \* config max_concurrent_mount (0 = unlimited)
    ResetHooksOnChange,  \* on_content_change = remount_reset_hooks
    RerunFailedHooks,    \* config hook_rerun_on_failure
    HookOutcomes,        \* what a hook cycle may end in
    LowDiskValues,       \* what the disk check may report
    Budget               \* bound: disturbances (faults, requests, changes)

ASSUME StateAssumption ==
    /\ IsFiniteSet(Archives)
    /\ PathOf \in [Archives -> Paths]
    /\ Gone \notin Contents
    /\ NoArchive \notin Archives
    /\ MaxIndex \in Nat \ {0}
    /\ MaxMount \in Nat
    /\ ResetHooksOnChange \in BOOLEAN
    /\ RerunFailedHooks \in BOOLEAN
    /\ HookOutcomes \subseteq {"success", "failed", "retry"}
    /\ LowDiskValues \subseteq BOOLEAN
    /\ Budget \in Nat

VARIABLES
    rows,     \* the archives table
    live,     \* Engine.Live: the child supervised for an id, and its phase
    kids,     \* the processes: whose child, and how far it is
    index,    \* index_dir/<id>.index.sqlite
    file,     \* the archive files
    gate,     \* StableFileGate.prior: last content seen, times in a row
    phase,    \* where the daemon is in its tick
    todo,     \* rows (or paths) the phase has still to visit
    lowDisk,  \* Service.lowDisk
    budget    \* disturbances left

vars == <<rows, live, kids, index, file, gate, phase, todo, lowDisk, budget>>
daemon == <<phase, todo, lowDisk, gate>>
world == <<file, budget>>

Phases ==
    {"down", "control", "scan", "assume", "absent", "reconcile", "clean", "progress",
     "stuck", "fresh", "failed", "hooks", "ophooks", "stopping"}

\* A child that only indexes opens the archive, then writes the index file
\* ("unlinked": the file was deleted under it); one that mounts starts, then
\* serves.  Its pid can be given again once nothing refers to it.
Jobs == {"opening", "writing", "unlinked", "starting", "serving"}
Dead == [of |-> NoArchive, job |-> "dead"]
NoLive == [pid |-> NoChild, phase |-> "none"]
KidStates == [of : Archives, job : Jobs] \cup {Dead}
LiveEntries == [pid : Children, phase : {"index_only", "mount"}] \cup {NoLive}
IndexFiles == {"none", "partial", "full"}
GateEntries == [seen : Contents \cup {Gone}, n : 0..2]

TypeOK ==
    /\ rows \in [Archives -> Rows]
    /\ live \in [Archives -> LiveEntries]
    /\ kids \in [Children -> KidStates]
    /\ index \in [Archives -> IndexFiles]
    /\ file \in [Paths -> Contents \cup {Gone}]
    /\ gate \in [Paths -> GateEntries]
    /\ phase \in Phases
    /\ todo \in SUBSET (Archives \cup Paths)
    /\ lowDisk \in BOOLEAN
    /\ budget \in 0..Budget

-----------------------------------------------------------------------------

Alive(c) == c # NoChild /\ kids[c] # Dead
KidsOf(a) == {c \in Children : kids[c].of = a}

\* platform ismount on the mount path of a: some child serves there.
IsMount(a) == \E c \in KidsOf(a) : kids[c].job = "serving"

FileExists(a) == file[PathOf[a]] # Gone

\* GetArchiveByPath: archive_path is unique, so at most one row is found.
RowsAt(p) == {a \in Archives : PathOf[a] = p /\ Tracked(rows[a])}

With(status) == {a \in Archives : rows[a].status = status}

\* Children dying: SIGTERM/SIGKILL to a group, or a fusermount under them.
Kill(ks, cs) == [c \in Children |-> IF c \in cs THEN Dead ELSE ks[c]]

\* A deleted index file lives on for the child that has it open.
Unlink(ks, a) ==
    [c \in Children |-> IF ks[c] = [of |-> a, job |-> "writing"]
                          THEN [ks[c] EXCEPT !.job = "unlinked"] ELSE ks[c]]

\* NeedsFreshIndex: a path is stored and a non-empty file is there.  A
\* partial index is not told from a finished one.
NeedsFreshIndex(a) == ~rows[a].indexed \/ index[a] = "none"

\* ShouldDeletePartialIndex: never mounted, and in a status before a mount.
PartialIndex(r) ==
    /\ ~r.first
    /\ r.indexed
    /\ r.status \in {"indexing", "index_failed", "discovered", "mount_failed"}

\* Mutant: one observation too many is asked for.
StableOffByOne(p) == gate[p].n > 2

\* The stable-file gate, mode two_scans.
Stable(p) == gate[p].n >= 2

\* Mutant: one more than the limit.
LimitReachedLate(active, limit) == limit > 0 /\ active > limit

LimitReached(active, limit) == limit > 0 /\ active >= limit

\* Rows that hold a slot: supervised, or with a pid that is alive.
HoldsSlot(a) == live[a] # NoLive \/ Alive(rows[a].pid)
ActiveIndexCount == Cardinality({a \in With("indexing") : HoldsSlot(a)})
ActiveMountCount == Cardinality({a \in With("mounting") : HoldsSlot(a)})

\* One step of a tick phase visits one row; the tick moves on when no row
\* the phase has to visit is left.
Visit(name, a) == phase = name /\ a \in todo /\ todo' = todo \ {a}
Enter(name, ids) == phase' = name /\ todo' = ids

Spend == budget > 0 /\ budget' = budget - 1

=============================================================================
