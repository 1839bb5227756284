---------------------------- MODULE MountDaemon ----------------------------
(***************************************************************************)
(* The daemon: its tick (internal/service/tick.go), start, stop and crash, *)
(* composed with its children and with the files it watches, and the       *)
(* properties of the whole.                                                *)
(***************************************************************************)
EXTENDS ControlOps

NewRow(c) ==
    [status |-> "unborn", pid |-> NoChild, tries |-> 0, retryable |-> FALSE,
     first |-> FALSE, indexed |-> FALSE, hooks |-> "none", print |-> c,
     late |-> FALSE]

\* A first start: no rows, no children, any files.
Init ==
    /\ rows \in [Archives -> {NewRow(CHOOSE c \in Contents : TRUE)}]
    /\ live = [a \in Archives |-> NoLive]
    /\ kids = [c \in Children |-> Dead]
    /\ index = [a \in Archives |-> "none"]
    /\ file \in [Paths -> Contents \cup {Gone}]
    /\ gate = [p \in Paths |-> [seen |-> Gone, n |-> 0]]
    /\ phase = "down"
    /\ todo = {}
    /\ lowDisk = FALSE
    /\ budget = Budget

-----------------------------------------------------------------------------
(* The tick.  A phase visits every row that is due and then ends.          *)

Due ==
    CASE phase \in {"scan", "assume"} -> todo
      [] phase = "absent"    -> {a \in todo : AbsentDue(a)}
      [] phase = "reconcile" -> {a \in todo : ReconcileDue(a)}
      [] phase = "progress"  -> {a \in todo : ProgressDue(a)}
      [] phase = "stuck"     -> {a \in todo : StuckDue(a)}
      [] phase = "fresh"     -> {a \in todo : FreshDue(a)}
      [] phase = "failed"    -> {a \in todo : FailedDue(a)}
      [] phase = "hooks"     -> {a \in todo : HooksDue(a)}
                                \cup With("hooks_running")
      [] OTHER               -> {}

Follows ==
    [control   |-> {"reconcile", "clean", "progress"},
     scan      |-> {"absent"},
     assume    |-> {"absent"},
     absent    |-> {"reconcile", "clean", "progress"},
     reconcile |-> {"clean", "progress"},
     clean     |-> {"progress"},
     progress  |-> {"stuck"},
     stuck     |-> {"fresh"},
     fresh     |-> {"failed"},
     failed    |-> {"hooks"},
     hooks     |-> {"control"}]

\* doCleanup ends with what the disk check found.
Cleaned == IF phase = "clean" THEN LowDiskValues ELSE {lowDisk}

\* Reconciling and cleaning wait for their intervals: a tick may skip them.
NextPhase ==
    /\ phase \in DOMAIN Follows
    /\ Due = {}
    /\ \E next \in Follows[phase] :
         Enter(next, IF next = "control" THEN {} ELSE Archives)
    /\ lowDisk' \in Cleaned
    /\ UNCHANGED <<rows, live, kids, index, world, gate>>

\* doScan: the poll interval is over, inotify saw something, or a rescan was
\* asked for.  Attempts are forgiven first.
StartScan ==
    /\ phase = "control"
    /\ rows' = [a \in Archives |-> ResetPresentAttempts(rows[a])]
    /\ Enter("scan", Paths)
    /\ UNCHANGED <<live, kids, index, world, gate, lowDisk>>

StartReconcile ==
    /\ NextPhase
    /\ phase' = "reconcile"

\* Shutdown: unmount what is in progress or mounted, then leave.
StopRow(a) ==
    /\ Visit("stopping", a)
    /\ rows[a].status \in PidStatuses
    /\ Unmount(a)
    /\ UNCHANGED <<index, world, gate, phase, lowDisk>>

\* What the end of the process takes with it: the registry, the gate and the
\* flags; the children too when their group is killed with it.
Exit ==
    /\ Enter("down", {})
    /\ live' = [a \in Archives |-> NoLive]
    /\ gate' = [p \in Paths |-> [seen |-> Gone, n |-> 0]]
    /\ lowDisk' = FALSE
    /\ \/ kids' = [c \in Children |-> Dead]
       \/ UNCHANGED kids
    /\ UNCHANGED <<index, file>>

Shutdown ==
    /\ phase = "stopping"
    /\ \A a \in todo : rows[a].status \notin PidStatuses
    /\ Exit
    /\ UNCHANGED <<rows, budget>>

\* A crash between two rows, or between the two transactions of a row that
\* goes through unmounting.
HalfDone(a) ==
    \/ phase = "absent" /\ a \in todo /\ AbsentDue(a)
    \/ /\ phase \in {"scan", "assume"}
       /\ PathOf[a] \in todo
       /\ rows[a].print # file[PathOf[a]]
       /\ FileExists(a)
       /\ rows[a].status \in ActiveStatuses
       /\ ContentChangeTwoStep(rows[a])
    \/ /\ phase = "reconcile" /\ a \in todo
       /\ MountUnhealthy(a)
       /\ ~FileExists(a)
Crash ==
    /\ phase # "down"
    /\ Spend
    /\ \/ UNCHANGED rows
       \/ \E a \in Archives :
            HalfDone(a) /\ rows' = [rows EXCEPT ![a] = ToUnmounting(@)]
    /\ Exit

RowStep(a) ==
    \/ ScanAbsent(a) \/ Reconcile(a) \/ PurgeExpired(a)
    \/ Progress(a) \/ RetryStuck(a) \/ StartFresh(a) \/ RetryFailed(a)
    \/ StartHooks(a) \/ FinishHooks(a) \/ StopRow(a)
Tick ==
    \/ StartScan \/ NextPhase \/ Shutdown \/ Boot
    \/ \E p \in Paths : ObservePath(p)
    \/ \E a \in Archives : RowStep(a)
Operator ==
    \/ \E a \in Archives : ArchiveRequest(a)
    \/ \E p \in Paths : OpMount(p)
    \/ OpRescanStable \/ OpStop

-----------------------------------------------------------------------------
(* The surroundings: ratarmount children, files, time.                     *)

\* An index child opens the archive and creates the index file, then
\* finishes it; one whose file was deleted finishes for nothing.
KidIndexes(c) ==
    LET a == kids[c].of
    IN  /\ \/ /\ kids[c].job = "opening" /\ FileExists(a)
              /\ kids' = [kids EXCEPT ![c].job = "writing"]
              /\ index' = [index EXCEPT ![a] = IF @ = "none" THEN "partial"
                                                             ELSE @]
           \/ /\ kids[c].job = "writing"
              /\ kids' = [kids EXCEPT ![c] = Dead]
              /\ index' = [index EXCEPT ![a] = "full"]
           \/ /\ kids[c].job = "unlinked"
              /\ kids' = [kids EXCEPT ![c] = Dead]
              /\ UNCHANGED index
        /\ UNCHANGED <<rows, live, world, daemon>>

\* A FUSE child serves, with the index there is or one it makes.
KidServes(c) ==
    LET a == kids[c].of
    IN  /\ kids[c].job = "starting" /\ FileExists(a)
        /\ kids' = [kids EXCEPT ![c].job = "serving"]
        /\ index' = [index EXCEPT ![a] = IF @ = "none" THEN "full" ELSE @]
        /\ UNCHANGED <<rows, live, world, daemon>>

\* Any child may die, and one that cannot open its archive does.
KidDies(c) ==
    /\ kids[c] # Dead
    /\ \/ kids[c].job \in {"opening", "starting"} /\ ~FileExists(kids[c].of)
          /\ UNCHANGED budget
       \/ Spend
    /\ kids' = [kids EXCEPT ![c] = Dead]
    /\ UNCHANGED <<rows, live, index, file, daemon>>

\* An archive appears, is replaced or is removed.
FileChanges(p) ==
    /\ Spend
    /\ \E x \in (Contents \cup {Gone}) \ {file[p]} :
         file' = [file EXCEPT ![p] = x]
    /\ UNCHANGED <<rows, live, kids, index, daemon>>

\* mount_ready_timeout passes without a patch of the row.
TimePasses(a) ==
    /\ Spend
    /\ rows[a].status \in {"indexing", "mounting"}
    /\ ~rows[a].late
    /\ rows' = [rows EXCEPT ![a].late = TRUE]
    /\ UNCHANGED <<live, kids, index, file, daemon>>

Surroundings ==
    \/ \E c \in Children : KidIndexes(c) \/ KidServes(c) \/ KidDies(c)
    \/ \E p \in Paths : FileChanges(p)
    \/ \E a \in Archives : TimePasses(a)

Next == Tick \/ Operator \/ Crash \/ Surroundings

Spec == Init /\ [][Next]_vars

\* The run loop ticks for ever, scans and reconciles at its intervals and is
\* restarted when it is down; children get on with their work.
Fairness ==
    /\ WF_vars(Tick)
    /\ SF_vars(StartScan)
    /\ SF_vars(StartReconcile)
    /\ \A c \in Children : WF_vars(KidIndexes(c) \/ KidServes(c) \/
                                   (kids[c].job \in {"opening", "starting"}
                                    /\ ~FileExists(kids[c].of) /\ KidDies(c)))

FairSpec == Spec /\ Fairness

-----------------------------------------------------------------------------
(* Properties.                                                             *)

\* A row names a pid only in a status that expects a child; every method of
\* the store that leaves such a status has to clear it.
PidDiscipline ==
    \A a \in Archives : rows[a].pid # NoChild => rows[a].status \in PidStatuses

\* Whatever child a row names, and is alive, is the one the registry
\* supervises: no step leaves the two pointing at different processes.
SupervisedPid ==
    phase # "down" =>
      \A a \in Archives :
        Alive(rows[a].pid) => live[a].pid = rows[a].pid /\ kids[rows[a].pid].of = a

\* At most one process of an archive is mounting or serving it: a new FUSE
\* child is only started once the mount path is cleared of older ones.
OneMounter ==
    \A a \in Archives :
      Cardinality({c \in KidsOf(a) : kids[c].job \in {"starting", "serving"}}) <= 1

\* The first mount is on record for every row that is, or was last, mounted;
\* hooks have a result only after it.
FirstMountRecorded ==
    \A a \in Archives :
      /\ rows[a].status \in {"mounted", "hooks_running"} => rows[a].first
      /\ rows[a].hooks # "none" => rows[a].first

\* A mounted archive keeps its index file and the path to it.
MountedKeepsIndex ==
    \A a \in Archives :
      rows[a].status \in {"mounted", "hooks_running"} =>
        rows[a].indexed /\ index[a] # "none"

\* Every row is consistent in itself: no method of the store leaves a pid, a
\* first mount or a hook result that its status contradicts (store.go).
RowsConsistent == PidDiscipline /\ FirstMountRecorded

\* What a row says of its child and its index is so (registry.go, index.go).
RowsMatchSystem == SupervisedPid /\ MountedKeepsIndex

\* The children that build the index of a row which waits for them in
\* indexing, by its pid or by the registry.
AwaitedBuilds ==
    {c \in Children :
       /\ kids[c].job \in {"opening", "writing", "unlinked"}
       /\ \E a \in With("indexing") : c \in KidsOf(a) \cap {rows[a].pid, live[a].pid}}

\* The children whose index a row waits for never exceed max_concurrent_index,
\* whichever of the tick, the operations and a restart starts or takes them
\* over.  A build that the daemon has let go (apply.go, applyFail, and every
\* way out of indexing) runs on and is not among them.
IndexSlotsBounded == Cardinality(AwaitedBuilds) <= MaxIndex

\* No phase of a tick takes a row out of mounted while its child serves the
\* content on record, unless this very scan missed the file.
HealthyMountKept ==
    [][\A a \in Archives :
         /\ phase \notin {"control", "stopping", "down"}
         /\ phase' # "down"
         /\ rows[a].status \in {"mounted", "hooks_running"}
         /\ IsMount(a) /\ Alive(rows[a].pid)
         /\ file[PathOf[a]] = rows[a].print
         /\ phase = "absent" => gate[PathOf[a]].n # 0
         => rows'[a].status \in {"mounted", "hooks_running"}]_vars

\* Once mounted, a complete index is not lost to a failed or dead mount, an
\* unmount or a restart: only a purge, or a rebuild of it, deletes the file.
MountFailureKeepsIndex ==
    [][\A a \in Archives :
         /\ rows[a].first /\ rows'[a].first
         /\ index[a] = "full"
         /\ rows[a].status # "indexing"
         /\ rows'[a].status # "purged"
         => index'[a] = "full"]_vars

\* Start leaves no ratarmount child of an earlier run alive, whether its row
\* is still there or not.
BootLeavesNoOrphan ==
    [][phase = "down" /\ phase' = "control" =>
         \A c \in Children : kids'[c] = Dead]_vars

\* Reconciling leaves the index of a supervised build that ended well, for the
\* mount phase that ProgressLive starts next.
FinishedBuildKept ==
    [][\A a \in Archives :
         /\ phase = "reconcile" /\ phase' = "reconcile"
         /\ rows[a].status = "indexing"
         /\ Check(a) = "index_complete" /\ index[a] = "full"
         /\ ~rows[a].late
         => index'[a] = "full"]_vars

\* A mount whose child died is noticed: the row does not say mounted for ever.
DeadMountNoticed ==
    \A a \in Archives :
      rows[a].status = "mounted" /\ ~Alive(rows[a].pid)
        ~> rows[a].status # "mounted" \/ Alive(rows[a].pid)

\* A file that stays comes to rest as mounted, or in one of the two statuses
\* that wait for an administrator (or the model has no id left for it).
FileSettles ==
    \A p \in Paths :
      <>[](file[p] # Gone) =>
        <>[](\/ \E a \in RowsAt(p) :
                  rows[a].status \in {"mounted", "hooks_running",
                                      "index_failed", "unmounting"}
             \/ RowsAt(p) = {} /\ NewIds(p) = {})

\* A file that is gone for good leaves no row but an absent one.
GoneFileLeaves ==
    \A p \in Paths :
      <>[](file[p] = Gone) => <>[](\A a \in RowsAt(p) : rows[a].status = "absent")

=============================================================================
