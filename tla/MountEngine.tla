---------------------------- MODULE MountEngine ----------------------------
(***************************************************************************)
(* The mount engine (internal/mounter): it claims a row, starts the index  *)
(* child and then the FUSE child, polls the supervised children, and       *)
(* unmounts.  Conversion and relocation of archives are not configured     *)
(* here (ConvertJobs models the former).                                   *)
(***************************************************************************)
EXTENDS DaemonState

\* Pids a new child may get: of no process and, so that a reference is never
\* to two processes, named by no other row.
FreeFor(a, ks) ==
    {c \in Children : /\ ks[c] = Dead
                      /\ \A b \in Archives \ {a} : /\ live[b].pid # c
                                                   /\ rows[b].pid # c}

\* StartProcess refuses an archive that is not there; a directory that cannot
\* be made, or a command that cannot be started, uses up a disturbance.
Spawns(a, ok) == IF ok \/ ~FileExists(a) THEN UNCHANGED budget ELSE Spend

\* Mutant: only what serves at the mount path is cleared, not what is about to.
ClearStaleMountHoldersServing(ks, a) ==
    Kill(ks, {c \in KidsOf(a) : ks[c].job = "serving"})

\* ClearStaleMountHolders(mountPath, keepPID = 0): every child of a, the ones
\* that only index included, since all name the mount path.
ClearStaleMountHolders(ks, a) == Kill(ks, KidsOf(a))

\* Mutant: a status that is not one of the store's.
FailedStatusUnknown(indexing) == IF indexing THEN "index_failed" ELSE "failed"

FailedStatus(indexing) == IF indexing THEN "index_failed" ELSE "mount_failed"

\* beginMountProcess from the row r of a, with the processes ks and the
\* registry lv: claim the work status, clear whatever holds the mount path
\* when about to mount, spawn, register the child and store its pid.  A
\* refused spawn books the failure of failStart, and one more when twice.
StartProcess(a, r, ks, lv, indexing, ok, twice) ==
    LET target  == IF indexing THEN "indexing" ELSE "mounting"
        claimed == Move(r, {r.status}, target, [r EXCEPT !.indexed = TRUE])
        cleared == IF indexing THEN ks ELSE ClearStaleMountHolders(ks, a)
        once    == NextAttempt(ClearPid(claimed))
        failed  == To(IF twice THEN NextAttempt(once) ELSE once,
                      FailedStatus(indexing))
    IN  IF ok
        THEN FileExists(a) /\ \E c \in FreeFor(a, cleared) :
               /\ rows' = [rows EXCEPT ![a] = To([claimed EXCEPT !.pid = c],
                                                 target)]
               /\ live' = [lv EXCEPT ![a] =
                    [pid |-> c, phase |-> IF indexing THEN "index_only"
                                                      ELSE "mount"]]
               /\ kids' = [cleared EXCEPT ![c] =
                    [of |-> a, job |-> IF indexing THEN "opening"
                                                   ELSE "starting"]]
        ELSE /\ rows' = [rows EXCEPT ![a] = failed]
             /\ kids' = cleared
             /\ live' = lv

\* BeginMount on the row r of a: partial-index cleanup first, then nothing
\* for work that is under way or has no slot, else a child.  first is the
\* caller's claim that an index pass is needed.
BeginMount(a, r, first, ok) ==
    LET wipe    == PartialIndex(r) /\ index[a] # "none"
        idx     == IF wipe THEN "none" ELSE index[a]
        ks      == IF wipe THEN Unlink(kids, a) ELSE kids
        needs   == first \/ ~r.indexed \/ idx = "none"
        target  == IF needs THEN "indexing" ELSE "mounting"
        resumed == r.status \in {"indexing", "mounting", "hooks_running"}
        running == resumed /\ (live[a] # NoLive \/ (Alive(r.pid) /\ IsMount(a)))
        full    == IF needs THEN LimitReached(ActiveIndexCount, MaxIndex)
                            ELSE LimitReached(ActiveMountCount, MaxMount)
    IN  /\ index' = [index EXCEPT ![a] = idx]
        /\ IF running \/ full \/ ~CanTransition(r.status, target)
           THEN /\ ok
                /\ rows' = [rows EXCEPT ![a] = r]
                /\ kids' = ks
                /\ UNCHANGED live
           ELSE StartProcess(a, r, ks, live, needs, ok, FALSE)

\* MarkFailed: the status follows the phase of the supervised child; an index
\* the phase was building, or that is not there, is dropped.
MarkFailed(a) ==
    LET r        == rows[a]
        building == live[a].phase = "index_only"
        drop     == building \/ index[a] = "none"
        failed   == FailedStatus(building)
    IN  IF ~Tracked(r) THEN UNCHANGED <<rows, live, index, kids>>
        ELSE /\ rows' = [rows EXCEPT ![a] =
                  Move(r, {"indexing", "mounting", failed}, failed,
                       [NextAttempt(ClearPid(r)) EXCEPT !.indexed = @ /\ ~drop])]
             /\ live' = [live EXCEPT ![a] = NoLive]
             /\ index' = [index EXCEPT ![a] = IF drop THEN "none" ELSE @]
             /\ kids' = IF drop THEN Unlink(kids, a) ELSE kids

\* CompleteIndexAndStartMount, and MarkFailed when it returns an error: the
\* index entry is dropped, the row moves on to mounting and the FUSE child is
\* started at once, whatever the mount slots say.  A row that left indexing
\* keeps its status; a failed spawn is counted twice.
CompleteIndex(a, ok) ==
    LET r       == rows[a]
        dropped == [live EXCEPT ![a] = IF Tracked(r) THEN NoLive ELSE @]
    IN  /\ IF r.status = "indexing"
           THEN StartProcess(a, To(r, "mounting"), kids, dropped, FALSE, ok, TRUE)
           ELSE /\ ok
                /\ rows' = [rows EXCEPT ![a] =
                     Move(r, {"mounting", "mount_failed"}, "mount_failed",
                          NextAttempt(ClearPid(r)))]
                /\ live' = dropped
                /\ UNCHANGED kids
        /\ UNCHANGED index

\* MarkMounted: promote, with the pid of the supervised child.
MarkMounted(a) ==
    /\ rows' = [rows EXCEPT ![a] =
         Move(@, {"indexing", "mounting", "mounted"}, "mounted",
              [@ EXCEPT !.pid = live[a].pid])]
    /\ UNCHANGED <<live, kids, index>>

\* ProcessPoll: the one Wait on the supervised child has returned.
Exited(a) == ~Alive(live[a].pid)

\* CheckChild.  An index child that is gone left a complete index when any
\* index file is there: its exit code is not looked at.
Check(a) ==
    CASE live[a] = NoLive -> "unknown"
      [] live[a].phase = "index_only" ->
           IF ~Exited(a) THEN "running"
           ELSE IF index[a] # "none" THEN "index_complete" ELSE "exited"
      [] OTHER ->
           IF IsMount(a)
             THEN IF index[a] # "none" THEN "mounted" ELSE "running"
           ELSE IF Exited(a) THEN "exited" ELSE "running"

\* ProgressLive, one supervised child at a time.
ProgressDue(a) == Check(a) \in {"index_complete", "mounted", "exited"}
Progress(a) ==
    /\ Visit("progress", a)
    /\ \/ /\ Check(a) = "index_complete"
          /\ \E ok \in BOOLEAN : CompleteIndex(a, ok) /\ Spawns(a, ok)
       \/ /\ Check(a) = "mounted"
          /\ MarkMounted(a)
          /\ UNCHANGED budget
       \/ /\ Check(a) = "exited"
          /\ MarkFailed(a)
          /\ UNCHANGED budget
    /\ UNCHANGED <<file, gate, phase, lowDisk>>

\* Unmount(toAbsent = false): the status first, then the supervised child,
\* then whatever still serves at the mount path; the pid in the row is
\* cleared before it could be used to find an unsupervised child.
Unmount(a) ==
    /\ rows' = [rows EXCEPT ![a] = IF @.status = "absent" THEN @
                                     ELSE ToUnmounting(@)]
    /\ kids' = Kill(kids, {c \in KidsOf(a) : \/ c = live[a].pid
                                             \/ kids[c].job = "serving"})
    /\ live' = [live EXCEPT ![a] = NoLive]

\* startPendingWork in its three queues.  Rows interrupted in indexing or
\* mounting come first ...
StuckDue(a) ==
    /\ rows[a].status \in {"indexing", "mounting"}
    /\ live[a] = NoLive
    /\ ~Alive(rows[a].pid)
    /\ FileExists(a)
    /\ rows[a].retryable
\* ... then rows never indexed, while the disk is not low, ...
FreshDue(a) ==
    /\ rows[a].status = "discovered"
    /\ ~lowDisk
    /\ ActiveIndexCount < MaxIndex
    /\ Stable(PathOf[a])
    /\ FileExists(a)
    /\ rows[a].retryable
\* ... then failed mounts, up to the first one that finds no slot.
FailedDue(a) ==
    /\ rows[a].status = "mount_failed"
    /\ rows[a].retryable
    /\ FileExists(a)
NoSlot(a) == IF NeedsFreshIndex(a) THEN ActiveIndexCount >= MaxIndex
                                   ELSE LimitReached(ActiveMountCount, MaxMount)

StartWork(a, first) ==
    /\ \E ok \in BOOLEAN : BeginMount(a, rows[a], first, ok) /\ Spawns(a, ok)
    /\ UNCHANGED <<file, gate, phase, lowDisk>>

RetryStuck(a) == Visit("stuck", a) /\ StuckDue(a) /\ StartWork(a, ~rows[a].first)
StartFresh(a) == Visit("fresh", a) /\ FreshDue(a) /\ StartWork(a, TRUE)
RetryFailed(a) ==
    \/ Visit("failed", a) /\ FailedDue(a) /\ ~NoSlot(a) /\ StartWork(a, FALSE)
    \/ /\ phase = "failed" /\ a \in todo /\ FailedDue(a) /\ NoSlot(a)
       /\ todo' = {}
       /\ UNCHANGED <<rows, live, kids, index, world, phase, gate, lowDisk>>

=============================================================================
