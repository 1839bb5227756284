----------------------------- MODULE Reconciler -----------------------------
(***************************************************************************)
(* Reconciliation of the rows with the processes and the files             *)
(* (internal/reconcile), as the service wires it: WithProbes is called     *)
(* after WithRegistry and replaces all probes, so the Live and             *)
(* ConvertActive probes are nil; DropLive forgets a child without stopping *)
(* it, and there is no UnmountIfMounted.                                   *)
(***************************************************************************)
EXTENDS DaemonState

\* checkInProgress: a dead pid, or too long since the last patch of the row.
\* A row without a pid is left to the retry of stuck work.
InProgressFails(a) ==
    /\ rows[a].status \in {"indexing", "mounting"}
    /\ \/ rows[a].pid # NoChild /\ ~Alive(rows[a].pid)
       \/ rows[a].late

\* Mutant: a dead pid only counts while the mount path is still mounted.
MountUnhealthyBoth(a) ==
    /\ rows[a].status \in {"mounted", "hooks_running"}
    /\ IsMount(a) /\ ~Alive(rows[a].pid)

\* checkHealthyMount: something serves at the mount path and the pid lives.
MountUnhealthy(a) ==
    /\ rows[a].status \in {"mounted", "hooks_running"}
    /\ ~(IsMount(a) /\ Alive(rows[a].pid))

\* applyFail on the patched row r: drop the live entry, count the failure, and
\* with drop take the index file too, if its path is stored.
FailAs(a, r, drop) ==
    LET failed == IF r.status = "indexing" THEN "index_failed"
                                           ELSE "mount_failed"
        wipe   == drop /\ r.indexed
    IN  /\ rows' = [rows EXCEPT ![a] =
             Move(r, {r.status}, failed,
                  [NextAttempt(r) EXCEPT !.indexed = @ /\ ~drop])]
        /\ live' = [live EXCEPT ![a] = NoLive]
        /\ index' = [index EXCEPT ![a] = IF wipe THEN "none" ELSE @]
        /\ kids' = IF wipe THEN Unlink(kids, a) ELSE kids

\* Mutant: the pid of the failed child stays in the row.
ApplyFailKeepsPid(a) ==
    FailAs(a, rows[a], rows[a].status = "indexing" \/ ~rows[a].first)

\* Mutant: the index goes with every failure, first mount or not.
ApplyFailDropsIndex(a) == FailAs(a, ClearPid(rows[a]), TRUE)

\* A failed index pass, and any failure before the first mount, takes the
\* index with it.
ApplyFail(a) ==
    FailAs(a, ClearPid(rows[a]), rows[a].status = "indexing" \/ ~rows[a].first)

ApplyMarkAbsent(a) ==
    /\ rows' = [rows EXCEPT ![a] = MarkAbsent(@)]
    /\ live' = [live EXCEPT ![a] = NoLive]
    /\ UNCHANGED <<index, kids>>

\* An index without a mount to show for it is deleted, and forgotten.
Cleanable(a) == PartialIndex(rows[a]) /\ index[a] # "none"
ApplyCleanupIndex(a) ==
    /\ index' = [index EXCEPT ![a] = "none"]
    /\ kids' = Unlink(kids, a)
    /\ rows' = [rows EXCEPT ![a] = To([@ EXCEPT !.indexed = FALSE], @.status)]
    /\ UNCHANGED live

\* DecideOne and Apply, one row at a time.
ReconcileDue(a) ==
    \/ InProgressFails(a)
    \/ MountUnhealthy(a)
    \/ rows[a].status = "unmounting" /\ ~FileExists(a)
    \/ Cleanable(a) /\ rows[a].status # "indexing"
Reconcile(a) ==
    /\ Visit("reconcile", a)
    /\ \/ InProgressFails(a) /\ ApplyFail(a)
       \/ MountUnhealthy(a) /\ FileExists(a) /\ ApplyFail(a)
       \/ MountUnhealthy(a) /\ ~FileExists(a) /\ ApplyMarkAbsent(a)
       \/ rows[a].status = "unmounting" /\ ~FileExists(a) /\ ApplyMarkAbsent(a)
       \/ Cleanable(a) /\ rows[a].status # "indexing" /\ ApplyCleanupIndex(a)
    /\ UNCHANGED <<world, gate, phase, lowDisk>>

-----------------------------------------------------------------------------
(* Start: CleanupPartialIndexes, Boot, ReconcileOrphanMounts, in this      *)
(* order and before anything else of the daemon runs.                      *)

BootedRows ==
    [a \in Archives |->
       BootRow([rows[a] EXCEPT !.indexed = @ /\ ~Cleanable(a)], FileExists(a))]

\* Mutant: only children of rows that are still there are looked at.
OrphansOfRows(rs) ==
    {c \in Children :
       \E a \in Archives : Tracked(rs[a]) /\ kids[c].of = a
                           /\ ~(rs[a].status \in PidStatuses /\ rs[a].pid = c)}

\* Children that are not the pid of a row in progress or mounted are orphans.
Orphans(rs) ==
    {c \in Children : kids[c] # Dead
                      /\ ~ \E a \in Archives : /\ rs[a].status \in PidStatuses
                                               /\ rs[a].pid = c
                                               /\ kids[c].of = a}

Boot ==
    /\ phase = "down"
    /\ rows' = BootedRows
    /\ index' = [a \in Archives |-> IF Cleanable(a) THEN "none" ELSE index[a]]
    /\ kids' = Kill(kids, Orphans(BootedRows))
    /\ Enter("control", {})
    /\ UNCHANGED <<live, world, gate, lowDisk>>

=============================================================================
