--------------------------- MODULE ArchiveUpkeep ---------------------------
(***************************************************************************)
(* What the daemon does for an archive besides mounting it: the cycle of   *)
(* first-mount hooks (internal/hooks) and the purge of its row and         *)
(* artifacts (internal/cleaner).                                           *)
(***************************************************************************)
EXTENDS MountEngine

ShouldRunHooks(r) ==
    \/ r.hooks \in {"none", "pending", "retry", "running"}
    \/ r.hooks = "failed" /\ RerunFailedHooks

\* enterHooksRunning; the hooks then run for a while, one archive at a time.
EnterHooks(a) ==
    /\ With("hooks_running") = {}
    /\ rows[a].status = "mounted"
    /\ rows' = [rows EXCEPT ![a] =
         To([@ EXCEPT !.hooks = "running"], "hooks_running")]
    /\ UNCHANGED <<live, kids, index, gate, lowDisk>>

\* runPendingHooks at the end of a tick.
HooksDue(a) == rows[a].status = "mounted" /\ ShouldRunHooks(rows[a])
StartHooks(a) ==
    /\ Visit("hooks", a)
    /\ HooksDue(a)
    /\ EnterHooks(a)
    /\ UNCHANGED <<world, phase>>

\* finishSuccess, finishFailed or finishRetry: back to mounted.
FinishHooks(a) ==
    /\ phase \in {"hooks", "ophooks"}
    /\ rows[a].status = "hooks_running"
    /\ \E outcome \in HookOutcomes :
         rows' = [rows EXCEPT ![a] = To([@ EXCEPT !.hooks = outcome], "mounted")]
    /\ phase' = IF phase = "ophooks" THEN "control" ELSE phase
    /\ UNCHANGED <<live, kids, index, world, gate, todo, lowDisk>>

-----------------------------------------------------------------------------

\* PurgeArchive once the row no longer needs an unmount: the stored index
\* goes, the row goes, a child that is left and its registry entry stay.
DropRow(a, ks) ==
    LET wipe == rows[a].indexed
    IN  /\ rows' = [rows EXCEPT ![a] = [@ EXCEPT !.status = "purged",
                                                 !.pid = NoChild,
                                                 !.late = FALSE]]
        /\ index' = [index EXCEPT ![a] = IF wipe THEN "none" ELSE @]
        /\ kids' = IF wipe THEN Unlink(ks, a) ELSE ks

\* ListAbsentPastGrace: any absent row may have been so for long enough.
AbsentPastGrace(a) == rows[a].status = "absent"

PurgeExpired(a) ==
    /\ Visit("clean", a)
    /\ AbsentPastGrace(a)
    /\ DropRow(a, kids)
    /\ UNCHANGED <<live, world, gate, phase, lowDisk>>

PurgeUnmountStatuses ==
    {"mounted", "hooks_running", "indexing", "mounting", "unmounting"}

\* The purge of an administrator: any row, unmounted first where the status
\* says that something may be mounted.
PurgeNow(a) ==
    /\ Tracked(rows[a])
    /\ IF rows[a].status \in PurgeUnmountStatuses
       THEN /\ DropRow(a, Kill(kids, {c \in KidsOf(a) :
                                        \/ c = live[a].pid
                                        \/ kids[c].job = "serving"}))
            /\ live' = [live EXCEPT ![a] = NoLive]
       ELSE /\ DropRow(a, kids)
            /\ UNCHANGED live
    /\ UNCHANGED <<file, gate, phase, todo, lowDisk>>

=============================================================================
