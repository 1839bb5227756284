----------------------------- MODULE ArchiveRow -----------------------------
(***************************************************************************)
(* One row of the archives table and what the methods of the store         *)
(* (internal/state/store.go) make of it.  Every operator maps the row      *)
(* before a method to the row after it; an operator that stands for a      *)
(* refused transition returns the row it was given.                        *)
(*                                                                         *)
(* A row keeps, of its 25 columns, those on which the daemon decides:      *)
(*   status     archives.status; "unborn" before the row is inserted and   *)
(*              "purged" after it is deleted (ids are never reused)        *)
(*   pid        mount_pid                                                  *)
(*   tries      mount_attempts, counted up to MaxAttempts                  *)
(*   retryable  mount_retryable                                            *)
(*   first      first_mounted_at is set                                    *)
(*   indexed    index_path is set                                          *)
(*   hooks      hooks_status                                               *)
(*   print      fingerprint                                                *)
(*   late       indexing/mounting, index_started_at older than the timeout *)
(***************************************************************************)
EXTENDS ArchiveStatus, Integers

CONSTANTS
    Contents,      \* what an archive file may hold, told apart by fingerprint
    Children,      \* ratarmount processes
    NoChild,       \* no process
    MaxAttempts    \* config max_mount_attempts

ASSUME RowAssumption ==
    /\ Contents # {}
    /\ NoChild \notin Children
    /\ MaxAttempts \in Nat \ {0}

Rows ==
    [status    : Statuses \cup {"unborn", "purged"},
     pid       : Children \cup {NoChild},
     tries     : 0..MaxAttempts,
     retryable : BOOLEAN,
     first     : BOOLEAN,
     indexed   : BOOLEAN,
     hooks     : HooksStatuses,
     print     : Contents,
     late      : BOOLEAN]

Tracked(r) == r.status \in Statuses

\* The fields Transition fills in by itself: entering (or patching) indexing
\* or mounting restarts the clock, which no other status reads, and the first
\* step from either to mounted or hooks_running records the first mount.
To(r, status) ==
    [r EXCEPT !.status = status,
              !.late = FALSE,
              !.first = @ \/ /\ status \in {"mounted", "hooks_running"}
                             /\ r.status \in {"indexing", "mounting"}]

\* A transition guarded by the statuses the caller expects the row to be in.
Move(r, expected, status, r2) ==
    IF r.status \in expected /\ CanTransition(r.status, status)
      THEN To(r2, status) ELSE r

\* Mutant: the pid column is left out of the patch.
ClearPidForgotten(r) == r

ClearPid(r) == [r EXCEPT !.pid = NoChild]

\* NextMountAttempt: one more failure, retryable while below the maximum.
\* The count stops at the maximum: past it only "not retryable" is read.
NextAttempt(r) ==
    LET n == IF r.tries < MaxAttempts THEN r.tries + 1 ELSE MaxAttempts
    IN  [r EXCEPT !.tries = n, !.retryable = n < MaxAttempts]

InsertDiscovered(r, content) ==
    [r EXCEPT !.status = "discovered", !.pid = NoChild, !.tries = 0,
              !.retryable = TRUE, !.first = FALSE, !.indexed = FALSE,
              !.hooks = "none", !.print = content, !.late = FALSE]

\* Reappear: absent -> discovered, attempts forgiven.
Reappear(r, content) ==
    Move(r, {"absent"}, "discovered",
         [r EXCEPT !.tries = 0, !.retryable = TRUE, !.print = content])

\* TouchSeen patches last_seen_at through Transition, status kept.
TouchSeen(r) == To(r, r.status)

\* First transaction of MarkAbsent and of a two-step RecordContentChange.
ToUnmounting(r) == Move(r, {r.status}, "unmounting", ClearPid(r))

\* MarkAbsent: through unmounting unless the row is there or absent already.
MarkAbsent(r) ==
    LET u == IF r.status \in {"absent", "unmounting"}
               THEN ClearPid(r) ELSE ToUnmounting(r)
    IN  Move(u, {"absent", "unmounting"}, "absent", u)

\* RecordContentChange: back to discovered, directly where the table allows
\* it and otherwise through unmounting; converting always takes two steps.
ContentChangeTwoStep(r) ==
    r.status \notin {"discovered", "unmounting", "absent", "index_failed",
                     "mount_failed", "indexing"}

RecordContentChange(r, content, resetHooks) ==
    LET u == IF ContentChangeTwoStep(r) THEN ToUnmounting(r) ELSE r
        c == [ClearPid(u) EXCEPT !.print = content, !.tries = 0,
                                 !.retryable = TRUE, !.late = FALSE,
                                 !.first = @ /\ ~resetHooks,
                                 !.hooks = IF resetHooks THEN "none" ELSE @]
    IN  Move(u, {u.status}, "discovered", c)

\* reconcileObservation of the scanner, for the row found at a path: content
\* is what the path holds now.
ObservedRow(r, content, resetHooks) ==
    CASE r.status = "absent" -> Reappear(r, content)
      [] r.status # "absent" /\ r.print # content ->
           RecordContentChange(r, content, resetHooks)
      [] OTHER -> TouchSeen(r)

\* ResetMountAttempts(requeue = true).
ResetMountAttempts(r) ==
    LET c == [r EXCEPT !.tries = 0, !.retryable = TRUE]
    IN  To(c, CASE r.status = "index_failed" -> "discovered"
                [] r.status = "mount_failed" -> "mounting"
                [] OTHER                     -> r.status)

\* ResetAllPresentAttempts: a plain UPDATE, so no field is filled in.
ResetPresentAttempts(r) ==
    IF r.status \in ActiveStatuses
      THEN [r EXCEPT !.tries = 0, !.retryable = TRUE] ELSE r

-----------------------------------------------------------------------------
(* Boot, before anything else of the daemon runs.                          *)

RequeueTarget(r) ==
    IF r.status = "mounting" \/ r.first THEN "mount_failed" ELSE "discovered"

\* Mutant: a row in converting is left to its job.
BootRowConverting(r, exists) ==
    CASE r.status \in {"indexing", "mounting"} ->
           To(ClearPid(r), RequeueTarget(r))
      [] r.status \in {"mounted", "hooks_running"} /\ exists ->
           To([ClearPid(r) EXCEPT !.retryable = TRUE], "mount_failed")
      [] OTHER -> r

\* PlanBoot for a row and its application; exists: its archive is there.
BootRow(r, exists) ==
    CASE r.status \in {"indexing", "mounting"} ->
           To(ClearPid(r), RequeueTarget(r))
      [] r.status \in {"unmounting", "converting"} /\ exists ->
           To([ClearPid(r) EXCEPT !.retryable = TRUE], RequeueTarget(r))
      [] r.status \in {"mounted", "hooks_running"} /\ exists ->
           To([ClearPid(r) EXCEPT !.retryable = TRUE], "mount_failed")
      [] /\ r.status \in {"unmounting", "converting", "mounted", "hooks_running"}
         /\ ~exists ->
           MarkAbsent(r)
      [] /\ r.status \in {"discovered", "index_failed", "mount_failed"}
         /\ r.pid # NoChild ->
           To(ClearPid(r), r.status)
      [] OTHER -> r

-----------------------------------------------------------------------------
(* What the methods of the store keep true of a single row.                *)

\* The pid column of a row in a status without a child is empty.
PidOK(r) == r.pid # NoChild => r.status \in PidStatuses

\* A row that is mounted, or ran hooks, has its first mount on record.
FirstOK(r) ==
    /\ r.status \in {"mounted", "hooks_running"} => r.first
    /\ r.hooks # "none" => r.first

SoundRow(r) == r \in Rows /\ PidOK(r) /\ FirstOK(r)

=============================================================================
