--------------------------- MODULE ArchiveStatus ---------------------------
(***************************************************************************)
(* The life cycle of an archive row: its statuses and the transitions the  *)
(* store accepts (internal/state/statuses.go).  Every write of a status    *)
(* goes through Store.Transition, which refuses a pair outside this table. *)
(***************************************************************************)

Statuses ==
    {"discovered", "converting", "indexing", "index_failed", "mounting",
     "mount_failed", "mounted", "hooks_running", "unmounting", "absent"}

\* The value of rows.hooks: one per archive, summed over its hook rows.
HooksStatuses == {"none", "pending", "running", "success", "failed", "retry"}

AllowedTransitions ==
    [discovered    |-> {"converting", "indexing", "mounting", "unmounting",
                        "absent"},
     converting    |-> {"discovered", "indexing", "mounting", "mount_failed",
                        "index_failed", "unmounting", "absent"},
     indexing      |-> {"index_failed", "mounted", "hooks_running",
                        "unmounting", "discovered", "mounting",
                        "mount_failed"},
     index_failed  |-> {"discovered", "unmounting", "absent"},
     mounting      |-> {"mounted", "mount_failed", "hooks_running",
                        "unmounting", "indexing"},
     mount_failed  |-> {"converting", "mounting", "discovered", "unmounting",
                        "absent", "indexing"},
     mounted       |-> {"hooks_running", "unmounting", "mounting",
                        "mount_failed"},
     hooks_running |-> {"mounted", "unmounting", "mount_failed"},
     unmounting    |-> {"absent", "mounted", "discovered", "converting",
                        "mounting", "mount_failed"},
     absent        |-> {"discovered"}]

\* A write that keeps the status is always accepted: it patches fields only.
CanTransition(from, to) == to = from \/ to \in AllowedTransitions[from]

\* Mutant: a failed build is taken for an archive already left behind.
ActiveStatusesUnfailed == Statuses \ {"absent", "index_failed"}

\* Statuses in which the archive file is expected on disk.
ActiveStatuses == Statuses \ {"absent"}

\* Statuses that hold, or expect, the pid of a ratarmount child.
PidStatuses == {"indexing", "mounting", "mounted", "hooks_running"}

=============================================================================
