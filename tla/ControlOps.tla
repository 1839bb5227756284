----------------------------- MODULE ControlOps -----------------------------
(***************************************************************************)
(* The operations of the control plane that change state                   *)
(* (internal/service/control_ops.go), from the control socket or over      *)
(* HTTP.  They hold opMu, so they run between two phases of the daemon:    *)
(* always in phase "control".  Each uses up a disturbance.                 *)
(***************************************************************************)
EXTENDS ArchiveUpkeep, Scanner, Reconciler

Request == phase = "control" /\ Spend

OpRetry(a) ==
    /\ Request
    /\ Tracked(rows[a])
    /\ rows' = [rows EXCEPT ![a] = ResetMountAttempts(@)]
    /\ UNCHANGED <<live, kids, index, file, gate, phase, todo, lowDisk>>

OpUnmount(a) ==
    /\ Request
    /\ Tracked(rows[a])
    /\ Unmount(a)
    /\ UNCHANGED <<index, file, gate, phase, todo, lowDisk>>

OpPurge(a) == Request /\ PurgeNow(a)

\* hooks_run with force: also after a cycle that ended for good.
OpHooksRun(a) ==
    /\ Request
    /\ EnterHooks(a)
    /\ Enter("ophooks", {})
    /\ UNCHANGED file

\* The requests that name an archive, which the HTTP API passes on too.
ArchiveRequest(a) == OpRetry(a) \/ OpUnmount(a) \/ OpPurge(a) \/ OpHooksRun(a)

\* mount by path: a row is inserted, and taken as stable, when there is none;
\* BeginMount is tried whatever the status of the row.
OpMount(p) ==
    /\ Request
    /\ file[p] # Gone
    /\ \/ /\ \E a \in RowsAt(p), ok \in BOOLEAN :
               BeginMount(a, rows[a], ~rows[a].first, ok)
          /\ UNCHANGED gate
       \/ /\ RowsAt(p) = {}
          /\ \E a \in NewIds(p), ok \in BOOLEAN :
               BeginMount(a, InsertDiscovered(rows[a], file[p]), TRUE, ok)
          /\ gate' = [gate EXCEPT ![p] = [seen |-> file[p], n |-> 2]]
    /\ UNCHANGED <<file, phase, todo, lowDisk>>

\* rescan with assume_stable; a plain rescan is an early scan of the tick.
OpRescanStable ==
    /\ Request
    /\ rows' = [a \in Archives |-> ResetPresentAttempts(rows[a])]
    /\ Enter("assume", Paths)
    /\ UNCHANGED <<live, kids, index, file, gate, lowDisk>>

\* stop: the run loop leaves after the tick and Shutdown begins.
OpStop ==
    /\ Request
    /\ Enter("stopping", Archives)
    /\ UNCHANGED <<rows, live, kids, index, file, gate, lowDisk>>

=============================================================================
