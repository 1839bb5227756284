----------------------------- MODULE HookCycle -----------------------------
(***************************************************************************)
(* What the first-mount hooks of an archive promise, without hook rows,    *)
(* retries, processes or modes: a cycle belongs to a mounted archive, and  *)
(* it ends in success only if every hook it found has exited 0 for the     *)
(* archive as it is, or was waived because another one failed for good.    *)
(* HooksRunner implements this.                                            *)
(***************************************************************************)
EXTENDS ArchiveRow

CONSTANTS
    Hooks    \* names of the executables in hooks_dir

VARIABLES
    row,     \* the row of the archive
    wanted,  \* hooks found when the cycle began; none outside of a cycle
    served,  \* hooks that exited 0 since the archive was last taken as new
    waived   \* hooks given up

hookVars == <<row, wanted, served, waived>>

Init ==
    /\ row \in {r \in Rows : r.status = "discovered" /\ r.hooks = "none"}
    /\ wanted = {}
    /\ served = {}
    /\ waived = {}

Begin ==
    /\ row.status \in {"mounted", "hooks_running"}
    /\ row' = To([row EXCEPT !.hooks = "running"], "hooks_running")
    /\ wanted' \in SUBSET Hooks
    /\ UNCHANGED <<served, waived>>

Serve(h) ==
    /\ row.status = "hooks_running"
    /\ h \in wanted
    /\ served' = served \cup {h}
    /\ UNCHANGED <<row, wanted, waived>>

\* A hook is waived for the sake of another one of the cycle.
Waive(h) ==
    /\ row.status = "hooks_running"
    /\ h \in wanted
    /\ wanted # {h}
    /\ waived' = waived \cup {h}
    /\ UNCHANGED <<row, wanted, served>>

\* Success also needs at least one hook not waived, where there are hooks.
Settle(outcome) ==
    /\ row.status = "hooks_running"
    /\ outcome = "success" => /\ wanted \subseteq served \cup waived
                              /\ wanted # {} => wanted \cap served # {}
    /\ row' = To([row EXCEPT !.hooks = outcome], "mounted")
    /\ wanted' = {}
    /\ UNCHANGED <<served, waived>>

\* The mount is lost or comes back, the daemon is restarted, the end cannot
\* be written: a cycle is cut short, and nothing served is forgotten.
Elsewhere ==
    /\ row' \in {r \in Rows : r.status # "hooks_running"} \cup {row}
    /\ row'.hooks = row.hooks
    /\ wanted' = {}
    /\ UNCHANGED <<served, waived>>

\* The archive is taken as new.
Renew ==
    /\ row' \in {r \in Rows : r.status # "hooks_running"}
    /\ row'.hooks = "none"
    /\ wanted' = {}
    /\ served' = {}
    /\ waived' = {}

Next ==
    \/ Begin
    \/ \E h \in Hooks : Serve(h) \/ Waive(h)
    \/ \E outcome \in {"success", "failed", "retry"} : Settle(outcome)
    \/ Elsewhere
    \/ Renew

Spec == Init /\ [][Next]_hookVars

=============================================================================
