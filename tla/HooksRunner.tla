---------------------------- MODULE HooksRunner ----------------------------
(***************************************************************************)
(* The first-mount hooks of one archive in full (internal/hooks and the    *)
(* hooks table of the store): discovery and refusal, the sequential and    *)
(* the parallel loop, processes and their exits, retries, what is written  *)
(* when, and crashes between any two of these.  Cycles of different        *)
(* archives follow each other and share nothing.                           *)
(***************************************************************************)
EXTENDS ArchiveRow, Sequences, SequencesExt

CONSTANTS
    Hooks,        \* names of the executables that may be in hooks_dir
    Order,        \* these names, sorted
    MaxRetries,   \* config hook_max_retries
    Modes,        \* values of <<hooks_parallel, hooks_stop_on_hard_fail>>
    RerunFailed,  \* config hook_rerun_on_failure
    ResetHooks,   \* on_content_change = remount_reset_hooks
    Budget        \* bound: disturbances

ASSUME HooksAssumption ==
    /\ Order \in Seq(Hooks) /\ ToSet(Order) = Hooks /\ IsInjective(Order)
    /\ MaxRetries \in Nat
    /\ Modes \subseteq [parallel : BOOLEAN, stop : BOOLEAN]
    /\ RerunFailed \in BOOLEAN /\ ResetHooks \in BOOLEAN
    /\ Budget \in Nat

VARIABLES
    row,      \* the row of the archive
    hookRow,  \* its rows in the hooks table
    dir,      \* what is in hooks_dir under a name
    cycle,    \* RunForArchive while it runs
    proc,     \* the process of a hook
    served,   \* history: hooks that exited 0 since the archive was last new
    budget

vars == <<row, hookRow, dir, cycle, proc, served, budget>>

\* What is not a hook by name or mode counts as absent.
Entries == {"absent", "safe", "unsafe"}
HookRowStatuses ==
    {"pending", "running", "success", "failed", "retry", "skipped"}
NoHookRow == [status |-> "none", attempts |-> 0]

\* "begun": its goroutine has started; "exited ...": not yet waited for.
Procs == {"none", "begun", "running", "ok", "tempfail", "hardfail"}

NoCycle == [on |-> FALSE, refused |-> FALSE, stop |-> FALSE,
            names |-> {}, queue |-> {},
            mode |-> [parallel |-> FALSE, stop |-> FALSE],
            result |-> [h \in Hooks |-> "none"]]

\* names: the hooks found; queue: those the loop has not come to; stop: a hook
\* has failed for good; result: what the loop returns of each.
Cycles == [on : BOOLEAN, refused : BOOLEAN, stop : BOOLEAN,
           names : SUBSET Hooks, queue : SUBSET Hooks,
           mode : [parallel : BOOLEAN, stop : BOOLEAN],
           result : [Hooks -> {"none", "success", "failed", "retry", "skipped"}]]

\* Attempts are only compared with MaxRetries, so they stop one above.
TypeOK ==
    /\ row \in Rows
    /\ hookRow \in [Hooks -> [status : HookRowStatuses \cup {"none"},
                              attempts : 0..(MaxRetries + 1)]]
    /\ dir \in [Hooks -> Entries]
    /\ proc \in [Hooks -> Procs]
    /\ served \subseteq Hooks
    /\ budget \in 0..Budget
    /\ cycle \in Cycles
    /\ cycle.on \/ cycle = NoCycle
    /\ cycle.queue \subseteq cycle.names

Init ==
    /\ row = [status |-> "discovered", pid |-> NoChild, tries |-> 0,
              retryable |-> TRUE, first |-> FALSE, indexed |-> FALSE,
              hooks |-> "none", print |-> CHOOSE c \in Contents : TRUE,
              late |-> FALSE]
    /\ hookRow = [h \in Hooks |-> NoHookRow]
    /\ dir \in [Hooks -> Entries]
    /\ cycle = NoCycle
    /\ proc = [h \in Hooks |-> "none"]
    /\ served = {}
    /\ budget = Budget

Spend == budget > 0 /\ budget' = budget - 1
Idle == ~cycle.on

-----------------------------------------------------------------------------
(* RunForArchive up to the first hook.                                     *)

ShouldRunHooks ==
    \/ row.hooks \in {"none", "pending", "retry", "running"}
    \/ row.hooks = "failed" /\ RerunFailed

DiscoverHooks == {h \in Hooks : dir[h] # "absent"}

\* One hook that fails the security checks refuses the whole cycle.
Refused == \E h \in Hooks : dir[h] = "unsafe"

\* SeedHooks inserts the rows that are missing.
SeedHooks(names) ==
    [h \in Hooks |-> IF h \in names /\ hookRow[h] = NoHookRow
                       THEN [status |-> "pending", attempts |-> 0]
                       ELSE hookRow[h]]

\* enterHooksRunning, with the list of hooks to run (none if refused).
Enter ==
    LET names == IF Refused THEN {} ELSE DiscoverHooks
    IN  /\ row' = To([row EXCEPT !.hooks = "running"], "hooks_running")
        /\ hookRow' = SeedHooks(names)
        /\ \E mode \in Modes :
             cycle' = [NoCycle EXCEPT !.on = TRUE, !.refused = Refused,
                                      !.names = names, !.queue = names,
                                      !.mode = mode]
        /\ UNCHANGED <<dir, proc, served>>

\* runPendingHooks of a tick, and opHooksRun, which may force.
TickHooks ==
    /\ Idle
    /\ row.status = "mounted"
    /\ ShouldRunHooks
    /\ Enter
    /\ UNCHANGED budget

RequestHooks(force) ==
    /\ Idle
    /\ row.status \in {"mounted", "hooks_running"}
    /\ force \/ ShouldRunHooks
    /\ Enter
    /\ Spend

-----------------------------------------------------------------------------
(* The loops of runSequential and runParallel: one step per hook.          *)

SetHook(h, status) ==
    hookRow' = [hookRow EXCEPT ![h] = [@ EXCEPT !.status = status]]
Result(h, status) ==
    cycle' = [cycle EXCEPT !.queue = @ \ {h},
                           !.result = [@ EXCEPT ![h] = status]]

Before(h, g) ==
    \E i, j \in DOMAIN Order : i < j /\ Order[i] = h /\ Order[j] = g

\* The loop takes the hooks by name.  In sequence, it waits for the hook it
\* has started.
LoopAt(h) ==
    /\ cycle.on
    /\ h \in cycle.queue
    /\ \A g \in cycle.queue \ {h} : Before(h, g)
    /\ cycle.mode.parallel \/ \A g \in Hooks : proc[g] = "none"

\* After a hard failure what follows is skipped, whatever its row says.
SkipRest(h) ==
    /\ LoopAt(h)
    /\ cycle.stop
    /\ SetHook(h, "skipped")
    /\ Result(h, "skipped")
    /\ UNCHANGED <<row, dir, proc, served, budget>>

\* Mutant: the row is not looked at before the hook is run.
SettledRowForgotten(h) == hookRow[h].status = "skipped"

SettledRow(h) == hookRow[h].status \in {"success", "skipped"}

KeepSettled(h) ==
    /\ LoopAt(h)
    /\ ~cycle.stop
    /\ SettledRow(h)
    /\ Result(h, hookRow[h].status)
    /\ UNCHANGED <<row, hookRow, dir, proc, served, budget>>

Launch(h) ==
    /\ LoopAt(h)
    /\ ~cycle.stop
    /\ ~SettledRow(h)
    /\ cycle' = [cycle EXCEPT !.queue = @ \ {h}]
    /\ proc' = [proc EXCEPT ![h] = "begun"]
    /\ UNCHANGED <<row, hookRow, dir, served, budget>>

-----------------------------------------------------------------------------
(* runOne: the row says running before the process starts.                 *)

Attempt(h) == IF hookRow[h].attempts > MaxRetries THEN hookRow[h].attempts
              ELSE hookRow[h].attempts + 1

\* What is recorded of a hook, in its row and for the cycle.  An error of the
\* write is ignored: the row goes on to say running.
Record(h, status, attempts) ==
    /\ \E kept \in {status, "running"} :
         /\ hookRow' = [hookRow EXCEPT ![h] = [status |-> kept,
                                               attempts |-> attempts]]
         /\ IF kept = status THEN UNCHANGED budget ELSE Spend
    /\ proc' = [proc EXCEPT ![h] = "none"]
    /\ cycle' = [cycle EXCEPT !.result = [@ EXCEPT ![h] = status],
                              !.stop = @ \/ /\ status = "failed"
                                            /\ cycle.mode.stop
                                            /\ ~cycle.mode.parallel]

StartHook(h) ==
    /\ proc[h] = "begun"
    /\ dir[h] # "absent"
    /\ hookRow' = [hookRow EXCEPT ![h] = [status |-> "running",
                                          attempts |-> Attempt(h)]]
    /\ proc' = [proc EXCEPT ![h] = "running"]
    /\ UNCHANGED <<row, dir, cycle, served, budget>>

\* The file went away since it was found: no process, a hard failure.
SpawnError(h) ==
    /\ proc[h] = "begun"
    /\ dir[h] = "absent"
    /\ Record(h, "failed", Attempt(h))
    /\ UNCHANGED <<row, dir, served>>

HookExits(h) ==
    /\ proc[h] = "running"
    /\ \E code \in {"ok", "tempfail", "hardfail"} :
         /\ proc' = [proc EXCEPT ![h] = code]
         /\ served' = IF code = "ok" THEN served \cup {h} ELSE served
    /\ UNCHANGED <<row, hookRow, dir, cycle, budget>>

\* Mutant: the retries are never exhausted.
ClassifyExitPatient(code, attempts) ==
    IF code = "ok" THEN "success"
    ELSE IF code = "tempfail" /\ attempts <= MaxRetries + 1 THEN "retry"
    ELSE "failed"

ClassifyExit(code, attempts) ==
    IF code = "ok" THEN "success"
    ELSE IF code = "tempfail" /\ attempts <= MaxRetries THEN "retry"
    ELSE "failed"

\* The wait returns; a timeout (classified like a temporary failure) kills
\* what still runs and may overtake an exit that was not yet waited for.
HookDone(h) ==
    \/ /\ proc[h] \in {"ok", "tempfail", "hardfail"}
       /\ Record(h, ClassifyExit(proc[h], hookRow[h].attempts),
                 hookRow[h].attempts)
       /\ UNCHANGED <<row, dir, served>>
    \/ /\ proc[h] \in {"running", "ok", "tempfail", "hardfail"}
       /\ Record(h, ClassifyExit("tempfail", hookRow[h].attempts),
                 hookRow[h].attempts)
       /\ UNCHANGED <<row, dir, served>>

-----------------------------------------------------------------------------

\* Mutant: hooks that are only skipped do not count.
AggregateLenient(results) ==
    IF "failed" \in results THEN "failed"
    ELSE IF "retry" \in results THEN "retry"
    ELSE "success"

\* AggregateStatus, on the results of this cycle.
AggregateStatus(results) ==
    IF "failed" \in results THEN "failed"
    ELSE IF "retry" \in results THEN "retry"
    ELSE IF "skipped" \in results /\ "success" \notin results THEN "failed"
    ELSE "success"

CycleOver ==
    /\ cycle.on
    /\ cycle.queue = {}
    /\ \A h \in Hooks : proc[h] = "none"

\* finishSuccess, finishFailed or finishRetry.
Finish ==
    /\ CycleOver
    /\ LET results == {cycle.result[h] : h \in cycle.names}
           outcome == IF cycle.refused THEN "failed"
                      ELSE AggregateStatus(results)
       IN  row' = To([row EXCEPT !.hooks = outcome], "mounted")
    /\ cycle' = NoCycle
    /\ UNCHANGED <<hookRow, dir, proc, served, budget>>

\* The last transition fails and the cycle ends with an error: the row stays
\* in hooks_running, where no tick looks for it.
FinishFails ==
    /\ CycleOver
    /\ cycle' = NoCycle
    /\ Spend
    /\ UNCHANGED <<row, hookRow, dir, proc, served>>

-----------------------------------------------------------------------------
(* Around the hooks.                                                       *)

\* The engine mounts the archive (MountDaemon has how).
Mount ==
    /\ Idle
    /\ row.status \in {"discovered", "mount_failed"}
    /\ row' = To(To(row, "mounting"), "mounted")
    /\ UNCHANGED <<hookRow, dir, cycle, proc, served, budget>>

\* A reconcile pass finds the mount gone.
MountLost ==
    /\ Idle
    /\ row.status \in {"mounted", "hooks_running"}
    /\ row' = To(ClearPid(row), "mount_failed")
    /\ Spend
    /\ UNCHANGED <<hookRow, dir, cycle, proc, served>>

\* Mutant: the hook rows stay.
ContentChangeKeepsRows(c) ==
    /\ Idle
    /\ row.print # c
    /\ row' = RecordContentChange(row, c, ResetHooks)
    /\ served' = IF ResetHooks THEN {} ELSE served
    /\ Spend
    /\ UNCHANGED <<hookRow, dir, cycle, proc>>

\* The scanner finds new content: RecordContentChange, whose last
\* transaction deletes the hook rows.
ContentChange(c) ==
    /\ Idle
    /\ row.print # c
    /\ row' = RecordContentChange(row, c, ResetHooks)
    /\ hookRow' = IF ResetHooks THEN [h \in Hooks |-> NoHookRow] ELSE hookRow
    /\ served' = IF ResetHooks THEN {} ELSE served
    /\ Spend
    /\ UNCHANGED <<dir, cycle, proc>>

\* The daemon dies and boots: processes go on unseen, rows stay as they are.
CrashAndBoot ==
    /\ row' = BootRow(row, TRUE)
    /\ cycle' = NoCycle
    /\ proc' = [h \in Hooks |-> "none"]
    /\ Spend
    /\ UNCHANGED <<hookRow, dir, served>>

EditHooksDir(h) ==
    /\ \E e \in Entries \ {dir[h]} : dir' = [dir EXCEPT ![h] = e]
    /\ Spend
    /\ UNCHANGED <<row, hookRow, cycle, proc, served>>

HookStep(h) ==
    \/ SkipRest(h) \/ KeepSettled(h) \/ Launch(h)
    \/ StartHook(h) \/ SpawnError(h) \/ HookExits(h) \/ HookDone(h)

Next ==
    \/ TickHooks
    \/ \E force \in BOOLEAN : RequestHooks(force)
    \/ \E h \in Hooks : HookStep(h)
    \/ Finish \/ FinishFails
    \/ Mount \/ MountLost \/ CrashAndBoot
    \/ \E c \in Contents : ContentChange(c)
    \/ \E h \in Hooks : EditHooksDir(h)

\* The tick comes back to the hooks and to the mount; a loop that can go on
\* does; a process ends or is ended by the timeout.
Fairness ==
    /\ WF_vars(TickHooks)
    /\ WF_vars(Finish)
    /\ WF_vars(Mount)
    /\ \A h \in Hooks : WF_vars(HookStep(h))

Spec == Init /\ [][Next]_vars
FairSpec == Spec /\ Fairness

-----------------------------------------------------------------------------

Promise == INSTANCE HookCycle WITH
             wanted <- cycle.names,
             waived <- {h \in Hooks : hookRow[h].status = "skipped"}

\* The runner, with its rows, retries, modes, refusals and crashes, keeps
\* what a hook cycle promises: it ends in success only if every hook it found
\* has exited 0 for this content or was waived (runner.go, classify.go).
KeepsHookPromise == Promise!Spec

\* A hook whose success is on record is not run again, by whatever mode,
\* retry, forced request or restart, until the record is deleted.
SuccessNotRepeated ==
    [][\A h \in Hooks :
         hookRow[h].status = "success" => hookRow'[h].status # "running"]_vars

LeftRunning == Idle /\ row.status = "hooks_running"

\* Undisturbed, the hooks of an archive come to an end: temporary failures
\* and timeouts run out of retries, and a cycle cut short is run again.  The
\* one exception is a cycle whose last write failed (tick.go, classify.go).
HooksSettle ==
    RerunFailed \/ <>[](\/ row.status = "mounted"
                           /\ row.hooks \in {"success", "failed"}
                        \/ LeftRunning)

\* A row says success only of a hook that exited 0 since the archive was last
\* taken as new (RecordContentChange with resetHooks, MarkHookFinished).
RecordedWasServed ==
    \A h \in Hooks : hookRow[h].status = "success" => h \in served

\* What the rows say of hooks is sound, and true of what has run (runner.go).
HookInv == TypeOK /\ RecordedWasServed

=============================================================================
