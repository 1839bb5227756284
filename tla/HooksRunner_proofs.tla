--------------------------- MODULE HooksRunner_proofs ---------------------------
(***************************************************************************)
(* The hooks runner keeps what HookCycle promises, for any set of hooks,   *)
(* any number of retries and either mode.  The argument is about who may   *)
(* write what of a hook: its row and its result are written by the loop    *)
(* while it is in the queue, by its process after that, and by nobody once *)
(* it has a result.                                                        *)
(***************************************************************************)
EXTENDS HooksRunner, TLAPS

-----------------------------------------------------------------------------
(* The row of the archive.                                                 *)

\* Patching fields keeps a row sound when the status it ends in allows for
\* its pid and follows the first mount: the rule every method has to respect.
\* (Store.Transition fills in first_mounted_at by itself.)
LEMMA ToSound ==
    ASSUME NEW r \in Rows, NEW status \in Statuses,
           r.pid # NoChild => status \in PidStatuses,
           status \in {"mounted", "hooks_running"} =>
             r.first \/ r.status \in {"indexing", "mounting"},
           r.hooks # "none" => r.first
    PROVE  SoundRow(To(r, status)) /\ To(r, status).status = status
  BY DEF SoundRow, To, Rows, PidOK, FirstOK

LEMMA ClearPidSound ==
    ASSUME NEW r, SoundRow(r)
    PROVE  SoundRow(ClearPid(r)) /\ ClearPid(r).pid = NoChild
  BY DEF SoundRow, ClearPid, Rows, PidOK, FirstOK

Outcomes == {"success", "failed", "retry"}

LEMMA HooksWritten ==
    ASSUME NEW r, SoundRow(r), r.status \in {"mounted", "hooks_running"},
           NEW hooks \in HooksStatuses, NEW status \in {"mounted", "hooks_running"}
    PROVE  LET s == To([r EXCEPT !.hooks = hooks], status)
           IN  SoundRow(s) /\ s.status = status
<1> DEFINE q == [r EXCEPT !.hooks = hooks]
<1>1. q \in Rows /\ q.status = r.status /\ q.pid = r.pid /\ q.first = r.first
  BY DEF SoundRow, Rows
<1>2. r.first
  BY DEF SoundRow, FirstOK
<1> HIDE DEF q
<1>3. SoundRow(To(q, status)) /\ To(q, status).status = status
  BY <1>1, <1>2, ToSound DEF Statuses, PidStatuses
<1> QED
  BY <1>3 DEF q

LEMMA ToHooks ==
    ASSUME NEW r \in Rows, NEW status
    PROVE  To(r, status).hooks = r.hooks /\ To(r, status).pid = r.pid
BY DEF To, Rows

LEMMA MountedRow ==
    ASSUME NEW r, SoundRow(r), r.status \in {"discovered", "mount_failed"}
    PROVE  LET s == To(To(r, "mounting"), "mounted")
           IN  SoundRow(s) /\ s.status = "mounted" /\ s.hooks = r.hooks
<1> DEFINE q == To(r, "mounting")
<1>1. SoundRow(q) /\ q.status = "mounting" /\ q.hooks = r.hooks
  BY ToSound, ToHooks DEF SoundRow, PidOK, FirstOK, PidStatuses, Statuses
<1> HIDE DEF q
<1>2. /\ SoundRow(To(q, "mounted")) /\ To(q, "mounted").status = "mounted"
      /\ To(q, "mounted").hooks = q.hooks
  BY <1>1, ToSound, ToHooks DEF SoundRow, PidOK, FirstOK, PidStatuses, Statuses
<1> QED
  BY <1>1, <1>2 DEF q

\* A boot takes no archive for mounted, and forgets nothing of its hooks.
LEMMA BootedRow ==
    ASSUME NEW r, SoundRow(r), Tracked(r)
    PROVE  LET s == BootRow(r, TRUE)
           IN  /\ SoundRow(s) /\ Tracked(s)
               /\ s.status # "hooks_running" /\ s.hooks = r.hooks
<1> DEFINE c == ClearPid(r)
           d == [c EXCEPT !.retryable = TRUE]
<1>1. /\ c \in Rows /\ c.pid = NoChild
      /\ c.hooks = r.hooks /\ c.first = r.first
  BY DEF SoundRow, ClearPid, Rows
<1> HIDE DEF c
<1>2. /\ d \in Rows /\ d.pid = NoChild
      /\ d.hooks = r.hooks /\ d.first = r.first
  BY <1>1 DEF Rows
<1> HIDE DEF d
<1>3. RequeueTarget(r) \in {"discovered", "mount_failed"}
  BY DEF RequeueTarget
<1>4. \A status : /\ To(c, status).status = status /\ To(c, status).hooks = r.hooks
                   /\ To(d, status).status = status /\ To(d, status).hooks = r.hooks
  BY <1>1, <1>2 DEF To, Rows
<1>5. \/ BootRow(r, TRUE) \in {To(c, RequeueTarget(r)), To(d, RequeueTarget(r)),
                               To(d, "mount_failed")}
      \/ BootRow(r, TRUE) = To(c, r.status) /\ r.status # "hooks_running"
      \/ BootRow(r, TRUE) = r /\ r.status # "hooks_running"
  BY DEF BootRow, c, d
<1>6. SoundRow(BootRow(r, TRUE))
  <2>1. \A status \in Statuses \ {"mounted", "hooks_running"} :
          SoundRow(To(c, status)) /\ SoundRow(To(d, status))
    BY <1>1, <1>2, ToSound DEF SoundRow, FirstOK
  <2>2. r.status = "mounted" => r.first
    BY DEF SoundRow, FirstOK
  <2>3. BootRow(r, TRUE) = To(c, r.status) => SoundRow(To(c, r.status))
    BY <1>1, <2>2, ToSound DEF SoundRow, FirstOK, Tracked
  <2> QED
    BY <1>3, <1>5, <2>1, <2>3 DEF Statuses
<1>7. /\ BootRow(r, TRUE).status \in {"discovered", "mount_failed", r.status}
      /\ BootRow(r, TRUE).status # "hooks_running"
      /\ BootRow(r, TRUE).hooks = r.hooks
  BY <1>3, <1>4, <1>5
<1> QED
  BY <1>6, <1>7 DEF Tracked, Statuses

\* A content change always ends in discovered.
LEMMA ChangedRow ==
    ASSUME NEW r, SoundRow(r), Tracked(r), NEW content \in Contents,
           NEW resetHooks \in BOOLEAN
    PROVE  LET s == RecordContentChange(r, content, resetHooks)
           IN  /\ SoundRow(s) /\ s.status = "discovered"
               /\ s.hooks = IF resetHooks THEN "none" ELSE r.hooks
<1> DEFINE u == IF ContentChangeTwoStep(r) THEN ToUnmounting(r) ELSE r
           c == [ClearPid(u) EXCEPT !.print = content, !.tries = 0,
                                    !.retryable = TRUE, !.late = FALSE,
                                    !.first = @ /\ ~resetHooks,
                                    !.hooks = IF resetHooks THEN "none" ELSE @]
<1>1. /\ u \in Rows /\ u.hooks = r.hooks
      /\ u.hooks # "none" => u.first
  <2>1. CASE u = r
    BY <2>1 DEF SoundRow, FirstOK
  <2>2. CASE u = To(ClearPid(r), "unmounting")
    <3>1. /\ ClearPid(r) \in Rows /\ ClearPid(r).pid = NoChild
          /\ ClearPid(r).hooks = r.hooks /\ ClearPid(r).first = r.first
      BY DEF ClearPid, SoundRow, Rows
    <3>2. SoundRow(u) /\ u.hooks = r.hooks
      BY <2>2, <3>1, ToSound, ToHooks DEF SoundRow, FirstOK, Statuses
    <3> QED
      BY <3>2 DEF SoundRow, FirstOK
  <2> QED
    BY <2>1, <2>2 DEF ToUnmounting, Move
<1>2. CanTransition(u.status, "discovered")
  <2>1. CASE ContentChangeTwoStep(r)
    <3>1. CanTransition(r.status, "unmounting")
      BY <2>1 DEF ContentChangeTwoStep, CanTransition, AllowedTransitions, Tracked, Statuses
    <3>2. u.status = "unmounting"
      BY <2>1, <3>1 DEF ToUnmounting, Move, To, ClearPid, SoundRow, Rows
    <3> QED
      BY <3>2 DEF CanTransition, AllowedTransitions
  <2>2. CASE ~ContentChangeTwoStep(r)
    BY <2>2 DEF ContentChangeTwoStep, CanTransition, AllowedTransitions
  <2> QED
    BY <2>1, <2>2
<1>3. RecordContentChange(r, content, resetHooks) = To(c, "discovered")
  BY <1>2 DEF RecordContentChange, Move
<1> HIDE DEF u
<1>4. /\ c \in Rows /\ c.pid = NoChild
      /\ c.hooks = IF resetHooks THEN "none" ELSE r.hooks
      /\ c.hooks # "none" => c.first
  <2>1. 0 \in 0..MaxAttempts
    BY RowAssumption
  <2>2. ClearPid(u) \in Rows /\ ClearPid(u).hooks = u.hooks /\ ClearPid(u).first = u.first
        /\ ClearPid(u).pid = NoChild
    BY <1>1 DEF ClearPid, Rows
  <2>3. "none" \in HooksStatuses
    BY DEF HooksStatuses
  <2>4. /\ c \in Rows /\ c.pid = NoChild
        /\ c.hooks = IF resetHooks THEN "none" ELSE u.hooks
        /\ c.first = (u.first /\ ~resetHooks)
    <3> HIDE DEF ClearPid
    <3> QED
      BY <2>1, <2>2, <2>3, Zenon DEF Rows
  <2> QED
    BY <1>1, <2>4
<1> HIDE DEF c
<1>5. SoundRow(To(c, "discovered")) /\ To(c, "discovered").status = "discovered"
  BY <1>4, ToSound DEF Statuses
<1>6. To(c, "discovered").hooks = c.hooks
  BY <1>4, ToHooks
<1> QED
  BY <1>3, <1>4, <1>5, <1>6

-----------------------------------------------------------------------------
(* The invariant.                                                          *)

\* While hooks run the archive says so.
RowInv == SoundRow(row) /\ Tracked(row) /\ (cycle.on => row.status = "hooks_running")

\* A process belongs to a hook the loop has come to, which has no result yet.
ProcInv ==
    \A h \in Hooks : proc[h] # "none" =>
      /\ h \in cycle.names \ cycle.queue
      /\ cycle.result[h] = "none"
      /\ ~SettledRow(h)
      /\ proc[h] = "ok" => h \in served

\* Every hook the loop is done with has a result, and a result is true.
ResultInv ==
    \A h \in Hooks :
      /\ h \in cycle.queue => cycle.result[h] = "none"
      /\ h \in cycle.names \ cycle.queue /\ proc[h] = "none" => cycle.result[h] # "none"
      /\ cycle.result[h] # "none" => h \in cycle.names
      /\ cycle.result[h] = "success" => h \in served
      /\ cycle.result[h] = "skipped" => hookRow[h].status = "skipped"

\* The loop stops for a hook that failed in this very cycle.
StopInv == cycle.stop => \E g \in cycle.names : cycle.result[g] = "failed"

CycleInv == ProcInv /\ ResultInv /\ StopInv

HookIInv == TypeOK /\ RowInv /\ CycleInv /\ RecordedWasServed

-----------------------------------------------------------------------------
(* What is written of the cycle.                                           *)

Results == {"success", "failed", "retry", "skipped"}
CycleModes == [parallel : BOOLEAN, stop : BOOLEAN]
HookRows == [status : HookRowStatuses \cup {"none"}, attempts : 0..(MaxRetries + 1)]

LEMMA NoCycleTyped == NoCycle \in Cycles
BY DEF NoCycle, Cycles

LEMMA CycleFields ==
    ASSUME TypeOK
    PROVE  /\ cycle.on \in BOOLEAN /\ cycle.refused \in BOOLEAN /\ cycle.stop \in BOOLEAN
           /\ cycle.names \subseteq Hooks /\ cycle.queue \subseteq cycle.names
           /\ cycle.mode \in CycleModes
           /\ cycle.result \in [Hooks -> Results \cup {"none"}]
           /\ ~cycle.on => /\ cycle.names = {} /\ cycle.queue = {} /\ cycle.stop = FALSE
                           /\ \A h \in Hooks : cycle.result[h] = "none"
<1>1. cycle \in Cycles /\ (cycle.on \/ cycle = NoCycle) /\ cycle.queue \subseteq cycle.names
  BY DEF TypeOK
<1>2. /\ NoCycle.names = {} /\ NoCycle.queue = {} /\ NoCycle.stop = FALSE
      /\ \A h \in Hooks : NoCycle.result[h] = "none"
  BY DEF NoCycle
<1> QED
  BY <1>1, <1>2 DEF Cycles, CycleModes, Results

LEMMA ResultCycle ==
    ASSUME TypeOK, cycle.on, NEW h \in Hooks, NEW status \in Results, Result(h, status)
    PROVE  /\ cycle' \in Cycles /\ cycle'.on /\ cycle'.stop = cycle.stop
           /\ cycle'.names = cycle.names /\ cycle'.queue = cycle.queue \ {h}
           /\ cycle'.result = [cycle.result EXCEPT ![h] = status]
<1> DEFINE q == cycle.queue \ {h}
           s == [cycle.result EXCEPT ![h] = status]
<1>1. q \subseteq Hooks /\ s \in [Hooks -> Results \cup {"none"}]
  BY CycleFields
<1>2. cycle' = [cycle EXCEPT !.queue = q, !.result = s]
  BY DEF Result
<1>3. cycle \in Cycles
  BY DEF TypeOK
<1> HIDE DEF q, s
<1>4. /\ cycle' \in Cycles /\ cycle'.on = cycle.on /\ cycle'.stop = cycle.stop
      /\ cycle'.names = cycle.names /\ cycle'.queue = q /\ cycle'.result = s
  BY <1>1, <1>2, <1>3, Zenon DEF Cycles, Results
<1> QED
  BY <1>4 DEF q, s

LEMMA LaunchCycle ==
    ASSUME TypeOK, cycle.on, NEW h, cycle' = [cycle EXCEPT !.queue = @ \ {h}]
    PROVE  /\ cycle' \in Cycles /\ cycle'.on /\ cycle'.stop = cycle.stop
           /\ cycle'.names = cycle.names /\ cycle'.queue = cycle.queue \ {h}
           /\ cycle'.result = cycle.result
BY DEF TypeOK, Cycles

LEMMA RecordCycle ==
    ASSUME TypeOK, cycle.on, NEW h \in Hooks, NEW status \in Results, NEW attempts,
           Record(h, status, attempts)
    PROVE  /\ cycle' \in Cycles /\ cycle'.on
           /\ cycle'.stop => cycle.stop \/ status = "failed"
           /\ cycle'.names = cycle.names /\ cycle'.queue = cycle.queue
           /\ cycle'.result = [cycle.result EXCEPT ![h] = status]
<1> DEFINE s == [cycle.result EXCEPT ![h] = status]
           x == cycle.stop \/ /\ status = "failed"
                              /\ cycle.mode.stop
                              /\ ~cycle.mode.parallel
<1>1. s \in [Hooks -> Results \cup {"none"}] /\ x \in BOOLEAN
  BY CycleFields DEF CycleModes
<1>2. cycle' = [cycle EXCEPT !.result = s, !.stop = x]
  BY DEF Record
<1>3. cycle \in Cycles /\ (x => cycle.stop \/ status = "failed")
  BY DEF TypeOK
<1> HIDE DEF s, x
<1>4. /\ cycle' \in Cycles /\ cycle'.on = cycle.on /\ cycle'.stop = x
      /\ cycle'.names = cycle.names /\ cycle'.queue = cycle.queue /\ cycle'.result = s
  BY <1>1, <1>2, <1>3, Zenon DEF Cycles, Results
<1> QED
  BY <1>3, <1>4 DEF s

LEMMA EnteredCycle ==
    ASSUME Enter
    PROVE  LET names == IF Refused THEN {} ELSE DiscoverHooks
           IN  /\ cycle' \in Cycles /\ cycle'.on /\ cycle'.stop = FALSE
               /\ cycle'.names = names /\ cycle'.queue = names
               /\ \A h \in Hooks : cycle'.result[h] = "none"
               /\ hookRow' = SeedHooks(names) /\ names \subseteq Hooks
<1> DEFINE names == IF Refused THEN {} ELSE DiscoverHooks
           ref == Refused
<1>1. names \subseteq Hooks /\ ref \in BOOLEAN /\ hookRow' = SeedHooks(names)
  BY DEF DiscoverHooks, Refused, Enter
<1>2. PICK mode \in Modes : cycle' = [NoCycle EXCEPT !.on = TRUE, !.refused = ref,
                                                     !.names = names, !.queue = names,
                                                     !.mode = mode]
  BY DEF Enter
<1> HIDE DEF names, ref
<1>3. mode \in CycleModes
  BY HooksAssumption DEF CycleModes
<1>4. cycle' = [on |-> TRUE, refused |-> ref, stop |-> FALSE, names |-> names,
                queue |-> names, mode |-> mode, result |-> [h \in Hooks |-> "none"]]
  BY <1>2, Zenon DEF NoCycle
<1>5. cycle' \in Cycles
  BY <1>1, <1>3, <1>4 DEF Cycles, CycleModes
<1>6. /\ cycle'.on /\ cycle'.stop = FALSE
      /\ cycle'.names = names /\ cycle'.queue = names
      /\ \A h \in Hooks : cycle'.result[h] = "none"
  BY <1>4
<1> QED
  BY <1>1, <1>5, <1>6 DEF names

-----------------------------------------------------------------------------
(* The steps of a cycle.                                                   *)

LEMMA ProcInCycle ==
    ASSUME HookIInv, NEW h \in Hooks, proc[h] # "none"
    PROVE  cycle.on /\ h \in cycle.names \ cycle.queue
BY CycleFields DEF HookIInv, CycleInv, ProcInv

\* The loop decides about the hook it has come to without running it.
LEMMA DecidedKeeps ==
    ASSUME HookIInv, NEW h \in Hooks, SkipRest(h) \/ KeepSettled(h)
    PROVE  HookIInv'
<1> USE DEF HookIInv, CycleInv
<1>1. /\ h \in cycle.queue /\ cycle.on /\ h \in cycle.names
      /\ UNCHANGED <<row, dir, proc, served, budget>>
  BY CycleFields DEF SkipRest, KeepSettled, LoopAt
<1>2. proc[h] = "none" /\ cycle.result[h] = "none"
  BY <1>1 DEF ProcInv, ResultInv
<1>3. PICK status \in {"success", "skipped"} :
        /\ Result(h, status) /\ hookRow'[h].status = status
        /\ hookRow' \in [Hooks -> HookRows]
        /\ \A g \in Hooks : g # h => hookRow'[g] = hookRow[g]
        /\ status = "success" => hookRow[h].status = "success"
  <2>1. CASE SkipRest(h)
    <3> DEFINE x == [hookRow[h] EXCEPT !.status = "skipped"]
    <3>1. x \in HookRows /\ x.status = "skipped"
      BY DEF TypeOK, HookRows, HookRowStatuses
    <3>2. hookRow' = [hookRow EXCEPT ![h] = x] /\ Result(h, "skipped")
      BY <2>1 DEF SkipRest, SetHook
    <3> HIDE DEF x
    <3> QED
      BY <3>1, <3>2 DEF TypeOK, HookRows
  <2>2. CASE KeepSettled(h)
    BY <2>2 DEF KeepSettled, SettledRow, TypeOK, HookRows
  <2> QED
    BY <1>1, <2>1, <2>2
<1>4. /\ cycle' \in Cycles /\ cycle'.on /\ cycle'.stop = cycle.stop
      /\ cycle'.names = cycle.names /\ cycle'.queue = cycle.queue \ {h}
      /\ cycle'.result = [cycle.result EXCEPT ![h] = status]
  <2>1. status \in Results
    BY DEF Results
  <2> QED
    BY <1>1, <1>3, <2>1, ResultCycle
<1>5. TypeOK'
  BY <1>1, <1>3, <1>4, CycleFields DEF TypeOK, HookRows
<1>6. RowInv' /\ RecordedWasServed'
  BY <1>1, <1>3, <1>4 DEF RowInv, RecordedWasServed
<1>7. cycle'.result[h] = status /\ \A g \in Hooks : g # h => cycle'.result[g] = cycle.result[g]
  BY <1>4, CycleFields
<1>8. ProcInv'
  BY <1>1, <1>2, <1>3, <1>4, <1>7 DEF ProcInv, SettledRow
<1>9. ResultInv'
  BY <1>1, <1>3, <1>4, <1>7 DEF ResultInv, RecordedWasServed
<1>10. StopInv'
  BY <1>2, <1>4, <1>7, CycleFields DEF StopInv
<1> QED
  BY <1>5, <1>6, <1>8, <1>9, <1>10

LEMMA LaunchKeeps ==
    ASSUME HookIInv, NEW h \in Hooks, Launch(h)
    PROVE  HookIInv'
<1> USE DEF HookIInv, CycleInv
<1>1. /\ h \in cycle.queue /\ cycle.on /\ h \in cycle.names /\ ~SettledRow(h)
      /\ UNCHANGED <<row, hookRow, dir, served, budget>>
      /\ proc' = [proc EXCEPT ![h] = "begun"]
  BY CycleFields DEF Launch, LoopAt
<1>2. /\ cycle' \in Cycles /\ cycle'.on /\ cycle'.stop = cycle.stop
      /\ cycle'.names = cycle.names /\ cycle'.queue = cycle.queue \ {h}
      /\ cycle'.result = cycle.result
  BY <1>1, LaunchCycle DEF Launch
<1>3. proc' \in [Hooks -> Procs] /\ proc'[h] = "begun"
      /\ \A g \in Hooks : g # h => proc'[g] = proc[g]
  BY <1>1 DEF TypeOK, Procs
<1>4. TypeOK'
  BY <1>1, <1>2, <1>3, CycleFields DEF TypeOK
<1>5. RowInv' /\ RecordedWasServed' /\ StopInv'
  BY <1>1, <1>2 DEF RowInv, RecordedWasServed, StopInv
<1>6. ProcInv' /\ ResultInv'
  BY <1>1, <1>2, <1>3 DEF ProcInv, ResultInv, SettledRow
<1> QED
  BY <1>4, <1>5, <1>6

LEMMA AttemptTyped ==
    ASSUME TypeOK, NEW h \in Hooks
    PROVE  Attempt(h) \in 0..(MaxRetries + 1)
<1>1. hookRow[h].attempts \in 0..(MaxRetries + 1)
  BY DEF TypeOK
<1> QED
  BY <1>1, HooksAssumption DEF Attempt

LEMMA StartHookKeeps ==
    ASSUME HookIInv, NEW h \in Hooks, StartHook(h)
    PROVE  HookIInv'
<1> USE DEF HookIInv, CycleInv
<1> DEFINE x == [status |-> "running", attempts |-> Attempt(h)]
<1>1. /\ proc[h] = "begun" /\ UNCHANGED <<row, dir, cycle, served, budget>>
      /\ hookRow' = [hookRow EXCEPT ![h] = x] /\ proc' = [proc EXCEPT ![h] = "running"]
  BY DEF StartHook
<1>2. x \in HookRows /\ x.status = "running"
  BY AttemptTyped DEF HookRows, HookRowStatuses
<1> HIDE DEF x
<1>3. /\ hookRow' \in [Hooks -> HookRows] /\ hookRow'[h].status = "running"
      /\ \A g \in Hooks : g # h => hookRow'[g] = hookRow[g]
      /\ proc' \in [Hooks -> Procs] /\ proc'[h] = "running"
      /\ \A g \in Hooks : g # h => proc'[g] = proc[g]
  BY <1>1, <1>2 DEF TypeOK, HookRows, Procs
<1>4. TypeOK'
  BY <1>1, <1>3 DEF TypeOK, HookRows
<1>5. RowInv' /\ RecordedWasServed' /\ StopInv'
  BY <1>1, <1>3 DEF RowInv, RecordedWasServed, StopInv
<1>6. ProcInv'
  BY <1>1, <1>3 DEF ProcInv, SettledRow
<1>7. ResultInv'
  BY <1>1, <1>3 DEF ResultInv, ProcInv
<1> QED
  BY <1>4, <1>5, <1>6, <1>7

\* The end of an attempt is recorded: the only place where a process's hook
\* gets its result, and success only after an exit with 0.
LEMMA RecordKeeps ==
    ASSUME HookIInv, NEW h \in Hooks, NEW status \in {"success", "failed", "retry"},
           NEW attempts \in 0..(MaxRetries + 1), Record(h, status, attempts),
           UNCHANGED <<row, dir, served>>, proc[h] # "none",
           status = "success" => proc[h] = "ok"
    PROVE  HookIInv'
<1> USE DEF HookIInv, CycleInv
<1> PICK kept \in {status, "running"} :
      /\ hookRow' = [hookRow EXCEPT ![h] = [status |-> kept, attempts |-> attempts]]
      /\ IF kept = status THEN UNCHANGED budget ELSE Spend
  BY DEF Record
<1> DEFINE x == [status |-> kept, attempts |-> attempts]
<1>1. cycle.on /\ h \in cycle.names \ cycle.queue
  BY ProcInCycle
<1>2. hookRow' = [hookRow EXCEPT ![h] = x] /\ proc' = [proc EXCEPT ![h] = "none"]
  BY DEF Record
<1>3. x \in HookRows /\ x.status = kept
  BY DEF HookRows, HookRowStatuses
<1>12. budget' \in 0..Budget
  BY HooksAssumption DEF TypeOK, Spend
<1> HIDE DEF x
<1>4. /\ hookRow' \in [Hooks -> HookRows] /\ hookRow'[h].status = kept
      /\ \A g \in Hooks : g # h => hookRow'[g] = hookRow[g]
      /\ proc' \in [Hooks -> Procs] /\ proc'[h] = "none"
      /\ \A g \in Hooks : g # h => proc'[g] = proc[g]
  BY <1>2, <1>3 DEF TypeOK, HookRows, Procs
<1>5. /\ cycle' \in Cycles /\ cycle'.on
      /\ cycle'.stop => cycle.stop \/ status = "failed"
      /\ cycle'.names = cycle.names /\ cycle'.queue = cycle.queue
      /\ cycle'.result = [cycle.result EXCEPT ![h] = status]
  <2>1. TypeOK /\ status \in Results
    BY DEF Results
  <2> QED
    BY <1>1, <2>1, RecordCycle, Zenon
<1>6. cycle'.result[h] = status /\ \A g \in Hooks : g # h => cycle'.result[g] = cycle.result[g]
  BY <1>5, CycleFields
<1>7. TypeOK'
  BY <1>4, <1>5, <1>12, CycleFields DEF TypeOK, HookRows
<1>8. RowInv' /\ RecordedWasServed'
  BY <1>1, <1>4, <1>5 DEF RowInv, RecordedWasServed, ProcInv
<1>9. ProcInv'
  BY <1>4, <1>5, <1>6 DEF ProcInv, SettledRow
<1>10. ResultInv'
  BY <1>1, <1>4, <1>5, <1>6 DEF ResultInv, ProcInv
<1>11. StopInv'
  <2>1. cycle.result[h] = "none"
    BY DEF ProcInv
  <2> QED
    BY <1>1, <1>5, <1>6, <2>1, CycleFields DEF StopInv
<1> QED
  BY <1>7, <1>8, <1>9, <1>10, <1>11

LEMMA ClassifyExitFacts ==
    ASSUME NEW code, NEW attempts
    PROVE  /\ ClassifyExit(code, attempts) \in {"success", "failed", "retry"}
           /\ ClassifyExit(code, attempts) = "success" => code = "ok"
BY DEF ClassifyExit

\* A hook's end is recorded by SpawnError and by HookDone.
LEMMA EndIsRecorded ==
    ASSUME HookIInv, NEW h \in Hooks, SpawnError(h) \/ HookDone(h)
    PROVE  \E status \in {"success", "failed", "retry"}, attempts \in 0..(MaxRetries + 1) :
             /\ Record(h, status, attempts) /\ UNCHANGED <<row, dir, served>>
             /\ proc[h] # "none" /\ (status = "success" => proc[h] = "ok")
<1> USE DEF HookIInv
<1>1. hookRow[h].attempts \in 0..(MaxRetries + 1)
  BY DEF TypeOK
<1>2. CASE SpawnError(h)
  <2>1. /\ Record(h, "failed", Attempt(h)) /\ proc[h] # "none"
        /\ UNCHANGED <<row, dir, served>>
    BY <1>2 DEF SpawnError
  <2>2. Attempt(h) \in 0..(MaxRetries + 1)
    BY AttemptTyped
  <2> QED
    BY <2>1, <2>2
<1>3. CASE HookDone(h)
  <2>1. PICK code \in {proc[h], "tempfail"} :
          Record(h, ClassifyExit(code, hookRow[h].attempts), hookRow[h].attempts)
    BY <1>3 DEF HookDone
  <2>2. proc[h] # "none" /\ UNCHANGED <<row, dir, served>>
    BY <1>3 DEF HookDone
  <2>3. ClassifyExit(code, hookRow[h].attempts) = "success" => proc[h] = "ok"
    BY <2>1, ClassifyExitFacts
  <2> QED
    BY <1>1, <2>1, <2>2, <2>3, ClassifyExitFacts
<1> QED
  BY <1>2, <1>3

LEMMA HookExitsKeeps ==
    ASSUME HookIInv, NEW h \in Hooks, HookExits(h)
    PROVE  HookIInv'
<1> USE DEF HookIInv, CycleInv
<1>1. PICK code \in {"ok", "tempfail", "hardfail"} :
        /\ proc' = [proc EXCEPT ![h] = code]
        /\ served' = IF code = "ok" THEN served \cup {h} ELSE served
  BY DEF HookExits
<1>2. proc[h] = "running" /\ UNCHANGED <<row, hookRow, dir, cycle, budget>>
  BY DEF HookExits
<1>3. /\ proc' \in [Hooks -> Procs] /\ proc'[h] = code
      /\ \A g \in Hooks : g # h => proc'[g] = proc[g]
      /\ served \subseteq served' /\ served' \subseteq Hooks
      /\ code = "ok" => h \in served'
  BY <1>1 DEF TypeOK, Procs
<1>4. TypeOK' /\ RowInv'
  BY <1>2, <1>3 DEF TypeOK, RowInv
<1>5. RecordedWasServed' /\ StopInv'
  BY <1>2, <1>3 DEF RecordedWasServed, StopInv
<1>6. ProcInv'
  BY <1>2, <1>3 DEF ProcInv, SettledRow
<1>7. ResultInv'
  BY <1>2, <1>3 DEF ResultInv
<1> QED
  BY <1>4, <1>5, <1>6, <1>7

LEMMA HookStepKeeps ==
    ASSUME HookIInv, NEW h \in Hooks, HookStep(h)
    PROVE  HookIInv'
<1>1. CASE SkipRest(h) \/ KeepSettled(h)
  BY <1>1, DecidedKeeps
<1>2. CASE SpawnError(h) \/ HookDone(h)
  BY <1>2, EndIsRecorded, RecordKeeps
<1> QED
  BY <1>1, <1>2, LaunchKeeps, StartHookKeeps, HookExitsKeeps DEF HookStep

-----------------------------------------------------------------------------
(* Around a cycle.                                                         *)

\* Where no cycle runs there is nothing but the rows to keep.
LEMMA IdleKeeps ==
    ASSUME TypeOK, proc' = [h \in Hooks |-> "none"], cycle' = NoCycle,
           hookRow' \in [Hooks -> HookRows], dir' \in [Hooks -> Entries],
           served' \subseteq Hooks, budget' \in 0..Budget,
           SoundRow(row'), Tracked(row'), RecordedWasServed'
    PROVE  HookIInv'
<1>1. /\ cycle' \in Cycles /\ cycle'.names = {} /\ cycle'.queue = {}
      /\ cycle'.stop = FALSE /\ cycle'.on = FALSE
      /\ \A h \in Hooks : cycle'.result[h] = "none"
  <2>1. /\ NoCycle.names = {} /\ NoCycle.queue = {} /\ NoCycle.stop = FALSE
        /\ NoCycle.on = FALSE /\ \A h \in Hooks : NoCycle.result[h] = "none"
    BY DEF NoCycle
  <2> QED
    BY <2>1, NoCycleTyped
<1>2. proc' \in [Hooks -> Procs] /\ \A h \in Hooks : proc'[h] = "none"
  BY DEF Procs
<1>3. TypeOK'
  BY <1>1, <1>2 DEF TypeOK, HookRows, SoundRow
<1>4. RowInv'
  BY <1>1 DEF RowInv
<1>5. CycleInv'
  BY <1>1, <1>2 DEF CycleInv, ProcInv, ResultInv, StopInv
<1> QED
  BY <1>3, <1>4, <1>5 DEF HookIInv

\* No process outlives the cycle it belongs to.
LEMMA IdleHasNoProcess ==
    ASSUME HookIInv, Idle
    PROVE  proc = [h \in Hooks |-> "none"] /\ cycle = NoCycle
<1>1. \A h \in Hooks : proc[h] = "none"
  BY ProcInCycle DEF Idle
<1> QED
  BY <1>1 DEF HookIInv, TypeOK, Idle

LEMMA BudgetSpent == ASSUME TypeOK, Spend PROVE budget' \in 0..Budget
BY HooksAssumption DEF TypeOK, Spend

\* Seeding gives new hooks a row and takes none from the others.
LEMMA Seeded ==
    ASSUME TypeOK, NEW names
    PROVE  /\ SeedHooks(names) \in [Hooks -> HookRows]
           /\ \A h \in Hooks : \A status \in {"success", "skipped"} :
                SeedHooks(names)[h].status = status <=> hookRow[h].status = status
<1>1. [status |-> "pending", attempts |-> 0] \in HookRows
  BY HooksAssumption DEF HookRows, HookRowStatuses
<1>2. \A h \in Hooks : hookRow[h] \in HookRows
  BY DEF TypeOK, HookRows
<1> QED
  BY <1>1, <1>2 DEF SeedHooks, NoHookRow

LEMMA EnterKeeps ==
    ASSUME HookIInv, Idle, row.status \in {"mounted", "hooks_running"}, Enter,
           budget' \in 0..Budget
    PROVE  HookIInv'
<1> USE DEF HookIInv
<1> DEFINE names == IF Refused THEN {} ELSE DiscoverHooks
<1>1. /\ cycle' \in Cycles /\ cycle'.on /\ cycle'.stop = FALSE
      /\ cycle'.names = names /\ cycle'.queue = names
      /\ \A h \in Hooks : cycle'.result[h] = "none"
      /\ hookRow' = SeedHooks(names)
  BY EnteredCycle
<1> HIDE DEF names
<1>2. UNCHANGED <<dir, proc, served>> /\ \A h \in Hooks : proc[h] = "none"
  BY IdleHasNoProcess DEF Enter
<1>3. SoundRow(row') /\ row'.status = "hooks_running"
  <2>1. row' = To([row EXCEPT !.hooks = "running"], "hooks_running")
    BY DEF Enter
  <2> QED
    BY <2>1, HooksWritten DEF HooksStatuses, RowInv
<1>4. hookRow' \in [Hooks -> HookRows] /\ RecordedWasServed'
  BY <1>1, <1>2, Seeded DEF RecordedWasServed
<1>5. TypeOK'
  BY <1>1, <1>2, <1>3, <1>4 DEF TypeOK, HookRows, SoundRow
<1>6. RowInv'
  BY <1>3 DEF RowInv, Tracked, Statuses
<1>7. CycleInv'
  BY <1>1, <1>2 DEF CycleInv, ProcInv, ResultInv, StopInv
<1> QED
  BY <1>4, <1>5, <1>6, <1>7

LEMMA AggregateStatusFacts ==
    ASSUME NEW results
    PROVE  /\ AggregateStatus(results) \in Outcomes
           /\ AggregateStatus(results) = "success" =>
                /\ "failed" \notin results /\ "retry" \notin results
                /\ "skipped" \in results => "success" \in results
BY DEF AggregateStatus, Outcomes

Outcome ==
    IF cycle.refused THEN "failed"
    ELSE AggregateStatus({cycle.result[h] : h \in cycle.names})

LEMMA FinishedRow ==
    ASSUME HookIInv, Finish
    PROVE  /\ Outcome \in Outcomes /\ row.status = "hooks_running"
           /\ row' = To([row EXCEPT !.hooks = Outcome], "mounted")
           /\ SoundRow(row') /\ row'.status = "mounted"
<1>1. row' = To([row EXCEPT !.hooks = Outcome], "mounted") /\ cycle.on
  BY DEF Finish, CycleOver, Outcome
<1>2. Outcome \in Outcomes
  BY AggregateStatusFacts DEF Outcome, Outcomes
<1>3. SoundRow(row) /\ row.status = "hooks_running"
  BY <1>1 DEF HookIInv, RowInv
<1>4. Outcome \in HooksStatuses
  BY <1>2 DEF Outcomes, HooksStatuses
<1>5. LET s == To([row EXCEPT !.hooks = Outcome], "mounted")
      IN  SoundRow(s) /\ s.status = "mounted"
  BY <1>3, <1>4, HooksWritten
<1> QED
  BY <1>1, <1>2, <1>3, <1>5

LEMMA AroundKeeps ==
    ASSUME HookIInv,
           \/ Finish \/ FinishFails
           \/ Mount \/ MountLost \/ CrashAndBoot
           \/ \E c \in Contents : ContentChange(c)
    PROVE  HookIInv'
<1> USE DEF HookIInv
<1>1. /\ proc' = [h \in Hooks |-> "none"] /\ cycle' = NoCycle
      /\ dir' = dir /\ served' \subseteq served
  <2>1. CASE Finish \/ FinishFails
    <3>1. proc = [h \in Hooks |-> "none"]
      BY <2>1 DEF Finish, FinishFails, CycleOver, TypeOK
    <3> QED
      BY <2>1, <3>1 DEF Finish, FinishFails
  <2>2. CASE CrashAndBoot
    BY <2>2 DEF CrashAndBoot
  <2>3. CASE Mount \/ MountLost \/ \E c \in Contents : ContentChange(c)
    BY <2>3, IdleHasNoProcess DEF Mount, MountLost, ContentChange
  <2> QED
    BY <2>1, <2>2, <2>3
<1>2. budget' \in 0..Budget
  BY BudgetSpent
     DEF Finish, FinishFails, Mount, MountLost, CrashAndBoot, ContentChange, TypeOK
<1>3. hookRow' \in [Hooks -> HookRows] /\ RecordedWasServed'
  <2>1. CASE hookRow' = hookRow /\ served' = served
    BY <2>1 DEF TypeOK, HookRows, RecordedWasServed
  <2>2. CASE hookRow' = [h \in Hooks |-> NoHookRow]
    <3>1. NoHookRow \in HookRows /\ NoHookRow.status # "success"
      BY HooksAssumption DEF NoHookRow, HookRows
    <3> QED
      BY <2>2, <3>1 DEF RecordedWasServed
  <2> QED
    BY <2>1, <2>2
       DEF Finish, FinishFails, Mount, MountLost, CrashAndBoot, ContentChange
<1>4. SoundRow(row') /\ Tracked(row')
  <2>1. SoundRow(row) /\ Tracked(row)
    BY DEF RowInv
  <2>2. CASE Finish
    BY <2>2, FinishedRow DEF Tracked, Statuses
  <2>3. CASE FinishFails
    BY <2>1, <2>3 DEF FinishFails
  <2>4. CASE Mount
    BY <2>1, <2>4, MountedRow DEF Mount, Tracked, Statuses
  <2>5. CASE MountLost
    <3> DEFINE c == ClearPid(row)
    <3>1. SoundRow(c) /\ c.pid = NoChild
      BY <2>1, ClearPidSound
    <3> HIDE DEF c
    <3>2. SoundRow(To(c, "mount_failed")) /\ To(c, "mount_failed").status = "mount_failed"
      BY <3>1, ToSound DEF SoundRow, FirstOK, Statuses
    <3>3. row' = To(c, "mount_failed")
      BY <2>5 DEF MountLost, c
    <3> QED
      BY <3>2, <3>3 DEF Tracked, Statuses
  <2>6. CASE CrashAndBoot
    BY <2>1, <2>6, BootedRow DEF CrashAndBoot
  <2>7. ASSUME NEW c \in Contents, ContentChange(c) PROVE SoundRow(row') /\ Tracked(row')
    BY <2>1, <2>7, ChangedRow, HooksAssumption DEF ContentChange, Tracked, Statuses
  <2> QED
    BY <2>2, <2>3, <2>4, <2>5, <2>6, <2>7
<1> QED
  BY <1>1, <1>2, <1>3, <1>4, IdleKeeps DEF TypeOK

LEMMA EditHooksDirKeeps ==
    ASSUME HookIInv, NEW h \in Hooks, EditHooksDir(h)
    PROVE  HookIInv'
<1>1. UNCHANGED <<row, hookRow, cycle, proc, served>> /\ budget' \in 0..Budget
  BY BudgetSpent DEF EditHooksDir, HookIInv
<1>2. dir' \in [Hooks -> Entries]
  BY DEF EditHooksDir, HookIInv, TypeOK
<1>3. TypeOK'
  BY <1>1, <1>2 DEF HookIInv, TypeOK
<1> QED
  BY <1>1, <1>3 DEF HookIInv, RowInv, CycleInv, ProcInv, ResultInv, StopInv,
                    RecordedWasServed, SettledRow

LEMMA HookInvStep ==
    ASSUME HookIInv, [Next]_vars
    PROVE  HookIInv'
<1>1. CASE UNCHANGED vars
  BY <1>1 DEF vars, HookIInv, TypeOK, RowInv, CycleInv, ProcInv, ResultInv, StopInv,
              RecordedWasServed, SettledRow
<1>2. ASSUME TickHooks \/ \E force \in BOOLEAN : RequestHooks(force)
      PROVE  HookIInv'
  <2>1. budget' \in 0..Budget
    BY <1>2, BudgetSpent DEF TickHooks, RequestHooks, HookIInv, TypeOK
  <2> QED
    BY <1>2, <2>1, EnterKeeps DEF TickHooks, RequestHooks
<1> QED
  BY <1>1, <1>2, HookStepKeeps, AroundKeeps, EditHooksDirKeeps DEF Next

LEMMA HookInvInit == Init => HookIInv
<1> SUFFICES ASSUME Init PROVE HookIInv
  OBVIOUS
<1>1. SoundRow(row) /\ Tracked(row)
  <2>1. row \in Rows /\ row.pid = NoChild /\ row.hooks = "none" /\ row.status = "discovered"
    BY RowAssumption DEF Init, Rows, Statuses, HooksStatuses
  <2> QED
    BY <2>1 DEF SoundRow, PidOK, FirstOK, Tracked, Statuses
<1>2. /\ NoCycle.names = {} /\ NoCycle.queue = {} /\ NoCycle.stop = FALSE
      /\ NoCycle.on = FALSE /\ \A h \in Hooks : NoCycle.result[h] = "none"
  BY DEF NoCycle
<1>3. NoHookRow \in HookRows /\ NoHookRow.status = "none" /\ budget \in 0..Budget
  BY HooksAssumption DEF Init, NoHookRow, HookRows
<1>4. TypeOK
  BY <1>1, <1>2, <1>3, NoCycleTyped DEF Init, TypeOK, HookRows, SoundRow, Procs
<1>5. CycleInv /\ RecordedWasServed /\ RowInv
  BY <1>1, <1>2, <1>3
     DEF Init, CycleInv, ProcInv, ResultInv, StopInv, RecordedWasServed, RowInv
<1> QED
  BY <1>4, <1>5 DEF HookIInv

\* A hook row says success only of a hook that has exited 0 since the archive
\* was last taken as new, whatever was retried, skipped, forced or cut short
\* (runner.go, MarkHookFinished, RecordContentChange).
THEOREM HookInvHolds == Spec => []HookInv
<1>1. HookIInv => HookInv
  BY DEF HookIInv, HookInv
<1> QED
  BY HookInvInit, HookInvStep, <1>1, PTL DEF Spec

-----------------------------------------------------------------------------
(* A success on record.                                                    *)

LEMMA StartsPending ==
    ASSUME HookIInv, NEW h \in Hooks, StartHook(h)
    PROVE  ~SettledRow(h)
BY DEF HookIInv, CycleInv, ProcInv, StartHook

\* A hook whose success is on record does not run again until the record goes:
\* the row is looked at before the process is begun, and from then to its start
\* nobody else writes it (runSequential, runParallel, runOne).
THEOREM SuccessNotRepeatedHolds == Spec => SuccessNotRepeated
<1> DEFINE NotAgain ==
      \A h \in Hooks : hookRow[h].status = "success" => hookRow'[h].status # "running"
<1>1. ASSUME HookIInv, Next, NEW h \in Hooks, hookRow[h].status = "success"
      PROVE  hookRow'[h].status # "running"
  <2> USE <1>1
  <2> DEFINE Goal == hookRow'[h].status # "running"
  <2>1. CASE hookRow' = hookRow
    BY <2>1
  <2>2. ASSUME NEW g \in Hooks, SkipRest(g) PROVE Goal
    <3> DEFINE x == [hookRow[g] EXCEPT !.status = "skipped"]
    <3>1. x.status = "skipped" /\ hookRow' = [hookRow EXCEPT ![g] = x]
      BY <2>2 DEF SkipRest, SetHook, HookIInv, TypeOK
    <3> HIDE DEF x
    <3> QED
      BY <3>1 DEF HookIInv, TypeOK
  <2>3. ASSUME NEW g \in Hooks, StartHook(g) PROVE Goal
    <3>1. g # h /\ hookRow'[h] = hookRow[h]
      BY <2>3, StartsPending DEF StartHook, SettledRow, HookIInv, TypeOK
    <3> QED
      BY <3>1
  <2>4. ASSUME NEW g \in Hooks, NEW status \in {"success", "failed", "retry"},
               NEW attempts, Record(g, status, attempts), proc[g] # "none"
        PROVE  Goal
    <3>1. ~SettledRow(g)
      BY <2>4 DEF HookIInv, CycleInv, ProcInv
    <3>2. g # h
      BY <3>1 DEF SettledRow
    <3>3. \E x : hookRow' = [hookRow EXCEPT ![g] = x]
      BY <2>4 DEF Record
    <3> QED
      BY <3>2, <3>3 DEF HookIInv, TypeOK
  <2>5. CASE Enter
    <3>1. \E names : hookRow' = SeedHooks(names)
      BY <2>5 DEF Enter
    <3> QED
      BY <3>1, Seeded DEF HookIInv
  <2>6. CASE hookRow' = [g \in Hooks |-> NoHookRow]
    BY <2>6 DEF NoHookRow
  <2>7. \/ hookRow' = hookRow \/ Enter \/ hookRow' = [g \in Hooks |-> NoHookRow]
        \/ \E g \in Hooks : SkipRest(g) \/ StartHook(g) \/ SpawnError(g) \/ HookDone(g)
    BY DEF Next, TickHooks, RequestHooks, HookStep, KeepSettled, Launch, HookExits, Finish,
           FinishFails, Mount, MountLost, CrashAndBoot, ContentChange, EditHooksDir
  <2> QED
    BY <2>1, <2>2, <2>3, <2>4, <2>5, <2>6, <2>7, EndIsRecorded
<1>2. HookIInv /\ [Next]_vars => [NotAgain]_vars
  BY <1>1
<1> HIDE DEF NotAgain
<1>3. Spec => [][NotAgain]_vars
  BY HookInvInit, HookInvStep, <1>2, PTL DEF Spec
<1> QED
  BY <1>3 DEF SuccessNotRepeated, NotAgain

-----------------------------------------------------------------------------
(* The promise.                                                            *)

Waived == {h \in Hooks : hookRow[h].status = "skipped"}

\* The two modules mean the same by a row and by a transition.
LEMMA SameRows == Promise!Rows = Rows
BY DEF Promise!Rows, Promise!Statuses, Promise!HooksStatuses, Rows, Statuses, HooksStatuses

LEMMA SameTo == \A r, status : Promise!To(r, status) = To(r, status)
BY DEF Promise!To, To

LEMMA PromiseStutters ==
    UNCHANGED <<row, cycle.names, served, Waived>> => UNCHANGED Promise!hookVars
BY DEF Promise!hookVars, Waived

LEMMA EnterBegins ==
    ASSUME HookIInv, Idle, row.status \in {"mounted", "hooks_running"}, Enter
    PROVE  Promise!Begin
<1>1. /\ row' = To([row EXCEPT !.hooks = "running"], "hooks_running")
      /\ cycle'.names \subseteq Hooks /\ served' = served
      /\ \E names : hookRow' = SeedHooks(names)
  BY EnteredCycle DEF Enter
<1>2. {h \in Hooks : hookRow'[h].status = "skipped"} = Waived
  BY <1>1, Seeded DEF Waived, HookIInv
<1> QED
  BY <1>1, <1>2, SameTo DEF Promise!Begin, Waived

\* A hook is only skipped for another one that has failed.
LEMMA SkipWaives ==
    ASSUME HookIInv, NEW h \in Hooks, SkipRest(h)
    PROVE  Promise!Waive(h)
<1> USE DEF HookIInv, CycleInv
<1>1. /\ cycle.on /\ h \in cycle.queue /\ h \in cycle.names /\ cycle.stop
      /\ UNCHANGED <<row, served>>
  BY CycleFields DEF SkipRest, LoopAt
<1>2. cycle'.names = cycle.names
  BY <1>1, ResultCycle DEF SkipRest, Results
<1>3. cycle.names # {h}
  BY <1>1 DEF StopInv, ResultInv
<1>4. {g \in Hooks : hookRow'[g].status = "skipped"} = Waived \cup {h}
  <2> DEFINE x == [hookRow[h] EXCEPT !.status = "skipped"]
  <2>1. x.status = "skipped" /\ hookRow' = [hookRow EXCEPT ![h] = x]
    BY DEF SkipRest, SetHook, TypeOK
  <2> HIDE DEF x
  <2> QED
    BY <2>1 DEF TypeOK, Waived
<1>5. row.status = "hooks_running"
  BY <1>1 DEF RowInv
<1> QED
  BY <1>1, <1>2, <1>3, <1>4, <1>5 DEF Promise!Waive, Waived

\* Rows that are written while the hook runs are not those of waived hooks.
LEMMA RunIsUnseen ==
    ASSUME HookIInv, NEW h \in Hooks,
           KeepSettled(h) \/ Launch(h) \/ StartHook(h) \/ SpawnError(h) \/ HookDone(h)
    PROVE  UNCHANGED Promise!hookVars
<1> USE DEF HookIInv, CycleInv
<1>1. CASE KeepSettled(h)
  <2>1. cycle.on /\ Result(h, hookRow[h].status) /\ hookRow[h].status \in Results
    BY <1>1 DEF KeepSettled, LoopAt, SettledRow, Results
  <2>2. cycle'.names = cycle.names
    BY <2>1, ResultCycle
  <2> QED
    BY <1>1, <2>2, PromiseStutters DEF KeepSettled, Waived
<1>2. CASE Launch(h)
  <2>1. cycle'.names = cycle.names
    BY <1>2, LaunchCycle DEF Launch, LoopAt
  <2> QED
    BY <1>2, <2>1, PromiseStutters DEF Launch, Waived
<1>3. ASSUME proc[h] # "none", NEW x, hookRow' = [hookRow EXCEPT ![h] = x],
             x.status # "skipped"
      PROVE  Waived' = Waived
  BY <1>3 DEF ProcInv, SettledRow, TypeOK, Waived
<1>4. CASE StartHook(h)
  <2> DEFINE x == [status |-> "running", attempts |-> Attempt(h)]
  <2>1. /\ hookRow' = [hookRow EXCEPT ![h] = x] /\ x.status # "skipped"
        /\ proc[h] # "none" /\ UNCHANGED <<row, cycle, served>>
    BY <1>4 DEF StartHook
  <2> HIDE DEF x
  <2>2. Waived' = Waived
    BY <1>3, <2>1
  <2> QED
    BY <2>1, <2>2, PromiseStutters
<1>5. CASE SpawnError(h) \/ HookDone(h)
  <2>1. PICK status \in {"success", "failed", "retry"}, attempts \in 0..(MaxRetries + 1) :
          /\ Record(h, status, attempts) /\ UNCHANGED <<row, dir, served>>
          /\ proc[h] # "none" /\ (status = "success" => proc[h] = "ok")
    BY <1>5, EndIsRecorded
  <2> PICK kept \in {status, "running"} :
        hookRow' = [hookRow EXCEPT ![h] = [status |-> kept, attempts |-> attempts]]
    BY <2>1 DEF Record
  <2> DEFINE x == [status |-> kept, attempts |-> attempts]
  <2>2. hookRow' = [hookRow EXCEPT ![h] = x] /\ x.status # "skipped"
    BY <2>1
  <2> HIDE DEF x
  <2>3. Waived' = Waived
    BY <1>3, <2>1, <2>2
  <2>4. cycle'.names = cycle.names
    <3>1. TypeOK /\ cycle.on /\ status \in Results
      BY <2>1, ProcInCycle DEF Results
    <3> QED
      BY <2>1, <3>1, RecordCycle, Zenon
  <2> QED
    BY <2>1, <2>3, <2>4, PromiseStutters
<1> QED
  BY <1>1, <1>2, <1>4, <1>5

LEMMA ExitServes ==
    ASSUME HookIInv, NEW h \in Hooks, HookExits(h)
    PROVE  [Promise!Next]_(Promise!hookVars)
<1>1. /\ UNCHANGED <<row, hookRow, cycle>> /\ served' \in {served, served \cup {h}}
      /\ proc[h] # "none"
  BY DEF HookExits
<1>2. CASE served' = served
  BY <1>1, <1>2, PromiseStutters DEF Waived
<1>3. CASE served' = served \cup {h}
  <2>1. h \in cycle.names /\ row.status = "hooks_running"
    BY <1>1, ProcInCycle DEF HookIInv, RowInv
  <2>2. Promise!Serve(h)
    BY <1>1, <1>3, <2>1 DEF Promise!Serve
  <2> QED
    BY <2>2 DEF Promise!Next
<1> QED
  BY <1>1, <1>2, <1>3

\* Every hook of a cycle that ends in success was served or waived, and one at
\* least was served.
LEMMA FinishSettles ==
    ASSUME HookIInv, Finish
    PROVE  Promise!Settle(Outcome)
<1> USE DEF HookIInv, CycleInv
<1>1. /\ cycle.queue = {} /\ \A h \in Hooks : proc[h] = "none"
      /\ UNCHANGED <<hookRow, served>> /\ cycle' = NoCycle
  BY DEF Finish, CycleOver
<1>2. \A h \in cycle.names : cycle.result[h] \in Results
  BY <1>1, CycleFields DEF ResultInv
<1> DEFINE results == {cycle.result[h] : h \in cycle.names}
<1>3. ASSUME Outcome = "success"
      PROVE  /\ cycle.names \subseteq served \cup Waived
             /\ cycle.names # {} => cycle.names \cap served # {}
  <2>1. /\ "failed" \notin results /\ "retry" \notin results
        /\ "skipped" \in results => "success" \in results
    BY <1>3, AggregateStatusFacts DEF Outcome
  <2>2. \A h \in cycle.names : cycle.result[h] \in {"success", "skipped"}
    BY <1>2, <2>1 DEF Results
  <2>3. \A h \in cycle.names : /\ h \in Hooks
                               /\ cycle.result[h] = "success" => h \in served
                               /\ cycle.result[h] = "skipped" => h \in Waived
    BY CycleFields DEF ResultInv, Waived
  <2>4. cycle.names # {} => \E h \in cycle.names : cycle.result[h] = "success"
    BY <2>1, <2>2
  <2> QED
    BY <2>2, <2>3, <2>4
<1>4. cycle'.names = {}
  BY <1>1 DEF NoCycle
<1>5. UNCHANGED <<served, Waived>>
  BY <1>1 DEF Waived
<1> QED
  BY <1>3, <1>4, <1>5, FinishedRow, SameTo DEF Promise!Settle, Waived

LEMMA AroundIsElsewhere ==
    ASSUME HookIInv,
           \/ FinishFails \/ Mount \/ MountLost \/ CrashAndBoot
           \/ \E c \in Contents : ContentChange(c)
    PROVE  Promise!Elsewhere \/ Promise!Renew
<1>1. HookIInv' /\ cycle' = NoCycle
  <2>1. CASE Mount \/ MountLost \/ \E c \in Contents : ContentChange(c)
    BY <2>1, AroundKeeps, IdleHasNoProcess DEF Mount, MountLost, ContentChange
  <2> QED
    BY <2>1, AroundKeeps DEF FinishFails, CrashAndBoot
<1>2. cycle'.names = {} /\ row' \in Rows
  BY <1>1 DEF NoCycle, HookIInv, TypeOK
<1>3. SoundRow(row) /\ Tracked(row)
  BY DEF HookIInv, RowInv
<1>4. ASSUME row' = row \/ row'.status # "hooks_running", row'.hooks = row.hooks,
             UNCHANGED <<served, hookRow>>
      PROVE  Promise!Elsewhere
  BY <1>2, <1>4, SameRows DEF Promise!Elsewhere
<1>5. CASE FinishFails
  BY <1>4, <1>5 DEF FinishFails
<1>6. CASE Mount
  BY <1>3, <1>4, <1>6, MountedRow DEF Mount
<1>7. CASE MountLost
  <2>1. ClearPid(row) \in Rows /\ ClearPid(row).hooks = row.hooks
    BY <1>3 DEF ClearPid, SoundRow, Rows
  <2>2. row'.hooks = row.hooks /\ row'.status = "mount_failed"
    BY <1>7, <2>1 DEF MountLost, To, Rows
  <2> QED
    BY <1>4, <1>7, <2>2 DEF MountLost
<1>8. CASE CrashAndBoot
  BY <1>3, <1>4, <1>8, BootedRow DEF CrashAndBoot
<1>9. ASSUME NEW c \in Contents, ContentChange(c)
      PROVE  Promise!Elsewhere \/ Promise!Renew
  <2>1. /\ row'.status = "discovered"
        /\ row'.hooks = IF ResetHooks THEN "none" ELSE row.hooks
    BY <1>3, <1>9, ChangedRow, HooksAssumption DEF ContentChange
  <2>2. CASE ResetHooks
    <3>1. served' = {} /\ hookRow' = [h \in Hooks |-> NoHookRow]
      BY <1>9, <2>2 DEF ContentChange
    <3>2. {h \in Hooks : hookRow'[h].status = "skipped"} = {}
      BY <3>1 DEF NoHookRow
    <3> QED
      BY <1>2, <2>1, <2>2, <3>1, <3>2, SameRows DEF Promise!Renew
  <2>3. CASE ~ResetHooks
    BY <1>4, <1>9, <2>1, <2>3 DEF ContentChange
  <2> QED
    BY <2>2, <2>3
<1> QED
  BY <1>5, <1>6, <1>7, <1>8, <1>9

LEMMA PromiseStep ==
    ASSUME HookIInv, [Next]_vars
    PROVE  [Promise!Next]_(Promise!hookVars)
<1>1. CASE UNCHANGED vars
  BY <1>1, PromiseStutters DEF vars, Waived
<1>2. CASE TickHooks \/ \E force \in BOOLEAN : RequestHooks(force)
  BY <1>2, EnterBegins DEF TickHooks, RequestHooks, Promise!Next
<1>3. ASSUME NEW h \in Hooks, HookStep(h)
      PROVE  [Promise!Next]_(Promise!hookVars)
  BY <1>3, SkipWaives, RunIsUnseen, ExitServes DEF HookStep, Promise!Next
<1>4. CASE Finish
  BY <1>4, FinishSettles, FinishedRow DEF Promise!Next, Outcomes
<1>5. CASE \/ FinishFails \/ Mount \/ MountLost \/ CrashAndBoot
           \/ \E c \in Contents : ContentChange(c)
  BY <1>5, AroundIsElsewhere DEF Promise!Next
<1>6. ASSUME NEW h \in Hooks, EditHooksDir(h)
      PROVE  [Promise!Next]_(Promise!hookVars)
  BY <1>6, PromiseStutters DEF EditHooksDir, Waived
<1> QED
  BY <1>1, <1>2, <1>3, <1>4, <1>5, <1>6 DEF Next

LEMMA PromiseInit == Init => Promise!Init
<1> SUFFICES ASSUME Init PROVE Promise!Init
  OBVIOUS
<1>1. row \in Rows /\ row.status = "discovered" /\ row.hooks = "none"
  BY RowAssumption DEF Init, Rows, Statuses, HooksStatuses
<1>2. cycle.names = {} /\ served = {}
  BY DEF Init, NoCycle
<1>3. {h \in Hooks : hookRow[h].status = "skipped"} = {}
  BY DEF Init, NoHookRow
<1> QED
  BY <1>1, <1>2, <1>3, SameRows DEF Promise!Init

\* The runner implements the promise of a hook cycle, step by step: what goes
\* on inside a cycle is its serving and waiving of hooks or nothing the promise
\* sees, and its end in success is one the promise allows (aggregateAndFinish,
\* runSequential).
THEOREM HookPromiseKept == Spec => KeepsHookPromise
BY HookInvInit, HookInvStep, PromiseInit, PromiseStep, PTL
   DEF Spec, KeepsHookPromise, Promise!Spec
=============================================================================
