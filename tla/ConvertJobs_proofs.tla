------------------------- MODULE ConvertJobs_proofs -------------------------
(***************************************************************************)
(* Two results about conversion, for any set of archives and paths.  The   *)
(* first part counts jobs: max_concurrent_convert holds, because the limit *)
(* is asked of the registry of jobs in the step that adds one.  The second *)
(* follows the files: no finished product is overwritten and no archive    *)
(* loses its last whole copy, because a file is only moved to a place that *)
(* was free, a job only starts where no product is, and a source only goes *)
(* when its product is whole.                                              *)
(***************************************************************************)
EXTENDS ConvertJobs, FiniteSetTheorems, TLAPS

-----------------------------------------------------------------------------
(* The methods of the store keep a row sound, as in MountDaemon_proofs:    *)
(* what the two models share is the row, not the state it is part of.      *)

\* Patching fields keeps a row sound when the status it ends in allows for
\* its pid and follows the first mount: the rule every method has to respect.
\* (Store.Transition fills in first_mounted_at by itself.)
LEMMA ToSound ==
    ASSUME NEW r \in Rows, NEW status \in Statuses,
           r.pid # NoChild => status \in PidStatuses,
           status \in {"mounted", "hooks_running"} =>
             r.first \/ r.status \in {"indexing", "mounting"},
           r.hooks # "none" => r.first
    PROVE  SoundRow(To(r, status)) /\ To(r, status).status = status
  BY DEF SoundRow, To, Rows, PidOK, FirstOK

\* The same for a guarded transition, which may be refused.
LEMMA MoveSound ==
    ASSUME NEW r, SoundRow(r), NEW expected, NEW status \in Statuses,
           NEW r2 \in Rows,
           r2.pid # NoChild => status \in PidStatuses,
           status \in {"mounted", "hooks_running"} =>
             r2.first \/ r2.status \in {"indexing", "mounting"},
           r2.hooks # "none" => r2.first
    PROVE  SoundRow(Move(r, expected, status, r2))
  BY ToSound DEF Move

\* Zero failures is a count, whatever the maximum.
LEMMA ZeroTries == 0 \in 0..MaxAttempts
  BY RowAssumption

LEMMA ClearPidSound ==
    ASSUME NEW r, SoundRow(r)
    PROVE  SoundRow(ClearPid(r)) /\ ClearPid(r).pid = NoChild
  BY DEF SoundRow, ClearPid, Rows, PidOK, FirstOK

\* Counting a failure changes no field but the two counters.
LEMMA NextAttemptSound ==
    ASSUME NEW r, SoundRow(r)
    PROVE  /\ SoundRow(NextAttempt(r))
           /\ NextAttempt(r).pid = r.pid
           /\ NextAttempt(r).status = r.status
           /\ NextAttempt(r).first = r.first
           /\ NextAttempt(r).hooks = r.hooks
  <1> DEFINE n == IF r.tries < MaxAttempts THEN r.tries + 1 ELSE MaxAttempts
  <1>1. n \in 0..MaxAttempts /\ (n < MaxAttempts) \in BOOLEAN
    <2>1. r.tries \in 0..MaxAttempts
      BY DEF SoundRow, Rows
    <2> QED BY <2>1, RowAssumption
  <1> HIDE DEF n
  <1>2. [r EXCEPT !.tries = n, !.retryable = n < MaxAttempts] \in Rows
    BY <1>1, Zenon DEF SoundRow, Rows
  <1>3. [r EXCEPT !.tries = n, !.retryable = n < MaxAttempts] = NextAttempt(r)
    BY DEF NextAttempt, n
  <1> QED BY <1>2, <1>3, Zenon DEF SoundRow, Rows, PidOK, FirstOK, NextAttempt

LEMMA InsertDiscoveredSound ==
    ASSUME NEW r, SoundRow(r), NEW content \in Contents
    PROVE  SoundRow(InsertDiscovered(r, content))
  BY ZeroTries, Zenon
  DEF SoundRow, InsertDiscovered, Rows, PidOK, FirstOK, Statuses, HooksStatuses

LEMMA ReappearSound ==
    ASSUME NEW r, SoundRow(r), NEW content \in Contents
    PROVE  SoundRow(Reappear(r, content))
  <1> DEFINE c == [r EXCEPT !.tries = 0, !.retryable = TRUE, !.print = content]
  <1>1. CASE r.status = "absent"
    <2>1. c \in Rows /\ c.pid = r.pid /\ c.first = r.first /\ c.hooks = r.hooks
      BY ZeroTries, Zenon DEF SoundRow, Rows
    <2>2. r.pid = NoChild
      BY <1>1 DEF SoundRow, PidOK, PidStatuses
    <2> HIDE DEF c
    <2>3. SoundRow(Move(r, {"absent"}, "discovered", c))
      BY <2>1, <2>2, MoveSound DEF SoundRow, FirstOK, Statuses
    <2> QED BY <2>3 DEF Reappear, c
  <1>2. CASE r.status # "absent"
    BY <1>2 DEF Reappear, Move
  <1> QED BY <1>1, <1>2

LEMMA TouchSeenSound ==
    ASSUME NEW r, SoundRow(r), Tracked(r)
    PROVE  SoundRow(TouchSeen(r))
  BY ToSound DEF TouchSeen, SoundRow, PidOK, FirstOK, Tracked

LEMMA ToUnmountingSound ==
    ASSUME NEW r, SoundRow(r)
    PROVE  SoundRow(ToUnmounting(r))
  BY ClearPidSound, MoveSound DEF ToUnmounting, SoundRow, FirstOK, ClearPid, Rows, Statuses

LEMMA MarkAbsentSound ==
    ASSUME NEW r, SoundRow(r)
    PROVE  SoundRow(MarkAbsent(r))
  <1> DEFINE u == IF r.status \in {"absent", "unmounting"}
                    THEN ClearPid(r) ELSE ToUnmounting(r)
  <1>1. SoundRow(u)
    BY ClearPidSound, ToUnmountingSound
  <1>2. u.status \in {"absent", "unmounting"} => u.pid = NoChild
    BY <1>1 DEF SoundRow, PidOK, PidStatuses
  <1>3. CASE u.status \in {"absent", "unmounting"}
    <2>1. SoundRow(Move(u, {"absent", "unmounting"}, "absent", u))
      BY <1>1, <1>2, <1>3, MoveSound DEF SoundRow, FirstOK, Statuses
    <2> QED BY <2>1 DEF MarkAbsent
  <1>4. CASE u.status \notin {"absent", "unmounting"}
    BY <1>1, <1>4 DEF MarkAbsent, Move
  <1> QED BY <1>3, <1>4

\* What a content change writes, before the status.
LEMMA ContentPatch ==
    ASSUME NEW u, SoundRow(u), NEW content \in Contents, NEW reset \in BOOLEAN
    PROVE  LET c == [ClearPid(u) EXCEPT !.print = content, !.tries = 0,
                                        !.retryable = TRUE, !.late = FALSE,
                                        !.first = @ /\ ~reset,
                                        !.hooks = IF reset THEN "none" ELSE @]
           IN  /\ c \in Rows
               /\ c.pid = NoChild
               /\ c.hooks # "none" => c.first
  <1>1. /\ ClearPid(u) \in Rows
        /\ ClearPid(u).pid = NoChild
        /\ ClearPid(u).first = u.first
        /\ ClearPid(u).hooks = u.hooks
        /\ u.hooks # "none" => u.first
    BY DEF ClearPid, SoundRow, FirstOK, Rows
  <1>2. "none" \in HooksStatuses
    BY DEF HooksStatuses
  <1> HIDE DEF ClearPid
  <1> QED BY <1>1, <1>2, ZeroTries, Zenon DEF Rows

\* A content change ends in discovered, without a child, and forgets the first
\* mount and the hooks together or not at all.
LEMMA RecordContentChangeSound ==
    ASSUME NEW r, SoundRow(r), NEW content \in Contents,
           NEW resetHooks \in BOOLEAN
    PROVE  SoundRow(RecordContentChange(r, content, resetHooks))
  <1> DEFINE u == IF ContentChangeTwoStep(r) THEN ToUnmounting(r) ELSE r
             c == [ClearPid(u) EXCEPT !.print = content, !.tries = 0,
                                      !.retryable = TRUE, !.late = FALSE,
                                      !.first = @ /\ ~resetHooks,
                                      !.hooks = IF resetHooks THEN "none" ELSE @]
  <1>1. SoundRow(u)
    BY ToUnmountingSound
  <1>2. /\ c \in Rows
        /\ c.pid = NoChild
        /\ c.hooks # "none" => c.first
    <2> HIDE DEF u
    <2> QED BY <1>1, ContentPatch
  <1>3. SoundRow(Move(u, {u.status}, "discovered", c))
    <2> HIDE DEF c, u
    <2> QED BY <1>1, <1>2, MoveSound DEF Statuses
  <1> QED BY <1>3 DEF RecordContentChange

LEMMA ResetPresentAttemptsSound ==
    ASSUME NEW r, SoundRow(r)
    PROVE  SoundRow(ResetPresentAttempts(r))
  BY ZeroTries, Zenon DEF ResetPresentAttempts, SoundRow, Rows, PidOK, FirstOK

\* Boot leaves every row in a status that a start of the daemon may find.
LEMMA BootRowSound ==
    ASSUME NEW r, SoundRow(r), NEW exists \in BOOLEAN
    PROVE  SoundRow(BootRow(r, exists))
  <1> DEFINE c == ClearPid(r)
             d == [c EXCEPT !.retryable = TRUE]
  <1>1. /\ SoundRow(c) /\ c.pid = NoChild
        /\ c.status = r.status
    BY ClearPidSound DEF ClearPid, SoundRow, Rows
  <1> HIDE DEF c
  <1>2. /\ d \in Rows /\ d.pid = NoChild
        /\ d.hooks = c.hooks /\ d.first = c.first
    BY <1>1 DEF SoundRow, Rows
  <1> HIDE DEF d
  <1>3. RequeueTarget(r) \in Statuses \ {"mounted", "hooks_running"}
    BY DEF RequeueTarget, Statuses
  <1>4. SoundRow(To(c, RequeueTarget(r)))
    BY <1>1, <1>3, ToSound DEF SoundRow, FirstOK
  <1>5. SoundRow(To(d, RequeueTarget(r)))
    BY <1>1, <1>2, <1>3, ToSound DEF SoundRow, FirstOK
  <1>6. SoundRow(To(d, "mount_failed"))
    BY <1>1, <1>2, ToSound DEF SoundRow, FirstOK, Statuses
  <1>7. SoundRow(MarkAbsent(r))
    BY MarkAbsentSound
  <1>8. Tracked(r) => SoundRow(To(c, r.status))
    BY <1>1, ToSound DEF SoundRow, FirstOK, Tracked
  <1>9. \/ BootRow(r, exists) \in {To(c, RequeueTarget(r)), To(d, RequeueTarget(r)),
                                  To(d, "mount_failed"), MarkAbsent(r), r}
        \/ Tracked(r) /\ BootRow(r, exists) = To(c, r.status)
    BY DEF BootRow, Tracked, Statuses, c, d
  <1> QED
    BY <1>4, <1>5, <1>6, <1>7, <1>8, <1>9

-----------------------------------------------------------------------------
(* Jobs.                                                                   *)

\* The archives with a job in a registry.
JobsIn(j) == {a \in Archives : j[a] # NoJob}

\* The registry is a map of all archives, and holds the limit.
JobsInv ==
    /\ job = [a \in Archives |-> job[a]]
    /\ ConvertSlotsBounded

LEMMA JobsInvParts ==
    /\ JobsInv <=> /\ job = [a \in Archives |-> job[a]]
                   /\ Cardinality(JobsIn(job)) <= MaxConvert
    /\ JobsInv' <=> /\ job' = [a \in Archives |-> job'[a]]
                    /\ Cardinality(JobsIn(job')) <= MaxConvert
  BY DEF JobsInv, ConvertSlotsBounded, JobsIn

-----------------------------------------------------------------------------
(* Counting.                                                               *)

\* A step that adds no job keeps the limit.
LEMMA FewerJobs ==
    ASSUME NEW j, NEW k, JobsIn(k) \subseteq JobsIn(j),
           Cardinality(JobsIn(j)) <= MaxConvert
    PROVE  Cardinality(JobsIn(k)) <= MaxConvert
  <1>1. IsFiniteSet(JobsIn(j))
    BY ConvertAssumption, FS_Subset DEF JobsIn
  <1>2. Cardinality(JobsIn(k)) <= Cardinality(JobsIn(j)) /\ IsFiniteSet(JobsIn(k))
    BY <1>1, FS_Subset
  <1>3. Cardinality(JobsIn(k)) \in Nat /\ Cardinality(JobsIn(j)) \in Nat
    BY <1>1, <1>2, FS_CardinalityType
  <1> QED BY <1>2, <1>3, ConvertAssumption

\* A step that adds one job below the limit keeps it.
LEMMA OneMoreJob ==
    ASSUME NEW j, NEW k, NEW a, JobsIn(k) \subseteq JobsIn(j) \cup {a},
           ~(Cardinality(JobsIn(j)) >= MaxConvert)
    PROVE  Cardinality(JobsIn(k)) <= MaxConvert
  <1>1. IsFiniteSet(JobsIn(j))
    BY ConvertAssumption, FS_Subset DEF JobsIn
  <1>2. /\ IsFiniteSet(JobsIn(j) \cup {a})
        /\ \/ Cardinality(JobsIn(j) \cup {a}) = Cardinality(JobsIn(j))
           \/ Cardinality(JobsIn(j) \cup {a}) = Cardinality(JobsIn(j)) + 1
    BY <1>1, FS_AddElement
  <1>3. /\ Cardinality(JobsIn(k)) <= Cardinality(JobsIn(j) \cup {a})
        /\ IsFiniteSet(JobsIn(k))
    BY <1>2, FS_Subset
  <1>4. Cardinality(JobsIn(k)) \in Nat /\ Cardinality(JobsIn(j)) \in Nat
    BY <1>1, <1>3, FS_CardinalityType
  <1> QED BY <1>2, <1>3, <1>4, ConvertAssumption

-----------------------------------------------------------------------------
(* BeginMount adds a job below the limit only.                             *)

\* t has the shape and the job of s.
SameJob(s, t) == DOMAIN t = DOMAIN s /\ t.job = s.job

LEMMA SetsKeepJob ==
    ASSUME NEW s, "job" \in DOMAIN s, NEW u, NEW v, NEW w
    PROVE  /\ SameJob(s, [s EXCEPT !.row = u])
           /\ SameJob(s, [s EXCEPT !.row = u, !.at = v])
           /\ SameJob(s, [s EXCEPT !.row = u, !.err = v])
           /\ SameJob(s, [s EXCEPT !.disk = u, !.err = v])
           /\ SameJob(s, [s EXCEPT !.disk = u, !.at = v, !.row = w])
  BY DEF SameJob

LEMMA CompletedKeepsJob ==
    ASSUME NEW a, NEW s, "job" \in DOMAIN s
    PROVE  SameJob(s, Completed(a, s))
  BY SetsKeepJob DEF Completed

LEMMA FailClaimKeepsJob ==
    ASSUME NEW s, "job" \in DOMAIN s
    PROVE  SameJob(s, FailClaim(s))
  BY SetsKeepJob DEF FailClaim

LEMMA ClaimedKeepsJob ==
    ASSUME NEW s, "job" \in DOMAIN s, NEW first
    PROVE  SameJob(s, Claimed(s, first))
  BY SetsKeepJob DEF Claimed, SameJob

LEMMA RelocatedKeepsJob ==
    ASSUME NEW a, NEW s, "job" \in DOMAIN s
    PROVE  SameJob(s, Relocated(a, s))
  BY SetsKeepJob DEF Relocated

LEMMA BeginMountJob ==
    ASSUME NEW a, NEW s, "job" \in DOMAIN s, NEW first, NEW ok
    PROVE  BeginMount(a, s, first, ok).job = s.job \/ ~ConvertLimitReached
  <1> DEFINE t == IF Adoptable(a, s) THEN Completed(a, s) ELSE s
             b == BeginMount(a, s, first, ok)
  <1>1. SameJob(s, t)
    BY CompletedKeepsJob DEF SameJob
  <1>2. "job" \in DOMAIN t /\ t.job = s.job
    BY <1>1 DEF SameJob
  <1>3. \/ b = s
        \/ b = t
        \/ ~ConvertLimitReached
        \/ b = FailClaim(t)
        \/ b = Claimed(Relocated(a, t), first)
        \/ b = Claimed(t, first)
    BY Zenon DEF BeginMount
  <1> HIDE DEF t, b
  <1>4. FailClaim(t).job = s.job
    BY <1>2, FailClaimKeepsJob DEF SameJob
  <1>5. Claimed(t, first).job = s.job
    BY <1>2, ClaimedKeepsJob DEF SameJob
  <1>6. Claimed(Relocated(a, t), first).job = s.job
    BY <1>2, RelocatedKeepsJob, ClaimedKeepsJob DEF SameJob
  <1>7. b.job = s.job \/ ~ConvertLimitReached
    BY <1>2, <1>3, <1>4, <1>5, <1>6
  <1> QED BY <1>7 DEF b

-----------------------------------------------------------------------------
(* The steps.                                                              *)

\* A start adds at most the job of the row it starts, below the limit.
LEMMA StartWorkJobs ==
    ASSUME JobsInv, NEW a \in Archives, NEW first, WorkDue(a), StartWork(a, first)
    PROVE  JobsInv'
  <1>1. PICK ok \in BOOLEAN : Becomes(a, BeginMount(a, StateOf(a), first, ok))
    BY DEF StartWork
  <1> DEFINE s == BeginMount(a, StateOf(a), first, ok)
  <1>2. job' = [job EXCEPT ![a] = s.job]
    BY <1>1 DEF Becomes
  <1>3. "job" \in DOMAIN StateOf(a) /\ StateOf(a).job = job[a]
    BY DEF StateOf
  <1>4. s.job = job[a] \/ ~ConvertLimitReached
    BY <1>3, BeginMountJob
  <1> HIDE DEF s
  <1>5. job' = [b \in Archives |-> job'[b]]
    BY <1>2 DEF JobsInv
  <1>6. CASE s.job = job[a]
    <2>1. JobsIn(job') \subseteq JobsIn(job)
      BY <1>2, <1>6 DEF JobsIn, JobsInv
    <2> QED BY <1>5, <2>1, FewerJobs, JobsInvParts
  <1>7. CASE ~ConvertLimitReached
    <2>1. JobsIn(job') \subseteq JobsIn(job) \cup {a}
      BY <1>2 DEF JobsIn, JobsInv
    <2>2. ~(Cardinality(JobsIn(job)) >= MaxConvert)
      BY <1>7 DEF ConvertLimitReached, JobsIn
    <2> QED BY <1>5, <2>1, <2>2, OneMoreJob, JobsInvParts
  <1> QED BY <1>4, <1>6, <1>7

\* A step that only touches the job of a, which has one, adds none.
LEMMA OwnJobOnly ==
    ASSUME JobsInv, NEW a \in Archives, job[a] # NoJob, NEW v,
           job' = [job EXCEPT ![a] = v]
    PROVE  JobsInv'
  <1>1. job' = [b \in Archives |-> job'[b]]
    BY DEF JobsInv
  <1>2. JobsIn(job') \subseteq JobsIn(job)
    BY DEF JobsIn, JobsInv
  <1> QED BY <1>1, <1>2, FewerJobs, JobsInvParts

\* PollConvert and the goroutine of a job only act on a job that is there.
LEMMA PollJobs ==
    ASSUME JobsInv, NEW a \in Archives, PollConvert(a)
    PROVE  JobsInv'
  <1>1. job[a] # NoJob
    BY DEF PollConvert, PollFailed, PollDone, NoJob
  <1>2. \E v : job' = [job EXCEPT ![a] = v]
    BY DEF PollConvert, PollFailed, PollDone, Becomes
  <1> QED BY <1>1, <1>2, OwnJobOnly

LEMMA GoroutineJobs ==
    ASSUME JobsInv, NEW a \in Archives,
           JobStarts(a) \/ JobEnds(a) \/ JobFails(a)
    PROVE  JobsInv'
  <1>1. job[a] # NoJob
    <2>1. job[a].state \in {"queued", "writing"}
      BY DEF JobStarts, JobEnds, JobFails
    <2> QED
      BY <2>1 DEF NoJob
  <1>2. \E v : job' = [job EXCEPT ![a] = v]
    <2>1. CASE JobStarts(a)
      BY <2>1 DEF JobStarts
    <2>2. CASE JobEnds(a)
      BY <2>2 DEF JobEnds
    <2>3. CASE JobFails(a)
      BY <2>3 DEF JobFails
    <2> QED
      BY <2>1, <2>2, <2>3
  <1> QED BY <1>1, <1>2, OwnJobOnly

\* A crash empties the registry.
LEMMA CrashJobs ==
    ASSUME JobsInv, Crash
    PROVE  JobsInv'
  <1>1. job' = [a \in Archives |-> NoJob]
    BY DEF Crash
  <1>2. JobsIn(job') \subseteq JobsIn(job)
    BY <1>1 DEF JobsIn
  <1> QED BY <1>1, <1>2, FewerJobs, JobsInvParts

LEMMA NextJobs == JobsInv /\ [Next]_vars => JobsInv'
  <1> SUFFICES ASSUME JobsInv, [Next]_vars PROVE JobsInv'
    OBVIOUS
  <1>1. CASE UNCHANGED job
    BY <1>1 DEF JobsInv, ConvertSlotsBounded
  <1>2. CASE Tick
    <2>1. StartScan \/ NextPhase \/ Boot \/ (\E p \in Paths : ObservePath(p))
            => UNCHANGED job
      BY DEF StartScan, NextPhase, Boot, ObservePath
    <2>2. ASSUME NEW a \in Archives, RowStep(a) PROVE JobsInv'
      <3>1. CASE ScanAbsent(a) \/ Reconcile(a)
        BY <3>1, <1>1 DEF ScanAbsent, Reconcile
      <3>2. CASE PollConvert(a)
        BY <3>2, PollJobs
      <3>3. CASE StartFresh(a)
        BY <3>3, StartWorkJobs DEF StartFresh, FreshDue
      <3>4. CASE RetryFailed(a)
        <4>1. CASE FailedDue(a) /\ StartWork(a, FALSE)
          BY <4>1, StartWorkJobs DEF FailedDue
        <4>2. CASE UNCHANGED job
          BY <4>2, <1>1
        <4> QED BY <3>4, <4>1, <4>2 DEF RetryFailed
      <3> QED BY <2>2, <3>1, <3>2, <3>3, <3>4 DEF RowStep
    <2> QED BY <1>1, <1>2, <2>1, <2>2 DEF Tick
  <1>3. CASE Crash
    BY <1>3, CrashJobs
  <1>4. CASE Users
    BY <1>1, <1>4 DEF Users, FileChanges
  <1>5. CASE \E a \in Archives : Mounts(a) \/ JobStarts(a) \/ JobEnds(a) \/ JobFails(a)
    BY <1>1, <1>5, GoroutineJobs DEF Mounts
  <1>6. CASE UNCHANGED vars
    BY <1>1, <1>6 DEF vars
  <1> QED BY <1>2, <1>3, <1>4, <1>5, <1>6 DEF Next

LEMMA InitJobs == Init => JobsInv
  <1> SUFFICES ASSUME Init PROVE JobsInv
    OBVIOUS
  <1>1. job = [a \in Archives |-> NoJob]
    BY DEF Init
  <1>2. {a \in Archives : job[a] # NoJob} = {}
    BY <1>1
  <1>3. Cardinality({a \in Archives : job[a] # NoJob}) = 0
    BY <1>2, FS_EmptySet
  <1> QED BY <1>1, <1>3, ConvertAssumption DEF JobsInv, ConvertSlotsBounded

\* At most max_concurrent_convert jobs run, whatever becomes of the rows that
\* started them (engine.go:222, convertLimitReached).
THEOREM ConvertSlotsHold == Spec => []ConvertSlotsBounded
  <1>1. JobsInv => ConvertSlotsBounded
    BY DEF JobsInv
  <1> QED BY <1>1, InitJobs, NextJobs, PTL DEF Spec

-----------------------------------------------------------------------------
(* Files.  The daemon handles the state of one archive at a time as a      *)
(* record; what follows says of each operation what it makes of a sound    *)
(* record: the row stays sound, a file is moved to a free place at most,   *)
(* and a job is only added where no product is.                            *)

Disks == [Places -> Files \cup {Gone}]
OwnPlaces(a) == Paths \cup Kept \cup {OutOf(a)}
Sources == Paths \cup Kept

SoundJob(j) == j \in JobStates /\ (j # NoJob => j.source \in Sources)

Fields == {"row", "at", "disk", "job", "err"}

SoundState(a, s) ==
    /\ DOMAIN s = Fields
    /\ SoundRow(s.row) /\ Tracked(s.row)
    /\ s.at \in OwnPlaces(a)
    /\ s.disk \in Disks
    /\ SoundJob(s.job)
    /\ s.err \in BOOLEAN

\* One file is moved to a free place of archives_dir.
MovedTo(a, d, e, from, to) ==
    /\ from \in Paths \cup {OutOf(a)} /\ to \in Kept
    /\ ~Exists(d, to)
    /\ e = [d EXCEPT ![to] = d[from], ![from] = Gone]
Shifted(a, d, e) == \E from, to : MovedTo(a, d, e, from, to)

QueuedJob(j) == SoundJob(j) /\ j.state = "queued"

\* What a call of the engine makes of the state s of a.
Effect(a, s, t) ==
    /\ SoundState(a, t)
    /\ t.disk = s.disk \/ Shifted(a, s.disk, t.disk)
    /\ \/ t.job = s.job
       \/ /\ QueuedJob(t.job) /\ t.disk = s.disk
          /\ ~Exists(s.disk, OutOf(a))

LEMMA PlacesApart ==
    ASSUME NEW a \in Archives, NEW b \in Archives
    PROVE  /\ OutOf(a) \in Places /\ Sources \subseteq Places
           /\ OutOf(a) \notin Sources
           /\ Paths \cap Kept = {}
           /\ OutOf(a) = OutOf(b) => a = b
           /\ KeptAs(a) \in Kept /\ KeptId(a) \in Kept
<1>1. OutOf(a) \in Products /\ OutOf(a) \in Places
  BY DEF Products, Places
<1>2. \A x \in Kept : OutOf(a) # x
  BY DEF Kept, OutOf, KeptAs, KeptId
<1>3. OutOf(a) = OutOf(b) => a = b
  BY DEF OutOf
<1> QED
  BY <1>1, <1>2, <1>3, PlacesAssumption DEF Sources, Places, Kept

LEMMA SetRow ==
    ASSUME NEW s, DOMAIN s = Fields, NEW u
    PROVE  LET t == [s EXCEPT !.row = u]
           IN  /\ DOMAIN t = Fields /\ t.row = u /\ t.at = s.at
               /\ t.disk = s.disk /\ t.job = s.job /\ t.err = s.err
BY DEF Fields

LEMMA SetRowAt ==
    ASSUME NEW s, DOMAIN s = Fields, NEW u, NEW v
    PROVE  LET t == [s EXCEPT !.row = u, !.at = v]
           IN  /\ DOMAIN t = Fields /\ t.row = u /\ t.at = v
               /\ t.disk = s.disk /\ t.job = s.job /\ t.err = s.err
BY DEF Fields

LEMMA SetRowJob ==
    ASSUME NEW s, DOMAIN s = Fields, NEW u, NEW v
    PROVE  LET t == [s EXCEPT !.row = u, !.job = v]
           IN  /\ DOMAIN t = Fields /\ t.row = u /\ t.job = v
               /\ t.at = s.at /\ t.disk = s.disk /\ t.err = s.err
BY DEF Fields

LEMMA SetRowErr ==
    ASSUME NEW s, DOMAIN s = Fields, NEW u, NEW v
    PROVE  LET t == [s EXCEPT !.row = u, !.err = v]
           IN  /\ DOMAIN t = Fields /\ t.row = u /\ t.err = v
               /\ t.at = s.at /\ t.disk = s.disk /\ t.job = s.job
BY DEF Fields

LEMMA SetDiskErr ==
    ASSUME NEW s, DOMAIN s = Fields, NEW u, NEW v
    PROVE  LET t == [s EXCEPT !.disk = u, !.err = v]
           IN  /\ DOMAIN t = Fields /\ t.disk = u /\ t.err = v
               /\ t.row = s.row /\ t.at = s.at /\ t.job = s.job
BY DEF Fields

LEMMA SetDiskAtRow ==
    ASSUME NEW s, DOMAIN s = Fields, NEW u, NEW v, NEW w
    PROVE  LET t == [s EXCEPT !.disk = u, !.at = v, !.row = w]
           IN  /\ DOMAIN t = Fields /\ t.disk = u /\ t.at = v /\ t.row = w
               /\ t.job = s.job /\ t.err = s.err
BY DEF Fields

LEMMA SetDisk ==
    ASSUME NEW s, DOMAIN s = Fields, NEW u
    PROVE  LET t == [s EXCEPT !.disk = u]
           IN  /\ DOMAIN t = Fields /\ t.disk = u /\ t.row = s.row
               /\ t.at = s.at /\ t.job = s.job /\ t.err = s.err
BY DEF Fields

LEMMA SetJob ==
    ASSUME NEW s, DOMAIN s = Fields, NEW u
    PROVE  LET t == [s EXCEPT !.job = u]
           IN  /\ DOMAIN t = Fields /\ t.job = u /\ t.row = s.row
               /\ t.at = s.at /\ t.disk = s.disk /\ t.err = s.err
BY DEF Fields

-----------------------------------------------------------------------------
(* The operations of the engine.                                           *)

\* A row patched and put into a status that needs no child is sound.
LEMMA PatchedSound ==
    ASSUME NEW r, SoundRow(r), NEW status \in Statuses \ {"mounted", "hooks_running"},
           r.pid = NoChild \/ status \in PidStatuses
    PROVE  SoundRow(To(r, status)) /\ Tracked(To(r, status))
                                   /\ To(r, status).status = status
<1>1. SoundRow(To(r, status)) /\ To(r, status).status = status
  BY ToSound DEF SoundRow, FirstOK
<1> QED
  BY <1>1 DEF Tracked

LEMMA PrintSound ==
    ASSUME NEW r, SoundRow(r), NEW c \in Contents
    PROVE  LET q == [r EXCEPT !.print = c]
           IN  SoundRow(q) /\ q.status = r.status /\ q.pid = r.pid
                           /\ q.first = r.first /\ q.hooks = r.hooks
BY Zenon DEF SoundRow, Rows, PidOK, FirstOK

LEMMA FileOf ==
    ASSUME NEW d \in Disks, NEW x \in Places, Exists(d, x)
    PROVE  d[x] \in Files /\ d[x].of \in Contents
BY DEF Disks, Exists, Files

LEMMA CompletedSound ==
    ASSUME NEW a \in Archives, NEW s, SoundState(a, s), Accepts(a, s)
    PROVE  LET t == Completed(a, s)
           IN  /\ SoundState(a, t)
               /\ t.disk = s.disk /\ t.job = s.job /\ t.err = s.err
               /\ t.at = OutOf(a) /\ t.row.status = "discovered"
<1> DEFINE p == [s.row EXCEPT !.print = s.disk[OutOf(a)].of]
           r == To(p, "discovered")
<1>1. s.disk[OutOf(a)].of \in Contents
  BY FileOf, PlacesApart DEF Accepts, SoundState
<1>2. SoundRow(p) /\ p.pid = s.row.pid
  BY <1>1, PrintSound DEF SoundState
<1>3. s.row.pid = NoChild
  BY DEF SoundState, SoundRow, PidOK, PidStatuses, Accepts, PostConvertFromStatuses
<1> HIDE DEF p
<1>4. SoundRow(r) /\ Tracked(r) /\ r.status = "discovered"
  BY <1>2, <1>3, PatchedSound DEF Statuses
<1> HIDE DEF r
<1> DEFINE t == [s EXCEPT !.row = r, !.at = OutOf(a)]
<1>5. /\ DOMAIN t = Fields /\ t.row = r /\ t.at = OutOf(a)
      /\ t.disk = s.disk /\ t.job = s.job /\ t.err = s.err
  BY SetRowAt DEF SoundState
<1>6. t = Completed(a, s)
  BY DEF Completed, r, p
<1> HIDE DEF t
<1>7. SoundState(a, t)
  BY <1>4, <1>5 DEF SoundState, OwnPlaces
<1> QED
  BY <1>4, <1>5, <1>6, <1>7

LEMMA FailClaimSound ==
    ASSUME NEW a \in Archives, NEW s, SoundState(a, s)
    PROVE  LET t == FailClaim(s)
           IN  SoundState(a, t) /\ t.disk = s.disk /\ t.job = s.job
<1> DEFINE p == NextAttempt(ClearPid(s.row))
           target == JobFailStatus(s.row)
           from == IF s.row.status = "discovered" /\ target = "index_failed"
                     THEN "indexing" ELSE s.row.status
           status == IF CanTransition(from, target) THEN target ELSE from
           r == To(p, status)
<1>1. /\ SoundRow(p) /\ p.pid = NoChild
      /\ p.first = s.row.first /\ p.hooks = s.row.hooks
  BY ClearPidSound, NextAttemptSound DEF SoundState, ClearPid, SoundRow, Rows
<1>2. /\ status \in Statuses
      /\ status \in {"mounted", "hooks_running"} => s.row.first
  BY DEF JobFailStatus, SoundState, SoundRow, FirstOK, Tracked, Statuses
<1> HIDE DEF p, status
<1>3. SoundRow(r) /\ r.status = status
  BY <1>1, <1>2, ToSound DEF SoundRow, FirstOK
<1>4. Tracked(r)
  BY <1>2, <1>3 DEF Tracked
<1> HIDE DEF r
<1> DEFINE t == [s EXCEPT !.row = r, !.err = TRUE]
<1>5. /\ DOMAIN t = Fields /\ t.row = r /\ t.err = TRUE /\ t.at = s.at
      /\ t.disk = s.disk /\ t.job = s.job
  BY SetRowErr DEF SoundState
<1>6. t = FailClaim(s)
  BY DEF FailClaim, r, p, status
<1> HIDE DEF t
<1>7. SoundState(a, t)
  BY <1>3, <1>4, <1>5 DEF SoundState
<1> QED
  BY <1>5, <1>6, <1>7

LEMMA ClaimedSound ==
    ASSUME NEW a \in Archives, NEW s, SoundState(a, s), NEW first \in BOOLEAN
    PROVE  LET t == Claimed(s, first)
           IN  SoundState(a, t) /\ t.disk = s.disk /\ t.job = s.job
<1>1. ASSUME NEW status \in {"indexing", "mounting"}
      PROVE  LET t == [s EXCEPT !.row = To(@, status)]
             IN  SoundState(a, t) /\ t.disk = s.disk /\ t.job = s.job
  <2> DEFINE r == To(s.row, status)
             t == [s EXCEPT !.row = r]
  <2>1. SoundRow(r) /\ Tracked(r)
    BY PatchedSound DEF SoundState, Statuses, PidStatuses
  <2> HIDE DEF r
  <2>2. /\ DOMAIN t = Fields /\ t.row = r /\ t.at = s.at
        /\ t.disk = s.disk /\ t.job = s.job /\ t.err = s.err
    BY SetRow DEF SoundState
  <2> HIDE DEF t
  <2>3. SoundState(a, t) /\ t.disk = s.disk /\ t.job = s.job
    BY <2>1, <2>2 DEF SoundState
  <2> QED
    BY <2>3 DEF t, r
<1>2. \/ Claimed(s, first) = s
      \/ Claimed(s, first) = [s EXCEPT !.row = To(@, "indexing")]
      \/ Claimed(s, first) = [s EXCEPT !.row = To(@, "mounting")]
  BY DEF Claimed
<1> QED
  BY <1>1, <1>2

LEMMA QueuedSound ==
    ASSUME NEW a \in Archives, NEW s, SoundState(a, s), s.at \in Sources,
           NEW first \in BOOLEAN
    PROVE  LET t == Queued(s, first)
           IN  SoundState(a, t) /\ t.disk = s.disk /\ QueuedJob(t.job)
<1> DEFINE r == To(ClearPid(s.row), "converting")
           isFirst == first \/ ~s.row.indexed
           j == [state |-> "queued", source |-> s.at, first |-> isFirst]
<1>1. SoundRow(r) /\ Tracked(r)
  BY ClearPidSound, PatchedSound DEF SoundState, Statuses
<1>2. QueuedJob(j)
  <2>1. isFirst \in BOOLEAN
    OBVIOUS
  <2>2. s.at \in Places
    BY PlacesApart
  <2> HIDE DEF isFirst
  <2>3. j \in JobStates
    BY <2>1, <2>2 DEF JobStates
  <2> QED
    BY <2>3 DEF QueuedJob, SoundJob
<1> HIDE DEF r, j
<1> DEFINE t == [s EXCEPT !.row = r, !.job = j]
<1>3. /\ DOMAIN t = Fields /\ t.row = r /\ t.job = j
      /\ t.at = s.at /\ t.disk = s.disk /\ t.err = s.err
  BY SetRowJob DEF SoundState
<1>4. t = Queued(s, first)
  BY DEF Queued, r, j
<1> HIDE DEF t
<1>5. SoundState(a, t)
  BY <1>1, <1>2, <1>3 DEF SoundState, QueuedJob
<1> QED
  BY <1>2, <1>3, <1>4, <1>5

LEMMA MovedTyped ==
    ASSUME NEW a \in Archives, NEW d \in Disks, NEW e, NEW from, NEW to,
           MovedTo(a, d, e, from, to)
    PROVE  /\ e \in Disks /\ from # to
           /\ e[to] = d[from] /\ e[from] = Gone
           /\ \A x \in Places : x # to /\ x # from => e[x] = d[x]
<1>1. from \in Places /\ to \in Places /\ from # to
  BY PlacesApart DEF MovedTo, Sources
<1> QED
  BY <1>1 DEF MovedTo, Disks

LEMMA DestKept ==
    ASSUME NEW a \in Archives, NEW s
    PROVE  Dest(a, s) \in Kept
BY PlacesApart DEF Dest

LEMMA RelocatedSound ==
    ASSUME NEW a \in Archives, NEW s, SoundState(a, s), ShouldRelocate(a, s),
           Exists(s.disk, s.at)
    PROVE  LET t == Relocated(a, s)
           IN  /\ SoundState(a, t) /\ t.job = s.job
               /\ MovedTo(a, s.disk, t.disk, s.at, Dest(a, s))
<1> DEFINE dest == Dest(a, s)
           d == MoveFile(a, s)
           p == [s.row EXCEPT !.print = s.disk[s.at].of]
           r == To(p, p.status)
<1>1. MovedTo(a, s.disk, d, s.at, dest)
  BY DestKept DEF ShouldRelocate, SoundState, OwnPlaces, MovedTo, MoveFile
<1>2. d \in Disks
  BY <1>1, MovedTyped DEF SoundState
<1>3. s.disk[s.at].of \in Contents
  <2>1. s.at \in Places
    BY PlacesApart DEF SoundState, OwnPlaces, Sources
  <2> QED
    BY <2>1, FileOf DEF SoundState
<1>4. /\ SoundRow(p) /\ p.status = s.row.status
      /\ p.pid = s.row.pid /\ p.first = s.row.first /\ p.hooks = s.row.hooks
  BY <1>3, PrintSound DEF SoundState
<1>5. SoundRow(r) /\ Tracked(r)
  <2> HIDE DEF p
  <2>1. p.status \in Statuses
    BY <1>4 DEF SoundState, Tracked
  <2>2. SoundRow(r) /\ r.status = p.status
    BY <1>4, <2>1, ToSound DEF SoundRow, PidOK, FirstOK
  <2> QED
    BY <2>1, <2>2 DEF Tracked
<1>6. Relocated(a, s) = [s EXCEPT !.disk = d, !.err = TRUE]
      \/ Relocated(a, s) = [s EXCEPT !.disk = d, !.at = dest, !.row = r]
  BY <1>4 DEF Relocated, r, p, dest, d
<1> HIDE DEF d, dest, r, p
<1>7. LET t == [s EXCEPT !.disk = d, !.err = TRUE]
      IN  SoundState(a, t) /\ t.job = s.job /\ t.disk = d
  BY <1>2, SetDiskErr DEF SoundState
<1>8. LET t == [s EXCEPT !.disk = d, !.at = dest, !.row = r]
      IN  SoundState(a, t) /\ t.job = s.job /\ t.disk = d
  BY <1>2, <1>5, DestKept, SetDiskAtRow DEF SoundState, OwnPlaces, dest
<1> QED
  BY <1>1, <1>6, <1>7, <1>8 DEF dest

\* Whatever BeginMount does with an archive, it moves one file to a free place
\* at most, and starts a job only where no product is.
LEMMA BeginMountEffect ==
    ASSUME NEW a \in Archives, NEW s, SoundState(a, s), Exists(s.disk, s.at),
           NEW first \in BOOLEAN, NEW ok \in BOOLEAN
    PROVE  Effect(a, s, BeginMount(a, s, first, ok))
<1> DEFINE t == IF Adoptable(a, s) THEN Completed(a, s) ELSE s
           b == BeginMount(a, s, first, ok)
           u == Relocated(a, t)
<1>1. Effect(a, s, s)
  BY DEF Effect
<1>2. ASSUME Adoptable(a, s) => Accepts(a, s)
      PROVE  /\ SoundState(a, t) /\ t.disk = s.disk /\ t.job = s.job
             /\ Exists(t.disk, t.at)
             /\ Adoptable(a, s) => t.at = OutOf(a)
             /\ ~Adoptable(a, s) => t = s
  BY <1>2, CompletedSound DEF Adoptable
<1>3. \/ b = s
      \/ /\ Adoptable(a, s) => Accepts(a, s)
         /\ \/ b = t
            \/ ShouldPreconvert(a, t) /\ b = Queued(t, first)
            \/ b = FailClaim(t)
            \/ ShouldRelocate(a, t) /\ b = Claimed(u, first)
            \/ b = Claimed(t, first)
  BY Zenon DEF BeginMount
<1> HIDE DEF t, b
<1>4. CASE b = s
  BY <1>1, <1>4 DEF b
<1>5. CASE /\ Adoptable(a, s) => Accepts(a, s)
           /\ b # s
  <2>1. /\ SoundState(a, t) /\ t.disk = s.disk /\ t.job = s.job
        /\ Exists(t.disk, t.at)
        /\ Adoptable(a, s) => t.at = OutOf(a)
        /\ ~Adoptable(a, s) => t = s
    BY <1>2, <1>5
  <2>2. ASSUME b = t \/ b = FailClaim(t) \/ b = Claimed(t, first)
        PROVE  Effect(a, s, b)
    BY <2>1, <2>2, FailClaimSound, ClaimedSound DEF Effect
  <2>3. ASSUME ShouldPreconvert(a, t), b = Queued(t, first)
        PROVE  Effect(a, s, b)
    <3>1. t.at # OutOf(a)
      BY <2>3 DEF ShouldPreconvert, IsConvertedPath
    <3>2. t.at \in Sources
      BY <2>1, <3>1 DEF SoundState, OwnPlaces, Sources
    <3>3. ~Exists(s.disk, OutOf(a))
      BY <2>1, <3>1 DEF Adoptable
    <3> QED
      BY <2>1, <2>3, <3>2, <3>3, QueuedSound DEF Effect
  <2>4. ASSUME ShouldRelocate(a, t), b = Claimed(u, first)
        PROVE  Effect(a, s, b)
    <3>1. /\ SoundState(a, u) /\ u.job = t.job
          /\ MovedTo(a, t.disk, u.disk, t.at, Dest(a, t))
      BY <2>1, <2>4, RelocatedSound
    <3> HIDE DEF u
    <3>2. SoundState(a, b) /\ b.disk = u.disk /\ b.job = u.job
      BY <2>4, <3>1, ClaimedSound
    <3> QED
      BY <2>1, <3>1, <3>2 DEF Effect, Shifted
  <2>5. Effect(a, s, b)
    BY <1>3, <1>5, <2>2, <2>3, <2>4
  <2> QED
    BY <2>5 DEF b
<1> QED
  BY <1>3, <1>4, <1>5

-----------------------------------------------------------------------------
(* What becomes of files: d before a step of the engine for a, e after it. *)

Whole(d, x) == Exists(d, x) /\ d[x].whole

\* Products are left alone, but for that of a, which may go.
DiskStep(a, d, e) ==
    /\ e \in Disks
    /\ \A b \in Archives : \/ e[OutOf(b)] = d[OutOf(b)]
                           \/ b = a /\ e[OutOf(b)] = Gone

CopiesKept(d, e) ==
    \A c \in Contents : Copies(d, c) # {} => Copies(e, c) # {}

LEMMA CopyStays ==
    ASSUME NEW d, NEW e, NEW c, NEW x \in Places, x \in Copies(d, c), e[x] = d[x]
    PROVE  x \in Copies(e, c)
BY DEF Copies, Exists

LEMMA ShiftedKeeps ==
    ASSUME NEW a \in Archives, NEW d \in Disks, NEW e, Shifted(a, d, e)
    PROVE  DiskStep(a, d, e) /\ CopiesKept(d, e)
<1>1. PICK from, to : MovedTo(a, d, e, from, to)
  BY DEF Shifted
<1>2. /\ e \in Disks /\ from # to /\ e[to] = d[from] /\ e[from] = Gone
      /\ \A x \in Places : x # to /\ x # from => e[x] = d[x]
  BY <1>1, MovedTyped
<1>3. ASSUME NEW b \in Archives
      PROVE  e[OutOf(b)] = d[OutOf(b)] \/ (b = a /\ e[OutOf(b)] = Gone)
  <2>1. OutOf(b) \in Places /\ OutOf(b) # to
    BY <1>1, PlacesApart DEF MovedTo, Sources
  <2>2. OutOf(b) = from => b = a
    BY <1>1, PlacesApart DEF MovedTo, Sources
  <2> QED
    BY <1>2, <2>1, <2>2
<1>4. ASSUME NEW c \in Contents, NEW x \in Copies(d, c)
      PROVE  Copies(e, c) # {}
  <2>1. x \in Places /\ Exists(d, x) /\ d[x].whole /\ d[x].of = c
    BY DEF Copies
  <2>2. x # to
    BY <1>1, <2>1 DEF MovedTo
  <2>3. CASE x = from
    <3>1. to \in Places
      BY <1>1, PlacesApart DEF MovedTo, Sources
    <3>2. to \in Copies(e, c)
      BY <1>2, <2>1, <2>3, <3>1 DEF Copies, Exists
    <3> QED
      BY <3>2
  <2>4. CASE x # from
    BY <1>2, <2>1, <2>2, <2>4, CopyStays
  <2> QED
    BY <2>3, <2>4
<1> QED
  BY <1>2, <1>3, <1>4 DEF DiskStep, CopiesKept

\* One place that is not a product's changes, from nothing.
LEMMA AddedKeeps ==
    ASSUME NEW a \in Archives, NEW d \in Disks, NEW to \in Kept,
           ~Exists(d, to), NEW f \in Files
    PROVE  LET e == [d EXCEPT ![to] = f]
           IN  DiskStep(a, d, e) /\ CopiesKept(d, e)
<1> DEFINE e == [d EXCEPT ![to] = f]
<1>1. to \in Places
  BY PlacesApart DEF Sources
<1>2. e \in Disks /\ \A x \in Places : x # to => e[x] = d[x]
  BY <1>1 DEF Disks
<1> HIDE DEF e
<1>3. \A b \in Archives : e[OutOf(b)] = d[OutOf(b)]
  BY <1>2, PlacesApart DEF Sources
<1>4. ASSUME NEW c \in Contents, NEW x \in Copies(d, c)
      PROVE  Copies(e, c) # {}
  <2>1. x \in Places /\ x # to
    BY DEF Copies
  <2> QED
    BY <1>2, <2>1, CopyStays
<1>5. DiskStep(a, d, e) /\ CopiesKept(d, e)
  BY <1>2, <1>3, <1>4 DEF DiskStep, CopiesKept
<1> QED
  BY <1>5 DEF e

LEMMA SameDiskKeeps ==
    ASSUME NEW a, NEW d \in Disks
    PROVE  DiskStep(a, d, d) /\ CopiesKept(d, d)
BY DEF DiskStep, CopiesKept

-----------------------------------------------------------------------------
(* The invariant.  A row's archive is a source, a kept file or the row's   *)
(* own product; no job has a product for its source; there is no product   *)
(* while its job waits, half a one while it runs, a whole one once it has  *)
(* ended well.                                                             *)

ProductOf(a, d, j) ==
    /\ j.state = "queued" => ~Exists(d, OutOf(a))
    /\ j.state = "writing" => Exists(d, OutOf(a)) /\ ~Whole(d, OutOf(a))
    /\ j.state = "done" => Whole(d, OutOf(a))

ArchiveOK(a) ==
    /\ SoundRow(rows[a])
    /\ at[a] \in OwnPlaces(a)
    /\ SoundJob(job[a])
    /\ ProductOf(a, disk, job[a])

TablesOK ==
    /\ rows \in [Archives -> Rows]
    /\ at \in [Archives -> Places]
    /\ disk \in Disks
    /\ job \in [Archives -> JobStates]
    /\ \A a \in Archives : ArchiveOK(a)

RestOK ==
    /\ gate \in [Paths -> [seen : Contents \cup {Gone}, n : 0..2]]
    /\ phase \in DOMAIN Follows \cup {"down"}
    /\ todo \in SUBSET (Archives \cup Paths)
    /\ budget \in 0..Budget

ConvertInv == TablesOK /\ RestOK

ProductsKept ==
    \A a \in Archives :
      Whole(disk, OutOf(a)) => ~(Exists(disk', OutOf(a)) /\ ~disk'[OutOf(a)].whole)

\* A step of the tables that moves no file and touches no job.
LEMMA RowStepOK ==
    ASSUME TablesOK, rows' \in [Archives -> Rows],
           \A a \in Archives : SoundRow(rows'[a]),
           at' \in [Archives -> Places], \A a \in Archives : at'[a] \in OwnPlaces(a),
           UNCHANGED <<disk, job>>
    PROVE  TablesOK' /\ CopiesKept(disk, disk') /\ ProductsKept
BY SameDiskKeeps DEF TablesOK, ArchiveOK, ProductsKept, Whole, CopiesKept

LEMMA OneRowOK ==
    ASSUME TablesOK, NEW a \in Archives, NEW r, SoundRow(r),
           rows' = [rows EXCEPT ![a] = r], UNCHANGED <<at, disk, job>>
    PROVE  TablesOK' /\ CopiesKept(disk, disk') /\ ProductsKept
<1>1. rows' \in [Archives -> Rows] /\ \A b \in Archives : SoundRow(rows'[b])
  BY DEF TablesOK, ArchiveOK, SoundRow
<1> QED
  BY <1>1, RowStepOK DEF TablesOK, ArchiveOK

\* A step of the engine for a leaves the tables sound.
LEMMA EngineStepOK ==
    ASSUME TablesOK, NEW a \in Archives, NEW s, SoundState(a, s), Becomes(a, s),
           DiskStep(a, disk, s.disk),
           \/ s.job = NoJob
           \/ QueuedJob(s.job) /\ ~Exists(s.disk, OutOf(a))
    PROVE  TablesOK' /\ ProductsKept
<1>1. /\ SoundRow(s.row) /\ s.row \in Rows
      /\ s.at \in OwnPlaces(a) /\ s.at \in Places
      /\ s.disk \in Disks
      /\ SoundJob(s.job) /\ s.job \in JobStates
  BY PlacesApart DEF SoundState, SoundRow, SoundJob, OwnPlaces, Sources
<1>2. /\ rows' \in [Archives -> Rows] /\ rows'[a] = s.row
      /\ at' \in [Archives -> Places] /\ at'[a] = s.at
      /\ job' \in [Archives -> JobStates] /\ job'[a] = s.job
      /\ disk' = s.disk
      /\ \A b \in Archives \ {a} : /\ rows'[b] = rows[b] /\ at'[b] = at[b]
                                   /\ job'[b] = job[b]
  BY <1>1 DEF Becomes, TablesOK
<1>3. ProductOf(a, disk', job'[a])
  BY <1>2 DEF ProductOf, NoJob, QueuedJob
<1>4. ASSUME NEW b \in Archives \ {a} PROVE ArchiveOK(b)'
  <2>1. disk'[OutOf(b)] = disk[OutOf(b)]
    BY <1>2 DEF DiskStep
  <2>2. ProductOf(b, disk', job'[b])
    BY <1>2, <2>1 DEF TablesOK, ArchiveOK, ProductOf, Whole, Exists
  <2> QED
    BY <1>2, <2>2 DEF TablesOK, ArchiveOK
<1>5. TablesOK'
  BY <1>1, <1>2, <1>3, <1>4 DEF TablesOK, ArchiveOK
<1>6. ProductsKept
  BY <1>2 DEF ProductsKept, DiskStep, Whole, Exists
<1> QED
  BY <1>5, <1>6

-----------------------------------------------------------------------------
(* The steps.  Each keeps the tables sound, no finished product is          *)
(* overwritten, and no archive loses its last copy unless the exception is  *)
(* met.                                                                     *)

StepOK == TablesOK' /\ ProductsKept /\ CopiesKept(disk, disk')

LEMMA StateOfFields ==
    ASSUME NEW a
    PROVE  LET s == StateOf(a)
           IN  /\ DOMAIN s = Fields /\ s.row = rows[a] /\ s.at = at[a]
               /\ s.disk = disk /\ s.job = job[a] /\ s.err = FALSE
BY DEF StateOf, Fields

LEMMA StateOfSound ==
    ASSUME TablesOK, NEW a \in Archives, Tracked(rows[a])
    PROVE  SoundState(a, StateOf(a))
BY StateOfFields DEF SoundState, TablesOK, ArchiveOK

\* An effect is a step of the disk.
LEMMA EffectDisk ==
    ASSUME NEW a \in Archives, NEW s, NEW t, s.disk \in Disks, Effect(a, s, t)
    PROVE  DiskStep(a, s.disk, t.disk) /\ CopiesKept(s.disk, t.disk)
BY ShiftedKeeps, SameDiskKeeps DEF Effect

LEMMA StartWorkOK ==
    ASSUME TablesOK, NEW a \in Archives, NEW first \in BOOLEAN,
           Tracked(rows[a]), WorkDue(a), StartWork(a, first)
    PROVE  StepOK
<1> DEFINE s == StateOf(a)
<1>1. PICK ok \in BOOLEAN : Becomes(a, BeginMount(a, s, first, ok))
  BY DEF StartWork
<1> DEFINE t == BeginMount(a, s, first, ok)
<1>2. /\ SoundState(a, s) /\ s.disk = disk /\ s.job = NoJob
      /\ Exists(s.disk, s.at)
  BY StateOfSound, StateOfFields DEF WorkDue
<1> HIDE DEF s
<1>3. Effect(a, s, t)
  BY <1>2, BeginMountEffect
<1> HIDE DEF t
<1>4. DiskStep(a, disk, t.disk) /\ CopiesKept(disk, t.disk) /\ SoundState(a, t)
  BY <1>2, <1>3, EffectDisk DEF SoundState, Effect
<1>5. t.job = NoJob \/ (QueuedJob(t.job) /\ ~Exists(t.disk, OutOf(a)))
  BY <1>2, <1>3 DEF Effect
<1>6. Becomes(a, t)
  BY <1>1 DEF t
<1>7. TablesOK' /\ ProductsKept
  BY <1>4, <1>5, <1>6, EngineStepOK
<1>8. disk' = t.disk
  BY <1>6 DEF Becomes
<1> QED
  BY <1>4, <1>7, <1>8 DEF StepOK

\* A finished job: its product becomes the archive, its source may go.
LEMMA PollDoneOK ==
    ASSUME TablesOK, NEW a \in Archives, PollDone(a)
    PROVE  /\ TablesOK' /\ ProductsKept
           /\ \A c \in Contents :
                Copies(disk, c) # {} => Copies(disk', c) # {} \/ ReplacedUnderJob(c)
<1> DEFINE s0 == StateOf(a)
           s == [s0 EXCEPT !.job = NoJob]
           t == Completed(a, s)
           source == job[a].source
<1>1. PICK ok \in BOOLEAN :
        Becomes(a, SourceRemoved(BeginMount(a, t, job[a].first, ok), source))
  BY DEF PollDone
<1>2. job[a].state = "done" /\ Accepts(a, s0)
  BY DEF PollDone
<1>a. /\ DOMAIN s0 = Fields /\ s0.row = rows[a] /\ s0.at = at[a]
      /\ s0.disk = disk /\ s0.job = job[a] /\ s0.err = FALSE
  BY StateOfFields
<1> HIDE DEF s0
<1>b. /\ DOMAIN s = Fields /\ s.row = rows[a] /\ s.at = at[a]
      /\ s.disk = disk /\ s.job = NoJob /\ s.err = FALSE
  BY <1>a, SetJob
<1> HIDE DEF s
<1>3. SoundState(a, s) /\ Accepts(a, s)
  <2>1. Tracked(rows[a])
    BY <1>2, <1>a DEF Accepts, PostConvertFromStatuses, Tracked, Statuses
  <2>2. SoundJob(NoJob)
    BY DEF SoundJob, JobStates
  <2> QED
    BY <1>2, <1>a, <1>b, <2>1, <2>2 DEF SoundState, TablesOK, ArchiveOK, Accepts
<1>4. /\ SoundState(a, t) /\ t.disk = disk /\ t.job = NoJob
      /\ Exists(t.disk, t.at) /\ t.at = OutOf(a)
  BY <1>b, <1>3, CompletedSound DEF Accepts
<1>5. job[a].first \in BOOLEAN /\ source \in Sources
  <2>1. job[a] \in JobStates /\ job[a] # NoJob /\ SoundJob(job[a])
    BY <1>2 DEF TablesOK, ArchiveOK, NoJob
  <2> QED
    BY <2>1 DEF JobStates, SoundJob
<1> HIDE DEF t
<1> DEFINE b == BeginMount(a, t, job[a].first, ok)
           r == SourceRemoved(b, source)
<1>6. Effect(a, t, b)
  BY <1>4, <1>5, BeginMountEffect
<1>c. Becomes(a, r)
  BY <1>1
<1> HIDE DEF b
<1>7. /\ SoundState(a, b) /\ DiskStep(a, disk, b.disk)
      /\ CopiesKept(disk, b.disk) /\ b.job = NoJob
  <2>1. SoundState(a, b) /\ DiskStep(a, disk, b.disk) /\ CopiesKept(disk, b.disk)
    BY <1>4, <1>6, EffectDisk DEF SoundState, Effect
  <2>2. Exists(t.disk, OutOf(a))
    BY <1>4
  <2> QED
    BY <1>4, <1>6, <2>1, <2>2 DEF Effect
<1>8. \/ r = b
      \/ /\ source \in Paths
         /\ r = [b EXCEPT !.disk = [b.disk EXCEPT ![source] = Gone]]
  BY DEF SourceRemoved
<1> HIDE DEF r
<1>9. CASE r = b
  <2>1. disk' = b.disk
    BY <1>c, <1>9 DEF Becomes
  <2> QED
    BY <1>7, <1>9, <1>c, <2>1, EngineStepOK DEF CopiesKept
<1>10. CASE /\ source \in Paths
            /\ r = [b EXCEPT !.disk = [b.disk EXCEPT ![source] = Gone]]
  <2> DEFINE e == [b.disk EXCEPT ![source] = Gone]
  <2>1. source \in Places /\ \A x \in Archives : source # OutOf(x)
    BY <1>5, PlacesApart
  <2>2. /\ e \in Disks /\ e[source] = Gone
        /\ \A x \in Places : x # source => e[x] = b.disk[x]
    BY <1>7, <2>1 DEF SoundState, Disks
  <2> HIDE DEF e
  <2>3. DiskStep(a, disk, e)
    BY <1>7, <2>1, <2>2, PlacesApart DEF DiskStep
  <2>4. SoundState(a, r) /\ r.disk = e /\ r.job = NoJob
    BY <1>7, <1>10, <2>2, SetDisk DEF SoundState, e
  <2>5. TablesOK' /\ ProductsKept
    BY <1>c, <2>3, <2>4, EngineStepOK
  <2>6. disk' = e
    BY <1>c, <2>4 DEF Becomes
  <2>7. ASSUME NEW c \in Contents, Copies(disk, c) # {}, Copies(e, c) = {}
        PROVE  ReplacedUnderJob(c)
    <3>1. PICK x \in Places : x \in Copies(b.disk, c)
      BY <1>7, <2>7 DEF CopiesKept, Copies
    <3>2. x = source
      BY <2>2, <2>7, <3>1, CopyStays
    <3>3. Exists(b.disk, source) /\ b.disk[source].of = c
      BY <3>1, <3>2 DEF Copies
    <3>4. disk[source] = b.disk[source]
      <4>1. CASE b.disk = t.disk
        BY <1>4, <4>1
      <4>2. CASE Shifted(a, t.disk, b.disk)
        <5>1. PICK from, to : MovedTo(a, disk, b.disk, from, to)
          BY <1>4, <4>2 DEF Shifted
        <5>2. from # source /\ to # source
          <6>1. to # source
            BY <1>10, <5>1, PlacesApart DEF MovedTo
          <6>2. b.disk[from] = Gone
            BY <5>1, MovedTyped DEF TablesOK
          <6> QED
            BY <3>3, <6>1, <6>2 DEF Exists
        <5> QED
          BY <2>1, <5>1, <5>2, MovedTyped DEF TablesOK
      <4> QED
        BY <1>6, <4>1, <4>2 DEF Effect
    <3>5. Whole(disk, OutOf(a)) /\ OutOf(a) \in Places
      BY <1>2, PlacesApart DEF TablesOK, ArchiveOK, ProductOf
    <3>6. disk[OutOf(a)].of # c
      \* The product, or where it was moved to, would be a copy.
      <4> SUFFICES ASSUME disk[OutOf(a)].of = c PROVE FALSE
        OBVIOUS
      <4>1. OutOf(a) \in Copies(disk, c) /\ OutOf(a) # source
        BY <2>1, <3>5 DEF Copies, Whole
      <4>2. CASE b.disk = t.disk
        BY <1>4, <2>2, <2>7, <3>5, <4>1, <4>2, CopyStays
      <4>3. CASE Shifted(a, t.disk, b.disk)
        <5>1. PICK from, to : MovedTo(a, disk, b.disk, from, to)
          BY <1>4, <4>3 DEF Shifted
        <5>2. to \in Places /\ to # source /\ to \in Kept
          BY <1>10, <5>1, PlacesApart DEF MovedTo, Sources
        <5>3. CASE from = OutOf(a)
          <6>1. b.disk[to] = disk[OutOf(a)]
            BY <5>1, <5>3, MovedTyped DEF TablesOK
          <6>2. to \in Copies(e, c)
            BY <2>2, <4>1, <5>2, <6>1 DEF Copies, Exists
          <6> QED
            BY <2>7, <6>2
        <5>4. CASE from # OutOf(a)
          <6>1. OutOf(a) # to
            BY <5>2, PlacesApart DEF Sources
          <6>2. b.disk[OutOf(a)] = disk[OutOf(a)]
            BY <3>5, <5>1, <5>4, <6>1, MovedTyped DEF TablesOK
          <6> QED
            BY <2>2, <2>7, <3>5, <4>1, <6>2, CopyStays
        <5> QED
          BY <5>3, <5>4
      <4> QED
        BY <1>6, <4>2, <4>3 DEF Effect
    <3> QED
      BY <1>2, <3>3, <3>4, <3>5, <3>6 DEF ReplacedUnderJob, Whole, Exists
  <2> QED
    BY <2>5, <2>6, <2>7
<1> QED
  BY <1>8, <1>9, <1>10

LEMMA PollFailedOK ==
    ASSUME TablesOK, NEW a \in Archives, PollFailed(a)
    PROVE  StepOK
<1>1. SoundRow(JobFailed(rows[a]))
  <2> DEFINE r == rows[a]
             p == NextAttempt(ClearPid(r))
  <2>1. SoundRow(r)
    BY DEF TablesOK, ArchiveOK
  <2>2. SoundRow(ClearPid(r)) /\ ClearPid(r).pid = NoChild
    BY <2>1, ClearPidSound
  <2>3. SoundRow(p) /\ p.pid = NoChild
    BY <2>2, NextAttemptSound
  <2>4. JobFailStatus(r) \in {"mount_failed", "index_failed"}
    BY DEF JobFailStatus
  <2> HIDE DEF p, r
  <2>5. SoundRow(Move(r, {r.status}, JobFailStatus(r), p))
    BY <2>1, <2>3, <2>4, MoveSound DEF SoundRow, FirstOK, Statuses
  <2> QED
    BY <2>5 DEF JobFailed, p, r
<1>2. /\ rows' = [rows EXCEPT ![a] = JobFailed(rows[a])]
      /\ job' = [job EXCEPT ![a] = NoJob]
      /\ UNCHANGED <<at, disk>>
  BY DEF PollFailed
<1>3. /\ NoJob \in JobStates /\ SoundJob(NoJob)
      /\ ProductOf(a, disk, NoJob)
  BY DEF JobStates, SoundJob, ProductOf, NoJob
<1>4. TablesOK'
  <2>1. rows' \in [Archives -> Rows] /\ job' \in [Archives -> JobStates]
    BY <1>1, <1>2, <1>3 DEF TablesOK, SoundRow
  <2>2. ASSUME NEW b \in Archives PROVE ArchiveOK(b)'
    <3>1. SoundRow(rows'[b])
      BY <1>1, <1>2 DEF TablesOK, ArchiveOK
    <3>2. SoundJob(job'[b]) /\ ProductOf(b, disk, job'[b])
      BY <1>2, <1>3 DEF TablesOK, ArchiveOK
    <3> QED
      BY <1>2, <3>1, <3>2 DEF TablesOK, ArchiveOK
  <2> QED
    BY <1>2, <2>1, <2>2 DEF TablesOK
<1> QED
  BY <1>2, <1>4, SameDiskKeeps DEF StepOK, ProductsKept, Whole, TablesOK

LEMMA IndexedSound ==
    ASSUME NEW r, SoundRow(r), NEW x \in BOOLEAN
    PROVE  LET q == [r EXCEPT !.indexed = x]
           IN  /\ SoundRow(q) /\ q.status = r.status /\ q.pid = r.pid
               /\ q.first = r.first /\ q.hooks = r.hooks
BY Zenon DEF SoundRow, Rows, PidOK, FirstOK

\* A failure that is booked: no child, one attempt more.
LEMMA BookedSound ==
    ASSUME NEW r, SoundRow(r), NEW x \in BOOLEAN,
           NEW status \in {"index_failed", "mount_failed"}
    PROVE  SoundRow(To(NextAttempt([ClearPid(r) EXCEPT !.indexed = x]), status))
<1> DEFINE c == ClearPid(r)
           q == [c EXCEPT !.indexed = x]
           n == NextAttempt(q)
<1>1. SoundRow(c) /\ c.pid = NoChild
  BY ClearPidSound
<1> HIDE DEF c
<1>2. SoundRow(q) /\ q.pid = NoChild
  BY <1>1, IndexedSound
<1> HIDE DEF q
<1>3. SoundRow(n) /\ n.pid = NoChild
  BY <1>2, NextAttemptSound
<1> HIDE DEF n
<1>4. SoundRow(To(n, status))
  BY <1>3, PatchedSound DEF Statuses
<1> QED
  BY <1>4 DEF n, q, c

LEMMA MountsOK ==
    ASSUME TablesOK, NEW a \in Archives, Mounts(a)
    PROVE  StepOK
<1> DEFINE r     == rows[a]
           whole == Exists(disk, at[a]) /\ disk[at[a]].whole
           index == r.status = "indexing"
           p     == [r EXCEPT !.indexed = TRUE]
           n     == To(p, "mounting")
           kept  == ClearPid(r).indexed /\ ~index
           q     == [ClearPid(r) EXCEPT !.indexed = kept]
           fails == IF index THEN "index_failed" ELSE "mount_failed"
<1>1. SoundRow(r) /\ r.status \in {"indexing", "mounting"}
  BY DEF TablesOK, ArchiveOK, Mounts
<1>2. SoundRow(To(n, "mounted"))
  <2>1. SoundRow(p)
    BY <1>1, IndexedSound
  <2> HIDE DEF p
  <2>2. SoundRow(n) /\ n.status = "mounting"
    BY <2>1, PatchedSound DEF Statuses, PidStatuses
  <2> HIDE DEF n
  <2> QED
    BY <2>2, ToSound DEF SoundRow, FirstOK, PidStatuses, Statuses
<1>3. SoundRow(To(NextAttempt(q), fails))
  <2>1. kept \in BOOLEAN
    BY <1>1, ClearPidSound DEF SoundRow, Rows
  <2> HIDE DEF kept
  <2> QED
    BY <1>1, <2>1, BookedSound
<1>4. rows' = [rows EXCEPT ![a] = IF whole THEN To(n, "mounted")
                                  ELSE To(NextAttempt(q), fails)]
      /\ UNCHANGED <<at, disk, job>>
  BY Zenon DEF Mounts
<1> HIDE DEF n, q, fails, whole
<1>5. PICK v : SoundRow(v) /\ rows' = [rows EXCEPT ![a] = v]
  BY <1>2, <1>3, <1>4
<1> QED
  BY <1>4, <1>5, OneRowOK DEF StepOK

LEMMA ReconcileOK ==
    ASSUME TablesOK, NEW a \in Archives, Reconcile(a)
    PROVE  StepOK
<1> DEFINE kept == ClearPid(rows[a]).indexed /\ rows[a].first
           v == To(NextAttempt([ClearPid(rows[a]) EXCEPT !.indexed = kept]),
                   "mount_failed")
<1>1. SoundRow(rows[a])
  BY DEF TablesOK, ArchiveOK
<1>2. kept \in BOOLEAN
  BY <1>1, ClearPidSound DEF SoundRow, Rows
<1>3. rows' = [rows EXCEPT ![a] = v] /\ UNCHANGED <<at, disk, job>>
  BY Zenon DEF Reconcile
<1> HIDE DEF kept
<1>4. SoundRow(v)
  BY <1>1, <1>2, BookedSound
<1> HIDE DEF v
<1> QED
  BY <1>3, <1>4, OneRowOK DEF StepOK

LEMMA ScanAbsentOK ==
    ASSUME TablesOK, NEW a \in Archives, ScanAbsent(a)
    PROVE  StepOK
<1>1. SoundRow(MarkAbsent(rows[a]))
  BY MarkAbsentSound DEF TablesOK, ArchiveOK
<1>2. rows' = [rows EXCEPT ![a] = MarkAbsent(rows[a])]
      /\ UNCHANGED <<at, disk, job>>
  BY DEF ScanAbsent
<1> QED
  BY <1>1, <1>2, OneRowOK DEF StepOK

LEMMA ObservedSound ==
    ASSUME NEW r, SoundRow(r), Tracked(r), NEW c \in Contents
    PROVE  SoundRow(ObservedRow(r, c, FALSE))
BY ReappearSound, RecordContentChangeSound, TouchSeenSound DEF ObservedRow

LEMMA ObservePathOK ==
    ASSUME TablesOK, NEW p \in Paths, ObservePath(p)
    PROVE  StepOK
<1>1. UNCHANGED <<disk, job>>
  BY DEF ObservePath
<1>2. CASE UNCHANGED <<rows, at>>
  BY <1>1, <1>2, RowStepOK DEF StepOK, TablesOK, ArchiveOK
<1>3. Exists(disk, p) => disk[p].of \in Contents
  BY FileOf DEF TablesOK, Places
<1>4. ASSUME Exists(disk, p), UNCHANGED at,
             \E a \in RowsAt(p) :
               rows' = [rows EXCEPT ![a] = ObservedRow(@, disk[p].of, FALSE)]
      PROVE  StepOK
  <2>1. PICK a \in RowsAt(p) :
          rows' = [rows EXCEPT ![a] = ObservedRow(rows[a], disk[p].of, FALSE)]
    BY <1>4
  <2>2. a \in Archives /\ Tracked(rows[a])
    BY DEF RowsAt
  <2>3. SoundRow(ObservedRow(rows[a], disk[p].of, FALSE))
    BY <1>3, <1>4, <2>2, ObservedSound DEF TablesOK, ArchiveOK
  <2> QED
    BY <1>1, <1>4, <2>1, <2>2, <2>3, OneRowOK DEF StepOK
<1>5. ASSUME Exists(disk, p), NEW a \in NewIds(p),
             rows' = [rows EXCEPT ![a] = InsertDiscovered(@, disk[p].of)],
             at' = [at EXCEPT ![a] = p]
      PROVE  StepOK
  <2>1. a \in Archives
    BY DEF NewIds
  <2>2. SoundRow(InsertDiscovered(rows[a], disk[p].of))
    BY <1>3, <1>5, <2>1, InsertDiscoveredSound DEF TablesOK, ArchiveOK
  <2>3. rows' \in [Archives -> Rows] /\ \A b \in Archives : SoundRow(rows'[b])
    BY <1>5, <2>1, <2>2 DEF TablesOK, ArchiveOK, SoundRow
  <2>4. at' \in [Archives -> Places] /\ \A b \in Archives : at'[b] \in OwnPlaces(b)
    BY <1>5, <2>1 DEF TablesOK, ArchiveOK, Places, OwnPlaces
  <2> QED
    BY <1>1, <2>3, <2>4, RowStepOK DEF StepOK
<1> QED
  BY <1>2, <1>4, <1>5 DEF ObservePath

LEMMA AllRowsOK ==
    ASSUME TablesOK, StartScan \/ Boot
    PROVE  StepOK
<1>1. UNCHANGED <<at, disk, job>>
  BY DEF StartScan, Boot
<1>2. \A a \in Archives : /\ SoundRow(ResetPresentAttempts(rows[a]))
                          /\ \A x \in BOOLEAN : SoundRow(BootRow(rows[a], x))
  BY ResetPresentAttemptsSound, BootRowSound DEF TablesOK, ArchiveOK
<1>3. \/ rows' = [a \in Archives |-> ResetPresentAttempts(rows[a])]
      \/ rows' = [a \in Archives |-> BootRow(rows[a], Exists(disk, at[a]))]
  BY DEF StartScan, Boot
<1>4. \A a \in Archives : Exists(disk, at[a]) \in BOOLEAN
  BY DEF Exists
<1>5. \A a \in Archives : SoundRow(rows'[a])
  BY <1>2, <1>3, <1>4
<1>6. rows' \in [Archives -> Rows]
  BY <1>3, <1>5 DEF SoundRow
<1> QED
  BY <1>1, <1>5, <1>6, RowStepOK DEF StepOK, TablesOK, ArchiveOK

-----------------------------------------------------------------------------
(* The surroundings.                                                       *)

\* A step of the job of a, and of its product.
LEMMA OwnProductOK ==
    ASSUME TablesOK, NEW a \in Archives, NEW j, SoundJob(j),
           job' = [job EXCEPT ![a] = j],
           NEW f \in Files \cup {Gone},
           disk' = [disk EXCEPT ![OutOf(a)] = f],
           ~Whole(disk, OutOf(a)), ProductOf(a, disk', j),
           UNCHANGED <<rows, at>>
    PROVE  StepOK
<1>1. OutOf(a) \in Places
  BY PlacesApart
<1>2. /\ disk' \in Disks
      /\ \A x \in Places : x # OutOf(a) => disk'[x] = disk[x]
  BY <1>1 DEF TablesOK, Disks
<1>3. /\ job' \in [Archives -> JobStates] /\ job'[a] = j
      /\ \A b \in Archives \ {a} : job'[b] = job[b]
  BY DEF TablesOK, SoundJob
<1>4. ASSUME NEW b \in Archives \ {a}
      PROVE  disk'[OutOf(b)] = disk[OutOf(b)]
  BY <1>2, PlacesApart
<1>5. ASSUME NEW b \in Archives PROVE ArchiveOK(b)'
  <2>1. CASE b = a
    BY <1>3, <2>1 DEF TablesOK, ArchiveOK
  <2>2. CASE b # a
    <3>1. ProductOf(b, disk', job'[b])
      BY <1>3, <1>4, <2>2 DEF TablesOK, ArchiveOK, ProductOf, Whole, Exists
    <3> QED
      BY <1>3, <2>2, <3>1 DEF TablesOK, ArchiveOK
  <2> QED
    BY <2>1, <2>2
<1>6. ProductsKept
  BY <1>4 DEF ProductsKept, Whole, Exists
<1>7. ASSUME NEW c \in Contents, NEW x \in Copies(disk, c)
      PROVE  Copies(disk', c) # {}
  <2>1. x \in Places /\ x # OutOf(a)
    BY DEF Copies, Whole
  <2> QED
    BY <1>2, <2>1, CopyStays
<1> QED
  BY <1>2, <1>3, <1>5, <1>6, <1>7 DEF StepOK, TablesOK, CopiesKept

LEMMA JobStateSound ==
    ASSUME NEW j, SoundJob(j), j # NoJob,
           NEW state \in {"writing", "done", "failed"}
    PROVE  LET k == [j EXCEPT !.state = state]
           IN  SoundJob(k) /\ k.state = state
<1> DEFINE k == [j EXCEPT !.state = state]
<1>1. j \in [state : {"queued", "writing", "done", "failed"}, source : Places,
             first : BOOLEAN]
  BY DEF SoundJob, JobStates
<1>2. /\ k \in [state : {"queued", "writing", "done", "failed"},
                source : Places, first : BOOLEAN]
      /\ k.state = state /\ k.source = j.source
  BY <1>1, Zenon
<1> HIDE DEF k
<1>3. SoundJob(k) /\ k.state = state
  BY <1>2 DEF SoundJob, JobStates
<1> QED
  BY <1>3 DEF k

LEMMA JobStartsOK ==
    ASSUME TablesOK, NEW a \in Archives, JobStarts(a)
    PROVE  StepOK
<1>1. /\ SoundJob(job[a]) /\ job[a] # NoJob /\ job[a].state = "queued"
      /\ ~Exists(disk, OutOf(a)) /\ disk \in Disks
  BY DEF JobStarts, TablesOK, ArchiveOK, ProductOf, NoJob
<1>2. /\ SoundJob([job[a] EXCEPT !.state = "writing"])
      /\ [job[a] EXCEPT !.state = "writing"].state = "writing"
      /\ SoundJob([job[a] EXCEPT !.state = "failed"])
      /\ [job[a] EXCEPT !.state = "failed"].state = "failed"
  BY <1>1, JobStateSound
<1>3. CASE /\ Exists(disk, job[a].source)
           /\ job' = [job EXCEPT ![a] = [job[a] EXCEPT !.state = "writing"]]
           /\ disk' = [disk EXCEPT ![OutOf(a)] =
                [of |-> disk[job[a].source].of, whole |-> FALSE, meta |-> FALSE]]
  <2> DEFINE f == [of |-> disk[job[a].source].of, whole |-> FALSE, meta |-> FALSE]
  <2>1. job[a].source \in Places
    BY <1>1, PlacesApart DEF SoundJob
  <2>2. f \in Files /\ ~f.whole
    BY <1>1, <1>3, <2>1, FileOf DEF Files
  <2>3. f # Gone
    BY <2>2, PlacesAssumption
  <2> HIDE DEF f
  <2>4. disk'[OutOf(a)] = f
    BY <1>1, <1>3, PlacesApart DEF Disks, f
  <2>5. ProductOf(a, disk', [job[a] EXCEPT !.state = "writing"])
    BY <1>2, <2>2, <2>3, <2>4 DEF ProductOf, Whole, Exists
  <2>6. ~Whole(disk, OutOf(a)) /\ UNCHANGED <<rows, at>>
    BY <1>1 DEF JobStarts, Whole
  <2> QED
    BY <1>2, <1>3, <2>2, <2>5, <2>6, OwnProductOK DEF f
<1>4. CASE /\ job' = [job EXCEPT ![a] = [job[a] EXCEPT !.state = "failed"]]
           /\ UNCHANGED disk
  <2>1. disk' = [disk EXCEPT ![OutOf(a)] = disk[OutOf(a)]]
        /\ disk[OutOf(a)] \in Files \cup {Gone}
    BY <1>1, <1>4, PlacesApart DEF Disks
  <2>2. ProductOf(a, disk', [job[a] EXCEPT !.state = "failed"])
    BY <1>2 DEF ProductOf
  <2>3. ~Whole(disk, OutOf(a)) /\ UNCHANGED <<rows, at>>
    BY <1>1 DEF JobStarts, Whole
  <2> QED
    BY <1>2, <1>4, <2>1, <2>2, <2>3, OwnProductOK
<1> QED
  BY <1>3, <1>4 DEF JobStarts

LEMMA JobEndsOK ==
    ASSUME TablesOK, NEW a \in Archives, JobEnds(a) \/ JobFails(a)
    PROVE  StepOK
<1>7. job[a].state = "writing"
  BY DEF JobEnds, JobFails
<1>1. /\ SoundJob(job[a]) /\ job[a] # NoJob /\ job[a].state = "writing"
      /\ disk \in Disks
      /\ Exists(disk, OutOf(a)) /\ ~Whole(disk, OutOf(a))
  BY <1>7 DEF TablesOK, ArchiveOK, ProductOf, NoJob
<1>2. /\ SoundJob([job[a] EXCEPT !.state = "done"])
      /\ [job[a] EXCEPT !.state = "done"].state = "done"
      /\ SoundJob([job[a] EXCEPT !.state = "failed"])
      /\ [job[a] EXCEPT !.state = "failed"].state = "failed"
  BY <1>1, JobStateSound
<1>3. UNCHANGED <<rows, at>>
  BY DEF JobEnds, JobFails
<1>4. CASE JobEnds(a)
  <2> PICK written \in BOOLEAN :
        disk' = [disk EXCEPT ![OutOf(a)] =
                   [disk[OutOf(a)] EXCEPT !.whole = TRUE, !.meta = written]]
    BY <1>1, <1>4, PlacesApart DEF JobEnds, Disks
  <2> DEFINE f == [disk[OutOf(a)] EXCEPT !.whole = TRUE, !.meta = written]
  <2>1. disk[OutOf(a)] \in Files
    BY <1>1, FileOf, PlacesApart
  <2>2. f \in Files /\ f.whole
    BY <2>1, Zenon DEF Files
  <2>3. f # Gone
    BY <2>2, PlacesAssumption
  <2>4. /\ disk' = [disk EXCEPT ![OutOf(a)] = f]
        /\ job' = [job EXCEPT ![a] = [job[a] EXCEPT !.state = "done"]]
    BY <1>4 DEF JobEnds
  <2> HIDE DEF f
  <2>5. disk'[OutOf(a)] = f
    BY <1>1, <2>4, PlacesApart DEF Disks
  <2>6. ProductOf(a, disk', [job[a] EXCEPT !.state = "done"])
    BY <1>2, <2>2, <2>3, <2>5 DEF ProductOf, Whole, Exists
  <2> QED
    BY <1>1, <1>2, <1>3, <2>2, <2>4, <2>6, OwnProductOK
<1>5. CASE JobFails(a)
  <2>1. PICK f \in {disk[OutOf(a)], Gone} : disk' = [disk EXCEPT ![OutOf(a)] = f]
    BY <1>1, <1>5, PlacesApart DEF JobFails, Disks
  <2>2. f \in Files \cup {Gone}
    BY <1>1, <2>1, FileOf, PlacesApart
  <2>3. job' = [job EXCEPT ![a] = [job[a] EXCEPT !.state = "failed"]]
    BY <1>5 DEF JobFails
  <2>4. ProductOf(a, disk', [job[a] EXCEPT !.state = "failed"])
    BY <1>2 DEF ProductOf
  <2> QED
    BY <1>1, <1>2, <1>3, <2>1, <2>2, <2>3, <2>4, OwnProductOK
<1> QED
  BY <1>4, <1>5

\* People only touch sources and kept files.
LEMMA FileChangesOK ==
    ASSUME TablesOK, NEW x \in Sources, FileChanges(x)
    PROVE  TablesOK' /\ ProductsKept
<1>1. PICK f \in Files \cup {Gone} : disk' = [disk EXCEPT ![x] = f]
  BY DEF FileChanges, Archive, Files
<1>2. UNCHANGED <<rows, at, job>>
  BY DEF FileChanges
<1>3. disk' \in Disks /\ \A y \in Places : y # x => disk'[y] = disk[y]
  BY <1>1 DEF TablesOK, Disks
<1>4. \A b \in Archives : disk'[OutOf(b)] = disk[OutOf(b)]
  BY <1>3, PlacesApart
<1>5. ASSUME NEW b \in Archives PROVE ArchiveOK(b)'
  <2>1. ProductOf(b, disk', job[b])
    BY <1>4 DEF TablesOK, ArchiveOK, ProductOf, Whole, Exists
  <2> QED
    BY <1>2, <2>1 DEF TablesOK, ArchiveOK
<1>6. ProductsKept
  BY <1>4 DEF ProductsKept, Whole, Exists
<1> QED
  BY <1>2, <1>3, <1>5, <1>6 DEF TablesOK

-----------------------------------------------------------------------------
(* Crashes.                                                                *)

\* What a relocation cut short leaves has every copy still.
LEMMA HalfRelocatedOK ==
    ASSUME NEW a \in Archives, NEW s, SoundState(a, s), ShouldRelocate(a, s),
           Exists(s.disk, s.at), NEW t \in HalfRelocated(a, s)
    PROVE  /\ t.row = s.row /\ t.at = s.at
           /\ DiskStep(a, s.disk, t.disk) /\ CopiesKept(s.disk, t.disk)
<1> DEFINE dest == Dest(a, s)
           d == s.disk
           m == MoveFile(a, s)
           cut == [d[s.at] EXCEPT !.whole = FALSE, !.meta = FALSE]
           bare == [m[dest] EXCEPT !.meta = FALSE]
<1>1. /\ DOMAIN s = Fields /\ d \in Disks /\ dest \in Kept /\ dest \in Places
      /\ ~Exists(d, dest)
      /\ MovedTo(a, d, m, s.at, dest)
  BY DestKept, PlacesApart
     DEF ShouldRelocate, SoundState, OwnPlaces, MovedTo, MoveFile, Sources
<1>2. s.at \in Places /\ d[s.at] \in Files
  BY <1>1, FileOf, PlacesApart DEF SoundState, OwnPlaces, Sources
<1>3. /\ m \in Disks /\ m[dest] = d[s.at]
      /\ DiskStep(a, d, m) /\ CopiesKept(d, m)
  BY <1>1, MovedTyped, ShiftedKeeps DEF Shifted
<1>4. cut \in Files
  BY <1>2, Zenon DEF Files
<1>5. bare \in Files /\ bare.of = m[dest].of /\ bare.whole = m[dest].whole
  BY <1>2, <1>3, Zenon DEF Files
<1> HIDE DEF cut, m
<1>6. /\ DiskStep(a, d, [d EXCEPT ![dest] = cut])
      /\ CopiesKept(d, [d EXCEPT ![dest] = cut])
  BY <1>1, <1>4, AddedKeeps
<1>7. /\ DiskStep(a, d, [m EXCEPT ![dest] = bare])
      /\ CopiesKept(d, [m EXCEPT ![dest] = bare])
  <2> DEFINE e == [m EXCEPT ![dest] = bare]
  <2>1. /\ e \in Disks /\ e[dest] = bare
        /\ \A x \in Places : x # dest => e[x] = m[x]
    BY <1>1, <1>3, <1>5 DEF Disks
  <2> HIDE DEF e, bare
  <2>2. DiskStep(a, d, e)
    BY <1>1, <1>3, <2>1, PlacesApart DEF DiskStep, Sources
  <2>3. ASSUME NEW c \in Contents, NEW x \in Copies(m, c)
        PROVE  x \in Copies(e, c)
    <3>1. x \in Places
      BY DEF Copies
    <3>2. bare # Gone
      BY <1>5, PlacesAssumption
    <3> QED
      BY <1>5, <2>1, <3>1, <3>2 DEF Copies, Exists
  <2>4. CopiesKept(d, e)
    BY <1>3, <2>3 DEF CopiesKept
  <2> QED
    BY <2>2, <2>4 DEF e
<1>8. t \in {[s EXCEPT !.disk = m], [s EXCEPT !.disk = [m EXCEPT ![dest] = bare]],
             [s EXCEPT !.disk = [d EXCEPT ![dest] = cut]]}
  BY Zenon DEF HalfRelocated, m, cut
<1> HIDE DEF bare
<1>9. PICK e : /\ t = [s EXCEPT !.disk = e]
               /\ DiskStep(a, d, e) /\ CopiesKept(d, e)
  BY <1>3, <1>6, <1>7, <1>8
<1> QED
  BY <1>1, <1>9, SetDisk

\* The states a crash may cut the engine off in.
LEMMA CrashStates ==
    ASSUME TablesOK, NEW a \in Archives, NEW s \in HalfDone(a) \cup {StateOf(a)}
    PROVE  /\ SoundRow(s.row) /\ s.at \in OwnPlaces(a)
           /\ DiskStep(a, disk, s.disk) /\ CopiesKept(disk, s.disk)
           /\ job[a].state = "writing" => s.disk = disk
<1> DEFINE s0 == StateOf(a)
           t == Completed(a, s0)
           Goal == /\ SoundRow(s.row) /\ s.at \in OwnPlaces(a)
                   /\ DiskStep(a, disk, s.disk) /\ CopiesKept(disk, s.disk)
                   /\ job[a].state = "writing" => s.disk = disk
<1>1. /\ s0.row = rows[a] /\ s0.at = at[a] /\ s0.disk = disk /\ s0.job = job[a]
  BY StateOfFields
<1>2. ASSUME s = s0 PROVE Goal
  BY <1>1, <1>2, SameDiskKeeps DEF TablesOK, ArchiveOK
<1>3. ASSUME Accepts(a, s0), job[a].state = "done",
             s = t \/ (ShouldRelocate(a, t) /\ s \in HalfRelocated(a, t))
      PROVE  Goal
  <2>1. Tracked(rows[a])
    BY <1>1, <1>3 DEF Accepts, PostConvertFromStatuses, Tracked, Statuses
  <2>2. SoundState(a, s0)
    BY <2>1, StateOfSound
  <2>3. /\ SoundState(a, t) /\ t.disk = disk /\ Exists(t.disk, t.at)
    BY <1>1, <1>3, <2>2, CompletedSound DEF Accepts
  <2> HIDE DEF t, s0
  <2>4. CASE s = t
    BY <1>3, <2>3, <2>4, SameDiskKeeps DEF SoundState
  <2>5. CASE ShouldRelocate(a, t) /\ s \in HalfRelocated(a, t)
    BY <1>3, <2>3, <2>5, HalfRelocatedOK DEF SoundState
  <2> QED
    BY <1>3, <2>4, <2>5
<1>4. ASSUME FreshDue(a) \/ FailedDue(a), ShouldRelocate(a, s0),
             s \in HalfRelocated(a, s0)
      PROVE  Goal
  <2>1. /\ Tracked(rows[a]) /\ Exists(disk, at[a]) /\ job[a].state = "none"
    BY <1>4 DEF FreshDue, FailedDue, WorkDue, Tracked, Statuses, NoJob
  <2>2. SoundState(a, s0)
    BY <2>1, StateOfSound
  <2> HIDE DEF s0
  <2> QED
    BY <1>1, <1>4, <2>1, <2>2, HalfRelocatedOK DEF SoundState
<1>5. \/ s = s0
      \/ /\ Accepts(a, s0) /\ job[a].state = "done"
         /\ s = t \/ (ShouldRelocate(a, t) /\ s \in HalfRelocated(a, t))
      \/ /\ FreshDue(a) \/ FailedDue(a)
         /\ ShouldRelocate(a, s0) /\ s \in HalfRelocated(a, s0)
  BY DEF HalfDone
<1> QED
  BY <1>2, <1>3, <1>4, <1>5

\* An archiveconverter that lives on finishes its file.
LEMMA RevivedKeeps ==
    ASSUME NEW d \in Disks, NEW lives \in SUBSET Archives,
           \A b \in lives : Exists(d, OutOf(b))
    PROVE  LET e == [x \in Places |->
                       IF \E b \in lives : x = OutOf(b)
                         THEN [d[x] EXCEPT !.whole = TRUE] ELSE d[x]]
           IN  /\ e \in Disks /\ CopiesKept(d, e)
               /\ \A x \in Places : e[x] # d[x] => e[x].whole
<1> DEFINE e == [x \in Places |->
                   IF \E b \in lives : x = OutOf(b)
                     THEN [d[x] EXCEPT !.whole = TRUE] ELSE d[x]]
<1>1. ASSUME NEW x \in Places
      PROVE  \/ e[x] = d[x]
             \/ e[x] \in Files /\ e[x].of = d[x].of /\ e[x].whole
  <2>1. CASE \E b \in lives : x = OutOf(b)
    <3>1. d[x] \in Files
      BY <2>1, FileOf
    <3>2. e[x] = [d[x] EXCEPT !.whole = TRUE]
      BY <2>1
    <3> HIDE DEF e
    <3>3. e[x] \in Files /\ e[x].of = d[x].of /\ e[x].whole
      BY <3>1, <3>2, Zenon DEF Files
    <3> QED
      BY <3>3
  <2>2. CASE ~(\E b \in lives : x = OutOf(b))
    BY <2>2
  <2> QED
    BY <2>1, <2>2
<1>2. e = [x \in Places |-> e[x]]
  OBVIOUS
<1> HIDE DEF e
<1>3. e \in Disks
  BY <1>1, <1>2 DEF Disks
<1>4. ASSUME NEW c \in Contents, NEW x \in Copies(d, c)
      PROVE  x \in Copies(e, c)
  <2>1. x \in Places /\ Exists(d, x) /\ d[x].whole /\ d[x].of = c
    BY DEF Copies
  <2> QED
    BY <1>1, <2>1, PlacesAssumption DEF Copies, Exists
<1>5. e \in Disks /\ CopiesKept(d, e)
      /\ \A x \in Places : e[x] # d[x] => e[x].whole
  BY <1>1, <1>3, <1>4 DEF CopiesKept
<1> QED
  BY <1>5 DEF e

LEMMA CrashOK ==
    ASSUME TablesOK, Crash
    PROVE  StepOK
<1>1. PICK a \in Archives : \E s \in HalfDone(a) \cup {StateOf(a)} :
         /\ rows' = [rows EXCEPT ![a] = s.row]
         /\ at' = [at EXCEPT ![a] = s.at]
         /\ \E lives \in SUBSET {b \in Archives : job[b].state = "writing"} :
              disk' = [x \in Places |->
                         IF \E b \in lives : x = OutOf(b)
                           THEN [s.disk[x] EXCEPT !.whole = TRUE] ELSE s.disk[x]]
  BY DEF Crash
<1>2. PICK s \in HalfDone(a) \cup {StateOf(a)},
           lives \in SUBSET {b \in Archives : job[b].state = "writing"} :
         /\ rows' = [rows EXCEPT ![a] = s.row]
         /\ at' = [at EXCEPT ![a] = s.at]
         /\ disk' = [x \in Places |->
                       IF \E b \in lives : x = OutOf(b)
                         THEN [s.disk[x] EXCEPT !.whole = TRUE] ELSE s.disk[x]]
  BY <1>1
<1>3. job' = [b \in Archives |-> NoJob]
  BY DEF Crash
<1>4. /\ SoundRow(s.row) /\ s.at \in OwnPlaces(a)
      /\ DiskStep(a, disk, s.disk) /\ CopiesKept(disk, s.disk)
      /\ job[a].state = "writing" => s.disk = disk
  BY CrashStates
<1>5. \A b \in lives : Exists(s.disk, OutOf(b))
  BY <1>4 DEF DiskStep, TablesOK, ArchiveOK, ProductOf, Exists
<1>6. lives \in SUBSET Archives /\ s.disk \in Disks
  BY <1>4 DEF DiskStep
<1>7. /\ disk' \in Disks /\ CopiesKept(s.disk, disk')
      /\ \A x \in Places : disk'[x] # s.disk[x] => disk'[x].whole
  BY <1>2, <1>5, <1>6, RevivedKeeps
<1>8. CopiesKept(disk, disk')
  BY <1>4, <1>7 DEF CopiesKept
<1>9. ProductsKept
  <2> SUFFICES ASSUME NEW b \in Archives, Whole(disk, OutOf(b)),
                      Exists(disk', OutOf(b))
               PROVE  disk'[OutOf(b)].whole
    BY DEF ProductsKept
  <2>1. OutOf(b) \in Places
    BY PlacesApart
  <2>2. CASE disk'[OutOf(b)] # s.disk[OutOf(b)]
    BY <1>7, <2>1, <2>2
  <2>3. CASE disk'[OutOf(b)] = s.disk[OutOf(b)]
    BY <1>4, <2>3 DEF DiskStep, Whole, Exists
  <2> QED
    BY <2>2, <2>3
<1>10. TablesOK'
  <2>1. rows' \in [Archives -> Rows] /\ at' \in [Archives -> Places]
        /\ \A b \in Archives : SoundRow(rows'[b]) /\ at'[b] \in OwnPlaces(b)
    BY <1>2, <1>4, PlacesApart DEF TablesOK, ArchiveOK, SoundRow, OwnPlaces, Sources
  <2>2. NoJob \in JobStates /\ SoundJob(NoJob)
    BY DEF JobStates, SoundJob
  <2>3. \A b \in Archives : ProductOf(b, disk', NoJob)
    BY DEF ProductOf, NoJob
  <2> QED
    BY <1>3, <1>7, <2>1, <2>2, <2>3 DEF TablesOK, ArchiveOK
<1> QED
  BY <1>8, <1>9, <1>10 DEF StepOK

-----------------------------------------------------------------------------
(* All steps together.                                                     *)

LEMMA Spent == ASSUME RestOK, Spend PROVE budget' \in 0..Budget
BY ConvertAssumption DEF RestOK, Spend

LEMMA NotSeenTyped ==
    NotSeen \in [Paths -> [seen : Contents \cup {Gone}, n : 0..2]]
BY DEF NotSeen

LEMMA FollowsTyped ==
    /\ DOMAIN Follows = {"control", "scan", "absent", "reconcile", "poll",
                         "fresh", "failed"}
    /\ \A p \in DOMAIN Follows : Follows[p] \subseteq DOMAIN Follows
BY DEF Follows

LEMMA TickRest ==
    ASSUME TablesOK, RestOK, Tick
    PROVE  RestOK'
<1>1. CASE StartScan \/ Boot
  BY <1>1, FollowsTyped DEF StartScan, Boot, Enter, RestOK
<1>2. CASE NextPhase
  BY <1>2, FollowsTyped DEF NextPhase, Enter, RestOK
<1>3. ASSUME NEW p \in Paths, ObservePath(p) PROVE RestOK'
  <2>1. UNCHANGED <<phase, budget>> /\ todo' \subseteq todo
    BY <1>3 DEF ObservePath, Visit
  <2> DEFINE g == IF ~Exists(disk, p) THEN NotSeen[p]
                  ELSE [seen |-> disk[p].of,
                        n |-> IF gate[p].seen = disk[p].of THEN 2 ELSE 1]
  <2>2. gate' = [gate EXCEPT ![p] = g]
    BY <1>3 DEF ObservePath
  <2>3. g \in [seen : Contents \cup {Gone}, n : 0..2]
    <3>1. Exists(disk, p) => disk[p].of \in Contents
      BY FileOf DEF TablesOK, Places
    <3> QED
      BY <3>1, NotSeenTyped
  <2> HIDE DEF g
  <2> QED
    BY <2>1, <2>2, <2>3 DEF RestOK
<1>4. ASSUME NEW a \in Archives, RowStep(a) PROVE RestOK'
  <2>1. UNCHANGED <<gate, phase>>
    BY <1>4 DEF RowStep, ScanAbsent, Reconcile, PollConvert, StartFresh,
                RetryFailed, StartWork
  <2>2. todo' \subseteq todo
    BY <1>4 DEF RowStep, ScanAbsent, Reconcile, PollConvert, StartFresh,
                RetryFailed, Visit
  <2>3. budget' \in 0..Budget
    <3>1. UNCHANGED budget \/ Spend
      BY <1>4 DEF RowStep, ScanAbsent, Reconcile, PollConvert, PollFailed,
                  PollDone, StartFresh, RetryFailed, StartWork, Outcome
    <3> QED
      BY <3>1, Spent DEF RestOK
  <2> QED
    BY <2>1, <2>2, <2>3 DEF RestOK
<1> QED
  BY <1>1, <1>2, <1>3, <1>4 DEF Tick

\* No last copy goes, but in the hands of users or as a replaced source.
CopiesSafe ==
    \A c \in Contents : Copies(disk, c) # {} =>
      Copies(disk', c) # {} \/ Users \/ ReplacedUnderJob(c)

LEMMA NextOK ==
    ASSUME ConvertInv, [Next]_vars
    PROVE  ConvertInv' /\ ProductsKept /\ (CopiesSafe \/ UNCHANGED vars)
<1> DEFINE Goal == ConvertInv' /\ ProductsKept /\ CopiesSafe
<1> USE DEF ConvertInv
<1>1. ASSUME StepOK, RestOK' PROVE Goal
  BY <1>1 DEF StepOK, CopiesKept, CopiesSafe
<1>2. ASSUME Tick PROVE Goal
  <2>0. RestOK'
    BY <1>2, TickRest
  <2>1. CASE StartScan \/ Boot
    BY <1>1, <2>0, <2>1, AllRowsOK
  <2>2. CASE NextPhase
    <3>1. UNCHANGED <<rows, at, disk, job>>
      BY <2>2 DEF NextPhase
    <3> QED
      BY <1>1, <2>0, <3>1, RowStepOK DEF StepOK, TablesOK, ArchiveOK
  <2>3. ASSUME NEW p \in Paths, ObservePath(p) PROVE Goal
    BY <1>1, <2>0, <2>3, ObservePathOK
  <2>4. ASSUME NEW a \in Archives, RowStep(a) PROVE Goal
    <3>1. CASE ScanAbsent(a) \/ Reconcile(a)
      BY <1>1, <2>0, <3>1, ScanAbsentOK, ReconcileOK
    <3>2. CASE PollConvert(a)
      <4>1. CASE PollFailed(a)
        BY <1>1, <2>0, <4>1, PollFailedOK
      <4>2. CASE PollDone(a)
        BY <2>0, <4>2, PollDoneOK DEF CopiesSafe
      <4> QED
        BY <3>2, <4>1, <4>2 DEF PollConvert
    <3>3. CASE StartFresh(a)
      <4>1. Tracked(rows[a]) /\ WorkDue(a) /\ StartWork(a, TRUE)
        BY <3>3 DEF StartFresh, FreshDue, Tracked, Statuses
      <4> QED
        BY <1>1, <2>0, <4>1, StartWorkOK
    <3>4. CASE RetryFailed(a)
      <4>1. CASE FailedDue(a) /\ StartWork(a, FALSE)
        <5>1. Tracked(rows[a]) /\ WorkDue(a)
          BY <4>1 DEF FailedDue, Tracked, Statuses
        <5> QED
          BY <1>1, <2>0, <4>1, <5>1, StartWorkOK
      <4>2. CASE UNCHANGED <<rows, at, disk, job>>
        BY <1>1, <2>0, <4>2, RowStepOK DEF StepOK, TablesOK, ArchiveOK
      <4> QED
        BY <3>4, <4>1, <4>2 DEF RetryFailed
    <3> QED
      BY <2>4, <3>1, <3>2, <3>3, <3>4 DEF RowStep
  <2> QED
    BY <1>2, <2>1, <2>2, <2>3, <2>4 DEF Tick
<1>3. ASSUME Crash PROVE Goal
  <2>1. RestOK'
    BY <1>3, Spent, NotSeenTyped DEF Crash, Enter, RestOK
  <2> QED
    BY <1>1, <1>3, <2>1, CrashOK
<1>4. ASSUME Users PROVE Goal
  <2>1. PICK x \in Paths \cup Kept : FileChanges(x)
    BY <1>4 DEF Users
  <2>2. TablesOK' /\ ProductsKept
    BY <2>1, FileChangesOK DEF Sources
  <2>3. RestOK'
    BY <2>1, Spent DEF FileChanges, RestOK
  <2> QED
    BY <1>4, <2>2, <2>3 DEF CopiesSafe
<1>5. ASSUME NEW a \in Archives, Mounts(a) PROVE Goal
  <2>1. RestOK'
    BY <1>5 DEF Mounts, RestOK
  <2> QED
    BY <1>1, <1>5, <2>1, MountsOK
<1>6. ASSUME NEW a \in Archives, JobStarts(a) PROVE Goal
  <2>1. RestOK'
    BY <1>6 DEF JobStarts, RestOK
  <2> QED
    BY <1>1, <1>6, <2>1, JobStartsOK
<1>7. ASSUME NEW a \in Archives, JobEnds(a) \/ JobFails(a) PROVE Goal
  <2>1. RestOK'
    BY <1>7, Spent DEF JobEnds, JobFails, RestOK
  <2> QED
    BY <1>1, <1>7, <2>1, JobEndsOK
<1>8. ASSUME UNCHANGED vars PROVE ConvertInv' /\ ProductsKept
  BY <1>8 DEF vars, TablesOK, RestOK, ArchiveOK, ProductOf, Whole, Exists,
              ProductsKept
<1> QED
  BY <1>2, <1>3, <1>4, <1>5, <1>6, <1>7, <1>8 DEF Next

LEMMA InitOK == Init => ConvertInv
<1> SUFFICES ASSUME Init PROVE ConvertInv
  OBVIOUS
<1> DEFINE c == CHOOSE x \in Contents : TRUE
<1>1. c \in Contents
  BY RowAssumption
<1> HIDE DEF c
<1>2. NewRow(c) \in Rows /\ SoundRow(NewRow(c))
  BY <1>1, ZeroTries, Zenon
     DEF NewRow, Rows, SoundRow, PidOK, FirstOK, HooksStatuses
<1>3. rows = [a \in Archives |-> NewRow(c)]
  BY DEF Init, c
<1>4. at \in [Archives -> Places] /\ \A a \in Archives : at[a] \in OwnPlaces(a)
  BY ConvertAssumption DEF Init, Places, OwnPlaces
<1>5. \A x \in Contents : Archive(x) \in Files
  BY DEF Archive, Files
<1>6. disk \in Disks /\ \A a \in Archives : ~Exists(disk, OutOf(a))
  BY <1>5, PlacesApart DEF Init, Disks, Exists, Sources
<1>7. NoJob \in JobStates /\ SoundJob(NoJob)
      /\ \A a \in Archives : ProductOf(a, disk, NoJob)
  BY DEF JobStates, SoundJob, ProductOf, NoJob
<1>8. job = [a \in Archives |-> NoJob]
  BY DEF Init
<1>9. TablesOK
  BY <1>2, <1>3, <1>4, <1>6, <1>7, <1>8 DEF TablesOK, ArchiveOK
<1>10. RestOK
  BY NotSeenTyped, ConvertAssumption DEF Init, RestOK
<1> QED
  BY <1>9, <1>10 DEF ConvertInv

\* Every step of tick, jobs, people and crashes keeps the state in its types.
THEOREM ConvertTypeCorrect == Spec => []TypeOK
<1>1. ConvertInv => TypeOK
  BY DEF ConvertInv, TablesOK, RestOK, TypeOK, Disks
<1> QED
  BY <1>1, InitOK, NextOK, PTL DEF Spec

\* A product that is finished is not overwritten by a second conversion of its
\* id, whatever fails and whenever the daemon dies (BeginMount adopts it).
THEOREM ProductNotOverwrittenHolds == Spec => ProductNotOverwritten
<1>1. ConvertInv /\ [Next]_vars =>
        [\A a \in Archives :
           Exists(disk, OutOf(a)) /\ disk[OutOf(a)].whole
             => ~(Exists(disk', OutOf(a)) /\ ~disk'[OutOf(a)].whole)]_vars
  BY NextOK DEF ProductsKept, Whole
<1> QED
  BY <1>1, InitOK, NextOK, PTL DEF Spec, ProductNotOverwritten

\* No step of the daemon, of a job or of a crash destroys the last whole copy
\* of a content, but for a source replaced after its job had read it
\* (RemoveSupersededSource, relocateSync).
THEOREM LastCopyKeptHolds == Spec => LastCopyKept
<1>1. ConvertInv /\ [Next]_vars =>
        [\A c \in Contents :
           Copies(disk, c) # {} =>
             Copies(disk', c) # {} \/ Users \/ ReplacedUnderJob(c)]_vars
  BY NextOK DEF CopiesSafe
<1> QED
  BY <1>1, InitOK, NextOK, PTL DEF Spec, LastCopyKept
=============================================================================
