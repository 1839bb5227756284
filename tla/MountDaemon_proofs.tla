------------------------- MODULE MountDaemon_proofs -------------------------
(***************************************************************************)
(* Proofs about MountDaemon, for every set of archives, paths and children *)
(* and every setting.  The inductive invariant joins the type invariant to *)
(* a fact about each row by itself, SoundRow: the methods of the store     *)
(* keep a row sound one at a time, so a step of the                        *)
(* daemon, which goes through them, keeps all rows sound.  The second part *)
(* is about the index slots, the third about the children that rows and    *)
(* registry supervise.                                                     *)
(***************************************************************************)
EXTENDS MountDaemon, FiniteSetTheorems, TLAPS

-----------------------------------------------------------------------------
(* The methods of the store, one lemma each: a sound row goes in, a sound  *)
(* row comes out.                                                          *)

\* Patching fields keeps a row sound when the status it ends in allows for
\* its pid and follows the first mount: the rule every method has to respect.
\* (Store.Transition fills in first_mounted_at by itself.)
LEMMA ToSound ==
    ASSUME NEW r \in Rows, NEW status \in Statuses,
           r.pid # NoChild => status \in PidStatuses,
           status \in {"mounted", "hooks_running"} =>
             r.first \/ r.status \in {"indexing", "mounting"},
           r.hooks # "none" => r.first
    PROVE  SoundRow(To(r, status)) /\ To(r, status).status = status
  BY DEF SoundRow, To, Rows, PidOK, FirstOK

\* The same for a guarded transition, which may be refused.
LEMMA MoveSound ==
    ASSUME NEW r, SoundRow(r), NEW expected, NEW status \in Statuses,
           NEW r2 \in Rows,
           r2.pid # NoChild => status \in PidStatuses,
           status \in {"mounted", "hooks_running"} =>
             r2.first \/ r2.status \in {"indexing", "mounting"},
           r2.hooks # "none" => r2.first
    PROVE  SoundRow(Move(r, expected, status, r2))
  BY ToSound DEF Move

\* Zero failures is a count, whatever the maximum.
LEMMA ZeroTries == 0 \in 0..MaxAttempts
  BY RowAssumption

LEMMA ClearPidSound ==
    ASSUME NEW r, SoundRow(r)
    PROVE  SoundRow(ClearPid(r)) /\ ClearPid(r).pid = NoChild
  BY DEF SoundRow, ClearPid, Rows, PidOK, FirstOK

\* Counting a failure changes no field but the two counters.
LEMMA NextAttemptSound ==
    ASSUME NEW r, SoundRow(r)
    PROVE  /\ SoundRow(NextAttempt(r))
           /\ NextAttempt(r).pid = r.pid
           /\ NextAttempt(r).status = r.status
           /\ NextAttempt(r).first = r.first
           /\ NextAttempt(r).hooks = r.hooks
  <1> DEFINE n == IF r.tries < MaxAttempts THEN r.tries + 1 ELSE MaxAttempts
  <1>1. n \in 0..MaxAttempts /\ (n < MaxAttempts) \in BOOLEAN
    <2>1. r.tries \in 0..MaxAttempts
      BY DEF SoundRow, Rows
    <2> QED BY <2>1, RowAssumption
  <1> HIDE DEF n
  <1>2. [r EXCEPT !.tries = n, !.retryable = n < MaxAttempts] \in Rows
    BY <1>1, Zenon DEF SoundRow, Rows
  <1>3. [r EXCEPT !.tries = n, !.retryable = n < MaxAttempts] = NextAttempt(r)
    BY DEF NextAttempt, n
  <1> QED BY <1>2, <1>3, Zenon DEF SoundRow, Rows, PidOK, FirstOK, NextAttempt

LEMMA InsertDiscoveredFields ==
    ASSUME NEW r \in Rows, NEW content
    PROVE  /\ InsertDiscovered(r, content).status = "discovered"
           /\ InsertDiscovered(r, content).indexed = FALSE
  BY Zenon DEF InsertDiscovered, Rows

LEMMA InsertDiscoveredSound ==
    ASSUME NEW r, SoundRow(r), NEW content \in Contents
    PROVE  SoundRow(InsertDiscovered(r, content))
  BY ZeroTries, Zenon
  DEF SoundRow, InsertDiscovered, Rows, PidOK, FirstOK, Statuses, HooksStatuses

LEMMA ReappearSound ==
    ASSUME NEW r, SoundRow(r), NEW content \in Contents
    PROVE  SoundRow(Reappear(r, content))
  <1> DEFINE c == [r EXCEPT !.tries = 0, !.retryable = TRUE, !.print = content]
  <1>1. CASE r.status = "absent"
    <2>1. c \in Rows /\ c.pid = r.pid /\ c.first = r.first /\ c.hooks = r.hooks
      BY ZeroTries, Zenon DEF SoundRow, Rows
    <2>2. r.pid = NoChild
      BY <1>1 DEF SoundRow, PidOK, PidStatuses
    <2> HIDE DEF c
    <2>3. SoundRow(Move(r, {"absent"}, "discovered", c))
      BY <2>1, <2>2, MoveSound DEF SoundRow, FirstOK, Statuses
    <2> QED BY <2>3 DEF Reappear, c
  <1>2. CASE r.status # "absent"
    BY <1>2 DEF Reappear, Move
  <1> QED BY <1>1, <1>2

LEMMA TouchSeenSound ==
    ASSUME NEW r, SoundRow(r), Tracked(r)
    PROVE  SoundRow(TouchSeen(r))
  BY ToSound DEF TouchSeen, SoundRow, PidOK, FirstOK, Tracked

LEMMA ToUnmountingSound ==
    ASSUME NEW r, SoundRow(r)
    PROVE  SoundRow(ToUnmounting(r))
  BY ClearPidSound, MoveSound DEF ToUnmounting, SoundRow, FirstOK, ClearPid, Rows, Statuses

LEMMA MarkAbsentSound ==
    ASSUME NEW r, SoundRow(r)
    PROVE  SoundRow(MarkAbsent(r))
  <1> DEFINE u == IF r.status \in {"absent", "unmounting"}
                    THEN ClearPid(r) ELSE ToUnmounting(r)
  <1>1. SoundRow(u)
    BY ClearPidSound, ToUnmountingSound
  <1>2. u.status \in {"absent", "unmounting"} => u.pid = NoChild
    BY <1>1 DEF SoundRow, PidOK, PidStatuses
  <1>3. CASE u.status \in {"absent", "unmounting"}
    <2>1. SoundRow(Move(u, {"absent", "unmounting"}, "absent", u))
      BY <1>1, <1>2, <1>3, MoveSound DEF SoundRow, FirstOK, Statuses
    <2> QED BY <2>1 DEF MarkAbsent
  <1>4. CASE u.status \notin {"absent", "unmounting"}
    BY <1>1, <1>4 DEF MarkAbsent, Move
  <1> QED BY <1>3, <1>4

\* What a content change writes, before the status.
LEMMA ContentPatch ==
    ASSUME NEW u, SoundRow(u), NEW content \in Contents, NEW reset \in BOOLEAN
    PROVE  LET c == [ClearPid(u) EXCEPT !.print = content, !.tries = 0,
                                        !.retryable = TRUE, !.late = FALSE,
                                        !.first = @ /\ ~reset,
                                        !.hooks = IF reset THEN "none" ELSE @]
           IN  /\ c \in Rows
               /\ c.pid = NoChild
               /\ c.hooks # "none" => c.first
  <1>1. /\ ClearPid(u) \in Rows
        /\ ClearPid(u).pid = NoChild
        /\ ClearPid(u).first = u.first
        /\ ClearPid(u).hooks = u.hooks
        /\ u.hooks # "none" => u.first
    BY DEF ClearPid, SoundRow, FirstOK, Rows
  <1>2. "none" \in HooksStatuses
    BY DEF HooksStatuses
  <1> HIDE DEF ClearPid
  <1> QED BY <1>1, <1>2, ZeroTries, Zenon DEF Rows

\* A content change ends in discovered, without a child, and forgets the first
\* mount and the hooks together or not at all.
LEMMA RecordContentChangeSound ==
    ASSUME NEW r, SoundRow(r), NEW content \in Contents,
           NEW resetHooks \in BOOLEAN
    PROVE  SoundRow(RecordContentChange(r, content, resetHooks))
  <1> DEFINE u == IF ContentChangeTwoStep(r) THEN ToUnmounting(r) ELSE r
             c == [ClearPid(u) EXCEPT !.print = content, !.tries = 0,
                                      !.retryable = TRUE, !.late = FALSE,
                                      !.first = @ /\ ~resetHooks,
                                      !.hooks = IF resetHooks THEN "none" ELSE @]
  <1>1. SoundRow(u)
    BY ToUnmountingSound
  <1>2. /\ c \in Rows
        /\ c.pid = NoChild
        /\ c.hooks # "none" => c.first
    <2> HIDE DEF u
    <2> QED BY <1>1, ContentPatch
  <1>3. SoundRow(Move(u, {u.status}, "discovered", c))
    <2> HIDE DEF c, u
    <2> QED BY <1>1, <1>2, MoveSound DEF Statuses
  <1> QED BY <1>3 DEF RecordContentChange

LEMMA ResetMountAttemptsSound ==
    ASSUME NEW r, SoundRow(r), Tracked(r)
    PROVE  SoundRow(ResetMountAttempts(r))
  <1> DEFINE c == [r EXCEPT !.tries = 0, !.retryable = TRUE]
  <1>1. /\ SoundRow(c)
        /\ c.status = r.status /\ c.pid = r.pid
        /\ c.first = r.first /\ c.hooks = r.hooks
    BY ZeroTries, Zenon DEF SoundRow, Rows, PidOK, FirstOK
  <1> HIDE DEF c
  <1>2. CASE r.status \in {"index_failed", "mount_failed"}
    <2>1. SoundRow(To(c, "discovered")) /\ SoundRow(To(c, "mounting"))
      BY <1>1, <1>2, ToSound DEF SoundRow, PidOK, FirstOK, PidStatuses, Statuses
    <2> QED BY <1>2, <2>1 DEF ResetMountAttempts, c
  <1>3. CASE r.status \notin {"index_failed", "mount_failed"}
    <2>1. SoundRow(To(c, r.status))
      BY <1>1, ToSound DEF SoundRow, PidOK, FirstOK, Tracked
    <2> QED BY <1>3, <2>1 DEF ResetMountAttempts, c
  <1> QED BY <1>2, <1>3

LEMMA ResetPresentAttemptsSound ==
    ASSUME NEW r, SoundRow(r)
    PROVE  SoundRow(ResetPresentAttempts(r))
  BY ZeroTries, Zenon DEF ResetPresentAttempts, SoundRow, Rows, PidOK, FirstOK

\* Boot leaves every row in a status that a start of the daemon may find.
LEMMA BootRowSound ==
    ASSUME NEW r, SoundRow(r), NEW exists \in BOOLEAN
    PROVE  SoundRow(BootRow(r, exists))
  <1> DEFINE c == ClearPid(r)
             d == [c EXCEPT !.retryable = TRUE]
  <1>1. /\ SoundRow(c) /\ c.pid = NoChild
        /\ c.status = r.status
    BY ClearPidSound DEF ClearPid, SoundRow, Rows
  <1> HIDE DEF c
  <1>2. /\ d \in Rows /\ d.pid = NoChild
        /\ d.hooks = c.hooks /\ d.first = c.first
    BY <1>1 DEF SoundRow, Rows
  <1> HIDE DEF d
  <1>3. RequeueTarget(r) \in Statuses \ {"mounted", "hooks_running"}
    BY DEF RequeueTarget, Statuses
  <1>4. SoundRow(To(c, RequeueTarget(r)))
    BY <1>1, <1>3, ToSound DEF SoundRow, FirstOK
  <1>5. SoundRow(To(d, RequeueTarget(r)))
    BY <1>1, <1>2, <1>3, ToSound DEF SoundRow, FirstOK
  <1>6. SoundRow(To(d, "mount_failed"))
    BY <1>1, <1>2, ToSound DEF SoundRow, FirstOK, Statuses
  <1>7. SoundRow(MarkAbsent(r))
    BY MarkAbsentSound
  <1>8. Tracked(r) => SoundRow(To(c, r.status))
    BY <1>1, ToSound DEF SoundRow, FirstOK, Tracked
  <1>9. \/ BootRow(r, exists) \in {To(c, RequeueTarget(r)), To(d, RequeueTarget(r)),
                                  To(d, "mount_failed"), MarkAbsent(r), r}
        \/ Tracked(r) /\ BootRow(r, exists) = To(c, r.status)
    BY DEF BootRow, Tracked, Statuses, c, d
  <1> QED
    BY <1>4, <1>5, <1>6, <1>7, <1>8, <1>9

-----------------------------------------------------------------------------
(* The invariant.                                                          *)

SoundRows == \A a \in Archives : SoundRow(rows[a])
Inv == TypeOK /\ SoundRows

\* The invariant in the parts that the actions change separately.
RowsOK == rows \in [Archives -> Rows] /\ SoundRows
ChildrenOK ==
    /\ live \in [Archives -> LiveEntries]
    /\ kids \in [Children -> KidStates]
    /\ index \in [Archives -> IndexFiles]
RestOK ==
    /\ file \in [Paths -> Contents \cup {Gone}]
    /\ gate \in [Paths -> GateEntries]
    /\ phase \in Phases
    /\ todo \in SUBSET (Archives \cup Paths)
    /\ lowDisk \in BOOLEAN
    /\ budget \in 0..Budget

LEMMA Parts == Inv <=> RowsOK /\ ChildrenOK /\ RestOK
  BY DEF Inv, TypeOK, RowsOK, ChildrenOK, RestOK
LEMMA PartsNext == ASSUME RowsOK', ChildrenOK', RestOK' PROVE Inv'
  BY DEF Inv, TypeOK, RowsOK, ChildrenOK, RestOK

-----------------------------------------------------------------------------
(* Helpers.                                                                *)

\* Replacing one row by a sound one.
LEMMA OneRow ==
    ASSUME RowsOK, NEW a \in Archives, NEW r, SoundRow(r),
           rows' = [rows EXCEPT ![a] = r]
    PROVE  RowsOK'
  BY DEF RowsOK, SoundRows, SoundRow

\* Replacing every row by a sound one.
LEMMA AllRows ==
    ASSUME NEW f, rows' = [a \in Archives |-> f[a]],
           \A a \in Archives : SoundRow(f[a])
    PROVE  RowsOK'
  BY DEF RowsOK, SoundRows, SoundRow

LEMMA KeptRows == ASSUME RowsOK, UNCHANGED rows PROVE RowsOK'
  BY DEF RowsOK, SoundRows

LEMMA RowIsSound == ASSUME RowsOK, NEW a \in Archives
                    PROVE  SoundRow(rows[a]) /\ rows[a] \in Rows
  BY DEF RowsOK, SoundRows, SoundRow

\* Killing children, or unlinking the file one writes, leaves child states.
LEMMA KillTyped ==
    ASSUME NEW ks \in [Children -> KidStates], NEW cs
    PROVE  Kill(ks, cs) \in [Children -> KidStates]
  BY DEF Kill, KidStates

LEMMA UnlinkTyped ==
    ASSUME NEW ks \in [Children -> KidStates], NEW a \in Archives
    PROVE  Unlink(ks, a) \in [Children -> KidStates]
  <1>1. ASSUME NEW c \in Children, ks[c] = [of |-> a, job |-> "writing"]
        PROVE  [ks[c] EXCEPT !.job = "unlinked"] \in KidStates
    BY <1>1 DEF KidStates, Jobs
  <1> QED BY <1>1 DEF Unlink

LEMMA LiveTyped ==
    /\ NoLive \in LiveEntries
    /\ \A c \in Children, p \in {"index_only", "mount"} :
         [pid |-> c, phase |-> p] \in LiveEntries
  BY DEF LiveEntries

LEMMA KidTyped ==
    /\ Dead \in KidStates
    /\ \A a \in Archives, j \in Jobs : [of |-> a, job |-> j] \in KidStates
  BY DEF KidStates

LEMMA GateTyped ==
    \A x \in Contents \cup {Gone} :
      [seen |-> x, n |-> 0] \in GateEntries /\ [seen |-> x, n |-> 2] \in GateEntries
  BY DEF GateEntries

\* A request or fault takes one off the budget; what costs none keeps it.
LEMMA SpendTyped == ASSUME RestOK, Spend PROVE budget' \in 0..Budget
  BY StateAssumption DEF RestOK, Spend

LEMMA SpawnsTyped ==
    ASSUME RestOK, NEW a, NEW ok, Spawns(a, ok) PROVE budget' \in 0..Budget
  BY SpendTyped DEF RestOK, Spawns

-----------------------------------------------------------------------------
(* The mount engine.                                                       *)

\* Whatever a start comes to, the row ends in the work status with the pid of
\* the new child, or in the failed status without one.
LEMMA StartProcessSound ==
    ASSUME RowsOK, ChildrenOK, NEW a \in Archives, NEW r, SoundRow(r),
           NEW ks \in [Children -> KidStates],
           NEW lv \in [Archives -> LiveEntries],
           NEW indexing \in BOOLEAN, NEW ok \in BOOLEAN, NEW twice \in BOOLEAN,
           StartProcess(a, r, ks, lv, indexing, ok, twice)
    PROVE  /\ RowsOK'
           /\ live' \in [Archives -> LiveEntries]
           /\ kids' \in [Children -> KidStates]
  <1> DEFINE target  == IF indexing THEN "indexing" ELSE "mounting"
             claimed == Move(r, {r.status}, target, [r EXCEPT !.indexed = TRUE])
             cleared == IF indexing THEN ks ELSE ClearStaleMountHolders(ks, a)
             once    == NextAttempt(ClearPid(claimed))
             most    == IF twice THEN NextAttempt(once) ELSE once
             failed  == To(most, FailedStatus(indexing))
  <1>1. SoundRow(claimed)
    <2>1. /\ [r EXCEPT !.indexed = TRUE] \in Rows
          /\ [r EXCEPT !.indexed = TRUE].hooks = r.hooks
          /\ [r EXCEPT !.indexed = TRUE].first = r.first
      BY DEF SoundRow, Rows
    <2> QED
      BY <2>1, MoveSound DEF SoundRow, FirstOK, Statuses, PidStatuses
  <1>2. cleared \in [Children -> KidStates]
    BY KillTyped DEF ClearStaleMountHolders
  <1> HIDE DEF claimed
  <1>3. SoundRow(once) /\ once.pid = NoChild
    BY <1>1, ClearPidSound, NextAttemptSound
  <1> HIDE DEF once
  <1>4. SoundRow(most) /\ most.pid = NoChild
    BY <1>3, NextAttemptSound
  <1> HIDE DEF most
  <1>5. SoundRow(failed)
    BY <1>4, ToSound DEF SoundRow, FirstOK, FailedStatus, Statuses
  <1>6. CASE ok
    <2> HIDE DEF cleared
    <2>1. PICK c \in Children :
            /\ rows' = [rows EXCEPT ![a] = To([claimed EXCEPT !.pid = c], target)]
            /\ live' = [lv EXCEPT ![a] =
                 [pid |-> c, phase |-> IF indexing THEN "index_only" ELSE "mount"]]
            /\ kids' = [cleared EXCEPT ![c] =
                 [of |-> a, job |-> IF indexing THEN "opening" ELSE "starting"]]
      BY <1>6 DEF StartProcess, FreeFor, claimed, cleared
    <2> DEFINE s == [claimed EXCEPT !.pid = c]
    <2>2. s \in Rows /\ s.hooks = claimed.hooks /\ s.first = claimed.first
      BY <1>1 DEF SoundRow, Rows
    <2> HIDE DEF s
    <2>3. SoundRow(To(s, "indexing")) /\ SoundRow(To(s, "mounting"))
      <3>1. s.hooks # "none" => s.first
        BY <1>1, <2>2 DEF SoundRow, FirstOK
      <3>2. {"indexing", "mounting"} \subseteq Statuses \cap PidStatuses
        BY DEF Statuses, PidStatuses
      <3> QED BY <2>2, <3>1, <3>2, ToSound
    <2>4. RowsOK'
      BY <2>1, <2>3, OneRow DEF s
    <2>5. live' \in [Archives -> LiveEntries]
      BY <2>1, LiveTyped
    <2>6. kids' \in [Children -> KidStates]
      BY <2>1, <1>2, KidTyped DEF Jobs
    <2> QED BY <2>4, <2>5, <2>6
  <1>7. CASE ~ok
    <2> HIDE DEF cleared, failed
    <2>1. rows' = [rows EXCEPT ![a] = failed] /\ kids' = cleared /\ live' = lv
      BY <1>7 DEF StartProcess, failed, cleared, claimed, once, most
    <2> QED BY <2>1, <1>2, <1>5, OneRow
  <1> QED BY <1>6, <1>7

LEMMA BeginMountSound ==
    ASSUME RowsOK, ChildrenOK, NEW a \in Archives, NEW r, SoundRow(r),
           NEW first \in BOOLEAN, NEW ok \in BOOLEAN,
           BeginMount(a, r, first, ok)
    PROVE  RowsOK' /\ ChildrenOK'
  <1> DEFINE wipe  == PartialIndex(r) /\ index[a] # "none"
             idx   == IF wipe THEN "none" ELSE index[a]
             ks    == IF wipe THEN Unlink(kids, a) ELSE kids
             needs == first \/ ~r.indexed \/ idx = "none"
  <1>1. ks \in [Children -> KidStates] /\ idx \in IndexFiles
    BY UnlinkTyped DEF ChildrenOK, IndexFiles
  <1>2. index' \in [Archives -> IndexFiles]
    BY <1>1 DEF BeginMount, ChildrenOK
  <1>3. needs \in BOOLEAN
    BY DEF SoundRow, Rows
  <1>4. \/ rows' = [rows EXCEPT ![a] = r] /\ kids' = ks /\ UNCHANGED live
        \/ StartProcess(a, r, ks, live, needs, ok, FALSE)
    BY DEF BeginMount
  <1> HIDE DEF ks, idx, needs
  <1>5. CASE rows' = [rows EXCEPT ![a] = r] /\ kids' = ks /\ UNCHANGED live
    <2>1. RowsOK'
      BY <1>5, OneRow
    <2>2. ChildrenOK'
      BY <1>1, <1>2, <1>5 DEF ChildrenOK
    <2> QED BY <2>1, <2>2
  <1>6. CASE StartProcess(a, r, ks, live, needs, ok, FALSE)
    <2>1. live \in [Archives -> LiveEntries] /\ FALSE \in BOOLEAN
      BY DEF ChildrenOK
    <2>2. /\ RowsOK'
          /\ live' \in [Archives -> LiveEntries]
          /\ kids' \in [Children -> KidStates]
      BY <1>1, <1>3, <1>6, <2>1, StartProcessSound
    <2> QED BY <1>2, <2>2 DEF ChildrenOK
  <1> QED BY <1>4, <1>5, <1>6

LEMMA MarkFailedSound ==
    ASSUME RowsOK, ChildrenOK, NEW a \in Archives, MarkFailed(a)
    PROVE  RowsOK' /\ ChildrenOK'
  <1> DEFINE r    == rows[a]
             building == live[a].phase = "index_only"
             drop == building \/ index[a] = "none"
             n    == NextAttempt(ClearPid(r))
             c    == [n EXCEPT !.indexed = @ /\ ~drop]
             failed == FailedStatus(building)
  <1>1. CASE ~Tracked(r)
    BY <1>1, KeptRows DEF MarkFailed, ChildrenOK
  <1>2. CASE Tracked(r)
    <2>1. /\ rows' = [rows EXCEPT ![a] =
                       Move(r, {"indexing", "mounting", failed}, failed, c)]
          /\ live' = [live EXCEPT ![a] = NoLive]
          /\ index' = [index EXCEPT ![a] = IF drop THEN "none" ELSE @]
          /\ kids' = IF drop THEN Unlink(kids, a) ELSE kids
      BY <1>2 DEF MarkFailed
    <2>2. SoundRow(r)
      BY RowIsSound
    <2>3. SoundRow(n) /\ n.pid = NoChild
      BY <2>2, ClearPidSound, NextAttemptSound
    <2> HIDE DEF n
    <2>4. c \in Rows /\ c.pid = NoChild /\ c.hooks = n.hooks /\ c.first = n.first
      BY <2>3 DEF SoundRow, Rows
    <2> HIDE DEF c
    <2>5. failed \in {"index_failed", "mount_failed"}
      BY DEF FailedStatus
    <2> HIDE DEF failed
    <2>6. SoundRow(Move(r, {"indexing", "mounting", failed}, failed, c))
      BY <2>2, <2>3, <2>4, <2>5, MoveSound DEF SoundRow, FirstOK, Statuses
    <2>7. RowsOK'
      BY <2>1, <2>6, OneRow
    <2> QED
      BY <2>1, <2>7, UnlinkTyped, LiveTyped DEF ChildrenOK, IndexFiles
  <1> QED BY <1>1, <1>2

LEMMA CompleteIndexSound ==
    ASSUME RowsOK, ChildrenOK, NEW a \in Archives, NEW ok \in BOOLEAN,
           CompleteIndex(a, ok)
    PROVE  RowsOK' /\ ChildrenOK'
  <1> DEFINE r == rows[a]
             dropped == [live EXCEPT ![a] = IF Tracked(r) THEN NoLive ELSE @]
  <1>1. SoundRow(r)
    BY RowIsSound
  <1>2. dropped \in [Archives -> LiveEntries]
    BY LiveTyped DEF ChildrenOK
  <1> HIDE DEF dropped
  <1>3. index' \in [Archives -> IndexFiles]
    BY DEF CompleteIndex, ChildrenOK
  <1>4. CASE r.status = "indexing"
    <2>1. SoundRow(To(r, "mounting"))
      BY <1>1, ToSound DEF SoundRow, FirstOK, Statuses, PidStatuses
    <2>2. StartProcess(a, To(r, "mounting"), kids, dropped, FALSE, ok, TRUE)
      BY <1>4 DEF CompleteIndex, dropped
    <2>3. kids \in [Children -> KidStates] /\ FALSE \in BOOLEAN /\ TRUE \in BOOLEAN
      BY DEF ChildrenOK
    <2> HIDE DEF r
    <2>4. /\ RowsOK'
          /\ live' \in [Archives -> LiveEntries]
          /\ kids' \in [Children -> KidStates]
      BY <1>2, <2>1, <2>2, <2>3, StartProcessSound
    <2> QED BY <1>3, <2>4 DEF ChildrenOK
  <1>5. CASE r.status # "indexing"
    <2> DEFINE n == NextAttempt(ClearPid(r))
    <2>1. SoundRow(n) /\ n.pid = NoChild
      BY <1>1, ClearPidSound, NextAttemptSound
    <2> HIDE DEF n
    <2>2. SoundRow(Move(r, {"mounting", "mount_failed"}, "mount_failed", n))
      BY <1>1, <2>1, MoveSound DEF SoundRow, FirstOK, Statuses
    <2>3. /\ rows' = [rows EXCEPT ![a] =
               Move(r, {"mounting", "mount_failed"}, "mount_failed", n)]
          /\ live' = dropped /\ kids' = kids
      BY <1>5 DEF CompleteIndex, dropped, n
    <2> QED BY <1>2, <1>3, <2>2, <2>3, OneRow DEF ChildrenOK
  <1> QED BY <1>4, <1>5

LEMMA MarkMountedSound ==
    ASSUME RowsOK, ChildrenOK, NEW a \in Archives, live[a] # NoLive,
           MarkMounted(a)
    PROVE  RowsOK' /\ ChildrenOK'
  <1> DEFINE r == rows[a]
             c == [r EXCEPT !.pid = live[a].pid]
  <1>1. SoundRow(r)
    BY RowIsSound
  <1>2. live[a].pid \in Children
    BY DEF ChildrenOK, LiveEntries
  <1>3. c \in Rows /\ c.status = r.status /\ c.hooks = r.hooks /\ c.first = r.first
    BY <1>1, <1>2 DEF SoundRow, Rows
  <1> HIDE DEF c
  <1>4. SoundRow(Move(r, {"indexing", "mounting", "mounted"}, "mounted", c))
    <2>1. CASE r.status \in {"indexing", "mounting", "mounted"}
      BY <2>1, <1>1, <1>3, MoveSound DEF SoundRow, FirstOK, Statuses, PidStatuses
    <2>2. CASE r.status \notin {"indexing", "mounting", "mounted"}
      BY <2>2, <1>1 DEF Move
    <2> QED BY <2>1, <2>2
  <1>5. RowsOK'
    BY <1>4, OneRow DEF MarkMounted, c
  <1> QED BY <1>5 DEF MarkMounted, ChildrenOK

LEMMA UnmountSound ==
    ASSUME RowsOK, ChildrenOK, NEW a \in Archives, Unmount(a)
    PROVE  /\ RowsOK'
           /\ live' \in [Archives -> LiveEntries]
           /\ kids' \in [Children -> KidStates]
  <1>1. SoundRow(IF rows[a].status = "absent" THEN rows[a] ELSE ToUnmounting(rows[a]))
    BY RowIsSound, ToUnmountingSound
  <1>2. RowsOK'
    BY <1>1, OneRow DEF Unmount
  <1>3. live' \in [Archives -> LiveEntries]
    BY LiveTyped DEF Unmount, ChildrenOK
  <1>4. kids' \in [Children -> KidStates]
    BY KillTyped DEF Unmount, ChildrenOK
  <1> QED BY <1>2, <1>3, <1>4

-----------------------------------------------------------------------------
(* The steps of the engine.                                                *)

LEMMA VisitTyped == ASSUME RestOK, NEW name, NEW a, Visit(name, a)
                    PROVE  todo' \in SUBSET (Archives \cup Paths)
  BY DEF RestOK, Visit

LEMMA ProgressSound ==
    ASSUME Inv, NEW a \in Archives, Progress(a) PROVE Inv'
  <1> USE Parts, PartsNext
  <1>1. RowsOK' /\ ChildrenOK' /\ budget' \in 0..Budget
    <2>1. CASE /\ Check(a) = "index_complete"
               /\ \E ok \in BOOLEAN : CompleteIndex(a, ok) /\ Spawns(a, ok)
      BY <2>1, CompleteIndexSound, SpawnsTyped
    <2>2. CASE Check(a) = "mounted" /\ MarkMounted(a) /\ UNCHANGED budget
      <3>1. live[a] # NoLive
        BY <2>2 DEF Check
      <3> QED BY <2>2, <3>1, MarkMountedSound DEF RestOK
    <2>3. CASE Check(a) = "exited" /\ MarkFailed(a) /\ UNCHANGED budget
      BY <2>3, MarkFailedSound DEF RestOK
    <2> QED BY <2>1, <2>2, <2>3 DEF Progress
  <1>2. RestOK'
    BY <1>1, VisitTyped DEF Progress, RestOK
  <1> QED BY <1>1, <1>2

LEMMA StartWorkSound ==
    ASSUME Inv, NEW a \in Archives, NEW first \in BOOLEAN, NEW name,
           Visit(name, a), StartWork(a, first)
    PROVE  Inv'
  <1> USE Parts, PartsNext
  <1>1. RowsOK' /\ ChildrenOK' /\ budget' \in 0..Budget
    BY BeginMountSound, SpawnsTyped, RowIsSound DEF StartWork
  <1>2. RestOK'
    BY <1>1, VisitTyped DEF StartWork, RestOK
  <1> QED BY <1>1, <1>2

LEMMA PendingWorkSound ==
    ASSUME Inv, NEW a \in Archives,
           RetryStuck(a) \/ StartFresh(a) \/ RetryFailed(a)
    PROVE  Inv'
  <1>1. (~rows[a].first) \in BOOLEAN
    OBVIOUS
  <1>2. CASE RetryStuck(a)
    BY <1>1, <1>2, StartWorkSound DEF RetryStuck
  <1>3. CASE StartFresh(a)
    BY <1>3, StartWorkSound DEF StartFresh
  <1>4. CASE Visit("failed", a) /\ FailedDue(a) /\ ~NoSlot(a) /\ StartWork(a, FALSE)
    BY <1>4, StartWorkSound
  <1>5. CASE todo' = {} /\ UNCHANGED <<rows, live, kids, index, world, phase, gate,
                                       lowDisk>>
    BY <1>5, Parts, PartsNext, KeptRows DEF world, ChildrenOK, RestOK
  <1> QED BY <1>2, <1>3, <1>4, <1>5 DEF RetryFailed

-----------------------------------------------------------------------------
(* Reconciliation.                                                         *)

LEMMA FailAsSound ==
    ASSUME RowsOK, ChildrenOK, NEW a \in Archives, NEW r, SoundRow(r),
           r.pid = NoChild, NEW drop \in BOOLEAN, FailAs(a, r, drop)
    PROVE  RowsOK' /\ ChildrenOK'
  <1> DEFINE failed == IF r.status = "indexing" THEN "index_failed"
                                                ELSE "mount_failed"
             n == NextAttempt(r)
             c == [n EXCEPT !.indexed = @ /\ ~drop]
  <1>1. SoundRow(n) /\ n.pid = NoChild
    BY NextAttemptSound
  <1> HIDE DEF n
  <1>2. c \in Rows /\ c.pid = NoChild /\ c.hooks = n.hooks /\ c.first = n.first
    BY <1>1 DEF SoundRow, Rows
  <1> HIDE DEF c
  <1>3. SoundRow(Move(r, {r.status}, failed, c))
    BY <1>1, <1>2, MoveSound DEF SoundRow, FirstOK, Statuses
  <1>4. RowsOK'
    BY <1>3, OneRow DEF FailAs, c, n
  <1> QED
    BY <1>4, UnlinkTyped, LiveTyped DEF FailAs, ChildrenOK, IndexFiles

LEMMA ApplyFailSound ==
    ASSUME RowsOK, ChildrenOK, NEW a \in Archives, ApplyFail(a)
    PROVE  RowsOK' /\ ChildrenOK'
  <1>1. SoundRow(ClearPid(rows[a])) /\ ClearPid(rows[a]).pid = NoChild
    BY RowIsSound, ClearPidSound
  <1>2. (rows[a].status = "indexing" \/ ~rows[a].first) \in BOOLEAN
    OBVIOUS
  <1> QED BY <1>1, <1>2, FailAsSound DEF ApplyFail

LEMMA ApplyMarkAbsentSound ==
    ASSUME RowsOK, ChildrenOK, NEW a \in Archives, ApplyMarkAbsent(a)
    PROVE  RowsOK' /\ ChildrenOK'
  <1>1. RowsOK'
    BY RowIsSound, MarkAbsentSound, OneRow DEF ApplyMarkAbsent
  <1> QED BY <1>1, LiveTyped DEF ApplyMarkAbsent, ChildrenOK

LEMMA ApplyCleanupIndexSound ==
    ASSUME RowsOK, ChildrenOK, NEW a \in Archives, Cleanable(a),
           ApplyCleanupIndex(a)
    PROVE  RowsOK' /\ ChildrenOK'
  <1> DEFINE c == [rows[a] EXCEPT !.indexed = FALSE]
  <1>1. SoundRow(rows[a])
    BY RowIsSound
  <1>2. /\ c \in Rows /\ c.status = rows[a].status /\ c.pid = rows[a].pid
        /\ c.hooks = rows[a].hooks /\ c.first = rows[a].first
    BY <1>1 DEF SoundRow, Rows
  <1>3. rows[a].status \in Statuses
    BY DEF Cleanable, PartialIndex, Statuses
  <1> HIDE DEF c
  <1>4. SoundRow(To(c, rows[a].status))
    BY <1>1, <1>2, <1>3, ToSound DEF SoundRow, PidOK, FirstOK
  <1>5. RowsOK'
    BY <1>4, OneRow DEF ApplyCleanupIndex, c
  <1> QED BY <1>5, UnlinkTyped DEF ApplyCleanupIndex, ChildrenOK, IndexFiles

LEMMA ReconcileSound ==
    ASSUME Inv, NEW a \in Archives, Reconcile(a) PROVE Inv'
  <1> USE Parts, PartsNext
  <1>1. RowsOK' /\ ChildrenOK'
    BY ApplyFailSound, ApplyMarkAbsentSound, ApplyCleanupIndexSound DEF Reconcile
  <1>2. RestOK'
    BY VisitTyped DEF Reconcile, RestOK, world
  <1> QED BY <1>1, <1>2

LEMMA BootSound == ASSUME Inv, Boot PROVE Inv'
  <1> USE Parts, PartsNext
  <1> DEFINE c(a) == [rows[a] EXCEPT !.indexed = @ /\ ~Cleanable(a)]
  <1>1. ASSUME NEW a \in Archives
        PROVE  SoundRow(BootedRows[a])
    <2>1. SoundRow(rows[a])
      BY RowIsSound
    <2>2. SoundRow(c(a))
      BY <2>1 DEF SoundRow, Rows, PidOK, FirstOK
    <2>3. FileExists(a) \in BOOLEAN
      BY DEF FileExists
    <2>4. BootedRows[a] = BootRow(c(a), FileExists(a))
      BY DEF BootedRows
    <2> HIDE DEF c
    <2> QED BY <2>2, <2>3, <2>4, BootRowSound
  <1>2. BootedRows = [a \in Archives |-> BootedRows[a]]
    BY DEF BootedRows
  <1>3. RowsOK'
    BY <1>1, <1>2, AllRows DEF Boot
  <1>4. ChildrenOK'
    BY KillTyped DEF Boot, ChildrenOK, IndexFiles
  <1>5. RestOK'
    BY DEF Boot, Enter, RestOK, world, Phases
  <1> QED BY <1>3, <1>4, <1>5

-----------------------------------------------------------------------------
(* Scanner, hooks and cleaner.                                             *)

LEMMA ObservedRowSound ==
    ASSUME NEW r, SoundRow(r), Tracked(r), NEW content \in Contents
    PROVE  SoundRow(ObservedRow(r, content, ResetHooksOnChange))
  BY ReappearSound, RecordContentChangeSound, TouchSeenSound, StateAssumption
  DEF ObservedRow

LEMMA ObservedTyped ==
    ASSUME RestOK, NEW p \in Paths
    PROVE  Observed(p) \in GateEntries
  BY DEF Observed, Listed, RestOK, GateEntries

LEMMA ObservePathSound ==
    ASSUME Inv, NEW p \in Paths, ObservePath(p) PROVE Inv'
  <1> USE Parts, PartsNext
  <1>1. file[p] # Gone => file[p] \in Contents
    BY DEF RestOK
  <1>2. RowsOK'
    <2>1. CASE UNCHANGED rows
      BY <2>1, KeptRows
    <2>2. ASSUME file[p] # Gone, NEW a \in RowsAt(p),
                 rows' = [rows EXCEPT ![a] = ObservedRow(@, file[p], ResetHooksOnChange)]
          PROVE  RowsOK'
      <3>1. a \in Archives /\ SoundRow(rows[a]) /\ Tracked(rows[a])
        BY <2>2, RowIsSound DEF RowsAt
      <3> QED BY <1>1, <2>2, <3>1, ObservedRowSound, OneRow
    <2>3. ASSUME file[p] # Gone, NEW a \in NewIds(p),
                 rows' = [rows EXCEPT ![a] = InsertDiscovered(@, file[p])]
          PROVE  RowsOK'
      <3>1. a \in Archives /\ SoundRow(rows[a])
        BY <2>3, RowIsSound DEF NewIds
      <3> QED BY <1>1, <2>3, <3>1, InsertDiscoveredSound, OneRow
    <2> QED BY <2>1, <2>2, <2>3 DEF ObservePath, Listed
  <1>3. ChildrenOK'
    BY DEF ObservePath, ChildrenOK
  <1>4. RestOK'
    BY ObservedTyped DEF ObservePath, RestOK, world
  <1> QED BY <1>2, <1>3, <1>4

LEMMA ScanAbsentSound ==
    ASSUME Inv, NEW a \in Archives, ScanAbsent(a) PROVE Inv'
  <1> USE Parts, PartsNext
  <1>1. RowsOK'
    BY RowIsSound, MarkAbsentSound, OneRow DEF ScanAbsent
  <1> QED BY <1>1, VisitTyped DEF ScanAbsent, ChildrenOK, RestOK, world

\* Hooks only start on a mounted row, whose first mount is on record.
LEMMA EnterHooksSound ==
    ASSUME RowsOK, ChildrenOK, NEW a \in Archives, EnterHooks(a)
    PROVE  RowsOK' /\ ChildrenOK'
  <1> DEFINE c == [rows[a] EXCEPT !.hooks = "running"]
  <1>1. SoundRow(rows[a]) /\ rows[a].status = "mounted"
    BY RowIsSound DEF EnterHooks
  <1>2. c \in Rows /\ c.first
    BY <1>1 DEF SoundRow, Rows, FirstOK, HooksStatuses
  <1> HIDE DEF c
  <1>3. SoundRow(To(c, "hooks_running"))
    BY <1>2, ToSound DEF Statuses, PidStatuses
  <1>4. RowsOK'
    BY <1>3, OneRow DEF EnterHooks, c
  <1> QED BY <1>4 DEF EnterHooks, ChildrenOK

LEMMA StartHooksSound ==
    ASSUME Inv, NEW a \in Archives, StartHooks(a) PROVE Inv'
  <1> USE Parts, PartsNext
  <1> QED BY EnterHooksSound, VisitTyped DEF StartHooks, EnterHooks, RestOK, world

LEMMA FinishHooksSound ==
    ASSUME Inv, NEW a \in Archives, FinishHooks(a) PROVE Inv'
  <1> USE Parts, PartsNext
  <1>1. SoundRow(rows[a]) /\ rows[a].status = "hooks_running"
    BY RowIsSound DEF FinishHooks
  <1>2. PICK outcome \in HookOutcomes :
          rows' = [rows EXCEPT ![a] = To([@ EXCEPT !.hooks = outcome], "mounted")]
    BY DEF FinishHooks
  <1> DEFINE c == [rows[a] EXCEPT !.hooks = outcome]
  <1>3. outcome \in HooksStatuses
    BY StateAssumption DEF HooksStatuses
  <1>4. c \in Rows /\ c.first
    BY <1>1, <1>3 DEF SoundRow, Rows, FirstOK
  <1>5. rows' = [rows EXCEPT ![a] = To(c, "mounted")]
    BY <1>2
  <1> HIDE DEF c
  <1>6. SoundRow(To(c, "mounted"))
    BY <1>4, ToSound DEF Statuses, PidStatuses
  <1>7. RowsOK'
    BY <1>5, <1>6, OneRow
  <1>8. RestOK'
    BY DEF FinishHooks, RestOK, world, Phases
  <1> QED BY <1>7, <1>8 DEF FinishHooks, ChildrenOK

LEMMA DropRowSound ==
    ASSUME RowsOK, ChildrenOK, NEW a \in Archives, Tracked(rows[a]),
           NEW ks \in [Children -> KidStates], DropRow(a, ks)
    PROVE  /\ RowsOK'
           /\ kids' \in [Children -> KidStates]
           /\ index' \in [Archives -> IndexFiles]
  <1> DEFINE c == [rows[a] EXCEPT !.status = "purged", !.pid = NoChild,
                                  !.late = FALSE]
  <1>1. SoundRow(rows[a])
    BY RowIsSound
  <1>2. SoundRow(c)
    BY <1>1, Zenon DEF SoundRow, Rows, PidOK, FirstOK
  <1>3. RowsOK'
    BY <1>2, OneRow DEF DropRow
  <1> QED BY <1>3, UnlinkTyped DEF DropRow, ChildrenOK, IndexFiles

LEMMA PurgeExpiredSound ==
    ASSUME Inv, NEW a \in Archives, PurgeExpired(a) PROVE Inv'
  <1> USE Parts, PartsNext
  <1>1. Tracked(rows[a])
    BY DEF PurgeExpired, AbsentPastGrace, Tracked, Statuses
  <1>2. /\ RowsOK'
        /\ kids' \in [Children -> KidStates]
        /\ index' \in [Archives -> IndexFiles]
    BY <1>1, DropRowSound DEF PurgeExpired, ChildrenOK
  <1> QED BY <1>2, VisitTyped DEF PurgeExpired, ChildrenOK, RestOK, world

LEMMA PurgeNowSound ==
    ASSUME RowsOK, ChildrenOK, NEW a \in Archives, PurgeNow(a)
    PROVE  RowsOK' /\ ChildrenOK'
  <1> DEFINE killed == Kill(kids, {c \in KidsOf(a) : \/ c = live[a].pid
                                                     \/ kids[c].job = "serving"})
  <1>1. killed \in [Children -> KidStates]
    BY KillTyped DEF ChildrenOK
  <1>2. \/ DropRow(a, killed) /\ live' = [live EXCEPT ![a] = NoLive]
        \/ DropRow(a, kids) /\ UNCHANGED live
    BY DEF PurgeNow
  <1> HIDE DEF killed
  <1>3. Tracked(rows[a])
    BY DEF PurgeNow
  <1> QED BY <1>1, <1>2, <1>3, DropRowSound, LiveTyped DEF ChildrenOK

-----------------------------------------------------------------------------
(* Control operations.                                                     *)

LEMMA OperatorSound == ASSUME Inv, Operator PROVE Inv'
  <1> USE Parts, PartsNext
  <1>1. ASSUME NEW a \in Archives, OpRetry(a) PROVE Inv'
    <2>1. RowsOK'
      BY <1>1, RowIsSound, ResetMountAttemptsSound, OneRow DEF OpRetry
    <2> QED BY <1>1, <2>1, SpendTyped DEF OpRetry, Request, ChildrenOK, RestOK
  <1>2. ASSUME NEW a \in Archives, OpUnmount(a) PROVE Inv'
    <2>1. /\ RowsOK'
          /\ live' \in [Archives -> LiveEntries]
          /\ kids' \in [Children -> KidStates]
      BY <1>2, UnmountSound DEF OpUnmount
    <2> QED BY <1>2, <2>1, SpendTyped DEF OpUnmount, Request, ChildrenOK, RestOK
  <1>3. ASSUME NEW a \in Archives, OpPurge(a) PROVE Inv'
    <2>1. RowsOK' /\ ChildrenOK'
      BY <1>3, PurgeNowSound DEF OpPurge
    <2> QED
      BY <1>3, <2>1, SpendTyped DEF OpPurge, PurgeNow, Request, RestOK
  <1>4. ASSUME NEW a \in Archives, OpHooksRun(a) PROVE Inv'
    <2>1. RowsOK' /\ ChildrenOK'
      BY <1>4, EnterHooksSound DEF OpHooksRun
    <2> QED
      BY <1>4, <2>1, SpendTyped
      DEF OpHooksRun, EnterHooks, Enter, Request, RestOK, Phases
  <1>5. ASSUME NEW p \in Paths, OpMount(p) PROVE Inv'
    <2>1. file[p] \in Contents
      BY <1>5 DEF OpMount, RestOK
    <2>2. /\ RowsOK' /\ ChildrenOK'
          /\ gate' \in [Paths -> GateEntries]
      <3>1. ASSUME NEW a \in RowsAt(p), NEW ok \in BOOLEAN,
                   BeginMount(a, rows[a], ~rows[a].first, ok), UNCHANGED gate
            PROVE  RowsOK' /\ ChildrenOK'
        <4>1. a \in Archives /\ (~rows[a].first) \in BOOLEAN
          BY DEF RowsAt
        <4> QED BY <3>1, <4>1, RowIsSound, BeginMountSound
      <3>2. ASSUME NEW a \in NewIds(p), NEW ok \in BOOLEAN,
                   BeginMount(a, InsertDiscovered(rows[a], file[p]), TRUE, ok)
            PROVE  RowsOK' /\ ChildrenOK'
        <4>1. a \in Archives
          BY DEF NewIds
        <4>2. SoundRow(InsertDiscovered(rows[a], file[p]))
          BY <2>1, <4>1, RowIsSound, InsertDiscoveredSound
        <4> QED BY <3>2, <4>1, <4>2, BeginMountSound
      <3>3. gate' \in [Paths -> GateEntries]
        <4> DEFINE seen == [seen |-> file[p], n |-> 2]
        <4>1. seen \in GateEntries
          BY <2>1, GateTyped
        <4> HIDE DEF seen
        <4>2. gate' = gate \/ gate' = [gate EXCEPT ![p] = seen]
          BY <1>5 DEF OpMount, seen
        <4> QED BY <4>1, <4>2 DEF RestOK
      <3> QED BY <1>5, <3>1, <3>2, <3>3 DEF OpMount
    <2> QED BY <1>5, <2>2, SpendTyped DEF OpMount, Request, RestOK
  <1>6. CASE OpRescanStable
    <2>1. RowsOK'
      <3>1. \A a \in Archives :
              SoundRow([b \in Archives |-> ResetPresentAttempts(rows[b])][a])
        BY RowIsSound, ResetPresentAttemptsSound
      <3> QED BY <1>6, <3>1, AllRows DEF OpRescanStable
    <2> QED
      BY <1>6, <2>1, SpendTyped
      DEF OpRescanStable, Request, Enter, ChildrenOK, RestOK, Phases
  <1>7. CASE OpStop
    BY <1>7, KeptRows, SpendTyped
    DEF OpStop, Request, Enter, ChildrenOK, RestOK, Phases
  <1> QED BY <1>1, <1>2, <1>3, <1>4, <1>5, <1>6, <1>7 DEF Operator, ArchiveRequest

-----------------------------------------------------------------------------
(* The tick, start, stop and crash.                                        *)

LEMMA StartScanSound == ASSUME Inv, StartScan PROVE Inv'
  <1> USE Parts, PartsNext
  <1>1. RowsOK'
    <2>1. \A a \in Archives :
            SoundRow([b \in Archives |-> ResetPresentAttempts(rows[b])][a])
      BY RowIsSound, ResetPresentAttemptsSound
    <2> QED BY <2>1, AllRows DEF StartScan
  <1> QED
    BY <1>1 DEF StartScan, Enter, world, ChildrenOK, RestOK, Phases

LEMMA NextPhaseSound == ASSUME Inv, NextPhase PROVE Inv'
  <1> USE Parts, PartsNext
  <1>1. lowDisk' \in BOOLEAN
    BY StateAssumption DEF NextPhase, Cleaned, RestOK
  <1>2. phase' \in Phases /\ todo' \in SUBSET (Archives \cup Paths)
    <2>1. \A p \in DOMAIN Follows : Follows[p] \subseteq Phases
      BY DEF Follows, Phases
    <2> QED BY <2>1 DEF NextPhase, Enter
  <1> QED
    BY <1>1, <1>2, KeptRows DEF NextPhase, world, ChildrenOK, RestOK

LEMMA StopRowSound == ASSUME Inv, NEW a \in Archives, StopRow(a) PROVE Inv'
  <1> USE Parts, PartsNext
  <1>1. /\ RowsOK'
        /\ live' \in [Archives -> LiveEntries]
        /\ kids' \in [Children -> KidStates]
    BY UnmountSound DEF StopRow
  <1> QED BY <1>1, VisitTyped DEF StopRow, world, ChildrenOK, RestOK

LEMMA ExitSound ==
    ASSUME Inv, Exit, RowsOK', budget' \in 0..Budget PROVE Inv'
  <1> USE Parts, PartsNext
  <1>1. ChildrenOK'
    BY LiveTyped, KidTyped DEF Exit, ChildrenOK
  <1>2. RestOK'
    BY GateTyped DEF Exit, Enter, RestOK, Phases
  <1> QED BY <1>1, <1>2

LEMMA ShutdownSound == ASSUME Inv, Shutdown PROVE Inv'
  BY Parts, KeptRows, ExitSound DEF Shutdown, RestOK

LEMMA CrashSound == ASSUME Inv, Crash PROVE Inv'
  <1>1. RowsOK'
    BY Parts, KeptRows, RowIsSound, ToUnmountingSound, OneRow DEF Crash
  <1> QED BY <1>1, Parts, SpendTyped, ExitSound DEF Crash

LEMMA TickSound == ASSUME Inv, Tick PROVE Inv'
  <1>1. ASSUME NEW a \in Archives, RowStep(a) PROVE Inv'
    BY <1>1, ScanAbsentSound, ReconcileSound, PurgeExpiredSound, ProgressSound,
       PendingWorkSound, StartHooksSound, FinishHooksSound, StopRowSound
    DEF RowStep
  <1> QED
    BY <1>1, StartScanSound, NextPhaseSound, ShutdownSound, BootSound,
       ObservePathSound
    DEF Tick

-----------------------------------------------------------------------------
(* The surroundings.                                                       *)

LEMMA SurroundingsSound == ASSUME Inv, Surroundings PROVE Inv'
  <1> USE Parts, PartsNext
  <1>1. ASSUME NEW c \in Children, KidIndexes(c) PROVE Inv'
    <2>1. kids' \in [Children -> KidStates]
      <3>1. CASE kids[c].job = "opening" /\ kids' = [kids EXCEPT ![c].job = "writing"]
        <4>1. kids[c] \in [of : Archives, job : Jobs]
          BY <3>1 DEF ChildrenOK, KidStates, Dead
        <4>2. [kids[c] EXCEPT !.job = "writing"] \in KidStates
          BY <4>1 DEF KidStates, Jobs
        <4>3. kids' = [kids EXCEPT ![c] = [kids[c] EXCEPT !.job = "writing"]]
          BY <3>1
        <4> QED BY <4>2, <4>3 DEF ChildrenOK
      <3>2. CASE kids' = [kids EXCEPT ![c] = Dead]
        BY <3>2, KidTyped DEF ChildrenOK
      <3> QED BY <1>1, <3>1, <3>2 DEF KidIndexes
    <2>2. index' \in [Archives -> IndexFiles]
      BY <1>1 DEF KidIndexes, ChildrenOK, IndexFiles
    <2>3. RowsOK' /\ UNCHANGED <<live, world, daemon>>
      BY <1>1, KeptRows DEF KidIndexes
    <2> QED BY <2>1, <2>2, <2>3 DEF ChildrenOK, RestOK, world, daemon
  <1>2. ASSUME NEW c \in Children, KidServes(c) PROVE Inv'
    <2>1. kids[c] \in [of : Archives, job : Jobs]
      BY <1>2 DEF KidServes, ChildrenOK, KidStates, Dead
    <2>2. [kids[c] EXCEPT !.job = "serving"] \in KidStates
      BY <2>1 DEF KidStates, Jobs
    <2>3. kids' = [kids EXCEPT ![c] = [kids[c] EXCEPT !.job = "serving"]]
      BY <1>2 DEF KidServes
    <2>4. kids' \in [Children -> KidStates]
      BY <2>2, <2>3 DEF ChildrenOK
    <2>5. index' \in [Archives -> IndexFiles]
      BY <1>2 DEF KidServes, ChildrenOK, IndexFiles
    <2>6. RowsOK' /\ UNCHANGED <<live, world, daemon>>
      BY <1>2, KeptRows DEF KidServes
    <2> QED BY <2>4, <2>5, <2>6 DEF ChildrenOK, RestOK, world, daemon
  <1>3. ASSUME NEW c \in Children, KidDies(c) PROVE Inv'
    <2>1. kids' \in [Children -> KidStates]
      BY <1>3, KidTyped DEF KidDies, ChildrenOK
    <2>2. budget' \in 0..Budget
      BY <1>3, SpendTyped DEF KidDies, RestOK
    <2> QED BY <1>3, <2>1, <2>2, KeptRows DEF KidDies, ChildrenOK, RestOK, daemon
  <1>4. ASSUME NEW p \in Paths, FileChanges(p) PROVE Inv'
    BY <1>4, SpendTyped, KeptRows DEF FileChanges, ChildrenOK, RestOK, daemon
  <1>5. ASSUME NEW a \in Archives, TimePasses(a) PROVE Inv'
    <2>1. SoundRow(rows[a])
      BY RowIsSound
    <2>2. SoundRow([rows[a] EXCEPT !.late = TRUE])
      BY <2>1 DEF SoundRow, Rows, PidOK, FirstOK
    <2>3. rows' = [rows EXCEPT ![a] = [rows[a] EXCEPT !.late = TRUE]]
      BY <1>5 DEF TimePasses
    <2>4. RowsOK'
      BY <2>2, <2>3, OneRow
    <2> QED
      BY <1>5, <2>4, SpendTyped DEF TimePasses, ChildrenOK, RestOK, daemon
  <1> QED BY <1>1, <1>2, <1>3, <1>4, <1>5 DEF Surroundings

-----------------------------------------------------------------------------
(* The theorems.                                                           *)

LEMMA InitSound == ASSUME Init PROVE Inv
  <1> DEFINE r == NewRow(CHOOSE c \in Contents : TRUE)
  <1>1. SoundRow(r)
    <2>1. (CHOOSE c \in Contents : TRUE) \in Contents
      BY RowAssumption
    <2> QED
      BY <2>1, ZeroTries DEF SoundRow, NewRow, Rows, PidOK, FirstOK, HooksStatuses
  <1>2. \A a \in Archives : rows[a] = r
    BY DEF Init
  <1>3. RowsOK
    BY <1>1, <1>2 DEF Init, RowsOK, SoundRows, SoundRow
  <1>4. ChildrenOK
    BY LiveTyped, KidTyped DEF Init, ChildrenOK, IndexFiles
  <1>5. RestOK
    <2>1. budget \in 0..Budget
      BY StateAssumption DEF Init
    <2>2. gate \in [Paths -> GateEntries]
      BY GateTyped DEF Init
    <2>3. file \in [Paths -> Contents \cup {Gone}] /\ phase \in Phases
          /\ todo \in SUBSET (Archives \cup Paths) /\ lowDisk \in BOOLEAN
      BY DEF Init, Phases
    <2> QED BY <2>1, <2>2, <2>3 DEF RestOK
  <1> QED BY <1>3, <1>4, <1>5, Parts

LEMMA StutterSound == ASSUME Inv, UNCHANGED vars PROVE Inv'
  BY Parts, PartsNext, KeptRows DEF vars, ChildrenOK, RestOK

\* The invariant is inductive: it holds in every state of every behaviour.
THEOREM Invariance == Spec => []Inv
  <1>1. Init => Inv
    BY InitSound
  <1>2. Inv /\ [Next]_vars => Inv'
    BY OperatorSound, TickSound, CrashSound, SurroundingsSound, StutterSound
    DEF Next
  <1> QED BY <1>1, <1>2, PTL DEF Spec

\* All state stays within its types: no operation of the store, the engine,
\* the reconciler, the scanner, the hooks or the control plane writes a status
\* the table does not know, or a counter past its bound.
THEOREM TypeCorrect == Spec => []TypeOK
  <1>1. Inv => TypeOK
    BY DEF Inv
  <1> QED BY <1>1, Invariance, PTL

\* For every row, whatever becomes of its child and its daemon: a pid only in a
\* status that expects a child, and a first mount on record of whatever is
\* mounted or has a hook result.
THEOREM RowsConsistentHolds == Spec => []RowsConsistent
  <1>1. Inv => PidDiscipline
    BY DEF Inv, SoundRows, SoundRow, PidOK, PidDiscipline
  <1>2. Inv => FirstMountRecorded
    BY DEF Inv, SoundRows, SoundRow, FirstOK, FirstMountRecorded
  <1>3. Inv => RowsConsistent
    BY <1>1, <1>2 DEF RowsConsistent
  <1> QED BY <1>3, Invariance, PTL

-----------------------------------------------------------------------------
(* Index slots: holders never exceed max_concurrent_index.  The bound is   *)
(* inductive with the invariant above.  A step may put at most the row it  *)
(* starts among the holders of a slot, and only after it saw a slot free;  *)
(* no step makes a holder of another row, because the pid of a new child   *)
(* is named by no other row and a dead child does not come back.           *)

Holders == {a \in With("indexing") : HoldsSlot(a)}

RowSlotsBounded == ActiveIndexCount <= MaxIndex

\* A step that leaves row b no more of a holder than it was.
Calm(b) ==
    rows'[b].status = "indexing" =>
      rows[b].status = "indexing" /\ (HoldsSlot(b)' => HoldsSlot(b))

\* The children ks, as far as they live, are alive now.
NoneRevived(ks) == \A c \in Children : ks[c] # Dead => kids[c] # Dead

\* A row r2 that may replace r without holding a slot that r did not hold.
Calmer(r, r2) ==
    r2.status = "indexing" => r.status = "indexing" /\ r2.pid \in {r.pid, NoChild}

-----------------------------------------------------------------------------
(* Counting.                                                               *)

LEMMA HoldersFinite ==
    /\ Holders \in SUBSET Archives
    /\ IsFiniteSet(Holders)
    /\ ActiveIndexCount = Cardinality(Holders)
    /\ ActiveIndexCount \in Nat
  <1>1. Holders \in SUBSET Archives
    BY DEF Holders, With
  <1>2. IsFiniteSet(Holders)
    BY <1>1, StateAssumption, FS_Subset
  <1> QED BY <1>1, <1>2, FS_CardinalityType DEF ActiveIndexCount, Holders

LEMMA CountNext == ActiveIndexCount' = Cardinality(Holders')
  BY DEF ActiveIndexCount, Holders

LEMMA FewerHolders ==
    ASSUME RowSlotsBounded, Holders' \subseteq Holders
    PROVE  RowSlotsBounded'
  <1>1. Cardinality(Holders') <= Cardinality(Holders) /\ Cardinality(Holders') \in Nat
    BY HoldersFinite, FS_Subset, FS_CardinalityType
  <1> QED
    BY <1>1, HoldersFinite, CountNext, StateAssumption DEF RowSlotsBounded

LEMMA OneMoreHolder ==
    ASSUME NEW a \in Archives, ~LimitReached(ActiveIndexCount, MaxIndex),
           Holders' \subseteq Holders \cup {a}
    PROVE  RowSlotsBounded'
  <1>1. /\ IsFiniteSet(Holders \cup {a})
        /\ Cardinality(Holders \cup {a}) =
             IF a \in Holders THEN Cardinality(Holders) ELSE Cardinality(Holders) + 1
    BY HoldersFinite, FS_AddElement
  <1>2. Cardinality(Holders') <= Cardinality(Holders \cup {a})
        /\ Cardinality(Holders') \in Nat
    BY <1>1, FS_Subset, FS_CardinalityType
  <1> QED
    BY <1>1, <1>2, HoldersFinite, CountNext, StateAssumption
    DEF RowSlotsBounded, LimitReached

LEMMA AllCalm ==
    ASSUME \A b \in Archives : Calm(b) PROVE Holders' \subseteq Holders
  BY DEF Holders, With, Calm

LEMMA CalmBounded ==
    ASSUME RowSlotsBounded, \A b \in Archives : Calm(b)
    PROVE  RowSlotsBounded'
  BY AllCalm, FewerHolders

\* What makes a row calm: its row is calmer, its registry entry is kept or
\* dropped, and no dead child comes back.
LEMMA CalmRow ==
    ASSUME TypeOK, NEW b \in Archives, rows'[b].pid \in Children \cup {NoChild},
           Calmer(rows[b], rows'[b]), live'[b] \in {live[b], NoLive},
           NoneRevived(kids')
    PROVE  Calm(b)
  BY DEF TypeOK, Calm, Calmer, HoldsSlot, Alive, NoneRevived, Rows

-----------------------------------------------------------------------------
(* Rows.  Only the claim of a start puts a row into indexing.              *)

LEMMA ToFields ==
    ASSUME NEW r \in Rows, NEW status
    PROVE  To(r, status).status = status /\ To(r, status).pid = r.pid
  BY Zenon DEF To, Rows

LEMMA MoveCalmer ==
    ASSUME NEW r, NEW expected, NEW status, status # "indexing", NEW r2 \in Rows
    PROVE  Calmer(r, Move(r, expected, status, r2))
  BY ToFields DEF Move, Calmer

LEMMA CalmerTransitive ==
    ASSUME NEW r, NEW s, NEW t, Calmer(r, s), Calmer(s, t) PROVE Calmer(r, t)
  BY DEF Calmer

LEMMA ClearPidCalmer ==
    ASSUME NEW r, SoundRow(r) PROVE Calmer(r, ClearPid(r))
  BY DEF Calmer, ClearPid, SoundRow, Rows

LEMMA ToUnmountingCalmer ==
    ASSUME NEW r, SoundRow(r) PROVE Calmer(r, ToUnmounting(r))
  BY MoveCalmer, ClearPidSound DEF ToUnmounting, SoundRow

LEMMA MarkAbsentCalmer ==
    ASSUME NEW r, SoundRow(r) PROVE Calmer(r, MarkAbsent(r))
  <1> DEFINE u == IF r.status \in {"absent", "unmounting"}
                    THEN ClearPid(r) ELSE ToUnmounting(r)
  <1>1. SoundRow(u) /\ Calmer(r, u)
    BY ClearPidSound, ToUnmountingSound, ClearPidCalmer, ToUnmountingCalmer
  <1>2. MarkAbsent(r) = Move(u, {"absent", "unmounting"}, "absent", u)
    BY DEF MarkAbsent
  <1> HIDE DEF u
  <1>3. Calmer(u, Move(u, {"absent", "unmounting"}, "absent", u))
    BY <1>1, MoveCalmer DEF SoundRow
  <1> QED BY <1>1, <1>2, <1>3, CalmerTransitive

\* The three outcomes of an observation: back from absent, changed, seen.
LEMMA ObservedRowCalmer ==
    ASSUME NEW r, SoundRow(r), Tracked(r), NEW content \in Contents
    PROVE  Calmer(r, ObservedRow(r, content, ResetHooksOnChange))
  <1>1. Calmer(r, Reappear(r, content))
    <2>1. [r EXCEPT !.tries = 0, !.retryable = TRUE, !.print = content] \in Rows
      BY ZeroTries, Zenon DEF SoundRow, Rows
    <2> QED BY <2>1, MoveCalmer DEF Reappear
  <1>2. Calmer(r, TouchSeen(r))
    BY ToFields DEF TouchSeen, SoundRow, Calmer
  <1>3. Calmer(r, RecordContentChange(r, content, ResetHooksOnChange))
    <2> DEFINE u == IF ContentChangeTwoStep(r) THEN ToUnmounting(r) ELSE r
               c == [ClearPid(u) EXCEPT !.print = content, !.tries = 0,
                       !.retryable = TRUE, !.late = FALSE,
                       !.first = @ /\ ~ResetHooksOnChange,
                       !.hooks = IF ResetHooksOnChange THEN "none" ELSE @]
    <2>1. SoundRow(u) /\ Calmer(r, u)
      BY ToUnmountingSound, ToUnmountingCalmer DEF Calmer
    <2>2. RecordContentChange(r, content, ResetHooksOnChange)
            = Move(u, {u.status}, "discovered", c)
      BY DEF RecordContentChange
    <2>3. c \in Rows
      <3>1. ResetHooksOnChange \in BOOLEAN
        BY StateAssumption
      <3> HIDE DEF u
      <3> QED BY <2>1, <3>1, ContentPatch
    <2> HIDE DEF c, u
    <2>4. Calmer(u, Move(u, {u.status}, "discovered", c))
      BY <2>3, MoveCalmer
    <2> QED BY <2>1, <2>2, <2>4, CalmerTransitive
  <1> QED BY <1>1, <1>2, <1>3 DEF ObservedRow

LEMMA InsertDiscoveredCalmer ==
    ASSUME NEW r, SoundRow(r), NEW content
    PROVE  Calmer(r, InsertDiscovered(r, content))
  <1>1. InsertDiscovered(r, content).status = "discovered"
    BY InsertDiscoveredFields DEF SoundRow
  <1> QED BY <1>1 DEF Calmer

LEMMA ResetAttemptsCalmer ==
    ASSUME NEW r, SoundRow(r)
    PROVE  Calmer(r, ResetMountAttempts(r)) /\ Calmer(r, ResetPresentAttempts(r))
  <1> DEFINE c == [r EXCEPT !.tries = 0, !.retryable = TRUE]
  <1>1. c \in Rows /\ c.status = r.status /\ c.pid = r.pid
    BY ZeroTries, Zenon DEF SoundRow, Rows
  <1>2. ResetMountAttempts(r) \in {To(c, "discovered"), To(c, "mounting"), To(c, r.status)}
        /\ ResetPresentAttempts(r) \in {r, c}
    BY DEF ResetMountAttempts, ResetPresentAttempts
  <1> HIDE DEF c
  <1> QED BY <1>1, <1>2, ToFields DEF Calmer

LEMMA BootRowCalmer ==
    ASSUME NEW r, SoundRow(r), NEW exists \in BOOLEAN
    PROVE  Calmer(r, BootRow(r, exists))
  <1> DEFINE c == ClearPid(r)
             d == [c EXCEPT !.retryable = TRUE]
  <1>1. c \in Rows /\ c.pid = NoChild
    BY ClearPidSound DEF SoundRow
  <1> HIDE DEF c
  <1>2. d \in Rows
    BY <1>1 DEF Rows
  <1> HIDE DEF d
  <1>3. RequeueTarget(r) # "indexing"
    BY DEF RequeueTarget
  <1>4. \A s : To(c, s).status = s /\ To(c, s).pid = NoChild /\ To(d, s).status = s
    BY <1>1, <1>2, ToFields
  <1>5. Calmer(r, MarkAbsent(r))
    BY MarkAbsentCalmer
  <1>6. \/ BootRow(r, exists) \in {To(c, RequeueTarget(r)), To(d, RequeueTarget(r)),
                                   To(d, "mount_failed"), To(c, r.status), r}
        \/ BootRow(r, exists) = MarkAbsent(r)
    BY DEF BootRow, c, d
  <1> QED BY <1>3, <1>4, <1>5, <1>6 DEF Calmer

-----------------------------------------------------------------------------
(* Children.                                                               *)

LEMMA KillRevivesNone ==
    ASSUME NEW ks, NoneRevived(ks), NEW cs PROVE NoneRevived(Kill(ks, cs))
  BY DEF NoneRevived, Kill

LEMMA UnlinkRevivesNone ==
    ASSUME NEW ks, NoneRevived(ks), NEW a PROVE NoneRevived(Unlink(ks, a))
  <1>1. ASSUME NEW c \in Children, ks[c] = Dead PROVE Unlink(ks, a)[c] = Dead
    BY <1>1 DEF Unlink, Dead
  <1> QED BY <1>1 DEF NoneRevived

LEMMA KidsReviveNone == NoneRevived(kids)
  BY DEF NoneRevived

-----------------------------------------------------------------------------
(* Steps without a start.                                                  *)

\* The invariant on both sides of a step, which every lemma below assumes.
Around == Inv /\ Inv' /\ RowSlotsBounded

LEMMA RowTyped ==
    ASSUME Around, NEW b \in Archives
    PROVE  /\ SoundRow(rows[b]) /\ rows[b] \in Rows
           /\ rows'[b].pid \in Children \cup {NoChild}
  BY DEF Around, Inv, SoundRows, SoundRow, TypeOK, Rows

\* The registry lv has no entry that the registry does not have.
NoneAdded(lv) == \A b \in Archives : lv[b] \in {live[b], NoLive}
LiveDropped == NoneAdded(live')

LEMMA LiveDroppedAt ==
    ASSUME Inv, NEW a \in Archives,
           UNCHANGED live \/ live' = [live EXCEPT ![a] = NoLive]
    PROVE  LiveDropped
  BY DEF LiveDropped, NoneAdded, Inv, TypeOK

LEMMA AllRowsBounded ==
    ASSUME Around, \A b \in Archives : Calmer(rows[b], rows'[b]),
           LiveDropped, NoneRevived(kids')
    PROVE  RowSlotsBounded'
  <1>1. ASSUME NEW b \in Archives PROVE Calm(b)
    BY RowTyped, CalmRow DEF Around, Inv, LiveDropped, NoneAdded
  <1> QED BY <1>1, CalmBounded DEF Around

LEMMA OneRowBounded ==
    ASSUME Around, NEW a \in Archives, NEW r, Calmer(rows[a], r),
           rows' = [rows EXCEPT ![a] = r], LiveDropped, NoneRevived(kids')
    PROVE  RowSlotsBounded'
  <1>1. \A b \in Archives : Calmer(rows[b], rows'[b])
    BY DEF Around, Inv, TypeOK, Calmer
  <1> QED BY <1>1, AllRowsBounded

LEMMA SameRowsBounded ==
    ASSUME Around, UNCHANGED rows, LiveDropped, NoneRevived(kids')
    PROVE  RowSlotsBounded'
  BY AllRowsBounded DEF Calmer

-----------------------------------------------------------------------------
(* Starts.                                                                 *)

\* A start in a makes no holder but a itself, and that only to build an index.
StartCalm(a, indexing) ==
    /\ \A b \in Archives \ {a} : Calm(b)
    /\ ~indexing => Calm(a)

\* The one child that comes to life takes a pid no other row names.
LEMMA StartProcessHolders ==
    ASSUME Around, NEW a \in Archives, NEW r \in Rows,
           NEW ks \in [Children -> KidStates], NoneRevived(ks),
           NEW lv \in [Archives -> LiveEntries],
           NoneAdded(lv),
           NEW indexing \in BOOLEAN, NEW ok \in BOOLEAN, NEW twice \in BOOLEAN,
           StartProcess(a, r, ks, lv, indexing, ok, twice)
    PROVE  StartCalm(a, indexing)
  <1> DEFINE target  == IF indexing THEN "indexing" ELSE "mounting"
             claimed == Move(r, {r.status}, target, [r EXCEPT !.indexed = TRUE])
             cleared == IF indexing THEN ks ELSE ClearStaleMountHolders(ks, a)
             once    == NextAttempt(ClearPid(claimed))
             most    == IF twice THEN NextAttempt(once) ELSE once
             failed  == To(most, FailedStatus(indexing))
  <1>1. NoneRevived(cleared) /\ cleared \in [Children -> KidStates]
    BY KillRevivesNone, KillTyped DEF ClearStaleMountHolders
  <1> HIDE DEF cleared
  <1>2. \A b \in Archives \ {a} : rows'[b] = rows[b] /\ live'[b] = lv[b]
    BY DEF StartProcess, Around, Inv, TypeOK
  <1>3. CASE ok
    <2>1. PICK c \in FreeFor(a, cleared) :
            /\ rows' = [rows EXCEPT ![a] = To([claimed EXCEPT !.pid = c], target)]
            /\ kids' = [cleared EXCEPT ![c] =
                 [of |-> a, job |-> IF indexing THEN "opening" ELSE "starting"]]
      BY <1>3 DEF StartProcess, claimed, cleared
    <2>2. ASSUME NEW b \in Archives \ {a} PROVE Calm(b)
      <3>1. rows[b].pid # c /\ live'[b] \in {live[b], NoLive}
        BY <1>2, <2>1 DEF FreeFor, NoneAdded
      <3>2. Alive(rows[b].pid)' => Alive(rows[b].pid)
        BY <1>1, <1>2, <2>1, <3>1, RowTyped DEF Alive, NoneRevived, FreeFor
      <3> QED BY <1>2, <3>1, <3>2 DEF Calm, HoldsSlot
    <2>3. ASSUME ~indexing PROVE Calm(a)
      <3>1. rows'[a].status = "mounting"
        BY <2>1, <2>3 DEF To, Around, Inv, TypeOK
      <3> QED BY <3>1 DEF Calm
    <2> QED BY <2>2, <2>3 DEF StartCalm
  <1>4. CASE ~ok
    <2>1. rows' = [rows EXCEPT ![a] = failed] /\ kids' = cleared
      BY <1>4 DEF StartProcess, failed, cleared, claimed, once, most
    <2>2. ASSUME NEW b \in Archives \ {a} PROVE Calm(b)
      BY <1>1, <1>2, <2>1, RowTyped, CalmRow DEF Around, Inv, Calmer, NoneAdded
    <2>3. Calm(a)
      <3>1. rows'[a].status = FailedStatus(indexing)
        BY <2>1 DEF To, Around, Inv, TypeOK
      <3> QED BY <3>1 DEF Calm, FailedStatus
    <2> QED BY <2>2, <2>3 DEF StartCalm
  <1> QED BY <1>3, <1>4

\* A start that needs an index pass has seen a free slot; any other start, and
\* a start that did nothing, makes no holder.
LEMMA BeginMountBounded ==
    ASSUME Around, NEW a \in Archives, NEW r, SoundRow(r), Calmer(rows[a], r),
           NEW first \in BOOLEAN, NEW ok \in BOOLEAN,
           BeginMount(a, r, first, ok)
    PROVE  RowSlotsBounded'
  <1> DEFINE wipe  == PartialIndex(r) /\ index[a] # "none"
             idx   == IF wipe THEN "none" ELSE index[a]
             ks    == IF wipe THEN Unlink(kids, a) ELSE kids
             needs == first \/ ~r.indexed \/ idx = "none"
  <1>1. ks \in [Children -> KidStates] /\ NoneRevived(ks)
    BY UnlinkTyped, UnlinkRevivesNone, KidsReviveNone DEF Around, Inv, TypeOK
  <1>2. needs \in BOOLEAN
    BY DEF SoundRow, Rows
  <1>3. \/ rows' = [rows EXCEPT ![a] = r] /\ kids' = ks /\ UNCHANGED live
        \/ /\ needs => ~LimitReached(ActiveIndexCount, MaxIndex)
           /\ StartProcess(a, r, ks, live, needs, ok, FALSE)
    BY DEF BeginMount
  <1> HIDE DEF ks, needs
  <1>4. CASE rows' = [rows EXCEPT ![a] = r] /\ kids' = ks /\ UNCHANGED live
    BY <1>1, <1>4, OneRowBounded DEF LiveDropped, NoneAdded
  <1>5. CASE /\ needs => ~LimitReached(ActiveIndexCount, MaxIndex)
             /\ StartProcess(a, r, ks, live, needs, ok, FALSE)
    <2>1. StartCalm(a, needs)
      <3>1. live \in [Archives -> LiveEntries] /\ r \in Rows
        BY DEF Around, Inv, TypeOK, SoundRow
      <3>2. NoneAdded(live)
        BY DEF NoneAdded
      <3>3. FALSE \in BOOLEAN
        OBVIOUS
      <3>4. StartProcess(a, r, ks, live, needs, ok, FALSE)
        BY <1>5
      <3> QED
        BY <1>1, <1>2, <3>1, <3>2, <3>3, <3>4, StartProcessHolders
    <2>2. CASE needs
      <3>1. Holders' \subseteq Holders \cup {a}
        BY <2>1 DEF Holders, With, Calm, StartCalm
      <3> QED BY <1>5, <2>2, <3>1, OneMoreHolder
    <2>3. CASE ~needs
      BY <2>1, <2>3, CalmBounded DEF Around, StartCalm
    <2> QED BY <2>2, <2>3
  <1> QED BY <1>3, <1>4, <1>5

LEMMA CompleteIndexBounded ==
    ASSUME Around, NEW a \in Archives, NEW ok \in BOOLEAN, CompleteIndex(a, ok)
    PROVE  RowSlotsBounded'
  <1> DEFINE r == rows[a]
             dropped == [live EXCEPT ![a] = IF Tracked(r) THEN NoLive ELSE @]
  <1>1. /\ dropped \in [Archives -> LiveEntries]
        /\ NoneAdded(dropped)
    BY LiveTyped DEF Around, Inv, TypeOK, NoneAdded
  <1> HIDE DEF dropped
  <1>2. CASE r.status = "indexing"
    <2>1. StartProcess(a, To(r, "mounting"), kids, dropped, FALSE, ok, TRUE)
      BY <1>2 DEF CompleteIndex, dropped
    <2>2. To(r, "mounting") \in Rows
      <3>1. SoundRow(To(r, "mounting"))
        BY <1>2, RowTyped, ToSound DEF SoundRow, FirstOK, Statuses, PidStatuses
      <3> QED BY <3>1 DEF SoundRow
    <2>3. kids \in [Children -> KidStates] /\ FALSE \in BOOLEAN /\ TRUE \in BOOLEAN
      BY DEF Around, Inv, TypeOK
    <2> HIDE DEF r
    <2>4. StartCalm(a, FALSE)
      BY <1>1, <2>1, <2>2, <2>3, KidsReviveNone, StartProcessHolders
    <2> QED BY <2>4, CalmBounded DEF Around, StartCalm
  <1>3. CASE r.status # "indexing"
    <2> DEFINE n == NextAttempt(ClearPid(r))
    <2>1. n \in Rows
      BY RowTyped, ClearPidSound, NextAttemptSound DEF SoundRow
    <2>2. /\ rows' = [rows EXCEPT ![a] =
               Move(r, {"mounting", "mount_failed"}, "mount_failed", n)]
          /\ live' = dropped /\ kids' = kids
      BY <1>3 DEF CompleteIndex, dropped, n
    <2> HIDE DEF n
    <2>3. Calmer(rows[a], Move(r, {"mounting", "mount_failed"}, "mount_failed", n))
      BY <2>1, MoveCalmer
    <2> QED BY <1>1, <2>2, <2>3, KidsReviveNone, OneRowBounded DEF LiveDropped, NoneAdded, NoneRevived
  <1> QED BY <1>2, <1>3

LEMMA MarkFailedBounded ==
    ASSUME Around, NEW a \in Archives, MarkFailed(a) PROVE RowSlotsBounded'
  <1> DEFINE r    == rows[a]
             building == live[a].phase = "index_only"
             drop == building \/ index[a] = "none"
             n    == NextAttempt(ClearPid(r))
             c    == [n EXCEPT !.indexed = @ /\ ~drop]
             failed == FailedStatus(building)
  <1>1. CASE ~Tracked(r)
    BY <1>1, KidsReviveNone, SameRowsBounded
    DEF MarkFailed, LiveDropped, NoneAdded, NoneRevived
  <1>2. CASE Tracked(r)
    <2>1. /\ rows' = [rows EXCEPT ![a] =
                       Move(r, {"indexing", "mounting", failed}, failed, c)]
          /\ live' = [live EXCEPT ![a] = NoLive]
          /\ kids' = IF drop THEN Unlink(kids, a) ELSE kids
      BY <1>2 DEF MarkFailed
    <2>2. n \in Rows
      BY RowTyped, ClearPidSound, NextAttemptSound DEF SoundRow
    <2> HIDE DEF n
    <2>3. c \in Rows
      BY <2>2 DEF Rows
    <2> HIDE DEF c
    <2>4. failed # "indexing"
      BY DEF FailedStatus
    <2> HIDE DEF failed
    <2>5. Calmer(rows[a], Move(r, {"indexing", "mounting", failed}, failed, c))
      BY <2>3, <2>4, MoveCalmer
    <2>6. NoneRevived(kids') /\ LiveDropped
      BY <2>1, KidsReviveNone, UnlinkRevivesNone, LiveDroppedAt DEF Around, NoneRevived
    <2> QED BY <2>1, <2>5, <2>6, OneRowBounded
  <1> QED BY <1>1, <1>2

LEMMA ProgressBounded ==
    ASSUME Around, NEW a \in Archives, Progress(a) PROVE RowSlotsBounded'
  <1>1. CASE MarkMounted(a)
    <2> DEFINE c == [rows[a] EXCEPT !.pid = live[a].pid]
    <2>1. rows' = [rows EXCEPT ![a] =
            Move(rows[a], {"indexing", "mounting", "mounted"}, "mounted", c)]
          /\ UNCHANGED <<live, kids>>
      BY <1>1 DEF MarkMounted
    <2>2. Calmer(rows[a], Move(rows[a], {"indexing", "mounting", "mounted"}, "mounted", c))
      BY RowTyped DEF Move, To, Calmer, Rows
    <2> QED BY <2>1, <2>2, KidsReviveNone, OneRowBounded DEF LiveDropped, NoneAdded, NoneRevived
  <1> QED BY <1>1, CompleteIndexBounded, MarkFailedBounded DEF Progress

LEMMA PendingWorkBounded ==
    ASSUME Around, NEW a \in Archives,
           RetryStuck(a) \/ StartFresh(a) \/ RetryFailed(a)
    PROVE  RowSlotsBounded'
  <1>1. (~rows[a].first) \in BOOLEAN
    OBVIOUS
  <1>2. SoundRow(rows[a]) /\ Calmer(rows[a], rows[a])
    BY RowTyped DEF Calmer
  <1>3. ASSUME NEW first \in BOOLEAN, StartWork(a, first) PROVE RowSlotsBounded'
    BY <1>2, <1>3, BeginMountBounded DEF StartWork
  <1>4. CASE UNCHANGED <<rows, live, kids>>
    BY <1>4, KidsReviveNone, SameRowsBounded DEF LiveDropped, NoneAdded, NoneRevived
  <1> QED BY <1>1, <1>3, <1>4 DEF RetryStuck, StartFresh, RetryFailed

-----------------------------------------------------------------------------
(* Reconciliation, boot, scan, hooks, purge, unmount.                      *)

LEMMA ReconcileBounded ==
    ASSUME Around, NEW a \in Archives, Reconcile(a) PROVE RowSlotsBounded'
  <1>1. CASE ApplyFail(a)
    <2> DEFINE r == ClearPid(rows[a])
               drop == rows[a].status = "indexing" \/ ~rows[a].first
               failed == IF r.status = "indexing" THEN "index_failed"
                                                  ELSE "mount_failed"
               c == [NextAttempt(r) EXCEPT !.indexed = @ /\ ~drop]
    <2>1. /\ rows' = [rows EXCEPT ![a] = Move(r, {r.status}, failed, c)]
          /\ live' = [live EXCEPT ![a] = NoLive]
          /\ kids' \in {kids, Unlink(kids, a)}
      BY <1>1 DEF ApplyFail, FailAs
    <2>2. Calmer(rows[a], r) /\ SoundRow(r)
      BY RowTyped, ClearPidSound, ClearPidCalmer
    <2>3. NextAttempt(r) \in Rows
      BY <2>2, NextAttemptSound DEF SoundRow
    <2>4. c \in Rows
      BY <2>3 DEF Rows
    <2> HIDE DEF c, r
    <2>5. Calmer(rows[a], Move(r, {r.status}, failed, c))
      BY <2>2, <2>4, MoveCalmer, CalmerTransitive
    <2>6. NoneRevived(kids') /\ LiveDropped
      BY <2>1, KidsReviveNone, UnlinkRevivesNone, LiveDroppedAt DEF Around
    <2> QED BY <2>1, <2>5, <2>6, OneRowBounded
  <1>2. CASE ApplyMarkAbsent(a)
    <2>1. NoneRevived(kids') /\ LiveDropped
      BY <1>2, KidsReviveNone, LiveDroppedAt DEF Around, ApplyMarkAbsent, NoneRevived
    <2> QED
      BY <1>2, <2>1, RowTyped, MarkAbsentCalmer, OneRowBounded DEF ApplyMarkAbsent
  <1>3. CASE ApplyCleanupIndex(a)
    <2> DEFINE c == [rows[a] EXCEPT !.indexed = FALSE]
    <2>1. c \in Rows /\ c.status = rows[a].status /\ c.pid = rows[a].pid
      BY RowTyped DEF Rows
    <2>2. rows' = [rows EXCEPT ![a] = To(c, rows[a].status)]
      BY <1>3 DEF ApplyCleanupIndex
    <2> HIDE DEF c
    <2>3. Calmer(rows[a], To(c, rows[a].status))
      BY <2>1, ToFields DEF Calmer
    <2>4. NoneRevived(kids') /\ LiveDropped
      BY <1>3, KidsReviveNone, UnlinkRevivesNone, LiveDroppedAt
      DEF Around, ApplyCleanupIndex
    <2> QED BY <2>2, <2>3, <2>4, OneRowBounded
  <1> QED BY <1>1, <1>2, <1>3 DEF Reconcile

LEMMA BootBounded == ASSUME Around, Boot PROVE RowSlotsBounded'
  <1>1. ASSUME NEW a \in Archives PROVE Calmer(rows[a], rows'[a])
    <2> DEFINE c == [rows[a] EXCEPT !.indexed = @ /\ ~Cleanable(a)]
    <2>1. SoundRow(c) /\ Calmer(rows[a], c)
      BY RowTyped DEF SoundRow, Rows, PidOK, FirstOK, Calmer
    <2>2. rows'[a] = BootRow(c, FileExists(a))
      BY DEF Boot, BootedRows
    <2>3. FileExists(a) \in BOOLEAN
      BY DEF FileExists
    <2> HIDE DEF c
    <2> QED BY <2>1, <2>2, <2>3, BootRowCalmer, CalmerTransitive
  <1>2. NoneRevived(kids') /\ LiveDropped
    BY KidsReviveNone, KillRevivesNone DEF Boot, LiveDropped, NoneAdded
  <1> QED BY <1>1, <1>2, AllRowsBounded

LEMMA ObservePathBounded ==
    ASSUME Around, NEW p \in Paths, ObservePath(p) PROVE RowSlotsBounded'
  <1>1. file[p] # Gone => file[p] \in Contents
    BY DEF Around, Inv, TypeOK
  <1>2. NoneRevived(kids') /\ LiveDropped
    BY KidsReviveNone DEF ObservePath, LiveDropped, NoneAdded, NoneRevived
  <1>3. CASE UNCHANGED rows
    BY <1>2, <1>3, SameRowsBounded
  <1>4. ASSUME file[p] # Gone, NEW a \in RowsAt(p),
               rows' = [rows EXCEPT ![a] = ObservedRow(@, file[p], ResetHooksOnChange)]
        PROVE  RowSlotsBounded'
    <2>1. a \in Archives /\ SoundRow(rows[a]) /\ Tracked(rows[a])
      BY <1>4, RowTyped DEF RowsAt
    <2> QED BY <1>1, <1>2, <1>4, <2>1, ObservedRowCalmer, OneRowBounded
  <1>5. ASSUME NEW a \in NewIds(p),
               rows' = [rows EXCEPT ![a] = InsertDiscovered(@, file[p])]
        PROVE  RowSlotsBounded'
    <2>1. a \in Archives /\ SoundRow(rows[a])
      BY <1>5, RowTyped DEF NewIds
    <2> QED BY <1>2, <1>5, <2>1, InsertDiscoveredCalmer, OneRowBounded
  <1> QED BY <1>3, <1>4, <1>5 DEF ObservePath, Listed

LEMMA ScanAbsentBounded ==
    ASSUME Around, NEW a \in Archives, ScanAbsent(a) PROVE RowSlotsBounded'
  <1>1. NoneRevived(kids') /\ LiveDropped
    BY KidsReviveNone DEF ScanAbsent, LiveDropped, NoneAdded, NoneRevived
  <1> QED BY <1>1, RowTyped, MarkAbsentCalmer, OneRowBounded DEF ScanAbsent

\* Scans and reset requests forgive attempts, and leave every status.
LEMMA ForgivenBounded ==
    ASSUME Around, UNCHANGED <<live, kids>>,
           rows' = [a \in Archives |-> ResetPresentAttempts(rows[a])]
    PROVE  RowSlotsBounded'
  <1>1. \A a \in Archives : Calmer(rows[a], rows'[a])
    BY RowTyped, ResetAttemptsCalmer
  <1> QED
    BY <1>1, KidsReviveNone, AllRowsBounded DEF LiveDropped, NoneAdded, NoneRevived

LEMMA HooksBounded ==
    ASSUME Around, NEW a \in Archives, EnterHooks(a) \/ FinishHooks(a)
    PROVE  RowSlotsBounded'
  <1>1. PICK h \in HooksStatuses, s \in {"mounted", "hooks_running"} :
          rows' = [rows EXCEPT ![a] = To([@ EXCEPT !.hooks = h], s)]
    BY StateAssumption DEF EnterHooks, FinishHooks, HooksStatuses
  <1> DEFINE c == [rows[a] EXCEPT !.hooks = h]
  <1>2. c \in Rows
    BY RowTyped DEF Rows
  <1>3. rows' = [rows EXCEPT ![a] = To(c, s)]
    BY <1>1
  <1> HIDE DEF c
  <1>4. Calmer(rows[a], To(c, s))
    BY <1>2, ToFields DEF Calmer
  <1>5. NoneRevived(kids') /\ LiveDropped
    BY KidsReviveNone
    DEF EnterHooks, FinishHooks, LiveDropped, NoneAdded, NoneRevived
  <1> QED BY <1>3, <1>4, <1>5, OneRowBounded

LEMMA DropRowBounded ==
    ASSUME Around, NEW a \in Archives, NEW ks, NoneRevived(ks), DropRow(a, ks),
           LiveDropped
    PROVE  RowSlotsBounded'
  <1> DEFINE c == [rows[a] EXCEPT !.status = "purged", !.pid = NoChild,
                                  !.late = FALSE]
  <1>1. c.status = "purged"
    BY RowTyped, Zenon DEF Rows
  <1>2. rows' = [rows EXCEPT ![a] = c] /\ kids' \in {ks, Unlink(ks, a)}
    BY DEF DropRow
  <1> HIDE DEF c
  <1>3. NoneRevived(kids') /\ Calmer(rows[a], c)
    BY <1>1, <1>2, UnlinkRevivesNone DEF Calmer
  <1> QED BY <1>2, <1>3, OneRowBounded

LEMMA PurgeBounded ==
    ASSUME Around, NEW a \in Archives, PurgeExpired(a) \/ PurgeNow(a)
    PROVE  RowSlotsBounded'
  <1>1. LiveDropped
    BY LiveDroppedAt DEF Around, PurgeExpired, PurgeNow
  <1>2. \A cs : NoneRevived(Kill(kids, cs))
    BY KillRevivesNone, KidsReviveNone
  <1> QED
    BY <1>1, <1>2, KidsReviveNone, DropRowBounded DEF PurgeExpired, PurgeNow

LEMMA UnmountBounded ==
    ASSUME Around, NEW a \in Archives, Unmount(a) PROVE RowSlotsBounded'
  <1>1. Calmer(rows[a], IF rows[a].status = "absent" THEN rows[a]
                                                     ELSE ToUnmounting(rows[a]))
    BY RowTyped, ToUnmountingCalmer DEF Calmer
  <1>2. LiveDropped /\ NoneRevived(kids')
    BY LiveDroppedAt, KillRevivesNone, KidsReviveNone DEF Around, Unmount
  <1> QED BY <1>1, <1>2, OneRowBounded DEF Unmount

-----------------------------------------------------------------------------
(* The tick, start, stop and crash.                                        *)

LEMMA ExitBounded ==
    ASSUME Around, Exit,
           \/ UNCHANGED rows
           \/ \E a \in Archives : rows' = [rows EXCEPT ![a] = ToUnmounting(@)]
    PROVE  RowSlotsBounded'
  <1>1. NoneRevived(kids') /\ LiveDropped
    BY KidsReviveNone DEF Exit, LiveDropped, NoneAdded, NoneRevived
  <1>2. CASE UNCHANGED rows
    BY <1>1, <1>2, SameRowsBounded
  <1>3. ASSUME NEW a \in Archives, rows' = [rows EXCEPT ![a] = ToUnmounting(@)]
        PROVE  RowSlotsBounded'
    BY <1>1, <1>3, RowTyped, ToUnmountingCalmer, OneRowBounded
  <1> QED BY <1>2, <1>3

LEMMA TickBounded == ASSUME Around, Tick PROVE RowSlotsBounded'
  <1>1. ASSUME NEW a \in Archives, RowStep(a) PROVE RowSlotsBounded'
    BY <1>1, ScanAbsentBounded, ReconcileBounded, PurgeBounded, ProgressBounded,
       PendingWorkBounded, HooksBounded, UnmountBounded
    DEF RowStep, StartHooks, StopRow
  <1>2. CASE StartScan
    BY <1>2, ForgivenBounded DEF StartScan
  <1>3. CASE NextPhase
    BY <1>3, KidsReviveNone, SameRowsBounded
    DEF NextPhase, LiveDropped, NoneAdded, NoneRevived
  <1>4. CASE Shutdown
    BY <1>4, ExitBounded DEF Shutdown
  <1> QED
    BY <1>1, <1>2, <1>3, <1>4, BootBounded, ObservePathBounded DEF Tick

LEMMA CrashBounded == ASSUME Around, Crash PROVE RowSlotsBounded'
  BY ExitBounded DEF Crash

-----------------------------------------------------------------------------
(* Control operations.                                                     *)

LEMMA OperatorBounded == ASSUME Around, Operator PROVE RowSlotsBounded'
  <1>1. ASSUME NEW a \in Archives, OpRetry(a) PROVE RowSlotsBounded'
    <2>1. NoneRevived(kids') /\ LiveDropped
      BY <1>1, KidsReviveNone DEF OpRetry, LiveDropped, NoneAdded, NoneRevived
    <2> QED
      BY <1>1, <2>1, RowTyped, ResetAttemptsCalmer, OneRowBounded DEF OpRetry
  <1>2. ASSUME NEW a \in Archives, OpUnmount(a) PROVE RowSlotsBounded'
    BY <1>2, UnmountBounded DEF OpUnmount
  <1>3. ASSUME NEW a \in Archives, OpPurge(a) PROVE RowSlotsBounded'
    BY <1>3, PurgeBounded DEF OpPurge
  <1>4. ASSUME NEW a \in Archives, OpHooksRun(a) PROVE RowSlotsBounded'
    BY <1>4, HooksBounded DEF OpHooksRun
  <1>5. ASSUME NEW p \in Paths, OpMount(p) PROVE RowSlotsBounded'
    <2>1. file[p] \in Contents
      BY <1>5 DEF OpMount, Around, Inv, TypeOK
    <2>2. ASSUME NEW a \in RowsAt(p), NEW ok \in BOOLEAN,
                 BeginMount(a, rows[a], ~rows[a].first, ok)
          PROVE  RowSlotsBounded'
      <3>1. a \in Archives /\ (~rows[a].first) \in BOOLEAN
        BY DEF RowsAt
      <3>2. SoundRow(rows[a]) /\ Calmer(rows[a], rows[a])
        BY <3>1, RowTyped DEF Calmer
      <3> QED BY <2>2, <3>1, <3>2, BeginMountBounded
    <2>3. ASSUME NEW a \in NewIds(p), NEW ok \in BOOLEAN,
                 BeginMount(a, InsertDiscovered(rows[a], file[p]), TRUE, ok)
          PROVE  RowSlotsBounded'
      <3>1. a \in Archives
        BY DEF NewIds
      <3>2. /\ SoundRow(InsertDiscovered(rows[a], file[p]))
            /\ Calmer(rows[a], InsertDiscovered(rows[a], file[p]))
        BY <2>1, <3>1, RowTyped, InsertDiscoveredSound, InsertDiscoveredCalmer
      <3> QED BY <2>3, <3>1, <3>2, BeginMountBounded
    <2> QED BY <1>5, <2>2, <2>3 DEF OpMount
  <1>6. CASE OpRescanStable
    BY <1>6, ForgivenBounded DEF OpRescanStable
  <1>7. CASE OpStop
    BY <1>7, KidsReviveNone, SameRowsBounded
    DEF OpStop, LiveDropped, NoneAdded, NoneRevived
  <1> QED
    BY <1>1, <1>2, <1>3, <1>4, <1>5, <1>6, <1>7 DEF Operator, ArchiveRequest

-----------------------------------------------------------------------------
(* The surroundings.                                                       *)

LEMMA SurroundingsBounded ==
    ASSUME Around, Surroundings PROVE RowSlotsBounded'
  <1>1. CASE UNCHANGED <<rows, live>> /\ NoneRevived(kids')
    BY <1>1, SameRowsBounded DEF LiveDropped, NoneAdded
  <1>2. ASSUME NEW c \in Children, KidIndexes(c) \/ KidServes(c) \/ KidDies(c)
        PROVE  RowSlotsBounded'
    <2>1. kids[c] # Dead
      BY <1>2 DEF KidIndexes, KidServes, KidDies, Dead
    <2>2. \A b \in Children \ {c} : kids'[b] = kids[b]
      BY <1>2 DEF KidIndexes, KidServes, KidDies, Around, Inv, TypeOK
    <2>3. NoneRevived(kids')
      BY <2>1, <2>2 DEF NoneRevived
    <2> QED BY <1>1, <1>2, <2>3 DEF KidIndexes, KidServes, KidDies
  <1>3. ASSUME NEW p \in Paths, FileChanges(p) PROVE RowSlotsBounded'
    BY <1>1, <1>3, KidsReviveNone DEF FileChanges, NoneRevived
  <1>4. ASSUME NEW a \in Archives, TimePasses(a) PROVE RowSlotsBounded'
    <2>1. Calmer(rows[a], [rows[a] EXCEPT !.late = TRUE])
      BY <1>4, RowTyped DEF Calmer, Rows
    <2>2. rows' = [rows EXCEPT ![a] = [rows[a] EXCEPT !.late = TRUE]]
      BY <1>4 DEF TimePasses
    <2>3. NoneRevived(kids') /\ LiveDropped
      BY <1>4, KidsReviveNone DEF TimePasses, LiveDropped, NoneAdded, NoneRevived
    <2> QED BY <2>1, <2>2, <2>3, OneRowBounded
  <1> QED BY <1>2, <1>3, <1>4 DEF Surroundings

-----------------------------------------------------------------------------
(* The theorem.                                                            *)

LEMMA InitBounded == ASSUME Init PROVE RowSlotsBounded
  <1>1. \A a \in Archives : rows[a].status = "unborn"
    BY DEF Init, NewRow
  <1>2. Holders = {}
    BY <1>1 DEF Holders, With
  <1> QED
    BY <1>2, HoldersFinite, FS_EmptySet, StateAssumption DEF RowSlotsBounded

\* A step of any kind, nothing at all included, keeps the bound.
LEMMA StepBounded == ASSUME Around, [Next]_vars PROVE RowSlotsBounded'
  <1>1. CASE UNCHANGED vars
    BY <1>1, KidsReviveNone, SameRowsBounded
    DEF vars, LiveDropped, NoneAdded, NoneRevived
  <1> QED
    BY <1>1, TickBounded, OperatorBounded, CrashBounded, SurroundingsBounded
    DEF Next

LEMMA RowSlotsAlways == Spec => []RowSlotsBounded
  <1>1. Init => RowSlotsBounded
    BY InitBounded
  <1>2. Inv /\ Inv' /\ RowSlotsBounded /\ [Next]_vars => RowSlotsBounded'
    BY StepBounded DEF Around
  <1> QED BY <1>1, <1>2, Invariance, PTL DEF Spec

-----------------------------------------------------------------------------
(* Supervision.  Rows, registry, children and index files agree: at most   *)
(* one child of an archive mounts or serves it (OneMounter), and what a    *)
(* row says of its child and its index is so (RowsMatchSystem).  Neither   *)
(* is inductive alone.  Supervision(a) adds what they rest on: a registry  *)
(* entry names a child of its archive, and a row that is about to be       *)
(* promoted by a mount phase without an index path on record has no child  *)
(* at its mount path.                                                      *)

MountJobs == {"starting", "serving"}
MountedStatuses == {"mounted", "hooks_running"}
Mounters(a) == {c \in KidsOf(a) : kids[c].job \in MountJobs}

\* The registry supervises a child of a, none while the daemon is down, and
\* whatever live child the row names.
Registered(a) ==
    /\ Alive(live[a].pid) => kids[live[a].pid].of = a
    /\ phase = "down" => live[a] = NoLive
    /\ phase # "down" /\ Alive(rows[a].pid) => live[a].pid = rows[a].pid

\* One mounter; none for a row in the mount phase that has not stored, or may
\* come back without, the path of its index.
MountPathClear(a) ==
    /\ \A c, d \in Mounters(a) : c = d
    /\ /\ live[a].phase = "mount"
       /\ \/ rows[a].status = "mount_failed"
          \/ rows[a].status = "mounting" /\ ~rows[a].indexed
       => Mounters(a) = {}

\* A row stores its index path before it is indexing, and a mounted row is in
\* no index phase, whose failure would delete the index.
IndexOnRecord(a) ==
    /\ rows[a].status = "indexing" => rows[a].indexed
    /\ rows[a].status \in MountedStatuses =>
         rows[a].indexed /\ index[a] # "none" /\ live[a].phase # "index_only"

Supervision(a) == Registered(a) /\ MountPathClear(a) /\ IndexOnRecord(a)
Supervised == \A a \in Archives : Supervision(a)

\* The invariants before and after a step, which the lemmas below assume.
Beside == Inv /\ Inv' /\ Supervised
\* Every step but a boot and an exit leaves the daemon up, or down.
SameSide == phase' = "down" <=> phase = "down"

-----------------------------------------------------------------------------
(* Children that only die, or go on with what they were doing.             *)

KidFades(old, new) ==
    \/ new = Dead
    \/ /\ old # Dead
       /\ new.of = old.of
       /\ new.job \in MountJobs => old.job \in MountJobs
Fading(ks) == \A c \in Children : KidFades(kids[c], ks[c])

\* As far as archive b can tell: a new child is another's, under a pid that
\* nothing of b names.
FadingFor(b, ks) ==
    \A c \in Children :
      \/ KidFades(kids[c], ks[c])
      \/ ks[c].of # b /\ c \notin {live[b].pid, rows[b].pid}

LEMMA KidsFade == Fading(kids)
  BY DEF Fading, KidFades

LEMMA KillFades == ASSUME NEW ks, Fading(ks), NEW cs PROVE Fading(Kill(ks, cs))
  BY DEF Fading, KidFades, Kill

LEMMA UnlinkFades ==
    ASSUME NEW ks, Fading(ks), NEW a PROVE Fading(Unlink(ks, a))
  <1>1. ASSUME NEW c \in Children, ks[c] = [of |-> a, job |-> "writing"]
        PROVE  KidFades(kids[c], Unlink(ks, a)[c])
    <2>1. Unlink(ks, a)[c] = [of |-> a, job |-> "unlinked"]
      BY <1>1 DEF Unlink
    <2>2. ks[c].of = a /\ ks[c] # Dead /\ KidFades(kids[c], ks[c])
      BY <1>1 DEF Fading, Dead
    <2> QED BY <2>1, <2>2 DEF KidFades, MountJobs
  <1>2. ASSUME NEW c \in Children, ks[c] # [of |-> a, job |-> "writing"]
        PROVE  KidFades(kids[c], Unlink(ks, a)[c])
    BY <1>2 DEF Unlink, Fading
  <1> QED BY <1>1, <1>2 DEF Fading

LEMMA FadingForEach == ASSUME NEW b, NEW ks, Fading(ks) PROVE FadingFor(b, ks)
  BY DEF Fading, FadingFor

LEMMA MountersFade ==
    ASSUME NEW b \in Archives, FadingFor(b, kids')
    PROVE  Mounters(b)' \subseteq Mounters(b)
  BY StateAssumption DEF Mounters, KidsOf, FadingFor, KidFades, Dead, MountJobs

-----------------------------------------------------------------------------
(* Rows that claim nothing more of a child or an index.                    *)

ClaimsNoMore(r, r2) ==
    /\ r2.pid \in {r.pid, NoChild}
    /\ r2.status = "mount_failed" => r.status = "mount_failed"
    /\ r2.status = "mounting" =>
         r.status \in {"mounting", "mount_failed"} /\ r2.indexed = r.indexed
    /\ r2.status = "indexing" => r.status = "indexing" /\ r2.indexed = r.indexed
    /\ r2.status \in MountedStatuses =>
         r.status \in MountedStatuses /\ r2.indexed = r.indexed

LEMMA ToIndexed ==
    ASSUME NEW r \in Rows, NEW status PROVE To(r, status).indexed = r.indexed
  BY Zenon DEF To, Rows

LEMMA SameClaims == ASSUME NEW r PROVE ClaimsNoMore(r, r)
  BY DEF ClaimsNoMore

\* A sound row in a status that expects no child claims nothing.
LEMMA AtRestClaims ==
    ASSUME NEW r, NEW r2, SoundRow(r2),
           r2.status \notin PidStatuses \cup {"mount_failed"}
    PROVE  ClaimsNoMore(r, r2)
  BY DEF ClaimsNoMore, SoundRow, PidOK, PidStatuses, MountedStatuses

\* A guarded transition is made or refused.
LEMMA MoveStatus ==
    ASSUME NEW r, NEW expected, NEW status, NEW r2 \in Rows
    PROVE  Move(r, expected, status, r2) = r
           \/ Move(r, expected, status, r2).status = status
  BY ToFields DEF Move

LEMMA ToUnmountingStatus ==
    ASSUME NEW r, SoundRow(r)
    PROVE  /\ ToUnmounting(r) = r \/ ToUnmounting(r).status = "unmounting"
           /\ r.status \in PidStatuses => ToUnmounting(r).status = "unmounting"
  <1>1. ClearPid(r) \in Rows
    BY ClearPidSound DEF SoundRow
  <1>2. To(ClearPid(r), "unmounting").status = "unmounting"
    BY <1>1, ToFields
  <1>3. r.status \in PidStatuses => CanTransition(r.status, "unmounting")
    BY DEF PidStatuses, CanTransition, AllowedTransitions
  <1> QED BY <1>2, <1>3 DEF ToUnmounting, Move

LEMMA MarkAbsentStatus ==
    ASSUME NEW r, SoundRow(r)
    PROVE  /\ MarkAbsent(r) = r \/ MarkAbsent(r).status \in {"absent", "unmounting"}
           /\ r.status \in PidStatuses \cup {"unmounting", "absent"} =>
                MarkAbsent(r).status = "absent"
  <1> DEFINE u == IF r.status \in {"absent", "unmounting"}
                    THEN ClearPid(r) ELSE ToUnmounting(r)
  <1>1. u \in Rows
    BY ClearPidSound, ToUnmountingSound DEF SoundRow
  <1>2. ClearPid(r).status = r.status
    BY DEF ClearPid, SoundRow, Rows
  <1>3. /\ u = r \/ u.status \in {"absent", "unmounting"}
        /\ r.status \in PidStatuses \cup {"unmounting", "absent"} =>
             u.status \in {"absent", "unmounting"}
    BY <1>2, ToUnmountingStatus
  <1>4. MarkAbsent(r) = Move(u, {"absent", "unmounting"}, "absent", u)
    BY DEF MarkAbsent
  <1> HIDE DEF u
  <1>5. u.status \in {"absent", "unmounting"} =>
          Move(u, {"absent", "unmounting"}, "absent", u).status = "absent"
    BY <1>1, ToFields DEF Move, CanTransition, AllowedTransitions
  <1>6. u.status \notin {"absent", "unmounting"} =>
          Move(u, {"absent", "unmounting"}, "absent", u) = u
    BY DEF Move
  <1> QED BY <1>3, <1>4, <1>5, <1>6

LEMMA ObservedRowClaims ==
    ASSUME NEW r, SoundRow(r), Tracked(r), NEW content \in Contents
    PROVE  ClaimsNoMore(r, ObservedRow(r, content, ResetHooksOnChange))
  <1> DEFINE o == ObservedRow(r, content, ResetHooksOnChange)
  <1>1. SoundRow(o)
    BY ObservedRowSound
  <1>2. CASE r.status = "absent"
    <2>1. [r EXCEPT !.tries = 0, !.retryable = TRUE, !.print = content] \in Rows
      BY ZeroTries, Zenon DEF SoundRow, Rows
    <2>2. o = r \/ o.status = "discovered"
      BY <1>2, <2>1, MoveStatus DEF ObservedRow, Reappear
    <2> QED BY <1>1, <2>2, SameClaims, AtRestClaims DEF PidStatuses
  <1>3. CASE r.status # "absent" /\ r.print # content
    <2> DEFINE u == IF ContentChangeTwoStep(r) THEN ToUnmounting(r) ELSE r
               c == [ClearPid(u) EXCEPT !.print = content, !.tries = 0,
                       !.retryable = TRUE, !.late = FALSE,
                       !.first = @ /\ ~ResetHooksOnChange,
                       !.hooks = IF ResetHooksOnChange THEN "none" ELSE @]
    <2>1. SoundRow(u) /\ (u = r \/ u.status = "unmounting")
      BY ToUnmountingSound, ToUnmountingStatus
    <2>2. o = Move(u, {u.status}, "discovered", c)
      BY <1>3 DEF ObservedRow, RecordContentChange
    <2>3. c \in Rows
      <3>1. ResetHooksOnChange \in BOOLEAN
        BY StateAssumption
      <3> HIDE DEF u
      <3> QED BY <2>1, <3>1, ContentPatch
    <2> HIDE DEF c, u, o
    <2>4. o = r \/ o.status \in {"discovered", "unmounting"}
      BY <2>1, <2>2, <2>3, MoveStatus
    <2>5. ClaimsNoMore(r, o)
      BY <1>1, <2>4, SameClaims, AtRestClaims DEF PidStatuses
    <2> QED BY <2>5 DEF o
  <1>4. CASE r.status # "absent" /\ r.print = content
    <2>1. o = To(r, r.status)
      BY <1>4 DEF ObservedRow, TouchSeen
    <2> HIDE DEF o
    <2>2. o.status = r.status /\ o.pid = r.pid /\ o.indexed = r.indexed
      BY <2>1, ToFields, ToIndexed DEF SoundRow
    <2>3. ClaimsNoMore(r, o)
      BY <2>2 DEF ClaimsNoMore, MountedStatuses
    <2> QED BY <2>3 DEF o
  <1> QED BY <1>2, <1>3, <1>4

LEMMA InsertDiscoveredClaims ==
    ASSUME NEW r, SoundRow(r), NEW content \in Contents
    PROVE  ClaimsNoMore(r, InsertDiscovered(r, content))
  <1>1. InsertDiscovered(r, content).status = "discovered"
    BY InsertDiscoveredFields DEF SoundRow
  <1> QED BY <1>1, InsertDiscoveredSound, AtRestClaims DEF PidStatuses

\* Forgiven attempts: only a failed mount is taken up where it stood.
LEMMA ResetAttemptsClaim ==
    ASSUME NEW r, SoundRow(r)
    PROVE  /\ Tracked(r) => ClaimsNoMore(r, ResetMountAttempts(r))
           /\ ClaimsNoMore(r, ResetPresentAttempts(r))
  <1> DEFINE c == [r EXCEPT !.tries = 0, !.retryable = TRUE]
  <1>1. /\ c \in Rows /\ c.status = r.status /\ c.pid = r.pid
        /\ c.indexed = r.indexed
    BY ZeroTries, Zenon DEF SoundRow, Rows
  <1>2. ResetMountAttempts(r) =
          To(c, CASE r.status = "index_failed" -> "discovered"
                  [] r.status = "mount_failed" -> "mounting"
                  [] OTHER                     -> r.status)
    BY DEF ResetMountAttempts
  <1>3. ResetPresentAttempts(r) \in {r, c}
    BY DEF ResetPresentAttempts
  <1> HIDE DEF c
  <1>4. ClaimsNoMore(r, ResetMountAttempts(r))
    BY <1>1, <1>2, ToFields, ToIndexed DEF ClaimsNoMore, MountedStatuses
  <1> QED BY <1>1, <1>3, <1>4 DEF ClaimsNoMore, MountedStatuses

\* Boot leaves no row with a pid, nor in a status that expects one.
LEMMA BootRowAtRest ==
    ASSUME NEW r, SoundRow(r), NEW exists \in BOOLEAN
    PROVE  /\ BootRow(r, exists).pid = NoChild
           /\ BootRow(r, exists).status \notin PidStatuses
  <1> DEFINE b == BootRow(r, exists)
             c == ClearPid(r)
             d == [c EXCEPT !.retryable = TRUE]
  <1>1. c \in Rows
    BY ClearPidSound DEF SoundRow
  <1> HIDE DEF c
  <1>2. d \in Rows
    BY <1>1 DEF Rows
  <1> HIDE DEF d
  <1>3. \A s : To(c, s).status = s /\ To(d, s).status = s
    BY <1>1, <1>2, ToFields
  <1>4. RequeueTarget(r) \notin PidStatuses
    BY DEF RequeueTarget, PidStatuses
  <1>5. b.status \notin PidStatuses
    <2>1. CASE r.status \in PidStatuses
      <3>1. \/ b \in {To(c, RequeueTarget(r)), To(d, "mount_failed")}
            \/ b = MarkAbsent(r)
        BY <2>1 DEF BootRow, c, d, PidStatuses
      <3> QED BY <1>3, <1>4, <2>1, <3>1, MarkAbsentStatus DEF PidStatuses
    <2>2. CASE r.status \notin PidStatuses
      <3>1. \/ b \in {To(d, RequeueTarget(r)), To(c, r.status), r}
            \/ b = MarkAbsent(r)
        BY <2>2 DEF BootRow, c, d, PidStatuses
      <3> QED BY <1>3, <1>4, <2>2, <3>1, MarkAbsentStatus DEF PidStatuses
    <2> QED BY <2>1, <2>2
  <1>6. SoundRow(b)
    BY BootRowSound
  <1> QED BY <1>5, <1>6 DEF SoundRow, PidOK

-----------------------------------------------------------------------------
(* One archive over a step.                                                *)

LEMMA Typed ==
    ASSUME Beside, NEW b \in Archives
    PROVE  /\ SoundRow(rows[b]) /\ rows[b] \in Rows
           /\ SoundRow(rows'[b]) /\ rows'[b] \in Rows
           /\ live[b] \in LiveEntries /\ index[b] \in IndexFiles
           /\ Supervision(b)
  BY DEF Beside, Inv, SoundRows, SoundRow, TypeOK, Supervised

LEMMA DeadStaysDead ==
    ASSUME NEW b, FadingFor(b, kids'), NEW c \in {live[b].pid, rows[b].pid, NoChild},
           c \in Children \cup {NoChild}, Alive(c)'
    PROVE  Alive(c) /\ kids'[c].of = kids[c].of
  BY DEF FadingFor, KidFades, Alive

\* The row claims no more than it did, and the registry entry is kept.
LEMMA KeptSupervision ==
    ASSUME Beside, SameSide, NEW b \in Archives, FadingFor(b, kids'),
           live'[b] = live[b], ClaimsNoMore(rows[b], rows'[b]),
           rows'[b].status \in MountedStatuses /\ index'[b] = "none" =>
             index[b] = "none"
    PROVE  Supervision(b)'
  <1>1. live[b].pid \in Children \cup {NoChild}
    BY Typed DEF LiveEntries, NoLive
  <1>2. Registered(b)'
    <2>1. Alive(live[b].pid)' => Alive(live[b].pid) /\ kids'[live[b].pid].of = b
      BY <1>1, Typed, DeadStaysDead DEF Supervision, Registered
    <2>2. Alive(rows[b].pid)' => Alive(rows[b].pid) /\ rows'[b].pid = rows[b].pid
      BY Typed, DeadStaysDead DEF ClaimsNoMore, Rows, Alive
    <2> QED BY <2>1, <2>2, Typed DEF Supervision, Registered, SameSide
  <1>3. MountPathClear(b)'
    BY Typed, MountersFade DEF Supervision, MountPathClear, ClaimsNoMore
  <1>4. IndexOnRecord(b)'
    BY Typed DEF Supervision, IndexOnRecord, ClaimsNoMore
  <1> QED BY <1>2, <1>3, <1>4 DEF Supervision

\* The registry entry is dropped: no live child may be left to the row, and
\* what it says of its index has to be so.
LEMMA DroppedSupervision ==
    ASSUME Beside, NEW b \in Archives, FadingFor(b, kids'), live'[b] = NoLive,
           phase' = "down" \/ ~Alive(rows[b].pid)',
           rows'[b].status = "indexing" => rows'[b].indexed,
           rows'[b].status \in MountedStatuses =>
             rows'[b].indexed /\ index'[b] # "none"
    PROVE  Supervision(b)'
  <1>1. ~Alive(live[b].pid)'
    BY DEF NoLive, Alive
  <1>2. Registered(b)'
    BY <1>1 DEF Registered
  <1>3. MountPathClear(b)'
    BY Typed, MountersFade DEF Supervision, MountPathClear, NoLive
  <1>4. IndexOnRecord(b)'
    BY DEF IndexOnRecord, NoLive
  <1> QED BY <1>2, <1>3, <1>4 DEF Supervision

\* Above all when the row comes to rest.
LEMMA AtRestSupervision ==
    ASSUME Beside, NEW b \in Archives, FadingFor(b, kids'), live'[b] = NoLive,
           rows'[b].status \notin PidStatuses
    PROVE  Supervision(b)'
  <1>1. ~Alive(rows[b].pid)'
    BY Typed DEF SoundRow, PidOK, Alive
  <1> QED BY <1>1, DroppedSupervision DEF PidStatuses, MountedStatuses

\* A step of archive a leaves the others alone.
LEMMA OnlyOne ==
    ASSUME Beside, SameSide, NEW a \in Archives, Supervision(a)',
           \A b \in Archives \ {a} : /\ rows'[b] = rows[b] /\ live'[b] = live[b]
                                    /\ index'[b] = index[b]
                                    /\ FadingFor(b, kids')
    PROVE  Supervised'
  BY KeptSupervision, SameClaims DEF Supervised

\* Its usual form: one row, its registry entry and its index file.
LEMMA OnlyThisRow ==
    ASSUME Beside, SameSide, NEW a \in Archives, Supervision(a)', Fading(kids'),
           NEW r, rows' = [rows EXCEPT ![a] = r],
           UNCHANGED live \/ live' = [live EXCEPT ![a] = NoLive],
           NEW x, UNCHANGED index \/ index' = [index EXCEPT ![a] = x]
    PROVE  Supervised'
  <1>1. \A b \in Archives \ {a} : /\ rows'[b] = rows[b] /\ live'[b] = live[b]
                                  /\ index'[b] = index[b]
                                  /\ FadingFor(b, kids')
    BY FadingForEach DEF Beside, Inv, TypeOK
  <1> QED BY <1>1, OnlyOne

\* A row alone changes, and claims no more.
LEMMA OneRowSupervised ==
    ASSUME Beside, SameSide, NEW a \in Archives, NEW r,
           rows' = [rows EXCEPT ![a] = r], ClaimsNoMore(rows[a], r),
           UNCHANGED live, UNCHANGED index, Fading(kids')
    PROVE  Supervised'
  <1>1. Supervision(a)'
    BY Typed, FadingForEach, KeptSupervision DEF Beside, Inv, TypeOK
  <1> QED BY <1>1, OnlyThisRow

LEMMA AllRowsSupervised ==
    ASSUME Beside, SameSide, \A b \in Archives : ClaimsNoMore(rows[b], rows'[b]),
           UNCHANGED live, Fading(kids'),
           \A b \in Archives : index'[b] = "none" => index[b] = "none"
    PROVE  Supervised'
  BY FadingForEach, KeptSupervision DEF Supervised

LEMMA SameRowsSupervised ==
    ASSUME Beside, SameSide, UNCHANGED <<rows, live>>, Fading(kids'),
           \A b \in Archives : index'[b] = "none" => index[b] = "none"
    PROVE  Supervised'
  <1>1. \A b \in Archives : ClaimsNoMore(rows[b], rows'[b])
    BY SameClaims
  <1> QED BY <1>1, AllRowsSupervised

-----------------------------------------------------------------------------
(* Starts.                                                                 *)

\* However a start ends: with a child of its own that is alone at the mount
\* path, or builds the index; or without any, in a failed status.
LEMMA StartProcessSupervised ==
    ASSUME Beside, SameSide, phase # "down",
           NEW a \in Archives, NEW r, SoundRow(r),
           NEW ks \in [Children -> KidStates], Fading(ks),
           NEW lv \in [Archives -> LiveEntries],
           lv[a] \in {live[a], NoLive},
           \A b \in Archives \ {a} : lv[b] = live[b] /\ index'[b] = index[b],
           NEW indexing \in BOOLEAN, NEW ok \in BOOLEAN, NEW twice \in BOOLEAN,
           \/ indexing = TRUE /\ CanTransition(r.status, "indexing")
           \/ indexing = FALSE /\ CanTransition(r.status, "mounting"),
           StartProcess(a, r, ks, lv, indexing, ok, twice)
    PROVE  Supervised'
  <1> DEFINE target  == IF indexing THEN "indexing" ELSE "mounting"
             claimed == Move(r, {r.status}, target, [r EXCEPT !.indexed = TRUE])
             cleared == IF indexing THEN ks ELSE ClearStaleMountHolders(ks, a)
             once    == NextAttempt(ClearPid(claimed))
             most    == IF twice THEN NextAttempt(once) ELSE once
             failed  == To(most, FailedStatus(indexing))
  <1>1. Fading(cleared) /\ cleared \in [Children -> KidStates]
    BY KillFades, KillTyped DEF ClearStaleMountHolders
  <1>2. ~indexing => \A c \in Children : cleared[c].of # a
    <2>1. ASSUME ~indexing, NEW c \in Children PROVE cleared[c].of # a
      <3>1. CASE kids[c].of = a
        BY <2>1, <3>1, StateAssumption DEF ClearStaleMountHolders, Kill, KidsOf, Dead
      <3>2. CASE kids[c].of # a
        BY <2>1, <3>2, StateAssumption
        DEF ClearStaleMountHolders, Kill, KidsOf, Dead, Fading, KidFades
      <3> QED BY <3>1, <3>2
    <2> QED BY <2>1
  <1> HIDE DEF cleared
  <1>3. claimed.indexed = TRUE /\ SoundRow(claimed)
    <2>1. /\ [r EXCEPT !.indexed = TRUE] \in Rows
          /\ [r EXCEPT !.indexed = TRUE].hooks = r.hooks
          /\ [r EXCEPT !.indexed = TRUE].first = r.first
          /\ [r EXCEPT !.indexed = TRUE].indexed = TRUE
      BY DEF SoundRow, Rows
    <2>2. SoundRow(claimed)
      <3>1. target \in PidStatuses /\ target \in Statuses
            /\ target \notin {"mounted", "hooks_running"}
        BY DEF PidStatuses, Statuses
      <3>2. r.hooks # "none" => r.first
        BY DEF SoundRow, FirstOK
      <3> DEFINE x == [r EXCEPT !.indexed = TRUE]
      <3> HIDE DEF x, target
      <3>3. SoundRow(Move(r, {r.status}, target, x))
        BY <2>1, <3>1, <3>2, MoveSound DEF x
      <3> QED BY <3>3 DEF x
    <2>3. claimed = To([r EXCEPT !.indexed = TRUE], target)
      BY DEF Move
    <2> QED BY <2>1, <2>2, <2>3, ToIndexed
  <1> HIDE DEF claimed
  <1>4. CASE ok
    <2>1. PICK c \in FreeFor(a, cleared) :
            /\ rows' = [rows EXCEPT ![a] = To([claimed EXCEPT !.pid = c], target)]
            /\ live' = [lv EXCEPT ![a] =
                 [pid |-> c, phase |-> IF indexing THEN "index_only" ELSE "mount"]]
            /\ kids' = [cleared EXCEPT ![c] =
                 [of |-> a, job |-> IF indexing THEN "opening" ELSE "starting"]]
      BY <1>4 DEF StartProcess, claimed, cleared
    <2>2. c \in Children /\ cleared[c] = Dead
      BY DEF FreeFor
    <2>3. ASSUME NEW b \in Archives \ {a}
          PROVE  /\ rows'[b] = rows[b] /\ live'[b] = live[b]
                 /\ index'[b] = index[b] /\ FadingFor(b, kids')
      <3>1. FadingFor(b, kids')
        BY <1>1, <2>1, <2>2 DEF FadingFor, Fading, FreeFor
      <3>2. rows'[b] = rows[b] /\ live'[b] = live[b] /\ index'[b] = index[b]
        BY <2>1 DEF Beside, Inv, TypeOK
      <3> QED BY <3>1, <3>2
    <2>4. /\ rows'[a].status = target /\ rows'[a].pid = c /\ rows'[a].indexed = TRUE
      <3> DEFINE s == [claimed EXCEPT !.pid = c]
      <3>1. s \in Rows /\ s.indexed = TRUE /\ s.pid = c
        BY <1>3, <2>2 DEF SoundRow, Rows
      <3>2. rows'[a] = To(s, target)
        BY <2>1 DEF Beside, Inv, TypeOK
      <3> HIDE DEF s
      <3> QED BY <3>1, <3>2, ToFields, ToIndexed
    <2>5. /\ live'[a] = [pid |-> c, phase |-> IF indexing THEN "index_only" ELSE "mount"]
          /\ kids'[c] = [of |-> a, job |-> IF indexing THEN "opening" ELSE "starting"]
          /\ \A d \in Children \ {c} : kids'[d] = cleared[d]
      BY <1>1, <2>1, <2>2
    <2>6. Registered(a)'
      <3>1. phase' # "down"
        BY DEF SameSide
      <3> QED BY <2>4, <2>5, <3>1 DEF Registered
    <2>7. IndexOnRecord(a)'
      BY <2>4 DEF IndexOnRecord, MountedStatuses
    <2>8. MountPathClear(a)'
      <3>1. CASE indexing
        <4>1. Mounters(a)' \subseteq Mounters(a)
          BY <1>1, <2>5, <3>1, StateAssumption
          DEF Mounters, KidsOf, Fading, KidFades, Dead, MountJobs
        <4> QED BY <2>4, <2>5, <3>1, <4>1, Typed DEF Supervision, MountPathClear
      <3>2. CASE ~indexing
        <4>1. Mounters(a)' \subseteq {c}
          BY <1>2, <2>5, <3>2 DEF Mounters, KidsOf
        <4> QED BY <2>4, <2>5, <3>2, <4>1 DEF MountPathClear
      <3> QED BY <3>1, <3>2
    <2> QED BY <2>3, <2>6, <2>7, <2>8, OnlyOne DEF Supervision
  <1>5. CASE ~ok
    <2>1. rows' = [rows EXCEPT ![a] = failed] /\ kids' = cleared /\ live' = lv
      BY <1>5 DEF StartProcess, failed, cleared, claimed, once, most
    <2>2. failed.status = FailedStatus(indexing)
      <3>1. SoundRow(once)
        BY <1>3, ClearPidSound, NextAttemptSound
      <3> HIDE DEF once
      <3>2. SoundRow(most)
        BY <3>1, NextAttemptSound
      <3> HIDE DEF most
      <3> QED BY <3>2, ToFields DEF SoundRow
    <2> HIDE DEF failed
    <2>3. rows'[a] = failed /\ \A b \in Archives \ {a} : rows'[b] = rows[b]
      BY <2>1 DEF Beside, Inv, TypeOK
    <2>4. \A b \in Archives : FadingFor(b, kids')
      BY <1>1, <2>1, FadingForEach
    <2>5. Supervision(a)'
      <3>1. CASE live'[a] = NoLive
        BY <2>2, <2>3, <2>4, <3>1, AtRestSupervision DEF FailedStatus, PidStatuses
      <3>2. CASE live'[a] = live[a]
        <4>1. Registered(a)'
          <5>1. live[a].pid \in Children \cup {NoChild}
            BY Typed DEF LiveEntries, NoLive
          <5>2. Alive(live[a].pid)' => kids'[live[a].pid].of = a
            BY <2>4, <3>2, <5>1, Typed, DeadStaysDead DEF Supervision, Registered
          <5>3. ~Alive(rows[a].pid)'
            BY <2>2, <2>3, Typed DEF SoundRow, PidOK, Alive, FailedStatus, PidStatuses
          <5> QED BY <3>2, <5>2, <5>3, Typed DEF Supervision, Registered, SameSide
        <4>2. MountPathClear(a)'
          <5>1. CASE indexing
            BY <2>2, <2>3, <2>4, <5>1, Typed, MountersFade
            DEF Supervision, MountPathClear, FailedStatus
          <5>2. CASE ~indexing
            BY <1>2, <2>1, <5>2 DEF MountPathClear, Mounters, KidsOf
          <5> QED BY <5>1, <5>2
        <4>3. IndexOnRecord(a)'
          BY <2>2, <2>3 DEF IndexOnRecord, FailedStatus, MountedStatuses
        <4> QED BY <4>1, <4>2, <4>3 DEF Supervision
      <3> QED BY <2>1, <3>1, <3>2
    <2>6. \A b \in Archives \ {a} : live'[b] = live[b] /\ index'[b] = index[b]
      BY <2>1
    <2> QED BY <2>3, <2>4, <2>5, <2>6, OnlyOne
  <1> QED BY <1>4, <1>5

\* A start that did nothing leaves the row that was looked at, and at most
\* wipes a partial index, which no mounted row has.
LEMMA BeginMountSupervised ==
    ASSUME Beside, SameSide, phase # "down",
           NEW a \in Archives, NEW r, SoundRow(r), ClaimsNoMore(rows[a], r),
           NEW first \in BOOLEAN, NEW ok \in BOOLEAN,
           BeginMount(a, r, first, ok)
    PROVE  Supervised'
  <1> DEFINE wipe  == PartialIndex(r) /\ index[a] # "none"
             idx   == IF wipe THEN "none" ELSE index[a]
             ks    == IF wipe THEN Unlink(kids, a) ELSE kids
             needs == first \/ ~r.indexed \/ idx = "none"
             target == IF needs THEN "indexing" ELSE "mounting"
  <1>1. ks \in [Children -> KidStates] /\ Fading(ks)
    BY UnlinkTyped, UnlinkFades, KidsFade DEF Beside, Inv, TypeOK
  <1>2. needs \in BOOLEAN
    BY DEF SoundRow, Rows
  <1>3. index' = [index EXCEPT ![a] = idx]
    BY DEF BeginMount
  <1>4. r.status \in MountedStatuses => idx = index[a]
    BY DEF PartialIndex, MountedStatuses
  <1>5. \/ rows' = [rows EXCEPT ![a] = r] /\ kids' = ks /\ UNCHANGED live
        \/ /\ CanTransition(r.status, target)
           /\ StartProcess(a, r, ks, live, needs, ok, FALSE)
    BY DEF BeginMount
  <1> HIDE DEF ks, idx, needs
  <1>6. CASE rows' = [rows EXCEPT ![a] = r] /\ kids' = ks /\ UNCHANGED live
    <2>1. rows'[a] = r /\ index'[a] = idx
      BY <1>3, <1>6 DEF Beside, Inv, TypeOK
    <2>2. Supervision(a)'
      BY <1>1, <1>4, <1>6, <2>1, FadingForEach, KeptSupervision
    <2> QED BY <1>1, <1>3, <1>6, <2>2, OnlyThisRow
  <1>7. CASE /\ CanTransition(r.status, target)
             /\ StartProcess(a, r, ks, live, needs, ok, FALSE)
    <2>1. /\ live \in [Archives -> LiveEntries]
          /\ live[a] \in {live[a], NoLive}
          /\ \A b \in Archives \ {a} : live[b] = live[b] /\ index'[b] = index[b]
          /\ FALSE \in BOOLEAN
      BY <1>3 DEF Beside, Inv, TypeOK
    <2>2. /\ \/ needs = TRUE /\ CanTransition(r.status, "indexing")
             \/ needs = FALSE /\ CanTransition(r.status, "mounting")
          /\ StartProcess(a, r, ks, live, needs, ok, FALSE)
      BY <1>2, <1>7
    <2> QED BY <1>1, <1>2, <2>1, <2>2, StartProcessSupervised
  <1> QED BY <1>5, <1>6, <1>7

-----------------------------------------------------------------------------
(* The other operations of the engine.                                     *)

\* Entries the poll finds dead: the row names no live child.
LEMMA ExitedRow ==
    ASSUME Beside, phase # "down", NEW a \in Archives, Exited(a)
    PROVE  ~Alive(rows[a].pid)
  BY Typed DEF Supervision, Registered, Exited

LEMMA CompleteIndexSupervised ==
    ASSUME Beside, SameSide, phase # "down", NEW a \in Archives,
           NEW ok \in BOOLEAN, Check(a) = "index_complete", CompleteIndex(a, ok)
    PROVE  Supervised'
  <1> DEFINE r == rows[a]
             dropped == [live EXCEPT ![a] = IF Tracked(r) THEN NoLive ELSE @]
  <1>1. /\ dropped \in [Archives -> LiveEntries]
        /\ dropped[a] \in {live[a], NoLive}
        /\ Tracked(r) => dropped[a] = NoLive
        /\ \A b \in Archives \ {a} : dropped[b] = live[b]
        /\ dropped = live \/ dropped = [live EXCEPT ![a] = NoLive]
    BY LiveTyped DEF Beside, Inv, TypeOK
  <1> HIDE DEF dropped
  <1>2. UNCHANGED index
    BY DEF CompleteIndex
  <1>3. CASE r.status = "indexing"
    <2>1. SoundRow(To(r, "mounting")) /\ To(r, "mounting").status = "mounting"
      BY <1>3, Typed, ToSound DEF SoundRow, FirstOK, Statuses, PidStatuses
    <2>2. StartProcess(a, To(r, "mounting"), kids, dropped, FALSE, ok, TRUE)
      BY <1>3 DEF CompleteIndex, dropped
    <2>3. /\ kids \in [Children -> KidStates] /\ FALSE \in BOOLEAN /\ TRUE \in BOOLEAN
          /\ CanTransition(To(r, "mounting").status, "mounting")
      BY <2>1 DEF Beside, Inv, TypeOK, CanTransition
    <2>4. \A b \in Archives \ {a} : dropped[b] = live[b] /\ index'[b] = index[b]
      BY <1>1, <1>2
    <2> HIDE DEF r
    <2>5. Fading(kids)
      BY KidsFade
    <2>6. ASSUME NEW q, SoundRow(q), NEW i \in BOOLEAN, NEW twice \in BOOLEAN,
                 i = FALSE /\ CanTransition(q.status, "mounting"),
                 StartProcess(a, q, kids, dropped, i, ok, twice)
          PROVE  Supervised'
      <3>1. dropped \in [Archives -> LiveEntries] /\ dropped[a] \in {live[a], NoLive}
        BY <1>1
      <3>2. kids \in [Children -> KidStates]
        BY <2>3
      <3> QED BY <2>4, <2>5, <2>6, <3>1, <3>2, StartProcessSupervised
    <2> QED BY <2>1, <2>2, <2>3, <2>6, Zenon
  <1>4. CASE r.status # "indexing"
    <2> DEFINE n == NextAttempt(ClearPid(r))
               m == Move(r, {"mounting", "mount_failed"}, "mount_failed", n)
    <2>1. n \in Rows
      BY Typed, ClearPidSound, NextAttemptSound DEF SoundRow
    <2>2. rows' = [rows EXCEPT ![a] = m] /\ live' = dropped /\ kids' = kids
      BY <1>4 DEF CompleteIndex, dropped, n
    <2> HIDE DEF n
    <2>3. m = r \/ m.status = "mount_failed"
      BY <2>1, MoveStatus
    <2>4. r.status \notin Statuses => m = r
      BY DEF Move, Statuses
    <2> HIDE DEF m
    <2>5. Fading(kids') /\ FadingFor(a, kids')
      BY <2>2, KidsFade, FadingForEach
    <2>6. rows'[a] = m
      BY <2>2 DEF Beside, Inv, TypeOK
    <2>7. Supervision(a)'
      <3>1. CASE live'[a] = live[a] /\ m = r
        BY <1>2, <2>5, <2>6, <3>1, SameClaims, KeptSupervision
      <3>2. CASE live'[a] = NoLive /\ m = r
        <4>1. ~Alive(rows[a].pid) /\ rows'[a] = rows[a] /\ UNCHANGED <<kids, index>>
          BY <1>2, <2>2, <2>6, <3>2, ExitedRow DEF Check
        <4> QED
          BY <2>5, <3>2, <4>1, Typed, DroppedSupervision
          DEF Supervision, IndexOnRecord, Alive
      <3>3. CASE live'[a] = NoLive /\ m.status = "mount_failed"
        BY <2>5, <2>6, <3>3, AtRestSupervision DEF PidStatuses
      <3> QED BY <1>1, <2>2, <2>3, <2>4, <3>1, <3>2, <3>3 DEF Tracked
    <2> QED BY <1>1, <1>2, <2>2, <2>5, <2>7, OnlyThisRow
  <1> QED BY <1>3, <1>4

\* A failed phase that leaves its row, or a row that has left it: mounted
\* rows are in no index phase and have their index, so they lose nothing.
LEMMA MarkFailedSupervised ==
    ASSUME Beside, SameSide, phase # "down", NEW a \in Archives,
           Check(a) = "exited", MarkFailed(a)
    PROVE  Supervised'
  <1> DEFINE r    == rows[a]
             building == live[a].phase = "index_only"
             drop == building \/ index[a] = "none"
             n    == NextAttempt(ClearPid(r))
             c    == [n EXCEPT !.indexed = @ /\ ~drop]
             failed == FailedStatus(building)
             m    == Move(r, {"indexing", "mounting", failed}, failed, c)
  <1>1. CASE ~Tracked(r)
    <2>1. UNCHANGED <<rows, live, index, kids>>
      BY <1>1 DEF MarkFailed
    <2>2. Fading(kids')
      BY <2>1, KidsFade
    <2> QED BY <2>1, <2>2, SameRowsSupervised
  <1>2. CASE Tracked(r)
    <2>1. /\ rows' = [rows EXCEPT ![a] = m]
          /\ live' = [live EXCEPT ![a] = NoLive]
          /\ index' = [index EXCEPT ![a] = IF drop THEN "none" ELSE @]
          /\ kids' = IF drop THEN Unlink(kids, a) ELSE kids
      BY <1>2 DEF MarkFailed
    <2>2. n \in Rows
      BY Typed, ClearPidSound, NextAttemptSound DEF SoundRow
    <2> HIDE DEF n
    <2>3. c \in Rows
      BY <2>2 DEF Rows
    <2> HIDE DEF c
    <2>4. failed \notin PidStatuses
      BY DEF FailedStatus, PidStatuses
    <2>5. m = r \/ m.status = failed
      BY <2>3, MoveStatus
    <2> HIDE DEF m, failed
    <2>6. Fading(kids') /\ FadingFor(a, kids')
      BY <2>1, KidsFade, UnlinkFades, FadingForEach
    <2>7. rows'[a] = m /\ live'[a] = NoLive
      BY <2>1 DEF Beside, Inv, TypeOK
    <2>8. Supervision(a)'
      <3>1. CASE m = r
        <4>1. Exited(a)
          BY DEF Check
        <4>2. rows'[a].pid = rows[a].pid /\ ~Alive(rows[a].pid)
          BY <2>7, <3>1, <4>1, ExitedRow
        <4>3. ~Alive(rows[a].pid)'
          BY <2>6, <2>7, <4>2, Typed, DeadStaysDead DEF Rows
        <4>4. r.status \in MountedStatuses => index'[a] # "none"
          BY <2>1, Typed DEF Supervision, IndexOnRecord, Beside, Inv, TypeOK
        <4> QED
          BY <2>6, <2>7, <3>1, <4>3, <4>4, Typed, DroppedSupervision
          DEF Supervision, IndexOnRecord
      <3>2. CASE m.status = failed
        BY <2>4, <2>6, <2>7, <3>2, AtRestSupervision
      <3> QED BY <2>5, <3>1, <3>2
    <2> QED BY <2>1, <2>6, <2>8, OnlyThisRow
  <1> QED BY <1>1, <1>2

\* Promotion: something serves at the mount path, so the row had its index
\* path stored.
LEMMA MarkMountedSupervised ==
    ASSUME Beside, SameSide, phase # "down", NEW a \in Archives,
           Check(a) = "mounted", MarkMounted(a)
    PROVE  Supervised'
  <1> DEFINE r == rows[a]
             c == [r EXCEPT !.pid = live[a].pid]
             m == Move(r, {"indexing", "mounting", "mounted"}, "mounted", c)
  <1>1. live[a] # NoLive /\ live[a].phase # "index_only" /\ IsMount(a) /\ index[a] # "none"
    BY DEF Check
  <1>2. live[a].pid \in Children /\ live[a].phase = "mount"
    BY <1>1, Typed DEF LiveEntries
  <1>3. Mounters(a) # {}
    BY <1>1 DEF IsMount, Mounters, MountJobs
  <1>4. c \in Rows /\ c.pid = live[a].pid /\ c.indexed = r.indexed
    BY <1>2, Typed DEF Rows
  <1>5. rows' = [rows EXCEPT ![a] = m] /\ UNCHANGED <<live, kids, index>>
    BY DEF MarkMounted
  <1> HIDE DEF c
  <1>6. CASE m = r
    BY <1>5, <1>6, KidsFade, SameClaims, OneRowSupervised
  <1>7. CASE m # r
    <2>1. m = To(c, "mounted") /\ r.status \in {"indexing", "mounting", "mounted"}
      BY <1>7 DEF Move
    <2>2. m.status = "mounted" /\ m.pid = live[a].pid /\ m.indexed = r.indexed
      BY <1>4, <2>1, ToFields, ToIndexed
    <2> HIDE DEF m
    <2>3. rows'[a] = m /\ live'[a] = live[a]
      BY <1>5 DEF Beside, Inv, TypeOK
    <2>4. Registered(a)'
      BY <1>5, <2>2, <2>3, Typed DEF Supervision, Registered, SameSide, Alive
    <2>5. MountPathClear(a)'
      BY <1>5, <2>2, <2>3, Typed
      DEF Supervision, MountPathClear, Mounters, KidsOf
    <2>6. IndexOnRecord(a)'
      <3>1. r.indexed
        BY <1>2, <1>3, <2>1, Typed
        DEF Supervision, MountPathClear, IndexOnRecord, MountedStatuses, SoundRow, Rows
      <3> QED BY <1>1, <1>5, <2>2, <2>3, <3>1 DEF IndexOnRecord
    <2>7. Supervision(a)'
      BY <2>4, <2>5, <2>6 DEF Supervision
    <2> QED BY <1>5, <2>7, KidsFade, OnlyThisRow
  <1> QED BY <1>6, <1>7

LEMMA UnmountSupervised ==
    ASSUME Beside, SameSide, NEW a \in Archives, Unmount(a), UNCHANGED index
    PROVE  Supervised'
  <1> DEFINE r == IF rows[a].status = "absent" THEN rows[a] ELSE ToUnmounting(rows[a])
  <1>1. r.status \notin PidStatuses
    BY Typed, ToUnmountingStatus DEF PidStatuses
  <1>2. rows' = [rows EXCEPT ![a] = r] /\ live' = [live EXCEPT ![a] = NoLive]
        /\ Fading(kids')
    BY KidsFade, KillFades DEF Unmount
  <1> HIDE DEF r
  <1>3. Supervision(a)'
    BY <1>1, <1>2, FadingForEach, AtRestSupervision DEF Beside, Inv, TypeOK
  <1> QED BY <1>2, <1>3, OnlyThisRow

-----------------------------------------------------------------------------
(* The steps of a tick.                                                    *)

LEMMA ProgressSupervised ==
    ASSUME Beside, NEW a \in Archives, Progress(a) PROVE Supervised'
  <1>1. SameSide /\ phase # "down"
    BY DEF Progress, Visit, SameSide
  <1> QED
    BY <1>1, CompleteIndexSupervised, MarkFailedSupervised, MarkMountedSupervised
    DEF Progress

LEMMA PendingWorkSupervised ==
    ASSUME Beside, NEW a \in Archives,
           RetryStuck(a) \/ StartFresh(a) \/ RetryFailed(a)
    PROVE  Supervised'
  <1>1. SameSide /\ phase # "down"
    BY DEF RetryStuck, StartFresh, RetryFailed, StartWork, Visit, SameSide
  <1>2. (~rows[a].first) \in BOOLEAN
    OBVIOUS
  <1>3. SoundRow(rows[a]) /\ ClaimsNoMore(rows[a], rows[a])
    BY Typed, SameClaims
  <1>4. ASSUME NEW first \in BOOLEAN, StartWork(a, first) PROVE Supervised'
    BY <1>1, <1>3, <1>4, BeginMountSupervised DEF StartWork
  <1>5. CASE UNCHANGED <<rows, live, kids, index>>
    BY <1>1, <1>5, KidsFade, SameRowsSupervised
  <1> QED BY <1>2, <1>4, <1>5 DEF RetryStuck, StartFresh, RetryFailed

LEMMA ReconcileSupervised ==
    ASSUME Beside, NEW a \in Archives, Reconcile(a) PROVE Supervised'
  <1> DEFINE r == rows[a]
  <1>1. SameSide
    BY DEF Reconcile, Visit, SameSide
  <1>2. CASE ApplyFail(a) /\ r.status \in PidStatuses
    <2> DEFINE p == ClearPid(r)
               drop == r.status = "indexing" \/ ~r.first
               failed == IF p.status = "indexing" THEN "index_failed"
                                                  ELSE "mount_failed"
               c == [NextAttempt(p) EXCEPT !.indexed = @ /\ ~drop]
               m == Move(p, {p.status}, failed, c)
    <2>1. /\ rows' = [rows EXCEPT ![a] = m]
          /\ live' = [live EXCEPT ![a] = NoLive]
          /\ UNCHANGED index \/ index' = [index EXCEPT ![a] = "none"]
          /\ kids' \in {kids, Unlink(kids, a)}
      BY <1>2 DEF ApplyFail, FailAs, Beside, Inv, TypeOK
    <2>2. NextAttempt(p) \in Rows
      BY Typed, ClearPidSound, NextAttemptSound DEF SoundRow
    <2>3. c \in Rows
      BY <2>2 DEF Rows
    <2>4. p.status = r.status
      BY Typed DEF ClearPid, Rows
    <2> HIDE DEF c, p
    <2>5. m = To(c, failed)
      BY <1>2, <2>4 DEF Move, CanTransition, AllowedTransitions, PidStatuses
    <2>6. m.status \notin PidStatuses
      BY <2>3, <2>5, ToFields DEF PidStatuses
    <2> HIDE DEF m
    <2>7. Fading(kids')
      BY <2>1, KidsFade, UnlinkFades
    <2>8. Supervision(a)'
      BY <2>1, <2>6, <2>7, FadingForEach, AtRestSupervision DEF Beside, Inv, TypeOK
    <2> QED BY <1>1, <2>1, <2>7, <2>8, OnlyThisRow
  <1>3. CASE ApplyMarkAbsent(a) /\ r.status \in PidStatuses \cup {"unmounting"}
    <2>1. MarkAbsent(r).status \notin PidStatuses
      BY <1>3, Typed, MarkAbsentStatus DEF PidStatuses
    <2>2. /\ rows' = [rows EXCEPT ![a] = MarkAbsent(r)]
          /\ live' = [live EXCEPT ![a] = NoLive]
          /\ UNCHANGED <<index, kids>>
      BY <1>3 DEF ApplyMarkAbsent
    <2>3. Fading(kids')
      BY <2>2, KidsFade
    <2>4. Supervision(a)'
      BY <2>1, <2>2, <2>3, FadingForEach, AtRestSupervision DEF Beside, Inv, TypeOK
    <2> QED BY <1>1, <2>2, <2>3, <2>4, OnlyThisRow
  <1>4. CASE ApplyCleanupIndex(a) /\ Cleanable(a) /\ r.status # "indexing"
    <2> DEFINE c == [r EXCEPT !.indexed = FALSE]
    <2>1. c \in Rows /\ c.status = r.status /\ c.pid = r.pid
      BY Typed DEF Rows
    <2>2. rows' = [rows EXCEPT ![a] = To(c, r.status)]
      BY <1>4 DEF ApplyCleanupIndex
    <2> HIDE DEF c
    <2>3. ClaimsNoMore(r, To(c, r.status)) /\ To(c, r.status).status \notin MountedStatuses
      BY <1>4, <2>1, ToFields
      DEF ClaimsNoMore, Cleanable, PartialIndex, MountedStatuses
    <2>4. Fading(kids') /\ UNCHANGED live /\ index' = [index EXCEPT ![a] = "none"]
      BY <1>4, KidsFade, UnlinkFades DEF ApplyCleanupIndex
    <2>5. rows'[a] = To(c, r.status)
      BY <2>2 DEF Beside, Inv, TypeOK
    <2>6. Supervision(a)'
      BY <1>1, <2>3, <2>4, <2>5, FadingForEach, KeptSupervision
    <2> QED BY <1>1, <2>2, <2>4, <2>6, OnlyThisRow
  <1> QED
    BY <1>2, <1>3, <1>4
    DEF Reconcile, InProgressFails, MountUnhealthy, PidStatuses

\* Boot clears every pid, and there is no registry to agree with yet.
LEMMA BootSupervised == ASSUME Beside, Boot PROVE Supervised'
  <1>1. ASSUME NEW a \in Archives PROVE Supervision(a)'
    <2> DEFINE c == [rows[a] EXCEPT !.indexed = @ /\ ~Cleanable(a)]
    <2>1. SoundRow(c)
      BY Typed DEF SoundRow, Rows, PidOK, FirstOK
    <2>2. rows'[a] = BootRow(c, FileExists(a))
      BY DEF Boot, BootedRows
    <2>3. FileExists(a) \in BOOLEAN
      BY DEF FileExists
    <2> HIDE DEF c
    <2>4. rows'[a].status \notin PidStatuses
      BY <2>1, <2>2, <2>3, BootRowAtRest
    <2>5. live'[a] = NoLive
      BY Typed DEF Boot, Supervision, Registered
    <2>6. FadingFor(a, kids')
      BY KidsFade, KillFades, FadingForEach DEF Boot
    <2> QED BY <2>4, <2>5, <2>6, AtRestSupervision
  <1> QED BY <1>1 DEF Supervised

LEMMA ObservePathSupervised ==
    ASSUME Beside, NEW p \in Paths, ObservePath(p) PROVE Supervised'
  <1>1. SameSide /\ Fading(kids') /\ UNCHANGED <<live, index>>
    BY KidsFade DEF ObservePath, SameSide
  <1>2. file[p] # Gone => file[p] \in Contents
    BY DEF Beside, Inv, TypeOK
  <1>3. CASE UNCHANGED rows
    BY <1>1, <1>3, SameRowsSupervised
  <1>4. ASSUME file[p] # Gone, NEW a \in RowsAt(p),
               rows' = [rows EXCEPT ![a] = ObservedRow(@, file[p], ResetHooksOnChange)]
        PROVE  Supervised'
    <2>1. a \in Archives /\ SoundRow(rows[a]) /\ Tracked(rows[a])
      BY <1>4, Typed DEF RowsAt
    <2> QED BY <1>1, <1>2, <1>4, <2>1, ObservedRowClaims, OneRowSupervised
  <1>5. ASSUME file[p] # Gone, NEW a \in NewIds(p),
               rows' = [rows EXCEPT ![a] = InsertDiscovered(@, file[p])]
        PROVE  Supervised'
    <2>1. a \in Archives /\ SoundRow(rows[a])
      BY <1>5, Typed DEF NewIds
    <2> QED BY <1>1, <1>2, <1>5, <2>1, InsertDiscoveredClaims, OneRowSupervised
  <1> QED BY <1>3, <1>4, <1>5 DEF ObservePath, Listed

LEMMA ScanAbsentSupervised ==
    ASSUME Beside, NEW a \in Archives, ScanAbsent(a) PROVE Supervised'
  <1>1. SameSide /\ Fading(kids') /\ UNCHANGED <<live, index>>
    BY KidsFade DEF ScanAbsent, Visit, SameSide
  <1>2. ClaimsNoMore(rows[a], MarkAbsent(rows[a]))
    BY Typed, MarkAbsentSound, MarkAbsentStatus, SameClaims, AtRestClaims
    DEF PidStatuses
  <1> QED BY <1>1, <1>2, OneRowSupervised DEF ScanAbsent

LEMMA ForgivenSupervised ==
    ASSUME Beside, SameSide, UNCHANGED <<live, kids, index>>,
           rows' = [a \in Archives |-> ResetPresentAttempts(rows[a])]
    PROVE  Supervised'
  <1>1. \A a \in Archives : ClaimsNoMore(rows[a], rows'[a])
    BY Typed, ResetAttemptsClaim
  <1> QED BY <1>1, KidsFade, AllRowsSupervised

\* Hooks leave a row among the mounted ones, with what it claimed.
LEMMA HooksSupervised ==
    ASSUME Beside, SameSide, NEW a \in Archives, EnterHooks(a) \/ FinishHooks(a)
    PROVE  Supervised'
  <1>1. PICK h \in HooksStatuses, s \in MountedStatuses :
          rows' = [rows EXCEPT ![a] = To([@ EXCEPT !.hooks = h], s)]
    BY StateAssumption
    DEF EnterHooks, FinishHooks, HooksStatuses, MountedStatuses
  <1>2. rows[a].status \in MountedStatuses
    BY DEF EnterHooks, FinishHooks, MountedStatuses
  <1> DEFINE c == [rows[a] EXCEPT !.hooks = h]
  <1>3. c \in Rows /\ c.pid = rows[a].pid /\ c.indexed = rows[a].indexed
    BY Typed DEF Rows
  <1>4. rows' = [rows EXCEPT ![a] = To(c, s)]
    BY <1>1
  <1> HIDE DEF c
  <1>5. ClaimsNoMore(rows[a], To(c, s))
    BY <1>2, <1>3, ToFields, ToIndexed DEF ClaimsNoMore, MountedStatuses
  <1>6. Fading(kids') /\ UNCHANGED <<live, index>>
    BY KidsFade DEF EnterHooks, FinishHooks
  <1> QED BY <1>4, <1>5, <1>6, OneRowSupervised

\* A purge forgets the row, not the registry entry of a child that is left.
LEMMA DropRowSupervised ==
    ASSUME Beside, SameSide, NEW a \in Archives, NEW ks, Fading(ks), DropRow(a, ks),
           UNCHANGED live \/ live' = [live EXCEPT ![a] = NoLive]
    PROVE  Supervised'
  <1> DEFINE c == [rows[a] EXCEPT !.status = "purged", !.pid = NoChild,
                                  !.late = FALSE]
  <1>1. rows' = [rows EXCEPT ![a] = c]
    BY DEF DropRow
  <1>2. c.status = "purged"
    BY Typed, Zenon DEF Rows
  <1> HIDE DEF c
  <1>3. rows'[a] = c
    BY <1>1 DEF Beside, Inv, TypeOK
  <1>4. c.status \notin PidStatuses \cup MountedStatuses \cup {"mount_failed"}
    BY <1>2 DEF PidStatuses, MountedStatuses
  <1>5. Fading(kids')
    BY UnlinkFades DEF DropRow
  <1>6. ClaimsNoMore(rows[a], rows'[a])
    BY <1>3, <1>4, Typed, AtRestClaims
  <1>7. Supervision(a)'
    BY <1>3, <1>4, <1>5, <1>6, FadingForEach, KeptSupervision, AtRestSupervision
    DEF Beside, Inv, TypeOK
  <1>8. UNCHANGED index \/ index' = [index EXCEPT ![a] = "none"]
    BY DEF DropRow, Beside, Inv, TypeOK
  <1> QED BY <1>1, <1>5, <1>7, <1>8, OnlyThisRow

LEMMA PurgeSupervised ==
    ASSUME Beside, NEW a \in Archives, PurgeExpired(a) \/ PurgeNow(a)
    PROVE  Supervised'
  <1>1. SameSide
    BY DEF PurgeExpired, PurgeNow, Visit, SameSide
  <1>2. \A cs : Fading(Kill(kids, cs))
    BY KidsFade, KillFades
  <1> QED BY <1>1, <1>2, KidsFade, DropRowSupervised DEF PurgeExpired, PurgeNow

-----------------------------------------------------------------------------
(* Start, stop and crash; control operations; the surroundings.            *)

LEMMA ExitSupervised ==
    ASSUME Beside, Exit,
           \/ UNCHANGED rows
           \/ \E a \in Archives : rows' = [rows EXCEPT ![a] = ToUnmounting(@)]
    PROVE  Supervised'
  <1>1. Fading(kids')
    BY KidsFade DEF Exit, Fading, KidFades
  <1>2. phase' = "down" /\ UNCHANGED index
    BY DEF Exit, Enter
  <1>3. ASSUME NEW b \in Archives PROVE Supervision(b)'
    <2>1. live'[b] = NoLive /\ FadingFor(b, kids')
      BY <1>1, FadingForEach DEF Exit
    <2>2. rows'[b] = rows[b] \/ rows'[b].status \notin PidStatuses
      BY Typed, ToUnmountingStatus DEF Beside, Inv, TypeOK, PidStatuses
    <2>3. CASE rows'[b] = rows[b]
      BY <1>2, <2>1, <2>3, Typed, DroppedSupervision
      DEF Supervision, IndexOnRecord
    <2> QED BY <2>1, <2>2, <2>3, AtRestSupervision
  <1> QED BY <1>3 DEF Supervised

LEMMA TickSupervised == ASSUME Beside, Tick PROVE Supervised'
  <1>1. ASSUME NEW a \in Archives, RowStep(a) PROVE Supervised'
    <2>1. StartHooks(a) \/ FinishHooks(a) => SameSide
      BY DEF StartHooks, FinishHooks, Visit, SameSide
    <2>2. StopRow(a) => SameSide /\ UNCHANGED index
      BY DEF StopRow, SameSide
    <2> QED
      BY <1>1, <2>1, <2>2, ScanAbsentSupervised, ReconcileSupervised,
         PurgeSupervised, ProgressSupervised, PendingWorkSupervised,
         HooksSupervised, UnmountSupervised
      DEF RowStep, StartHooks, StopRow
  <1>2. CASE StartScan
    BY <1>2, ForgivenSupervised DEF StartScan, Enter, SameSide
  <1>3. CASE NextPhase
    <2>1. SameSide
      <3>1. \A f \in DOMAIN Follows : f # "down" /\ "down" \notin Follows[f]
        BY DEF Follows
      <3> QED BY <1>3, <3>1 DEF NextPhase, Enter, SameSide
    <2> QED BY <1>3, <2>1, KidsFade, SameRowsSupervised DEF NextPhase
  <1>4. CASE Shutdown
    BY <1>4, ExitSupervised DEF Shutdown
  <1> QED
    BY <1>1, <1>2, <1>3, <1>4, BootSupervised, ObservePathSupervised DEF Tick

LEMMA CrashSupervised == ASSUME Beside, Crash PROVE Supervised'
  BY ExitSupervised DEF Crash

LEMMA OperatorSupervised == ASSUME Beside, Operator PROVE Supervised'
  <1>1. ASSUME NEW a \in Archives, OpRetry(a) PROVE Supervised'
    <2>1. ClaimsNoMore(rows[a], ResetMountAttempts(rows[a]))
      BY <1>1, Typed, ResetAttemptsClaim DEF OpRetry
    <2> QED
      BY <1>1, <2>1, KidsFade, OneRowSupervised DEF OpRetry, SameSide
  <1>2. ASSUME NEW a \in Archives, OpUnmount(a) PROVE Supervised'
    BY <1>2, UnmountSupervised DEF OpUnmount, SameSide
  <1>3. ASSUME NEW a \in Archives, OpPurge(a) PROVE Supervised'
    BY <1>3, PurgeSupervised DEF OpPurge
  <1>4. ASSUME NEW a \in Archives, OpHooksRun(a) PROVE Supervised'
    BY <1>4, HooksSupervised DEF OpHooksRun, Request, Enter, SameSide
  <1>5. ASSUME NEW p \in Paths, OpMount(p) PROVE Supervised'
    <2>1. file[p] \in Contents /\ SameSide /\ phase # "down"
      BY <1>5 DEF OpMount, Request, SameSide, Beside, Inv, TypeOK
    <2>2. ASSUME NEW a \in RowsAt(p), NEW ok \in BOOLEAN,
                 BeginMount(a, rows[a], ~rows[a].first, ok)
          PROVE  Supervised'
      <3>1. a \in Archives /\ (~rows[a].first) \in BOOLEAN
        BY DEF RowsAt
      <3>2. SoundRow(rows[a]) /\ ClaimsNoMore(rows[a], rows[a])
        BY <3>1, Typed, SameClaims
      <3> QED BY <2>1, <2>2, <3>1, <3>2, BeginMountSupervised
    <2>3. ASSUME NEW a \in NewIds(p), NEW ok \in BOOLEAN,
                 BeginMount(a, InsertDiscovered(rows[a], file[p]), TRUE, ok)
          PROVE  Supervised'
      <3>1. a \in Archives
        BY DEF NewIds
      <3>2. /\ SoundRow(InsertDiscovered(rows[a], file[p]))
            /\ ClaimsNoMore(rows[a], InsertDiscovered(rows[a], file[p]))
        BY <2>1, <3>1, Typed, InsertDiscoveredSound, InsertDiscoveredClaims
      <3> QED BY <2>1, <2>3, <3>1, <3>2, BeginMountSupervised
    <2> QED BY <1>5, <2>2, <2>3 DEF OpMount
  <1>6. CASE OpRescanStable
    BY <1>6, ForgivenSupervised DEF OpRescanStable, Request, Enter, SameSide
  <1>7. CASE OpStop
    BY <1>7, KidsFade, SameRowsSupervised DEF OpStop, Request, Enter, SameSide
  <1> QED
    BY <1>1, <1>2, <1>3, <1>4, <1>5, <1>6, <1>7 DEF Operator, ArchiveRequest

LEMMA SurroundingsSupervised ==
    ASSUME Beside, Surroundings PROVE Supervised'
  <1>1. ASSUME NEW c \in Children, KidIndexes(c) \/ KidServes(c) \/ KidDies(c)
        PROVE  Supervised'
    <2>1. kids[c] \in KidStates /\ kids[c] # Dead
      BY <1>1 DEF KidIndexes, KidServes, KidDies, Beside, Inv, TypeOK, Dead
    <2>2. KidFades(kids[c], kids'[c]) /\ \A d \in Children \ {c} : kids'[d] = kids[d]
      BY <1>1, <2>1
      DEF KidIndexes, KidServes, KidDies, KidFades, KidStates, MountJobs, Beside,
          Inv, TypeOK
    <2>3. Fading(kids')
      BY <2>2, KidsFade DEF Fading
    <2>4. \A b \in Archives : index'[b] = "none" => index[b] = "none"
      BY <1>1 DEF KidIndexes, KidServes, KidDies, Beside, Inv, TypeOK
    <2>5. SameSide /\ UNCHANGED <<rows, live>>
      BY <1>1 DEF KidIndexes, KidServes, KidDies, daemon, SameSide
    <2> QED BY <2>3, <2>4, <2>5, SameRowsSupervised
  <1>2. ASSUME NEW p \in Paths, FileChanges(p) PROVE Supervised'
    BY <1>2, KidsFade, SameRowsSupervised DEF FileChanges, daemon, SameSide
  <1>3. ASSUME NEW a \in Archives, TimePasses(a) PROVE Supervised'
    <2> DEFINE r == [rows[a] EXCEPT !.late = TRUE]
    <2>1. ClaimsNoMore(rows[a], r)
      BY Typed DEF ClaimsNoMore, Rows
    <2>2. rows' = [rows EXCEPT ![a] = r] /\ SameSide
          /\ UNCHANGED <<live, kids, index>>
      BY <1>3 DEF TimePasses, daemon, SameSide
    <2> HIDE DEF r
    <2> QED BY <2>1, <2>2, KidsFade, OneRowSupervised
  <1> QED BY <1>1, <1>2, <1>3 DEF Surroundings

-----------------------------------------------------------------------------
(* The theorems.                                                           *)

LEMMA InitSupervised == ASSUME Init PROVE Supervised
  <1>1. ASSUME NEW a \in Archives PROVE Supervision(a)
    <2>1. /\ live[a] = NoLive /\ rows[a].status = "unborn"
          /\ \A c \in Children : kids[c] = Dead
      BY <1>1 DEF Init, NewRow
    <2>2. Mounters(a) = {}
      BY <2>1 DEF Mounters, KidsOf, Dead, MountJobs
    <2> QED
      BY <2>1, <2>2
      DEF Supervision, Registered, MountPathClear, IndexOnRecord, MountedStatuses,
          Init, Alive, NoLive
  <1> QED BY <1>1 DEF Supervised

LEMMA StepSupervised == ASSUME Beside, [Next]_vars PROVE Supervised'
  <1>1. CASE UNCHANGED vars
    BY <1>1, KidsFade, SameRowsSupervised DEF vars, SameSide
  <1> QED
    BY <1>1, TickSupervised, OperatorSupervised, CrashSupervised,
       SurroundingsSupervised
    DEF Next

LEMMA SupervisedAlways == Spec => [](Inv /\ Supervised)
  <1>1. Init => Supervised
    BY InitSupervised
  <1>2. Inv /\ Inv' /\ Supervised /\ [Next]_vars => Supervised'
    BY StepSupervised DEF Beside
  <1> QED BY <1>1, <1>2, Invariance, PTL DEF Spec

\* An indexing row waits for one child at most, and holds a slot for it.
LEMMA AwaitedHolds ==
    ASSUME Inv, Supervised
    PROVE  /\ IsFiniteSet(AwaitedBuilds)
           /\ Cardinality(AwaitedBuilds) <= Cardinality(Holders)
  <1> DEFINE f == [c \in AwaitedBuilds |-> kids[c].of]
  <1>1. ASSUME NEW c \in AwaitedBuilds
        PROVE  /\ c \in Children /\ kids[c] # Dead
               /\ kids[c].of \in Holders
               /\ c \in {rows[kids[c].of].pid, live[kids[c].of].pid}
    <2>1. c \in Children /\ kids[c].job # "dead"
      BY DEF AwaitedBuilds
    <2>2. PICK a \in With("indexing") :
             c \in KidsOf(a) /\ c \in {rows[a].pid, live[a].pid}
      BY DEF AwaitedBuilds
    <2>3. kids[c].of = a /\ kids[c] # Dead
      BY <2>1, <2>2 DEF KidsOf, Dead
    <2>4. HoldsSlot(a)
      BY <2>1, <2>2, <2>3, RowAssumption DEF HoldsSlot, Alive, NoLive
    <2> QED BY <2>1, <2>2, <2>3, <2>4 DEF Holders
  <1>2. ASSUME NEW c \in AwaitedBuilds, NEW d \in AwaitedBuilds,
               kids[c].of = kids[d].of
        PROVE  c = d
    <2> DEFINE a == kids[c].of
    <2>1. a \in Archives
      BY <1>1 DEF Holders, With
    <2>2. Registered(a)
      BY <2>1 DEF Supervised, Supervision
    <2>3. Alive(c) /\ Alive(d)
      BY <1>1, RowAssumption DEF Alive
    <2> QED BY <1>1, <1>2, <2>2, <2>3, RowAssumption DEF Registered, NoLive
  <1>3. f \in Injection(AwaitedBuilds, Holders)
    BY <1>1, <1>2 DEF Injection, IsInjective
  <1> QED BY <1>3, HoldersFinite, FS_Injection

\* The children whose index a row waits for never exceed max_concurrent_index:
\* not when the tick, a retry and an operator's mount start them in any order,
\* nor across failed spawns, restarts and pids that are given again.
THEOREM IndexSlotsHold == Spec => []IndexSlotsBounded
  <1>1. ASSUME Inv, Supervised, RowSlotsBounded PROVE IndexSlotsBounded
    <2>1. IsFiniteSet(AwaitedBuilds) /\ Cardinality(AwaitedBuilds) \in Nat
      BY <1>1, AwaitedHolds, FS_CardinalityType
    <2> QED
      BY <1>1, <2>1, AwaitedHolds, HoldersFinite, StateAssumption
      DEF IndexSlotsBounded, RowSlotsBounded
  <1>2. Inv /\ Supervised /\ RowSlotsBounded => IndexSlotsBounded
    BY <1>1
  <1> QED BY <1>2, RowSlotsAlways, SupervisedAlways, PTL

\* No two children of an archive ever mount or serve it at once, however
\* retries, operator mounts, purges, crashes and restarts fall together.
THEOREM OneMounterHolds == Spec => []OneMounter
  <1>1. ASSUME Supervised PROVE OneMounter
    <2>1. ASSUME NEW a \in Archives PROVE Cardinality(Mounters(a)) <= 1
      <3>1. \A c, d \in Mounters(a) : c = d
        BY <1>1, <2>1 DEF Supervised, Supervision, MountPathClear
      <3>2. CASE Mounters(a) = {}
        BY <3>2, FS_EmptySet
      <3>3. CASE Mounters(a) # {}
        <4>1. PICK c \in Mounters(a) : TRUE
          BY <3>3
        <4>2. Mounters(a) = {c}
          BY <3>1, <4>1
        <4> QED BY <4>2, FS_Singleton
      <3> QED BY <3>2, <3>3
    <2> QED BY <2>1 DEF OneMounter, Mounters, MountJobs
  <1>2. Supervised => OneMounter
    BY <1>1
  <1> QED BY <1>2, SupervisedAlways, PTL

\* What a row says is so: the live child it names is the one the registry
\* supervises, and is a child of this archive; a mounted row has its index.
THEOREM RowsMatchSystemHolds == Spec => []RowsMatchSystem
  <1>1. ASSUME Inv, Supervised PROVE RowsMatchSystem
    <2>1. SupervisedPid
      BY <1>1 DEF Supervised, Supervision, Registered, SupervisedPid
    <2>2. MountedKeepsIndex
      BY <1>1 DEF Supervised, Supervision, IndexOnRecord, MountedKeepsIndex, MountedStatuses
    <2> QED BY <2>1, <2>2 DEF RowsMatchSystem
  <1>2. Inv /\ Supervised => RowsMatchSystem
    BY <1>1
  <1> QED BY <1>2, SupervisedAlways, PTL

-----------------------------------------------------------------------------
(* Action properties.                                                      *)

\* Only Boot brings the daemon up.
LEMMA UpByBoot ==
    ASSUME Next, phase = "down", phase' # "down" PROVE Boot
  <1>1. ~Operator
    BY DEF Operator, ArchiveRequest, OpRetry, OpUnmount, OpPurge, OpHooksRun, OpMount,
           OpRescanStable, OpStop, Request
  <1>2. ~Crash
    BY DEF Crash
  <1>3. ~Surroundings
    BY DEF Surroundings, KidIndexes, KidServes, KidDies, FileChanges, TimePasses,
           daemon
  <1>4. ~(StartScan \/ NextPhase \/ Shutdown \/ \E p \in Paths : ObservePath(p))
    <2>1. "down" \notin DOMAIN Follows
      BY DEF Follows
    <2> QED BY <2>1 DEF StartScan, NextPhase, Shutdown, ObservePath
  <1>5. ASSUME NEW a \in Archives PROVE ~RowStep(a)
    BY DEF RowStep, ScanAbsent, Reconcile, PurgeExpired, Progress, RetryStuck,
           StartFresh, RetryFailed, StartHooks, FinishHooks, StopRow, Visit
  <1> QED BY <1>1, <1>2, <1>3, <1>4, <1>5 DEF Next, Tick

\* Boot kills every child that is alive: it has cleared the pid of each row
\* first, so that whatever lives is an orphan.
LEMMA BootKillsAll == ASSUME Inv, Boot PROVE \A c \in Children : kids'[c] = Dead
  <1>1. ASSUME NEW a \in Archives PROVE BootedRows[a].pid = NoChild
    <2> DEFINE c == [rows[a] EXCEPT !.indexed = @ /\ ~Cleanable(a)]
    <2>1. SoundRow(c)
      BY DEF Inv, SoundRows, SoundRow, Rows, PidOK, FirstOK
    <2>2. BootedRows[a] = BootRow(c, FileExists(a))
      BY DEF BootedRows
    <2>3. FileExists(a) \in BOOLEAN
      BY DEF FileExists
    <2> HIDE DEF c
    <2> QED BY <2>1, <2>2, <2>3, BootRowAtRest
  <1>2. \A c \in Children : kids[c] # Dead => c \in Orphans(BootedRows)
    BY <1>1, RowAssumption DEF Orphans
  <1>3. kids' = Kill(kids, Orphans(BootedRows))
    BY DEF Boot
  <1> QED BY <1>2, <1>3 DEF Kill

\* No ratarmount process of an earlier run is alive once Start has ended,
\* whatever a crash left in the rows.
THEOREM BootLeavesNoOrphanHolds == Spec => BootLeavesNoOrphan
  <1>1. ASSUME Inv, [Next]_vars, phase = "down", phase' = "control"
        PROVE  \A c \in Children : kids'[c] = Dead
    <2>1. Next
      BY <1>1 DEF vars
    <2> QED BY <1>1, <2>1, UpByBoot, BootKillsAll
  <1>2. Inv /\ [Next]_vars =>
          [phase = "down" /\ phase' = "control" =>
             \A c \in Children : kids'[c] = Dead]_vars
    BY <1>1
  <1> QED BY <1>2, Invariance, PTL DEF Spec, BootLeavesNoOrphan

\* A step of one row leaves the others, and their index files.
LEMMA StartProcessTouches ==
    ASSUME Inv, NEW b \in Archives, NEW r, NEW ks, NEW lv, NEW indexing, NEW ok,
           NEW twice, StartProcess(b, r, ks, lv, indexing, ok, twice),
           NEW a \in Archives \ {b}
    PROVE  rows'[a] = rows[a]
  BY DEF StartProcess, Inv, TypeOK

LEMMA RowStepTouches ==
    ASSUME Inv, NEW b \in Archives, RowStep(b), NEW a \in Archives \ {b}
    PROVE  rows'[a] = rows[a] /\ index'[a] = index[a]
  <1> USE DEF Inv, TypeOK
  <1>1. CASE Progress(b)
    BY <1>1, StartProcessTouches
    DEF Progress, CompleteIndex, MarkFailed, MarkMounted
  <1>2. ASSUME NEW r, NEW first, NEW ok, BeginMount(b, r, first, ok)
        PROVE  rows'[a] = rows[a] /\ index'[a] = index[a]
    BY <1>2, StartProcessTouches DEF BeginMount
  <1>3. CASE RetryStuck(b) \/ StartFresh(b) \/ RetryFailed(b)
    BY <1>2, <1>3 DEF RetryStuck, StartFresh, RetryFailed, StartWork
  <1>4. CASE Reconcile(b)
    BY <1>4 DEF Reconcile, ApplyFail, FailAs, ApplyMarkAbsent, ApplyCleanupIndex
  <1>5. CASE ScanAbsent(b) \/ PurgeExpired(b) \/ StopRow(b)
    BY <1>5 DEF ScanAbsent, PurgeExpired, DropRow, StopRow, Unmount
  <1>6. CASE StartHooks(b) \/ FinishHooks(b)
    BY <1>6 DEF StartHooks, EnterHooks, FinishHooks
  <1> QED BY <1>1, <1>3, <1>4, <1>5, <1>6 DEF RowStep

\* An index of a row whose first mount is on record, complete and not being
\* rebuilt: what MountFailureKeepsIndex protects in a step.
Kept(a) ==
    /\ rows[a].first /\ index[a] = "full" /\ rows[a].status # "indexing"
    /\ rows'[a].status # "purged"
    => index'[a] = "full"

LEMMA BeginMountKeepsIndex ==
    ASSUME Inv, NEW a \in Archives, NEW b \in Archives, NEW r, NEW first, NEW ok,
           BeginMount(b, r, first, ok), b = a => r.first \/ ~r.indexed
    PROVE  index'[a] = index[a]
  BY DEF BeginMount, PartialIndex, Inv, TypeOK

LEMMA RowStepKeepsIndex ==
    ASSUME Inv, NEW a \in Archives, RowStep(a) PROVE Kept(a)
  <1> SUFFICES ASSUME rows[a].first, index[a] = "full", rows[a].status # "indexing",
                      rows'[a].status # "purged"
               PROVE  index'[a] = "full"
    BY DEF Kept
  <1> USE DEF Inv, TypeOK
  <1>1. CASE Progress(a)
    BY <1>1 DEF Progress, CompleteIndex, MarkFailed, MarkMounted, Check
  <1>2. CASE RetryStuck(a) \/ StartFresh(a) \/ RetryFailed(a)
    BY <1>2, BeginMountKeepsIndex DEF RetryStuck, StartFresh, RetryFailed, StartWork
  <1>3. CASE Reconcile(a)
    <2>1. CASE ApplyFail(a)
      BY <2>1 DEF ApplyFail, FailAs
    <2>2. CASE ApplyMarkAbsent(a)
      BY <2>2 DEF ApplyMarkAbsent
    <2>3. ~Cleanable(a)
      BY DEF Cleanable, PartialIndex
    <2> QED BY <1>3, <2>1, <2>2, <2>3 DEF Reconcile
  <1>4. CASE ScanAbsent(a) \/ StopRow(a)
    BY <1>4 DEF ScanAbsent, StopRow
  <1>5. CASE PurgeExpired(a)
    <2>1. rows'[a].status = "purged"
      <3> DEFINE c == [rows[a] EXCEPT !.status = "purged", !.pid = NoChild,
                                      !.late = FALSE]
      <3>1. c.status = "purged"
        BY Zenon DEF Rows
      <3>2. rows'[a] = c
        BY <1>5 DEF PurgeExpired, DropRow
      <3> QED BY <3>1, <3>2
    <2> QED BY <2>1
  <1>6. CASE StartHooks(a) \/ FinishHooks(a)
    BY <1>6 DEF StartHooks, EnterHooks, FinishHooks
  <1> QED BY <1>1, <1>2, <1>3, <1>4, <1>5, <1>6 DEF RowStep

LEMMA PurgedRow ==
    ASSUME Inv, NEW a \in Archives, NEW ks, DropRow(a, ks)
    PROVE  rows'[a].status = "purged"
  <1> DEFINE c == [rows[a] EXCEPT !.status = "purged", !.pid = NoChild,
                                  !.late = FALSE]
  <1>1. c.status = "purged"
    BY Zenon DEF Rows, Inv, TypeOK
  <1>2. rows'[a] = c
    BY DEF DropRow, Inv, TypeOK
  <1> QED BY <1>1, <1>2

LEMMA OperatorKeepsIndex == ASSUME Inv, Operator, NEW a \in Archives PROVE Kept(a)
  <1> SUFFICES ASSUME rows[a].first, index[a] = "full", rows[a].status # "indexing",
                      rows'[a].status # "purged"
               PROVE  index'[a] = "full"
    BY DEF Kept
  <1>1. ASSUME NEW b \in Archives, OpRetry(b) \/ OpUnmount(b) \/ OpHooksRun(b)
        PROVE  index'[a] = index[a]
    BY <1>1 DEF OpRetry, OpUnmount, OpHooksRun, EnterHooks
  <1>2. ASSUME NEW b \in Archives, OpPurge(b) PROVE index'[a] = index[a]
    <2>1. b # a
      BY <1>2, PurgedRow DEF OpPurge, PurgeNow
    <2> QED BY <1>2, <2>1 DEF OpPurge, PurgeNow, DropRow, Inv, TypeOK
  <1>3. ASSUME NEW p \in Paths, OpMount(p) PROVE index'[a] = index[a]
    <2>1. ASSUME NEW b \in Archives PROVE ~InsertDiscovered(rows[b], file[p]).indexed
      <3>1. rows[b] \in Rows
        BY DEF Inv, TypeOK
      <3> QED BY <3>1, InsertDiscoveredFields
    <2>2. RowsAt(p) \subseteq Archives /\ NewIds(p) \subseteq Archives
      BY DEF RowsAt, NewIds
    <2> QED BY <1>3, <2>1, <2>2, BeginMountKeepsIndex DEF OpMount
  <1>4. CASE OpRescanStable \/ OpStop
    BY <1>4 DEF OpRescanStable, OpStop
  <1> QED BY <1>1, <1>2, <1>3, <1>4 DEF Operator, ArchiveRequest

LEMMA StepKeepsIndex == ASSUME Inv, Next, NEW a \in Archives PROVE Kept(a)
  <1>1. ASSUME NEW b \in Archives, RowStep(b) PROVE Kept(a)
    BY <1>1, RowStepKeepsIndex, RowStepTouches DEF Kept
  <1>2. CASE StartScan \/ NextPhase \/ Shutdown \/ Crash \/ \E p \in Paths : ObservePath(p)
    BY <1>2 DEF StartScan, NextPhase, Shutdown, Crash, Exit, ObservePath, Kept
  <1>3. CASE Boot
    BY <1>3 DEF Boot, Cleanable, PartialIndex, Kept
  <1>4. CASE Surroundings
    <2>1. ASSUME NEW c \in Children, KidIndexes(c) \/ KidServes(c) \/ KidDies(c)
          PROVE  Kept(a)
      BY <2>1 DEF KidIndexes, KidServes, KidDies, Kept, Inv, TypeOK
    <2> QED BY <1>4, <2>1 DEF Surroundings, FileChanges, TimePasses, daemon, Kept
  <1> QED BY <1>1, <1>2, <1>3, <1>4, OperatorKeepsIndex DEF Next, Tick

\* A complete index survives failed and dead mounts, unmounts, crashes and
\* restarts: after the first mount only a purge or a rebuild deletes it.
THEOREM MountFailureKeepsIndexHolds == Spec => MountFailureKeepsIndex
  <1>1. Inv /\ [Next]_vars =>
          [\A a \in Archives :
             /\ rows[a].first /\ rows'[a].first
             /\ index[a] = "full"
             /\ rows[a].status # "indexing"
             /\ rows'[a].status # "purged"
             => index'[a] = "full"]_vars
    BY StepKeepsIndex DEF Kept
  <1> QED BY <1>1, Invariance, PTL DEF Spec, MountFailureKeepsIndex

-----------------------------------------------------------------------------
(* A mount that works is left alone.                                       *)

Serves(a) ==
    /\ rows[a].status \in MountedStatuses
    /\ IsMount(a) /\ Alive(rows[a].pid)
    /\ file[PathOf[a]] = rows[a].print
    /\ phase = "absent" => gate[PathOf[a]].n # 0

\* In every phase, for the row itself: what the phase looks for is not there.
LEMMA RowStepLeavesMount ==
    ASSUME Inv, Supervised, NEW a \in Archives, RowStep(a), Serves(a),
           phase # "stopping", phase # "down"
    PROVE  rows'[a].status \in MountedStatuses
  <1> USE DEF Serves, MountedStatuses
  <1>1. rows[a] \in Rows /\ live[a] \in LiveEntries /\ Supervision(a)
    BY DEF Inv, TypeOK, Supervised
  <1>2. Alive(live[a].pid) /\ live[a].pid = rows[a].pid
    BY <1>1 DEF Supervision, Registered
  <1>3. CASE Progress(a)
    <2>1. Check(a) = "mounted"
      BY <1>2, <1>3 DEF Progress, Check, Exited
    <2>2. MarkMounted(a)
      BY <1>3, <2>1 DEF Progress
    <2> DEFINE c == [rows[a] EXCEPT !.pid = live[a].pid]
    <2>3. rows'[a] = Move(rows[a], {"indexing", "mounting", "mounted"}, "mounted", c)
      BY <2>2 DEF MarkMounted, Inv, TypeOK
    <2>4. c \in Rows
      BY <1>1, <1>2, RowAssumption DEF Rows, LiveEntries, NoLive, Alive
    <2> HIDE DEF c
    <2> QED BY <2>3, <2>4, MoveStatus
  <1>4. CASE StartHooks(a) \/ FinishHooks(a)
    <2>1. PICK h \in HooksStatuses, s \in MountedStatuses :
            rows' = [rows EXCEPT ![a] = To([@ EXCEPT !.hooks = h], s)]
      BY <1>4, StateAssumption
      DEF StartHooks, EnterHooks, FinishHooks, HooksStatuses
    <2> DEFINE c == [rows[a] EXCEPT !.hooks = h]
    <2>2. c \in Rows
      BY <1>1 DEF Rows
    <2>3. rows'[a] = To(c, s)
      BY <2>1 DEF Inv, TypeOK
    <2> HIDE DEF c
    <2> QED BY <2>2, <2>3, ToFields
  <1>5. ~(RetryStuck(a) \/ StartFresh(a) \/ PurgeExpired(a) \/ RetryFailed(a))
    BY DEF RetryStuck, StuckDue, StartFresh, FreshDue, PurgeExpired, AbsentPastGrace,
           RetryFailed, FailedDue
  <1>6. ~(ScanAbsent(a) \/ StopRow(a) \/ Reconcile(a))
    BY DEF ScanAbsent, AbsentDue, StopRow, Visit, Reconcile, InProgressFails,
           MountUnhealthy, Cleanable, PartialIndex
  <1> QED BY <1>3, <1>4, <1>5, <1>6 DEF RowStep

LEMMA ScanLeavesMount ==
    ASSUME Inv, NEW p \in Paths, ObservePath(p), NEW a \in Archives, Serves(a)
    PROVE  rows'[a].status \in MountedStatuses
  <1> USE DEF Serves, MountedStatuses
  <1>1. CASE UNCHANGED rows
    BY <1>1
  <1>2. ASSUME NEW b \in RowsAt(p),
               rows' = [rows EXCEPT ![b] = ObservedRow(@, file[p], ResetHooksOnChange)]
        PROVE  rows'[a].status \in MountedStatuses
    <2>1. CASE b = a
      <3>1. rows'[a] = To(rows[a], rows[a].status)
        BY <1>2, <2>1 DEF RowsAt, ObservedRow, TouchSeen, Inv, TypeOK
      <3> QED BY <3>1, ToFields DEF Inv, TypeOK
    <2>2. CASE b # a
      BY <1>2, <2>2 DEF Inv, TypeOK
    <2> QED BY <2>1, <2>2
  <1>3. ASSUME NEW b \in NewIds(p),
               rows' = [rows EXCEPT ![b] = InsertDiscovered(@, file[p])]
        PROVE  rows'[a].status \in MountedStatuses
    <2>1. b # a
      BY DEF NewIds
    <2> QED BY <1>3, <2>1 DEF Inv, TypeOK
  <1> QED BY <1>1, <1>2, <1>3 DEF ObservePath

LEMMA StepLeavesMount ==
    ASSUME Inv, Supervised, Next, NEW a \in Archives, Serves(a),
           phase \notin {"control", "stopping", "down"}, phase' # "down"
    PROVE  rows'[a].status \in MountedStatuses
  <1>1. ASSUME NEW b \in Archives, RowStep(b) PROVE rows'[a].status \in MountedStatuses
    BY <1>1, RowStepLeavesMount, RowStepTouches DEF Serves
  <1>2. CASE NextPhase \/ Surroundings
    <2>1. ASSUME NEW b \in Archives, TimePasses(b)
          PROVE  rows'[a].status \in MountedStatuses
      <3>1. b # a
        BY <2>1 DEF TimePasses, Serves, MountedStatuses
      <3> QED BY <2>1, <3>1 DEF TimePasses, Serves, Inv, TypeOK
    <2> QED
      BY <1>2, <2>1
      DEF NextPhase, Surroundings, KidIndexes, KidServes, KidDies, FileChanges, Serves
  <1>3. ~(StartScan \/ Shutdown \/ Boot \/ Crash \/ Operator)
    BY DEF StartScan, Shutdown, Boot, Crash, Exit, Enter, Operator, ArchiveRequest,
           OpRetry, OpUnmount, OpPurge, OpHooksRun, OpMount, OpRescanStable, OpStop,
           Request
  <1> QED BY <1>1, <1>2, <1>3, ScanLeavesMount DEF Next, Tick

\* No phase of a tick takes a row out of mounted while its child serves the
\* content on record, whatever else fails or changes around it.
THEOREM HealthyMountKeptHolds == Spec => HealthyMountKept
  <1>1. Inv /\ Supervised /\ [Next]_vars =>
          [\A a \in Archives :
             /\ phase \notin {"control", "stopping", "down"}
             /\ phase' # "down"
             /\ rows[a].status \in {"mounted", "hooks_running"}
             /\ IsMount(a) /\ Alive(rows[a].pid)
             /\ file[PathOf[a]] = rows[a].print
             /\ phase = "absent" => gate[PathOf[a]].n # 0
             => rows'[a].status \in {"mounted", "hooks_running"}]_vars
    BY StepLeavesMount DEF Serves, MountedStatuses
  <1> QED BY <1>1, SupervisedAlways, PTL DEF Spec, HealthyMountKept

=============================================================================
