------------------------ MODULE ArchivePurge_proofs ------------------------
(***************************************************************************)
(* The edits made in mounts survive a purge that fails or is cut short at  *)
(* any step, for any edits, policies, directories and limits of the        *)
(* quarantine, also where a mount outlives the purge of its archive.  An   *)
(* edit is where the step of the purge says it is: a copy is not relied on *)
(* before it has all that it began with, and a source goes only after      *)
(* that.  No row goes over an overlay that the purge could have handled.   *)
(***************************************************************************)
EXTENDS ArchivePurge, TLAPS

Purging == {"unmount", "overlay", "copy", "remove", "row"}

\* What a purge has found or done by the step it is at.
StepInv ==
    /\ work.at \in Purging => row.status # "none"
    /\ work.at \in {"copy", "remove"} => UnderRoot
    /\ work.at = "row" => ~Exists \/ conf.policy = "retain" \/ ~UnderRoot

\* Edits are in directories.
DirsInv == \A o \in Places : ~overlay[o].exists => overlay[o].edits = {}

\* What is safe without the copy that is being made, and what the copy began
\* with; then, what the copy has.
CopyInv ==
    /\ work.at = "copy" =>
         /\ \A e \in Edits :
              <<Place, e>> \in written \ overtaken =>
                \/ e \in Mine.edits
                \/ \E q \in quarantine :
                     q.of = Place /\ e \in q.edits /\ ~Copying(q)
                \/ <<Place, e>> \in pruned
         /\ \A e \in Mine.edits : e \in work.todo \/ <<Place, e>> \in overtaken
    /\ work.at = "remove" =>
         \E q \in quarantine :
            /\ q.of = Place
            /\ \A e \in Mine.edits : e \in q.edits \/ <<Place, e>> \in overtaken

PurgeIInv ==
    /\ TypeOK /\ EditsKept /\ NoOverlayLeftBehind
    /\ StepInv /\ DirsInv /\ CopyInv

-----------------------------------------------------------------------------

LEMMA AgesHaveZero == 0 \in Ages
BY PurgeAssumption DEF Ages, Old

LEMMA PurgeInit == Init => PurgeIInv
<1> SUFFICES ASSUME Init PROVE PurgeIInv
  OBVIOUS
<1> USE PurgeAssumption, AgesHaveZero DEF Init
<1>1. TypeOK
  <2>1. Resting \in Works /\ NoDir \in Dirs
    BY DEF Works, Resting, Dirs, NoDir
  <2>2. conf \in Configs
    BY DEF Configs
  <2>3. 1 \in Ids
    BY DEF Ids
  <2>4. row \in Rows
    BY <2>3 DEF Rows
  <2> QED
    BY <2>1, <2>2, <2>4 DEF TypeOK
<1>2. EditsKept /\ NoOverlayLeftBehind /\ StepInv /\ DirsInv /\ CopyInv
  BY DEF EditsKept, NoOverlayLeftBehind, StepInv, DirsInv, CopyInv, Purging,
         Resting, NoDir
<1> QED
  BY <1>1, <1>2 DEF PurgeIInv

-----------------------------------------------------------------------------
(* Steps that leave directories, edits and the quarantine alone.           *)

LEMMA Beside ==
    ASSUME PurgeIInv, UNCHANGED <<files, written, pruned, overtaken>>,
           TypeOK', NoOverlayLeftBehind', StepInv', CopyInv'
    PROVE  PurgeIInv'
BY DEF PurgeIInv, files, EditsKept, DirsInv

\* Where the row tells of the same overlay, only the step of the purge counts.
LEMMA BesideRow ==
    ASSUME PurgeIInv, UNCHANGED <<files, written, pruned, overtaken, left>>,
           row'.id = row.id, row'.dir = row.dir,
           row.status # "none" => row'.status # "none",
           TypeOK', StepInv', CopyInv'
    PROVE  PurgeIInv'
<1>1. NoOverlayLeftBehind'
  BY DEF PurgeIInv, files, NoOverlayLeftBehind, Place
<1> QED
  BY <1>1, Beside

LEMMA ReconfigureKeeps == ASSUME PurgeIInv, Reconfigure PROVE PurgeIInv'
<1> USE DEF PurgeIInv
<1>1. /\ UNCHANGED <<present, row, files, writers, work, past>>
      /\ work.at = "rest" /\ budget > 0 /\ budget' = budget - 1
  BY DEF Reconfigure, AtRest, Spend
<1>2. conf' \in Configs
  BY DEF Reconfigure, TypeOK, Configs
<1>3. TypeOK'
  BY <1>1, <1>2, PurgeAssumption DEF TypeOK, files, past
<1>4. StepInv' /\ CopyInv'
  BY <1>1 DEF StepInv, CopyInv, Purging
<1> QED
  BY <1>1, <1>3, <1>4, BesideRow DEF past

LEMMA FileChangesKeeps == ASSUME PurgeIInv, FileChanges PROVE PurgeIInv'
<1> USE DEF PurgeIInv
<1>1. /\ UNCHANGED <<conf, row, files, writers, work, past>>
      /\ present' = ~present /\ budget > 0 /\ budget' = budget - 1
  BY DEF FileChanges, Spend
<1>2. TypeOK'
  BY <1>1, PurgeAssumption DEF TypeOK, files, past
<1>3. StepInv' /\ CopyInv'
  BY <1>1 DEF StepInv, CopyInv, Exists, Mine, Place, UnderRoot, Copying, files,
              past
<1> QED
  BY <1>1, <1>2, <1>3, BesideRow DEF past

LEMMA MountEndsKeeps ==
    ASSUME PurgeIInv, NEW o \in Places, MountEnds(o)
    PROVE  PurgeIInv'
<1> USE DEF PurgeIInv
<1>1. /\ UNCHANGED <<conf, present, row, files, work, past, budget>>
      /\ writers' \subseteq writers
  BY DEF MountEnds
<1>2. TypeOK'
  BY <1>1 DEF TypeOK, files, past
<1>3. StepInv' /\ CopyInv'
  BY <1>1 DEF StepInv, CopyInv, Exists, Mine, Place, UnderRoot, Copying, files,
              past
<1> QED
  BY <1>1, <1>2, <1>3, BesideRow DEF past

LEMMA ScanKeeps ==
    ASSUME PurgeIInv, MarkAbsent \/ Recover \/ Discover
    PROVE  PurgeIInv'
<1> USE DEF PurgeIInv
<1>1. /\ UNCHANGED <<conf, present, files, writers, work, past, budget>>
      /\ work.at = "rest"
  BY DEF MarkAbsent, Recover, Discover, AtRest
<1>2. row' \in Rows
  <2>1. row \in Rows
    BY DEF TypeOK
  <2>2. CASE MarkAbsent \/ Recover
    BY <2>1, <2>2, AgesHaveZero DEF MarkAbsent, Recover, Rows
  <2>3. CASE Discover
    <3>1. CASE row' = [row EXCEPT !.status = "discovered", !.age = 0]
      BY <2>1, <3>1, AgesHaveZero DEF Rows
    <3>2. CASE /\ row.id < MaxId
               /\ row' = [status |-> "discovered", id |-> row.id + 1,
                          dir |-> "none", age |-> 0]
      <4>1. row.id + 1 \in Ids
        BY <2>1, <3>2, PurgeAssumption DEF Rows, Ids
      <4> QED
        BY <3>2, <4>1, AgesHaveZero DEF Rows
    <3> QED
      BY <2>3, <3>1, <3>2 DEF Discover
  <2> QED
    BY <2>2, <2>3
<1>3. TypeOK'
  BY <1>1, <1>2 DEF TypeOK, files, past
<1>4. StepInv' /\ CopyInv'
  BY <1>1 DEF StepInv, CopyInv, Purging
<1>5. CASE row.status # "none"
  <2>1. row \in Rows
    BY DEF TypeOK
  <2>2. /\ row'.id = row.id /\ row'.dir = row.dir
        /\ row'.status # "none"
    BY <1>5, <2>1 DEF MarkAbsent, Recover, Discover, Rows
  <2> QED
    BY <1>1, <1>3, <1>4, <2>2, BesideRow DEF past
<1>6. CASE row.status = "none"
  <2>1. NoOverlayLeftBehind'
    BY <1>1, <1>6 DEF NoOverlayLeftBehind, files, past
  <2> QED
    BY <1>1, <1>3, <1>4, <2>1, Beside DEF past
<1> QED
  BY <1>5, <1>6

LEMMA RunKeeps == ASSUME PurgeIInv, Run \/ AdminPurge PROVE PurgeIInv'
<1> USE DEF PurgeIInv
<1>1. UNCHANGED <<conf, present, row, files, writers, past>>
  BY DEF Run, AdminPurge
<1>2. budget' \in 0..Budget
  BY PurgeAssumption DEF TypeOK, Run, AdminPurge, Spend
<1>3. /\ work' \in Works
      /\ work'.at = "prune" \/ (work'.at = "unmount" /\ row.status # "none")
  <2>1. Resting \in Works
    BY PurgeAssumption DEF Resting, Works
  <2>2. \/ work' = [Resting EXCEPT !.at = "prune"]
        \/ /\ row.status # "none"
           /\ \/ work' = [Resting EXCEPT !.at = "unmount"]
              \/ work' = [Resting EXCEPT !.at = "unmount", !.admin = TRUE]
    BY DEF Run, AdminPurge
  <2> QED
    BY <2>1, <2>2 DEF Works
<1>4. TypeOK'
  BY <1>1, <1>2, <1>3 DEF TypeOK, files, past
<1>5. StepInv' /\ CopyInv'
  BY <1>1, <1>3 DEF StepInv, CopyInv, Purging
<1> QED
  BY <1>1, <1>4, <1>5, BesideRow DEF past

LEMMA CrashKeeps == ASSUME PurgeIInv, Crash PROVE PurgeIInv'
<1> USE DEF PurgeIInv
<1>1. /\ UNCHANGED <<conf, present, row, files, past>>
      /\ work' = Resting /\ writers' \subseteq writers
  BY DEF Crash
<1>2. budget' \in 0..Budget
  BY PurgeAssumption DEF TypeOK, Crash, Spend
<1>3. Resting \in Works /\ Resting.at = "rest"
  BY PurgeAssumption DEF Resting, Works
<1>4. TypeOK'
  BY <1>1, <1>2, <1>3 DEF TypeOK, files, past
<1>5. StepInv' /\ CopyInv'
  BY <1>1, <1>3 DEF StepInv, CopyInv, Purging
<1> QED
  BY <1>1, <1>4, <1>5, BesideRow DEF past

-----------------------------------------------------------------------------
(* The purge beside the overlay.                                           *)

LEMMA GoToTyped ==
    ASSUME TypeOK, NEW step \in {"overlay", "copy", "remove", "row", "rest",
                                 "prune"},
           GoTo(step)
    PROVE  /\ work' \in Works /\ work'.at = step
           /\ work'.n = work.n /\ work'.todo = work.todo
BY DEF GoTo, TypeOK, Works

LEMMA GiveUpTyped ==
    ASSUME TypeOK, GiveUp
    PROVE  /\ work' \in Works /\ work'.at \in {"rest", "prune"}
           /\ budget' \in 0..Budget
           /\ UNCHANGED <<conf, present, row, writers, written, overtaken, left>>
<1>1. GoTo(AfterPurge) /\ AfterPurge \in {"rest", "prune"}
  BY DEF GiveUp, AfterPurge
<1>2. budget' \in 0..Budget
  BY PurgeAssumption DEF TypeOK, GiveUp, Spend
<1> QED
  BY <1>1, <1>2, GoToTyped DEF GiveUp

LEMMA UnmountKeeps == ASSUME PurgeIInv, Unmount PROVE PurgeIInv'
<1> USE DEF PurgeIInv
<1>1. /\ UNCHANGED <<conf, present, files, past, budget>>
      /\ work.at = "unmount" /\ GoTo("overlay") /\ writers' \subseteq writers
  BY DEF Unmount
<1>2. row.status # "none" /\ row \in Rows
  BY <1>1 DEF StepInv, Purging, TypeOK
<1>3. /\ row' \in Rows /\ row'.id = row.id /\ row'.dir = row.dir
      /\ row'.status # "none"
  BY <1>2 DEF Unmount, Rows
<1>4. work' \in Works /\ work'.at = "overlay"
  BY <1>1, GoToTyped
<1>5. TypeOK'
  BY <1>1, <1>3, <1>4 DEF TypeOK, files, past
<1>6. StepInv' /\ CopyInv'
  BY <1>3, <1>4 DEF StepInv, CopyInv, Purging
<1> QED
  BY <1>1, <1>2, <1>3, <1>5, <1>6, BesideRow DEF past

LEMMA LeaveOverlayKeeps ==
    ASSUME PurgeIInv, KeepOverlay \/ RefuseOverlay
    PROVE  PurgeIInv'
<1> USE DEF PurgeIInv
<1>1. /\ UNCHANGED <<conf, present, row, files, writers, past, budget>>
      /\ work.at = "overlay" /\ GoTo("row")
      /\ ~Exists \/ conf.policy = "retain" \/ ~UnderRoot
  BY DEF KeepOverlay, RefuseOverlay
<1>2. work' \in Works /\ work'.at = "row"
  BY <1>1, GoToTyped
<1>3. TypeOK'
  BY <1>1, <1>2 DEF TypeOK, files, past
<1>4. StepInv' /\ CopyInv'
  BY <1>1, <1>2 DEF StepInv, CopyInv, Purging, Exists, Mine, Place, UnderRoot,
                    files
<1> QED
  BY <1>1, <1>3, <1>4, BesideRow DEF past

LEMMA CopyDoneKeeps == ASSUME PurgeIInv, CopyDone PROVE PurgeIInv'
<1> USE DEF PurgeIInv
<1>1. /\ UNCHANGED <<conf, present, row, files, writers, past, budget>>
      /\ work.at = "copy" /\ GoTo("remove")
  BY DEF CopyDone
<1>2. PICK q \in quarantine : Copying(q) /\ work.todo \subseteq q.edits
  BY DEF CopyDone
<1>3. work' \in Works /\ work'.at = "remove"
  BY <1>1, GoToTyped
<1>4. TypeOK'
  BY <1>1, <1>3 DEF TypeOK, files, past
<1>5. \A e \in Mine.edits : e \in q.edits \/ <<Place, e>> \in overtaken
  BY <1>1, <1>2 DEF CopyInv
<1>6. CopyInv'
  BY <1>1, <1>2, <1>3, <1>5 DEF CopyInv, Copying, Mine, Place, files, past
<1>7. StepInv'
  BY <1>1, <1>3 DEF StepInv, Purging, UnderRoot
<1> QED
  BY <1>1, <1>4, <1>6, <1>7, BesideRow DEF past

\* A row goes where nothing is left to handle.
LEMMA DeleteRowKeeps == ASSUME PurgeIInv, DeleteRow PROVE PurgeIInv'
<1> USE DEF PurgeIInv
<1>1. UNCHANGED <<files, pruned>> /\ work.at = "row"
  BY DEF DeleteRow
<1>2. CASE GiveUp
  <2>1. /\ work' \in Works /\ work'.at \in {"rest", "prune"}
        /\ budget' \in 0..Budget
        /\ UNCHANGED <<conf, present, row, writers, written, overtaken, left>>
    BY <1>2, GiveUpTyped
  <2>2. TypeOK'
    BY <1>1, <2>1 DEF TypeOK, files
  <2>3. StepInv' /\ CopyInv'
    BY <2>1 DEF StepInv, CopyInv, Purging
  <2> QED
    BY <1>1, <2>1, <2>2, <2>3, BesideRow
<1>3. CASE ~GiveUp
  <2>1. /\ row' = [row EXCEPT !.status = "none", !.age = 0] /\ GoTo(AfterPurge)
        /\ left' = IF Exists /\ (conf.policy = "retain" \/ ~UnderRoot)
                     THEN left \cup {Place} ELSE left
        /\ UNCHANGED <<conf, present, writers, written, overtaken, budget>>
    BY <1>3 DEF DeleteRow
  <2>2. row' \in Rows
    BY <2>1, AgesHaveZero DEF TypeOK, Rows
  <2>3. AfterPurge \in {"rest", "prune"}
    BY DEF AfterPurge
  <2>4. work' \in Works /\ work'.at \in {"rest", "prune"}
    BY <2>1, <2>3, GoToTyped
  <2>5. left' \subseteq Places
    BY <2>1 DEF TypeOK, Exists
  <2>6. TypeOK'
    BY <1>1, <2>1, <2>2, <2>4, <2>5 DEF TypeOK, files
  <2>7. StepInv' /\ CopyInv'
    BY <2>4 DEF StepInv, CopyInv, Purging
  <2>8. Exists => Place \in left'
    BY <1>1, <2>1 DEF StepInv
  <2>9. NoOverlayLeftBehind'
    BY <1>1, <2>1, <2>8 DEF NoOverlayLeftBehind, files, Exists, Mine
  <2> QED
    BY <1>1, <2>1, <2>6, <2>7, <2>9, Beside
<1> QED
  BY <1>2, <1>3

-----------------------------------------------------------------------------
(* Around the cleaner.                                                     *)

LEMMA OlderIsAge ==
    ASSUME NEW age \in Ages
    PROVE  Older(age) \in Ages
BY PurgeAssumption DEF Ages, Old, Older

\* Time moves ages only.
LEMMA TimePassesKeeps == ASSUME PurgeIInv, TimePasses PROVE PurgeIInv'
<1> USE DEF PurgeIInv
<1>1. UNCHANGED <<conf, present, writers, work, past, budget>>
  BY DEF TimePasses
<1>2. row' \in Rows /\ row'.id = row.id /\ row'.dir = row.dir
      /\ row'.status = row.status
  BY OlderIsAge DEF TimePasses, TypeOK, Rows
<1>3. /\ overlay' \in [Places -> Dirs]
      /\ \A o \in Places : /\ overlay'[o].exists = overlay[o].exists
                           /\ overlay'[o].edits = overlay[o].edits
  BY OlderIsAge DEF TimePasses, TypeOK, Dirs
<1> DEFINE Aged(q) == [q EXCEPT !.age = Older(@), !.put = Older(@)]
<1>4. quarantine' = {Aged(q) : q \in quarantine}
  BY DEF TimePasses
<1>5. ASSUME NEW q \in quarantine
      PROVE  /\ Aged(q) \in Entries
             /\ Aged(q).of = q.of /\ Aged(q).n = q.n /\ Aged(q).edits = q.edits
  <2>1. q \in Entries
    BY DEF TypeOK
  <2>2. Older(q.age) \in Ages /\ Older(q.put) \in Ages
    BY <2>1, OlderIsAge DEF Entries
  <2> QED
    BY <2>1, <2>2 DEF Entries
<1> HIDE DEF Aged
<1>6. \A q \in quarantine : \E r \in quarantine' :
        r.of = q.of /\ r.n = q.n /\ r.edits = q.edits
  BY <1>4, <1>5
<1>7. TypeOK'
  BY <1>1, <1>2, <1>3, <1>4, <1>5 DEF TypeOK, past
<1>8. EditsKept'
  <2> SUFFICES ASSUME NEW w \in written \ overtaken
               PROVE  \/ w[2] \in overlay'[w[1]].edits
                      \/ \E q \in quarantine' : q.of = w[1] /\ w[2] \in q.edits
                      \/ w \in pruned
    BY <1>1 DEF EditsKept, past
  <2>1. w[1] \in Places
    BY DEF TypeOK
  <2>2. CASE w[2] \in overlay[w[1]].edits
    BY <2>1, <2>2, <1>3
  <2>3. CASE \E q \in quarantine : q.of = w[1] /\ w[2] \in q.edits
    <3>1. PICK q \in quarantine : q.of = w[1] /\ w[2] \in q.edits
      BY <2>3
    <3>2. PICK r \in quarantine' : r.of = q.of /\ r.n = q.n /\ r.edits = q.edits
      BY <1>6
    <3> QED
      BY <3>1, <3>2
  <2> QED
    BY <2>2, <2>3 DEF EditsKept
<1>9. Place' = Place
  BY <1>2 DEF Place
<1>10. NoOverlayLeftBehind' /\ DirsInv'
  BY <1>1, <1>2, <1>3, <1>9 DEF NoOverlayLeftBehind, DirsInv, past
<1>11. Exists' <=> Exists
  BY <1>3, <1>9 DEF Exists, Mine
<1>12. StepInv'
  BY <1>1, <1>2, <1>11 DEF StepInv, UnderRoot
<1>13. CopyInv'
  <2>1. ASSUME work.at \in {"copy", "remove"}
        PROVE  Mine'.edits = Mine.edits
    <3>1. Place \in Places
      BY <2>1 DEF StepInv, UnderRoot, Place, Places, TypeOK, Configs, Rows
    <3> QED
      BY <3>1, <1>3, <1>9 DEF Mine
  <2>2. ASSUME work.at = "copy", NEW e \in Edits,
               <<Place, e>> \in written \ overtaken
        PROVE  \/ e \in Mine.edits
               \/ \E r \in quarantine' :
                    r.of = Place /\ e \in r.edits /\ r.n # work.n
               \/ <<Place, e>> \in pruned
    <3>1. CASE \E q \in quarantine : q.of = Place /\ e \in q.edits /\ ~Copying(q)
      <4>1. PICK q \in quarantine : q.of = Place /\ e \in q.edits /\ ~Copying(q)
        BY <3>1
      <4>2. PICK r \in quarantine' : r.of = q.of /\ r.n = q.n /\ r.edits = q.edits
        BY <1>6
      <4> QED
        BY <4>1, <4>2 DEF Copying
    <3> QED
      BY <2>2, <3>1 DEF CopyInv
  <2>3. ASSUME work.at = "remove"
        PROVE  \E r \in quarantine' :
                  /\ r.of = Place
                  /\ \A e \in Mine.edits :
                        e \in r.edits \/ <<Place, e>> \in overtaken
    <3>1. PICK q \in quarantine :
            /\ q.of = Place
            /\ \A e \in Mine.edits : e \in q.edits \/ <<Place, e>> \in overtaken
      BY <2>3 DEF CopyInv
    <3>2. PICK r \in quarantine' : r.of = q.of /\ r.n = q.n /\ r.edits = q.edits
      BY <1>6
    <3> QED
      BY <3>1, <3>2
  <2>4. work' = work /\ written' = written /\ overtaken' = overtaken
        /\ pruned' = pruned
    BY <1>1 DEF past
  <2>5. work.at = "copy" =>
          \A e \in Mine.edits : e \in work.todo \/ <<Place, e>> \in overtaken
    BY DEF CopyInv
  <2>6. CASE work.at = "copy"
    BY <2>1, <2>2, <2>4, <2>5, <2>6, <1>9 DEF CopyInv, Copying
  <2>7. CASE work.at = "remove"
    BY <2>1, <2>3, <2>4, <2>7, <1>9 DEF CopyInv
  <2>8. CASE work.at \notin {"copy", "remove"}
    BY <2>4, <2>8 DEF CopyInv
  <2> QED
    BY <2>6, <2>7, <2>8
<1> QED
  BY <1>7, <1>8, <1>10, <1>12, <1>13

\* A mount tells the row of another overlay, or none; the one before is left.
LEMMA MountKeeps == ASSUME PurgeIInv, Mount PROVE PurgeIInv'
<1> USE DEF PurgeIInv
<1> DEFINE to == IF conf.write THEN conf.dir ELSE "none"
           o == <<to, row.id>>
<1>1. /\ work.at = "rest" /\ row.status = "discovered"
      /\ row' = [row EXCEPT !.status = "mounted", !.dir = to]
      /\ overlay' = IF o \notin Places \/ overlay[o].exists THEN overlay
                    ELSE [overlay EXCEPT ![o] =
                            [exists |-> TRUE, edits |-> {}, age |-> 0]]
      /\ writers' = writers \cup ({o} \cap Places)
      /\ left' = (left \cup ({Place} \cap Places)) \ {o}
      /\ UNCHANGED <<conf, present, quarantine, work, written, pruned,
                     overtaken, budget>>
  BY DEF Mount, AtRest
<1>2. row \in Rows /\ conf \in Configs /\ overlay \in [Places -> Dirs]
  BY DEF TypeOK
<1>3. to \in Roots \cup {"none"}
  BY <1>2 DEF Configs
<1> HIDE DEF to
<1>4. row' \in Rows /\ row'.id = row.id /\ row'.dir = to
      /\ row'.status = "mounted"
  BY <1>1, <1>2, <1>3 DEF Rows
<1>5. Place' = o
  BY <1>4 DEF Place
<1>6. [exists |-> TRUE, edits |-> {}, age |-> 0] \in Dirs
  BY AgesHaveZero DEF Dirs
<1>7. overlay' \in [Places -> Dirs]
  BY <1>1, <1>2, <1>6
<1>8. \A p \in Places \ {o} : overlay'[p] = overlay[p]
  BY <1>1, <1>2
<1>9. o \in Places =>
         /\ overlay'[o].exists
         /\ overlay'[o].edits = overlay[o].edits
  <2> HIDE DEF o
  <2>1. CASE o \in Places /\ ~overlay[o].exists
    <3>1. overlay'[o] = [exists |-> TRUE, edits |-> {}, age |-> 0]
      BY <2>1, <1>1, <1>2
    <3> QED
      BY <2>1, <3>1 DEF DirsInv
  <2>2. CASE o \notin Places \/ overlay[o].exists
    BY <2>2, <1>1
  <2> QED
    BY <2>1, <2>2
<1> HIDE DEF o
<1>10. TypeOK'
  BY <1>1, <1>4, <1>7 DEF TypeOK
<1>11. \A p \in Places : overlay'[p].edits = overlay[p].edits
  BY <1>8, <1>9
<1>12. EditsKept'
  BY <1>1, <1>11 DEF EditsKept, TypeOK
<1>13. NoOverlayLeftBehind'
  BY <1>1, <1>4, <1>5, <1>8 DEF NoOverlayLeftBehind
<1>14. DirsInv'
  BY <1>8, <1>9 DEF DirsInv
<1>15. StepInv' /\ CopyInv'
  BY <1>1 DEF StepInv, CopyInv, Purging
<1> QED
  BY <1>10, <1>12, <1>13, <1>14, <1>15

\* An edit is in its overlay, and overtaken if that is being copied away.
LEMMA EditKeeps ==
    ASSUME PurgeIInv, NEW o \in Places, NEW e \in Edits, Edit(o, e)
    PROVE  PurgeIInv'
<1> USE DEF PurgeIInv
<1>1. PICK age \in {0, overlay[o].age} :
        overlay' = [overlay EXCEPT ![o] =
                      [overlay[o] EXCEPT !.edits = overlay[o].edits \cup {e},
                                         !.age = age]]
  BY DEF Edit, TypeOK
<1>2. /\ written' = written \cup {<<o, e>>} /\ <<o, e>> \notin written
      /\ overtaken' = IF o = Place /\ work.at \in {"copy", "remove"}
                        THEN overtaken \cup {<<o, e>>} ELSE overtaken
      /\ UNCHANGED <<conf, present, row, quarantine, writers, work, pruned, left,
                     budget>>
  BY DEF Edit
<1>3. overlay[o] \in Dirs /\ age \in Ages /\ overlay \in [Places -> Dirs]
  BY <1>1, AgesHaveZero DEF TypeOK, Dirs
<1>4. [overlay[o] EXCEPT !.edits = overlay[o].edits \cup {e}, !.age = age]
        \in Dirs
  BY <1>3 DEF Dirs
<1>5. /\ overlay' \in [Places -> Dirs]
      /\ \A p \in Places \ {o} : overlay'[p] = overlay[p]
      /\ overlay'[o].exists = overlay[o].exists
      /\ overlay'[o].edits = overlay[o].edits \cup {e}
  BY <1>1, <1>3, <1>4 DEF Dirs
<1>6. TypeOK'
  BY <1>2, <1>5 DEF TypeOK
<1>7. EditsKept'
  <2> SUFFICES ASSUME NEW w \in written' \ overtaken'
               PROVE  \/ w[2] \in overlay'[w[1]].edits
                      \/ \E q \in quarantine : q.of = w[1] /\ w[2] \in q.edits
                      \/ w \in pruned
    BY <1>2 DEF EditsKept
  <2>1. CASE w = <<o, e>>
    BY <2>1, <1>5
  <2>2. CASE w \in written
    <3>1. w \in written \ overtaken /\ w[1] \in Places
      BY <2>2, <1>2 DEF TypeOK
    <3> QED
      BY <3>1, <1>5 DEF EditsKept
  <2> QED
    BY <2>1, <2>2, <1>2
<1>8. \A p \in Places : overlay'[p].exists = overlay[p].exists
  BY <1>5
<1>9. NoOverlayLeftBehind' /\ StepInv'
  BY <1>2, <1>8 DEF NoOverlayLeftBehind, StepInv, Exists, Mine, Place, UnderRoot
<1>10. DirsInv'
  BY <1>5 DEF DirsInv, Edit
<1>11. CopyInv'
  <2>1. Place' = Place
    BY <1>2 DEF Place
  <2>2. ASSUME work.at \in {"copy", "remove"}
        PROVE  Place \in Places
    BY <2>2 DEF StepInv, UnderRoot, Place, Places, TypeOK, Configs, Rows
  <2>3. CASE o # Place \/ work.at \notin {"copy", "remove"}
    <3>1. overtaken' = overtaken
      BY <2>3, <1>2
    <3>2. CASE work.at \in {"copy", "remove"}
      <4>1. o # Place /\ Mine' = Mine
        BY <2>1, <2>2, <2>3, <3>2, <1>5 DEF Mine
      <4>2. \A d \in Edits : <<Place, d>> \in written' => <<Place, d>> \in written
        BY <4>1, <1>2
      <4> QED
        BY <2>1, <3>1, <4>1, <4>2, <1>2 DEF CopyInv, Copying
    <3> QED
      BY <3>2, <1>2 DEF CopyInv
  <2>4. CASE o = Place /\ work.at \in {"copy", "remove"}
    <3>1. overtaken' = overtaken \cup {<<Place, e>>}
      BY <2>4, <1>2
    <3>2. Mine'.edits = Mine.edits \cup {e}
      BY <2>1, <2>4, <1>5 DEF Mine
    <3>3. \A d \in Edits : <<Place, d>> \in written' \ overtaken' =>
                              <<Place, d>> \in written \ overtaken
      BY <2>4, <3>1, <1>2
    <3>4. CASE work.at = "copy"
      BY <2>1, <3>1, <3>2, <3>3, <3>4, <1>2 DEF CopyInv, Copying
    <3>5. CASE work.at = "remove"
      BY <2>1, <3>1, <3>2, <3>5, <1>2 DEF CopyInv
    <3> QED
      BY <2>4, <3>4, <3>5
  <2> QED
    BY <2>3, <2>4
<1> QED
  BY <1>6, <1>7, <1>9, <1>10, <1>11

-----------------------------------------------------------------------------
(* The purge of the overlay.                                               *)

LEMMA NoDirTyped == NoDir \in Dirs /\ ~NoDir.exists /\ NoDir.edits = {}
BY AgesHaveZero DEF NoDir, Dirs

LEMMA UnderRootIsPlace ==
    ASSUME TypeOK, UnderRoot
    PROVE  Place \in Places
BY DEF TypeOK, UnderRoot, Place, Places, Configs, Rows

\* What the removal of the overlay leaves to be shown: that its edits are
\* elsewhere.
LEMMA RemoveAllKeeps ==
    ASSUME PurgeIInv, RemoveAll, UnderRoot, quarantine' = quarantine,
           row.status # "none",
           pruned' \subseteq Places \X Edits, pruned \subseteq pruned',
           \A e \in Mine.edits :
              \/ \E q \in quarantine : q.of = Place /\ e \in q.edits
              \/ <<Place, e>> \in pruned' \cup overtaken
    PROVE  PurgeIInv'
<1> USE DEF PurgeIInv
<1>1. Place \in Places /\ Mine \in Dirs /\ overlay \in [Places -> Dirs]
  BY UnderRootIsPlace DEF TypeOK, Mine
<1>2. /\ UNCHANGED <<conf, present, row, writers, written, overtaken, left>>
      /\ work' \in Works /\ work'.at \in {"row", "rest", "prune"}
      /\ budget' \in 0..Budget
      /\ work'.at = "row" => overlay' = [overlay EXCEPT ![Place] = NoDir]
      /\ \/ overlay' = [overlay EXCEPT ![Place] = NoDir]
         \/ \E rest \in SUBSET Mine.edits :
               overlay' = [overlay EXCEPT ![Place] =
                             [Mine EXCEPT !.edits = rest, !.age = 0]]
  <2>1. CASE GiveUp /\ \E rest \in SUBSET Mine.edits :
               overlay' = [overlay EXCEPT ![Place] =
                             [Mine EXCEPT !.edits = rest, !.age = 0]]
    BY <2>1, GiveUpTyped
  <2>2. CASE /\ overlay' = [overlay EXCEPT ![Place] = NoDir]
             /\ GoTo("row")
             /\ UNCHANGED <<conf, present, row, writers, written, overtaken,
                            left, budget>>
    <3>1. work' \in Works /\ work'.at = "row"
      BY <2>2, GoToTyped
    <3> QED
      BY <2>2, <3>1 DEF TypeOK
  <2> QED
    BY <2>1, <2>2 DEF RemoveAll
<1>3. PICK d \in Dirs :
        /\ overlay' = [overlay EXCEPT ![Place] = d]
        /\ d.edits \subseteq Mine.edits
        /\ ~d.exists => d.edits = {}
        /\ d.exists => Mine.exists
        /\ work'.at = "row" => ~d.exists
  <2>1. CASE overlay' = [overlay EXCEPT ![Place] = NoDir]
    BY <2>1, NoDirTyped
  <2>2. CASE overlay' # [overlay EXCEPT ![Place] = NoDir]
    <3>1. PICK rest \in SUBSET Mine.edits :
            overlay' = [overlay EXCEPT ![Place] =
                          [Mine EXCEPT !.edits = rest, !.age = 0]]
      BY <1>2, <2>2
    <3> DEFINE d == [Mine EXCEPT !.edits = rest, !.age = 0]
    <3>2. d \in Dirs /\ d.edits = rest /\ d.exists = Mine.exists
      BY <1>1, AgesHaveZero DEF Dirs
    <3>3. ~Mine.exists => Mine.edits = {}
      BY <1>1 DEF DirsInv, Mine
    <3>4. work'.at # "row"
      BY <1>2, <2>2
    <3> HIDE DEF d
    <3>5. overlay' = [overlay EXCEPT ![Place] = d]
      BY <3>1 DEF d
    <3>6. d.edits \subseteq Mine.edits /\ (~d.exists => d.edits = {})
          /\ (d.exists => Mine.exists)
      BY <3>1, <3>2, <3>3
    <3> QED
      BY <3>2, <3>4, <3>5, <3>6
  <2> QED
    BY <2>1, <2>2
<1>4. /\ overlay' \in [Places -> Dirs] /\ overlay'[Place] = d
      /\ \A o \in Places \ {Place} : overlay'[o] = overlay[o]
  BY <1>1, <1>3
<1>5. Place' = Place /\ Mine' = d
  BY <1>2, <1>4 DEF Place, Mine
<1>6. TypeOK'
  BY <1>2, <1>4 DEF TypeOK
<1>7. EditsKept'
  <2> SUFFICES ASSUME NEW w \in written \ overtaken
               PROVE  \/ w[2] \in overlay'[w[1]].edits
                      \/ \E q \in quarantine : q.of = w[1] /\ w[2] \in q.edits
                      \/ w \in pruned'
    BY <1>2 DEF EditsKept
  <2>1. w = <<w[1], w[2]>> /\ w[1] \in Places
    BY DEF TypeOK
  <2>2. CASE w[1] = Place /\ w[2] \in Mine.edits
    BY <2>1, <2>2
  <2>3. CASE ~(w[1] = Place /\ w[2] \in Mine.edits)
    BY <2>1, <2>3, <1>4 DEF EditsKept, Mine
  <2> QED
    BY <2>2, <2>3
<1>8. NoOverlayLeftBehind'
  BY <1>2, <1>3, <1>4, <1>5 DEF NoOverlayLeftBehind, Mine
<1>9. DirsInv'
  BY <1>3, <1>4 DEF DirsInv
<1>10. StepInv' /\ CopyInv'
  BY <1>2, <1>3, <1>5 DEF StepInv, CopyInv, Purging, Exists
<1> QED
  BY <1>6, <1>7, <1>8, <1>9, <1>10

LEMMA DeleteOverlayKeeps == ASSUME PurgeIInv, DeleteOverlay PROVE PurgeIInv'
<1>1. /\ work.at = "overlay" /\ UnderRoot /\ quarantine' = quarantine
      /\ pruned' = pruned \cup Of(Place, Mine.edits) /\ RemoveAll
  BY DEF DeleteOverlay
<1>2. row.status # "none"
  BY <1>1 DEF PurgeIInv, StepInv, Purging
<1>3. Place \in Places /\ Mine.edits \subseteq Edits
  BY <1>1, UnderRootIsPlace DEF PurgeIInv, TypeOK, Mine, Dirs
<1>4. pruned' \subseteq Places \X Edits
  BY <1>1, <1>3 DEF PurgeIInv, TypeOK, Of
<1>5. \A e \in Mine.edits : <<Place, e>> \in pruned'
  BY <1>1 DEF Of
<1> QED
  BY <1>1, <1>2, <1>4, <1>5, RemoveAllKeeps

LEMMA RemoveSourceKeeps == ASSUME PurgeIInv, RemoveSource PROVE PurgeIInv'
<1>1. /\ work.at = "remove" /\ UNCHANGED <<quarantine, pruned>> /\ RemoveAll
  BY DEF RemoveSource
<1>2. row.status # "none" /\ UnderRoot
  BY <1>1 DEF PurgeIInv, StepInv, Purging
<1>3. PICK q \in quarantine :
        /\ q.of = Place
        /\ \A e \in Mine.edits : e \in q.edits \/ <<Place, e>> \in overtaken
  BY <1>1 DEF PurgeIInv, CopyInv
<1>4. pruned' \subseteq Places \X Edits /\ pruned \subseteq pruned'
  BY <1>1 DEF PurgeIInv, TypeOK
<1>5. \A e \in Mine.edits :
         \/ \E r \in quarantine : r.of = Place /\ e \in r.edits
         \/ <<Place, e>> \in pruned' \cup overtaken
  BY <1>3
<1> QED
  BY <1>1, <1>2, <1>4, <1>5, RemoveAllKeeps

\* An entry under a free name.
LEMMA NewEntry ==
    ASSUME TypeOK, ToQuarantine, NEW edits \in SUBSET Edits, NEW age \in Ages
    PROVE  /\ Entry(edits, age) \in Entries
           /\ Entry(edits, age).of = Place /\ Entry(edits, age).edits = edits
           /\ \A q \in quarantine : q.of = Place => q.n # FreeName
           /\ FreeName \in 0..MaxName /\ Place \in Places
<1>1. FreeName \in 0..MaxName /\ Free(FreeName)
  BY DEF ToQuarantine, FreeName
<1>2. Place \in Places
  BY UnderRootIsPlace DEF ToQuarantine
<1> QED
  BY <1>1, <1>2, AgesHaveZero DEF Entry, Entries, Free

LEMMA RenameOverlayKeeps == ASSUME PurgeIInv, RenameOverlay PROVE PurgeIInv'
<1> USE DEF PurgeIInv
<1> DEFINE q == Entry(Mine.edits, Mine.age)
<1>1. /\ work.at = "overlay" /\ GoTo("row") /\ ToQuarantine
      /\ UNCHANGED <<conf, present, row, writers, past, budget>>
      /\ quarantine' = quarantine \cup {q}
      /\ overlay' = [overlay EXCEPT ![Place] = NoDir]
  BY DEF RenameOverlay, ToQuarantine
<1>2. Place \in Places /\ overlay \in [Places -> Dirs]
  BY <1>1, UnderRootIsPlace DEF ToQuarantine, TypeOK
<1>3. Mine.edits \in SUBSET Edits /\ Mine.age \in Ages
  BY <1>2 DEF Mine, Dirs
<1>4. q \in Entries /\ q.of = Place /\ q.edits = Mine.edits
  BY <1>1, <1>3, NewEntry
<1> HIDE DEF q
<1>5. work' \in Works /\ work'.at = "row"
  BY <1>1, GoToTyped
<1>6. /\ overlay' \in [Places -> Dirs] /\ overlay'[Place] = NoDir
      /\ \A o \in Places \ {Place} : overlay'[o] = overlay[o]
  BY <1>1, <1>2, NoDirTyped
<1>7. TypeOK'
  BY <1>1, <1>4, <1>5, <1>6 DEF TypeOK, past
<1>8. DirsInv'
  BY <1>6, NoDirTyped DEF DirsInv
<1>9. Place' = Place /\ Mine' = NoDir
  BY <1>1, <1>6 DEF Place, Mine
<1>10. NoOverlayLeftBehind'
  BY <1>1, <1>6, <1>9, NoDirTyped DEF NoOverlayLeftBehind, past
<1>11. row.status # "none"
  BY <1>1 DEF StepInv, Purging
<1>12. StepInv' /\ CopyInv'
  BY <1>1, <1>5, <1>9, <1>11, NoDirTyped DEF StepInv, CopyInv, Purging, Exists
<1>13. EditsKept'
  <2> SUFFICES ASSUME NEW w \in written \ overtaken
               PROVE  \/ w[2] \in overlay'[w[1]].edits
                      \/ \E r \in quarantine' : r.of = w[1] /\ w[2] \in r.edits
                      \/ w \in pruned
    BY <1>1 DEF EditsKept, past
  <2>1. w[1] \in Places
    BY DEF TypeOK
  <2>2. CASE w[1] = Place /\ w[2] \in Mine.edits
    BY <2>2, <1>1, <1>4
  <2>3. CASE ~(w[1] = Place /\ w[2] \in Mine.edits)
    BY <2>1, <2>3, <1>1, <1>6 DEF EditsKept, Mine
  <2> QED
    BY <2>2, <2>3
<1> QED
  BY <1>7, <1>8, <1>10, <1>12, <1>13

LEMMA StartCopyKeeps == ASSUME PurgeIInv, StartCopy PROVE PurgeIInv'
<1> USE DEF PurgeIInv
<1> DEFINE q == Entry({}, 0)
<1>1. /\ work.at = "overlay" /\ ToQuarantine /\ UnderRoot
      /\ work' = [work EXCEPT !.at = "copy", !.n = FreeName, !.todo = Mine.edits]
      /\ UNCHANGED <<conf, present, row, overlay, writers, past, budget>>
      /\ quarantine' = quarantine \cup {q}
  BY DEF StartCopy, ToQuarantine
<1>2. Place \in Places /\ Mine.edits \in SUBSET Edits
  BY <1>1, UnderRootIsPlace DEF TypeOK, Mine, Dirs
<1>3. /\ q \in Entries
      /\ \A r \in quarantine : r.of = Place => r.n # FreeName
      /\ FreeName \in 0..MaxName
  BY <1>1, AgesHaveZero, NewEntry
<1> HIDE DEF q
<1>4. /\ work' \in Works /\ work'.at = "copy" /\ work'.n = FreeName
      /\ work'.todo = Mine.edits
  BY <1>1, <1>2, <1>3 DEF TypeOK, Works
<1>5. TypeOK'
  BY <1>1, <1>3, <1>4 DEF TypeOK, past
<1>6. EditsKept'
  BY <1>1 DEF EditsKept, past
<1>7. Place' = Place /\ Mine' = Mine
  BY <1>1 DEF Place, Mine
<1>8. CopyInv'
  <2>1. ASSUME NEW e \in Edits, <<Place, e>> \in written \ overtaken
        PROVE  \/ e \in Mine.edits
               \/ \E r \in quarantine :
                     r.of = Place /\ e \in r.edits /\ r.n # FreeName
               \/ <<Place, e>> \in pruned
    BY <2>1, <1>3 DEF EditsKept, Mine
  <2>2. \A r \in quarantine : r \in quarantine'
    BY <1>1
  <2> QED
    BY <2>1, <2>2, <1>1, <1>4, <1>7 DEF CopyInv, Copying, past
<1>9. NoOverlayLeftBehind' /\ DirsInv'
  BY <1>1, <1>7 DEF NoOverlayLeftBehind, DirsInv, past
<1>10. StepInv'
  BY <1>1, <1>4 DEF StepInv, Purging, UnderRoot
<1> QED
  BY <1>5, <1>6, <1>8, <1>9, <1>10

LEMMA CopyEditKeeps ==
    ASSUME PurgeIInv, NEW e \in Edits, CopyEdit(e)
    PROVE  PurgeIInv'
<1> USE DEF PurgeIInv
<1>1. work.at = "copy"
      /\ UNCHANGED <<conf, present, row, overlay, writers, work, past, budget>>
  BY DEF CopyEdit
<1>2. PICK q \in quarantine :
        /\ Copying(q)
        /\ quarantine' = (quarantine \ {q}) \cup {[q EXCEPT !.edits = @ \cup {e}]}
  BY DEF CopyEdit
<1> DEFINE r == [q EXCEPT !.edits = @ \cup {e}]
<1>3. r \in Entries /\ r.of = q.of /\ r.n = q.n /\ r.edits = q.edits \cup {e}
  BY DEF TypeOK, Entries
<1>4. quarantine' = (quarantine \ {q}) \cup {r}
  BY <1>2
<1> HIDE DEF r
<1>5. TypeOK'
  BY <1>1, <1>3, <1>4 DEF TypeOK, past
<1>6. EditsKept'
  BY <1>1, <1>3, <1>4 DEF EditsKept, past
<1>7. Place' = Place /\ Mine' = Mine
  BY <1>1 DEF Place, Mine
<1>8. CopyInv'
  BY <1>1, <1>2, <1>4, <1>7 DEF CopyInv, Copying, past
<1>9. NoOverlayLeftBehind' /\ DirsInv' /\ StepInv'
  BY <1>1, <1>7 DEF NoOverlayLeftBehind, DirsInv, StepInv, UnderRoot, Exists,
                    Purging, past
<1> QED
  BY <1>5, <1>6, <1>8, <1>9

LEMMA CopyFailsKeeps == ASSUME PurgeIInv, CopyFails PROVE PurgeIInv'
<1> USE DEF PurgeIInv
<1>1. /\ work.at = "copy" /\ GiveUp /\ UNCHANGED <<overlay, pruned>>
      /\ quarantine' = {q \in quarantine : ~Copying(q)}
  BY DEF CopyFails
<1>2. /\ work' \in Works /\ work'.at \in {"rest", "prune"}
      /\ budget' \in 0..Budget
      /\ UNCHANGED <<conf, present, row, writers, written, overtaken, left>>
  BY <1>1, GiveUpTyped
<1>3. TypeOK'
  BY <1>1, <1>2 DEF TypeOK
<1>4. EditsKept'
  <2> SUFFICES ASSUME NEW w \in written \ overtaken
               PROVE  \/ w[2] \in overlay[w[1]].edits
                      \/ \E q \in quarantine' : q.of = w[1] /\ w[2] \in q.edits
                      \/ w \in pruned
    BY <1>1, <1>2 DEF EditsKept
  <2>1. CASE w[1] = Place
    <3>1. w[2] \in Edits /\ w = <<Place, w[2]>>
      BY <2>1 DEF TypeOK
    <3> QED
      BY <3>1, <2>1, <1>1 DEF CopyInv, Mine
  <2>2. CASE w[1] # Place
    BY <2>2, <1>1 DEF EditsKept, Copying
  <2> QED
    BY <2>1, <2>2
<1>5. NoOverlayLeftBehind' /\ DirsInv'
  BY <1>1, <1>2 DEF NoOverlayLeftBehind, DirsInv, Place
<1>6. StepInv' /\ CopyInv'
  BY <1>2 DEF StepInv, CopyInv, Purging
<1> QED
  BY <1>3, <1>4, <1>5, <1>6

LEMMA PruneKeeps == ASSUME PurgeIInv, PruneQuarantine PROVE PurgeIInv'
<1> USE DEF PurgeIInv
<1>1. /\ work.at = "prune" /\ work' = Resting
      /\ UNCHANGED <<conf, present, row, overlay, writers, written, overtaken,
                     left, budget>>
  BY DEF PruneQuarantine
<1>2. PICK kept \in UnderCap :
        /\ quarantine' = (quarantine \ Here) \cup kept
        /\ pruned' = pruned \cup UNION {Of(q.of, q.edits) : q \in Here \ kept}
  BY DEF PruneQuarantine
<1>3. kept \subseteq Here /\ Here \subseteq quarantine
  BY DEF UnderCap, Young, Here
<1>4. \A q \in quarantine : Of(q.of, q.edits) \subseteq Places \X Edits
  BY DEF TypeOK, Entries, Of
<1>5. Resting \in Works /\ Resting.at = "rest"
  BY PurgeAssumption DEF Resting, Works
<1>6. pruned' \subseteq Places \X Edits /\ quarantine' \subseteq quarantine
  BY <1>2, <1>3, <1>4 DEF TypeOK
<1>7. TypeOK'
  BY <1>1, <1>5, <1>6 DEF TypeOK
<1>8. EditsKept'
  <2> SUFFICES ASSUME NEW w \in written \ overtaken
               PROVE  \/ w[2] \in overlay[w[1]].edits
                      \/ \E q \in quarantine' : q.of = w[1] /\ w[2] \in q.edits
                      \/ w \in pruned'
    BY <1>1 DEF EditsKept
  <2>1. CASE \E q \in Here \ kept : q.of = w[1] /\ w[2] \in q.edits
    <3>1. w = <<w[1], w[2]>>
      BY DEF TypeOK
    <3> QED
      BY <2>1, <3>1, <1>2 DEF Of
  <2>2. CASE ~\E q \in Here \ kept : q.of = w[1] /\ w[2] \in q.edits
    BY <2>2, <1>2 DEF EditsKept
  <2> QED
    BY <2>1, <2>2
<1>9. NoOverlayLeftBehind' /\ DirsInv'
  BY <1>1 DEF NoOverlayLeftBehind, DirsInv, Place
<1>10. StepInv' /\ CopyInv'
  BY <1>1, <1>5 DEF StepInv, CopyInv, Purging
<1> QED
  BY <1>7, <1>8, <1>9, <1>10

-----------------------------------------------------------------------------

LEMMA PurgeNext == ASSUME PurgeIInv, [Next]_vars PROVE PurgeIInv'
<1>1. CASE UNCHANGED vars
  BY <1>1 DEF vars, files, past, PurgeIInv, TypeOK, EditsKept,
              NoOverlayLeftBehind, StepInv, DirsInv, CopyInv, Mine, Place,
              Exists, UnderRoot, Copying
<1>2. CASE TimePasses \/ Reconfigure \/ Mount \/ FileChanges
  BY <1>2, TimePassesKeeps, ReconfigureKeeps, MountKeeps, FileChangesKeeps
<1>3. CASE \E o \in Places : MountEnds(o) \/ \E e \in Edits : Edit(o, e)
  BY <1>3, MountEndsKeeps, EditKeeps
<1>4. CASE MarkAbsent \/ Discover \/ Recover
  BY <1>4, ScanKeeps
<1>5. CASE Run \/ AdminPurge \/ Crash
  BY <1>5, RunKeeps, CrashKeeps
<1>6. CASE Purge
  BY <1>6, UnmountKeeps, LeaveOverlayKeeps, DeleteOverlayKeeps,
     RenameOverlayKeeps, StartCopyKeeps, CopyEditKeeps, CopyDoneKeeps,
     CopyFailsKeeps, RemoveSourceKeeps, DeleteRowKeeps, PruneKeeps DEF Purge
<1> QED
  BY <1>1, <1>2, <1>3, <1>4, <1>5, <1>6 DEF Next

\* Every edit is in its overlay, in the quarantine, or given up by policy, but
\* for what an outliving mount writes while its overlay is copied away; and an
\* overlay that no row tells of was parted from its row by a setting, after any
\* step of a purge, whatever fails and whenever the daemon dies (PurgeArchive,
\* HandleOverlay, PruneQuarantine).
THEOREM OverlayInvHolds == Spec => []OverlayInv
<1>1. PurgeIInv => OverlayInv
  BY DEF PurgeIInv, OverlayInv
<1> QED
  BY PurgeInit, PurgeNext, <1>1, PTL DEF Spec
=============================================================================
