-------------------------- MODULE MountNames_proofs --------------------------
(***************************************************************************)
(* Two archives never share a mount path, however many archives there are  *)
(* and however many names are tried.  A row's path changes in two places:  *)
(* a start gives it a name that no other row has, a purge takes it away.   *)
(***************************************************************************)
EXTENDS MountNames, TLAPS

RowsOK == rows \in [Ids -> Rows]

\* Every path stays, or goes.
PathsKeptOrGone ==
    \A i \in Ids : rows'[i].path = rows[i].path \/ rows'[i].path = NoName

\* One row gets a path that no other row has.
PathChosen ==
    \E i \in Ids : \A j \in Ids \ {i} : /\ rows'[j].path = rows[j].path
                                        /\ rows'[i].path # rows[j].path

LEMMA StatusKeepsPaths ==
    ASSUME RowsOK, NEW i \in Ids, NEW st, Status(i, st)
    PROVE  PathsKeptOrGone
BY DEF Status, PathsKeptOrGone, RowsOK

LEMMA StatusKeepsRows ==
    ASSUME RowsOK, NEW i \in Ids,
           NEW st \in AtWork \cup {"waiting", "unmounting", "absent"},
           Status(i, st)
    PROVE  RowsOK'
BY DEF Status, RowsOK, Rows

LEMMA CandidateIsName ==
    ASSUME NEW i \in Ids, NEW k \in 0..MaxTry
    PROVE  Candidate(i, k) \in Names /\ Candidate(i, k) # NoName
<1>1. Candidate(i, k) \in Names
  BY DEF Names
<1>2. Candidate(i, k) # NoName
  BY DEF Candidate, NoName
<1> QED
  BY <1>1, <1>2

\* A name chosen for i is not that of another row.
LEMMA ChosenIsFree ==
    ASSUME PathsDistinct, NEW i \in Ids, NEW k \in 0..MaxTry, MountName(i, k)
    PROVE  \A j \in Ids \ {i} : Candidate(i, k) # rows[j].path
<1> SUFFICES ASSUME NEW j \in Ids \ {i}, Candidate(i, k) = rows[j].path
             PROVE  FALSE
  OBVIOUS
<1>1. rows[j].path # NoName
  BY CandidateIsName
<1>2. rows[j].path \in TakenMountNames
  BY <1>1 DEF TakenMountNames
<1>3. rows[j].path # rows[i].path
  BY <1>1 DEF PathsDistinct
<1> QED
  BY <1>2, <1>3 DEF MountName, FirstFree

LEMMA BeginProcessChooses ==
    ASSUME RowsOK, PathsDistinct, NEW i \in Ids, NEW k \in 0..MaxTry,
           NEW phase, NEW ok, BeginProcess(i, k, phase, ok)
    PROVE  RowsOK' /\ PathChosen
<1>1. PICK st \in {"waiting", "mounting", "indexing"} :
        rows' = [rows EXCEPT ![i] = [status |-> st, path |-> Candidate(i, k)]]
  BY DEF BeginProcess
<1>2. RowsOK'
  BY <1>1, CandidateIsName DEF RowsOK, Rows, AtWork
<1>3. \A j \in Ids \ {i} : Candidate(i, k) # rows[j].path
  BY ChosenIsFree DEF BeginProcess
<1>4. /\ rows'[i].path = Candidate(i, k)
      /\ \A j \in Ids \ {i} : rows'[j] = rows[j]
  BY <1>1 DEF RowsOK
<1> QED
  BY <1>2, <1>3, <1>4 DEF PathChosen

\* Any other step writes statuses at most, and a purge the empty row.
LEMMA OtherStepsKeep ==
    ASSUME RowsOK, [Next]_vars,
           \A i \in Ids, k \in 0..MaxTry, ok \in BOOLEAN :
             ~BeginMount(i, k, ok) /\ ~CompleteIndex(i, k, ok)
    PROVE  RowsOK' /\ PathsKeptOrGone
<1> DEFINE Goal == RowsOK' /\ PathsKeptOrGone
<1>1. ASSUME UNCHANGED rows PROVE Goal
  BY <1>1 DEF RowsOK, PathsKeptOrGone
<1>2. ASSUME NEW i \in Ids,
             \E st \in AtWork \cup {"waiting", "unmounting", "absent"} :
               Status(i, st)
      PROVE  Goal
  BY <1>2, StatusKeepsPaths, StatusKeepsRows
<1>3. ASSUME NEW i \in Ids,
             \/ Discover(i) \/ ContentChange(i) \/ MarkAbsent(i) \/ Reappear(i)
             \/ MarkMounted(i) \/ ApplyFail(i)
      PROVE  Goal
  BY <1>2, <1>3 DEF Discover, ContentChange, MarkAbsent, Reappear, MarkMounted,
                    ApplyFail, AtWork
<1>4. ASSUME NEW i \in Ids, IndexEnds(i) \/ MarkFailed(i) PROVE Goal
  BY <1>1, <1>2, <1>4 DEF IndexEnds, MarkFailed
<1>5. ASSUME NEW i \in Ids, OpUnmount(i) PROVE Goal
  <2>1. Status(i, IF rows[i].status = "absent" THEN "absent" ELSE "unmounting")
    BY <1>5 DEF OpUnmount
  <2>2. Status(i, "absent") \/ Status(i, "unmounting")
    BY <2>1
  <2> QED
    BY <1>2, <2>2
<1>6. ASSUME NEW i \in Ids, Purge(i) PROVE Goal
  BY <1>1, <1>6 DEF Purge
<1>7. ASSUME NEW kid \in kids, KidServes(kid) \/ KidDies(kid) PROVE Goal
  BY <1>1, <1>7 DEF KidServes, KidDies
<1>8. ASSUME NEW n \in Names, FindUnused(n) \/ MakeDir(n) PROVE Goal
  BY <1>1, <1>8 DEF FindUnused, MakeDir
<1>9. ASSUME Remove PROVE Goal
  BY <1>9 DEF Remove, RowsOK, Rows, PathsKeptOrGone
<1>10. ASSUME Restart PROVE Goal
  BY <1>10 DEF Restart, RowsOK, Rows, PathsKeptOrGone
<1>11. ASSUME UNCHANGED vars PROVE Goal
  BY <1>1, <1>11 DEF vars
<1> QED
  BY <1>3, <1>4, <1>5, <1>6, <1>7, <1>8, <1>9, <1>10, <1>11 DEF Next

LEMMA DistinctAfterKept ==
    ASSUME RowsOK, PathsDistinct, PathsKeptOrGone
    PROVE  PathsDistinct'
BY DEF PathsDistinct, PathsKeptOrGone

LEMMA DistinctAfterChosen ==
    ASSUME RowsOK, PathsDistinct, PathChosen
    PROVE  PathsDistinct'
BY DEF PathsDistinct, PathChosen

\* No two rows ever have the same mount path (TakenMountNames and
\* mountNameForRec, at every start, under every order of scans, failures,
\* purges, removals of directories and restarts).
THEOREM MountPathsDistinct == Spec => []PathsDistinct
<1>1. Init => RowsOK /\ PathsDistinct
  BY DEF Init, RowsOK, Rows, PathsDistinct
<1>2. RowsOK /\ PathsDistinct /\ [Next]_vars => RowsOK' /\ PathsDistinct'
  <2> SUFFICES ASSUME RowsOK, PathsDistinct, [Next]_vars
               PROVE  RowsOK' /\ PathsDistinct'
    OBVIOUS
  <2>1. CASE \E i \in Ids, k \in 0..MaxTry, ok \in BOOLEAN :
               BeginMount(i, k, ok) \/ CompleteIndex(i, k, ok)
    <3>1. PICK i \in Ids, k \in 0..MaxTry, ok \in BOOLEAN :
            \E phase \in {"index", "mount"} : BeginProcess(i, k, phase, ok)
      BY <2>1 DEF BeginMount, CompleteIndex
    <3>2. RowsOK' /\ PathChosen
      BY <3>1, BeginProcessChooses
    <3> QED
      BY <3>2, DistinctAfterChosen
  <2>2. CASE \A i \in Ids, k \in 0..MaxTry, ok \in BOOLEAN :
               ~BeginMount(i, k, ok) /\ ~CompleteIndex(i, k, ok)
    BY <2>2, OtherStepsKeep, DistinctAfterKept
  <2> QED
    BY <2>1, <2>2
<1> QED
  BY <1>1, <1>2, PTL DEF Spec

-----------------------------------------------------------------------------
(* What a mounted archive's path shows.  The invariant also covers rows    *)
(* that are still mounting, and needs distinct paths: a start clears the   *)
(* path of its own row only.                                               *)

Mounts == {"mounting", "mounted"}

OnlyOwnKids ==
    \A i \in Ids : rows[i].status \in Mounts
        => \A kid \in kids : kid.at = rows[i].path => kid.of = i

\* No row starts to mount, and no child comes.
NoNewMounts ==
    \A i \in Ids : rows'[i].status \in Mounts
        => rows[i].status \in Mounts /\ rows'[i].path = rows[i].path
NoNewKids ==
    \A kid \in kids' : \E old \in kids : kid.at = old.at /\ kid.of = old.of

LEMMA OwnKidsKept ==
    ASSUME OnlyOwnKids, NoNewMounts, NoNewKids
    PROVE  OnlyOwnKids'
BY DEF OnlyOwnKids, NoNewMounts, NoNewKids

LEMMA StatusStartsNoMount ==
    ASSUME RowsOK, NEW i \in Ids, NEW st, Status(i, st),
           st \in Mounts => rows[i].status \in Mounts
    PROVE  NoNewMounts
BY DEF Status, NoNewMounts, RowsOK

\* A child that is forgotten is still whose and where it was.
LEMMA ForgetKeeps ==
    ASSUME NEW i, NEW ks, NEW kid \in Forget(i, ks)
    PROVE  \E old \in ks : kid.at = old.at /\ kid.of = old.of
<1>1. PICK old \in ks : kid = IF old.of = i /\ old.job = "starting"
                            THEN [old EXCEPT !.job = "forgotten"] ELSE old
  BY DEF Forget
<1>2. /\ [old EXCEPT !.job = "forgotten"].at = old.at
      /\ [old EXCEPT !.job = "forgotten"].of = old.of
  OBVIOUS
<1> QED
  BY <1>1, <1>2

\* The children after a start: those that were not at its path, and its own.
LEMMA BeginProcessKids ==
    ASSUME NEW i \in Ids, NEW k \in 0..MaxTry, NEW ok \in BOOLEAN,
           NEW phase \in {"index", "mount"}, BeginProcess(i, k, phase, ok)
    PROVE  \A kid \in kids' :
             \/ \E old \in kids : /\ kid.at = old.at /\ kid.of = old.of
                                  /\ phase = "mount" => old.at # Candidate(i, k)
             \/ kid.at = Candidate(i, k) /\ kid.of = i
<1> DEFINE left == IF phase = "mount" THEN ClearHolders(i, Candidate(i, k)) ELSE kids
<1> SUFFICES ASSUME NEW kid \in kids',
                    ~(kid.at = Candidate(i, k) /\ kid.of = i)
             PROVE  \E old \in left : kid.at = old.at /\ kid.of = old.of
  BY DEF ClearHolders
<1>1. CASE ok
  <2>1. kid \in Forget(i, left)
    BY <1>1 DEF BeginProcess
  <2> HIDE DEF left
  <2> QED
    BY <2>1, ForgetKeeps
<1>2. CASE ~ok
  BY <1>2 DEF BeginProcess
<1> QED
  BY <1>1, <1>2

LEMMA BeginProcessClears ==
    ASSUME RowsOK, PathsDistinct, OnlyOwnKids, NEW i \in Ids,
           NEW k \in 0..MaxTry, NEW ok \in BOOLEAN,
           NEW phase \in {"index", "mount"}, BeginProcess(i, k, phase, ok)
    PROVE  OnlyOwnKids'
<1> DEFINE n == Candidate(i, k)
<1>1. \A j \in Ids \ {i} : n # rows[j].path
  BY ChosenIsFree DEF BeginProcess
<1>2. \A kid \in kids' :
        \/ \E old \in kids : /\ kid.at = old.at /\ kid.of = old.of
                             /\ phase = "mount" => old.at # n
        \/ kid.at = n /\ kid.of = i
  BY BeginProcessKids
<1>3. \A j \in Ids \ {i} : rows'[j] = rows[j]
  BY DEF BeginProcess, RowsOK
<1>4. /\ rows'[i].path = n
      /\ rows'[i].status \in Mounts => phase = "mount"
  BY DEF BeginProcess, RowsOK, Mounts
<1>5. phase = "mount" => \A kid \in kids' : kid.at = n => kid.of = i
  <2> SUFFICES ASSUME phase = "mount", NEW kid \in kids', kid.at = n PROVE kid.of = i
    OBVIOUS
  <2> QED
    BY <1>2
<1> SUFFICES ASSUME NEW j \in Ids, rows'[j].status \in Mounts,
                    NEW kid \in kids', kid.at = rows'[j].path
             PROVE  kid.of = j
  BY DEF OnlyOwnKids
<1>6. CASE j = i
  BY <1>4, <1>5, <1>6
<1>7. CASE j # i
  <2>1. kid.at # n
    BY <1>1, <1>3, <1>7
  <2>2. PICK old \in kids : kid.at = old.at /\ kid.of = old.of
    BY <1>2, <2>1
  <2> QED
    BY <1>3, <1>7, <2>2 DEF OnlyOwnKids
<1> QED
  BY <1>6, <1>7

LEMMA OtherStepsMountNothing ==
    ASSUME RowsOK, [Next]_vars,
           \A i \in Ids, k \in 0..MaxTry, ok \in BOOLEAN :
             ~BeginMount(i, k, ok) /\ ~CompleteIndex(i, k, ok)
    PROVE  NoNewMounts /\ NoNewKids
<1> DEFINE Goal == NoNewMounts /\ NoNewKids
<1>1. ASSUME UNCHANGED rows PROVE NoNewMounts
  BY <1>1 DEF NoNewMounts
<1>2. ASSUME kids' \subseteq kids PROVE NoNewKids
  BY <1>2 DEF NoNewKids
<1>3. ASSUME NEW i \in Ids,
             \/ Discover(i) \/ ContentChange(i) \/ MarkAbsent(i) \/ Reappear(i)
             \/ ApplyFail(i)
      PROVE  Goal
  <2>1. Status(i, "waiting") \/ Status(i, "absent")
    BY <1>3 DEF Discover, ContentChange, MarkAbsent, Reappear, ApplyFail
  <2>2. kids' = kids \/ kids' = Forget(i, kids)
    BY <1>3 DEF Discover, ContentChange, MarkAbsent, Reappear, ApplyFail
  <2>3. NoNewKids
    BY <1>2, <2>2, ForgetKeeps DEF NoNewKids
  <2> QED
    BY <2>1, <2>3, StatusStartsNoMount DEF Mounts
<1>4. ASSUME NEW i \in Ids, MarkMounted(i) PROVE Goal
  BY <1>2, <1>4, StatusStartsNoMount DEF MarkMounted, Mounts
<1>5. ASSUME NEW i \in Ids, IndexEnds(i) \/ MarkFailed(i) PROVE Goal
  BY <1>1, <1>2, <1>5, StatusStartsNoMount DEF IndexEnds, MarkFailed, Mounts
<1>6. ASSUME NEW i \in Ids, OpUnmount(i) PROVE Goal
  <2>1. Status(i, "absent") \/ Status(i, "unmounting")
    BY <1>6 DEF OpUnmount
  <2>2. kids' \subseteq kids
    BY <1>6 DEF OpUnmount, Unmounted
  <2> QED
    BY <1>2, <2>1, <2>2, StatusStartsNoMount DEF Mounts
<1>7. ASSUME NEW i \in Ids, Purge(i) PROVE Goal
  BY <1>1, <1>2, <1>7 DEF Purge, Unmounted
<1>8. ASSUME NEW kid \in kids, KidServes(kid) PROVE Goal
  <2>1. PICK job : kids' = (kids \ {kid}) \cup {[kid EXCEPT !.job = job]}
    BY <1>8 DEF KidServes
  <2>2. [kid EXCEPT !.job = job].at = kid.at /\ [kid EXCEPT !.job = job].of = kid.of
    OBVIOUS
  <2>3. NoNewKids
    BY <2>1, <2>2 DEF NoNewKids
  <2> QED
    BY <1>1, <1>8, <2>3 DEF KidServes
<1>9. ASSUME NEW kid \in kids, KidDies(kid) PROVE Goal
  BY <1>1, <1>2, <1>9 DEF KidDies
<1>10. ASSUME NEW n \in Names, FindUnused(n) \/ MakeDir(n) PROVE Goal
  BY <1>1, <1>2, <1>10 DEF FindUnused, MakeDir
<1>11. ASSUME Remove PROVE Goal
  BY <1>2, <1>11 DEF Remove, NoNewMounts, Mounts, RowsOK
<1>12. ASSUME Restart PROVE Goal
  BY <1>2, <1>12 DEF Restart, NoNewMounts, Mounts, AtWork
<1>13. ASSUME UNCHANGED vars PROVE Goal
  BY <1>1, <1>2, <1>13 DEF vars
<1> QED
  BY <1>3, <1>4, <1>5, <1>6, <1>7, <1>8, <1>9, <1>10, <1>11, <1>12, <1>13 DEF Next

\* Where an archive is mounted nobody finds another archive, whatever children
\* of earlier owners of the name were left behind (ClearStaleMountHolders).
THEOREM MountsShowTheirArchive == Spec => []MountShowsItsArchive
<1> DEFINE IInv == RowsOK /\ PathsDistinct /\ OnlyOwnKids
<1>1. Init => IInv
  BY DEF Init, RowsOK, Rows, PathsDistinct, OnlyOwnKids
<1>2. IInv /\ [Next]_vars => IInv'
  <2> SUFFICES ASSUME RowsOK, PathsDistinct, OnlyOwnKids, [Next]_vars
               PROVE  IInv'
    OBVIOUS
  <2>1. CASE \E i \in Ids, k \in 0..MaxTry, ok \in BOOLEAN :
               BeginMount(i, k, ok) \/ CompleteIndex(i, k, ok)
    <3>1. PICK i \in Ids, k \in 0..MaxTry, ok \in BOOLEAN :
            \E phase \in {"index", "mount"} : BeginProcess(i, k, phase, ok)
      BY <2>1 DEF BeginMount, CompleteIndex
    <3>2. RowsOK' /\ PathChosen
      BY <3>1, BeginProcessChooses
    <3>3. OnlyOwnKids'
      BY <3>1, BeginProcessClears
    <3> QED
      BY <3>2, <3>3, DistinctAfterChosen
  <2>2. CASE \A i \in Ids, k \in 0..MaxTry, ok \in BOOLEAN :
               ~BeginMount(i, k, ok) /\ ~CompleteIndex(i, k, ok)
    <3>1. RowsOK' /\ PathsDistinct'
      BY <2>2, OtherStepsKeep, DistinctAfterKept
    <3>2. OnlyOwnKids'
      BY <2>2, OtherStepsMountNothing, OwnKidsKept
    <3> QED
      BY <3>1, <3>2
  <2> QED
    BY <2>1, <2>2
<1>3. IInv => MountShowsItsArchive
  BY DEF OnlyOwnKids, MountShowsItsArchive, Mounts
<1> QED
  BY <1>1, <1>2, <1>3, PTL DEF Spec
-----------------------------------------------------------------------------
(* Directories that are in use.  The converted archives' directory is no   *)
(* row's mount path, so that a purge does not find it.  Of a child that is *)
(* starting the daemon knows where it mounts (KidsKnown), unless it forgot *)
(* it; where it knows a child the directory stays and is no other row's    *)
(* (SupKept), so that the cleaner and the purge of others pass it by.      *)

ReservedIsNoPath ==
    reserved # NoName => \A i \in Ids : rows[i].path # reserved

KidsKnown ==
    \A kid \in kids : kid.job = "starting"
        => sup[kid.of].phase = "mount" /\ sup[kid.of].at = kid.at

SupKept ==
    \A j \in Ids : rows[j].status # "purged" /\ sup[j].at # NoName
        => /\ sup[j].at \in dirs
           /\ \A i \in Ids \ {j} : rows[i].path # sup[j].at
           /\ j \notin removing.purge => sup[j].at # removing.at

DirIInv == DirInv /\ ReservedIsNoPath /\ KidsKnown /\ SupKept /\ PathsDistinct

\* No directory goes, and none is about to go that was not before.
DirsKept == /\ dirs \subseteq dirs'
            /\ removing'.at \in {removing.at, NoName}

LEMMA StatusTypes ==
    ASSUME RowsOK, NEW i \in Ids,
           NEW st \in AtWork \cup {"waiting", "unmounting", "absent"},
           Status(i, st)
    PROVE  rows' \in [Ids -> Rows]
BY StatusKeepsRows DEF RowsOK

LEMMA NothingTyped ==
    /\ NoKid \in [at : Names \cup {NoName}, phase : {"none", "index", "mount"}]
    /\ Nothing \in [at : Names \cup {NoName}, purge : SUBSET Ids]
    /\ Nothing.at = NoName /\ Nothing.purge = {} /\ NoKid.at = NoName
BY DEF NoKid, Nothing

LEMMA BudgetSpent ==
    ASSUME TypeOK, Spend
    PROVE  budget' \in 0..Budget
BY NamesAssumption DEF TypeOK, Spend

Kids == [of : Ids, at : Names, job : Coming \cup Serving]

LEMMA ForgetEnds ==
    ASSUME TypeOK, NEW i \in Ids, NEW ks \in SUBSET kids, NEW kid \in Forget(i, ks)
    PROVE  /\ kid \in Kids
           /\ kid.job = "starting" => kid \in ks /\ kid.of # i
<1>1. PICK old \in ks : kid = IF old.of = i /\ old.job = "starting"
                              THEN [old EXCEPT !.job = "forgotten"] ELSE old
  BY DEF Forget
<1>2. old \in Kids
  BY DEF TypeOK, Kids
<1>3. [old EXCEPT !.job = "forgotten"] \in Kids
      /\ [old EXCEPT !.job = "forgotten"].job = "forgotten"
  BY <1>2 DEF Kids, Coming
<1> QED
  BY <1>1, <1>2, <1>3

LEMMA BeginProcessLeft ==
    ASSUME NEW i \in Ids, NEW k \in 0..MaxTry, NEW ok \in BOOLEAN,
           NEW phase \in {"index", "mount"}, BeginProcess(i, k, phase, ok)
    PROVE  \E left \in SUBSET kids :
             IF ok
             THEN kids' = Forget(i, left) \cup
                    (IF phase = "mount"
                     THEN {[of |-> i, at |-> Candidate(i, k), job |-> "starting"]}
                     ELSE {})
             ELSE kids' = left
<1> DEFINE left == IF phase = "mount" THEN ClearHolders(i, Candidate(i, k)) ELSE kids
<1>1. left \in SUBSET kids
  BY DEF ClearHolders
<1>2. IF ok
      THEN kids' = Forget(i, left) \cup
             (IF phase = "mount"
              THEN {[of |-> i, at |-> Candidate(i, k), job |-> "starting"]} ELSE {})
      ELSE kids' = left
  BY DEF BeginProcess
<1> HIDE DEF left
<1> QED
  BY <1>1, <1>2

LEMMA BeginProcessTyped ==
    ASSUME TypeOK, NEW i \in Ids, NEW k \in 0..MaxTry, NEW ok \in BOOLEAN,
           NEW phase \in {"index", "mount"}, BeginProcess(i, k, phase, ok),
           UNCHANGED <<reserved, removing>>
    PROVE  TypeOK'
<1> DEFINE n == Candidate(i, k)
<1>1. n \in Names
  BY CandidateIsName
<1>2. rows' \in [Ids -> Rows]
  <2>1. PICK st \in {"waiting", "mounting", "indexing"} :
          rows' = [rows EXCEPT ![i] = [status |-> st, path |-> n]]
    BY DEF BeginProcess
  <2> QED
    BY <1>1, <2>1 DEF TypeOK, Rows, AtWork
<1>3. sup' \in [Ids -> [at : Names \cup {NoName},
                        phase : {"none", "index", "mount"}]]
  <2>1. \/ sup' = [sup EXCEPT ![i] = [at |-> n, phase |-> phase]]
        \/ sup' = [sup EXCEPT ![i] = NoKid]
        \/ sup' = sup
    <3>1. CASE ok
      BY <3>1 DEF BeginProcess
    <3>2. CASE ~ok
      <4>1. sup' = [sup EXCEPT ![i] =
                      IF rows[i].status = "indexing" THEN NoKid ELSE sup[i]]
        BY <3>2 DEF BeginProcess
      <4> QED
        BY <4>1 DEF TypeOK
    <3> QED
      BY <3>1, <3>2
  <2> QED
    BY <1>1, <2>1, NothingTyped DEF TypeOK
<1>4. kids' \subseteq Kids
  <2>1. PICK left \in SUBSET kids :
          kids' \subseteq left \cup Forget(i, left)
                          \cup {[of |-> i, at |-> n, job |-> "starting"]}
    <3>1. PICK left \in SUBSET kids :
            IF ok THEN kids' = Forget(i, left) \cup
                         (IF phase = "mount"
                          THEN {[of |-> i, at |-> n, job |-> "starting"]} ELSE {})
                  ELSE kids' = left
      BY BeginProcessLeft
    <3> QED
      BY <3>1
  <2>2. Forget(i, left) \subseteq Kids
    BY <2>1, ForgetEnds
  <2>3. [of |-> i, at |-> n, job |-> "starting"] \in Kids
    BY <1>1 DEF Kids, Coming
  <2> QED
    BY <2>1, <2>2, <2>3 DEF TypeOK, Kids
<1>5. dirs' \subseteq Names
  BY <1>1 DEF TypeOK, BeginProcess
<1>6. budget' \in 0..Budget
  BY BudgetSpent DEF TypeOK, BeginProcess
<1> QED
  BY <1>2, <1>3, <1>4, <1>5, <1>6 DEF TypeOK, Kids

\* What a start finds.
StartsFrom(i) ==
    /\ rows[i].status # "purged"
    /\ rows[i].status = "indexing" => sup[i].phase = "index"

\* A start makes the new child the one that the registry has, and takes no path
\* at which it has another.
LEMMA BeginProcessKnows ==
    ASSUME DirIInv, Idle, NEW i \in Ids, NEW k \in 0..MaxTry,
           NEW ok \in BOOLEAN, NEW phase \in {"index", "mount"},
           BeginProcess(i, k, phase, ok), UNCHANGED <<reserved, removing>>,
           StartsFrom(i)
    PROVE  KidsKnown' /\ SupKept'
<1> DEFINE n == Candidate(i, k)
<1>1. TypeOK /\ KidsKnown /\ SupKept /\ PathsDistinct
  BY DEF DirIInv, DirInv
<1>2. \/ ok /\ sup' = [sup EXCEPT ![i] = [at |-> n, phase |-> phase]]
      \/ ~ok /\ sup' = [sup EXCEPT ![i] =
                          IF rows[i].status = "indexing" THEN NoKid ELSE sup[i]]
  BY DEF BeginProcess
<1>3. \A j \in Ids \ {i} : sup'[j] = sup[j]
  BY <1>1, <1>2 DEF TypeOK
<1>4. /\ ok => sup'[i].at = n /\ sup'[i].phase = phase
      /\ ~ok => sup'[i] = sup[i] \/ (sup'[i] = NoKid /\ sup[i].phase = "index")
  BY <1>1, <1>2 DEF TypeOK, StartsFrom
<1>5. KidsKnown'
  <2>1. PICK left \in SUBSET kids :
          IF ok THEN kids' = Forget(i, left) \cup
                       (IF phase = "mount"
                        THEN {[of |-> i, at |-> n, job |-> "starting"]} ELSE {})
                ELSE kids' = left
    BY BeginProcessLeft
  <2>2. \A kid \in Forget(i, left) : kid.job = "starting" => kid \in kids /\ kid.of # i
    BY <1>1, <2>1, ForgetEnds
  <2>3. \A kid \in kids : kid.of \in Ids
    BY <1>1 DEF TypeOK
  <2> SUFFICES ASSUME NEW kid \in kids', kid.job = "starting"
               PROVE  sup'[kid.of].phase = "mount" /\ sup'[kid.of].at = kid.at
    BY DEF KidsKnown
  <2>4. CASE ok
    <3>1. CASE kid \in Forget(i, left)
      BY <1>1, <1>3, <2>2, <2>3, <3>1 DEF KidsKnown
    <3>2. CASE kid \notin Forget(i, left)
      <4>1. phase = "mount" /\ kid = [of |-> i, at |-> n, job |-> "starting"]
        BY <2>1, <2>4, <3>2
      <4> QED
        BY <1>4, <2>4, <4>1
    <3> QED
      BY <3>1, <3>2
  <2>5. CASE ~ok
    <3>1. kid \in kids
      BY <2>1, <2>5
    <3>2. sup[kid.of].phase = "mount" /\ sup[kid.of].at = kid.at /\ kid.of \in Ids
      BY <1>1, <2>3, <3>1 DEF KidsKnown
    <3> QED
      BY <1>3, <1>4, <2>5, <3>2
  <2> QED
    BY <2>4, <2>5
<1>6. SupKept'
  <2>1. /\ rows'[i].path = n
        /\ \A j \in Ids \ {i} : rows'[j] = rows[j]
        /\ n # NoName
    BY <1>1, CandidateIsName DEF BeginProcess, TypeOK
  <2>2. \A j \in Ids \ {i} : n # rows[j].path
    BY <1>1, ChosenIsFree DEF BeginProcess
  <2>3. dirs \subseteq dirs' /\ (ok => n \in dirs')
    BY DEF BeginProcess
  <2>4. removing'.at = NoName
    BY NothingTyped DEF Idle
  <2> SUFFICES ASSUME NEW j \in Ids, rows'[j].status # "purged", sup'[j].at # NoName
               PROVE  /\ sup'[j].at \in dirs'
                      /\ \A h \in Ids \ {j} : rows'[h].path # sup'[j].at
    BY <2>4 DEF SupKept
  <2>5. CASE j = i /\ ok
    BY <1>4, <2>1, <2>2, <2>3, <2>5
  <2>6. CASE ~(j = i /\ ok)
    <3>1. sup'[j].at = sup[j].at
      BY <1>3, <1>4, <2>6, NothingTyped
    <3>2. rows[j].status # "purged"
      <4>1. CASE j = i
        BY <4>1 DEF StartsFrom
      <4>2. CASE j # i
        BY <2>1, <4>2
      <4> QED
        BY <4>1, <4>2
    <3>3. /\ sup[j].at \in dirs
          /\ \A h \in Ids \ {j} : rows[h].path # sup[j].at
      BY <1>1, <3>1, <3>2 DEF SupKept
    <3>4. j # i => n # sup[j].at
      BY <3>3 DEF BeginProcess, MountName, FirstFree, TakenMountNames
    <3> QED
      BY <2>1, <2>3, <3>1, <3>3, <3>4
  <2> QED
    BY <2>5, <2>6
<1> QED
  BY <1>5, <1>6

LEMMA BeginProcessKeepsDirs ==
    ASSUME DirIInv, Idle, NEW i \in Ids, NEW k \in 0..MaxTry,
           NEW ok \in BOOLEAN, NEW phase \in {"index", "mount"}, StartsFrom(i),
           BeginProcess(i, k, phase, ok), UNCHANGED <<reserved, removing>>
    PROVE  DirIInv'
<1> DEFINE n == Candidate(i, k)
<1>1. TypeOK /\ TypeOK'
  BY BeginProcessTyped DEF DirIInv, DirInv
<1>2. OnlyLateMountsEmptied'
  BY NothingTyped DEF Idle, OnlyLateMountsEmptied
<1>3. ASSUME reserved # NoName
      PROVE  /\ reserved \in dirs' /\ removing'.at # reserved
             /\ \A kid \in kids' : kid.at # reserved
             /\ \A j \in Ids : rows'[j].path # reserved
  <2>1. /\ reserved \in dirs /\ removing.at # reserved
        /\ \A kid \in kids : kid.at # reserved
        /\ \A j \in Ids : rows[j].path # reserved
    BY <1>3 DEF DirIInv, DirInv, ArchivesDirKept, ReservedIsNoPath
  <2>2. n # reserved
    BY <2>1 DEF BeginProcess, MountName, FirstFree, TakenMountNames
  <2>3. dirs \subseteq dirs'
    BY DEF BeginProcess
  <2>4. \A kid \in kids' : (\E old \in kids : kid.at = old.at) \/ kid.at = n
    BY BeginProcessKids
  <2>5. \A j \in Ids : rows'[j].path = IF j = i THEN n ELSE rows[j].path
    BY <1>1 DEF BeginProcess, TypeOK
  <2> QED
    BY <2>1, <2>2, <2>3, <2>4, <2>5
<1>4. KidsKnown' /\ SupKept' /\ PathsDistinct'
  BY BeginProcessKnows, BeginProcessChooses, DistinctAfterChosen
     DEF DirIInv, DirInv, TypeOK, RowsOK
<1> QED
  BY <1>1, <1>2, <1>3, <1>4
     DEF DirIInv, DirInv, ArchivesDirKept, ReservedIsNoPath

\* A step that gives no row a path, brings no child and takes no directory.
LEMMA ArchivesDirUntouched ==
    ASSUME ArchivesDirKept, ReservedIsNoPath, PathsKeptOrGone, NoNewKids,
           DirsKept, UNCHANGED reserved
    PROVE  ArchivesDirKept' /\ ReservedIsNoPath'
BY DEF ArchivesDirKept, ReservedIsNoPath, PathsKeptOrGone, NoNewKids, DirsKept

\* Any other step keeps the types.
LEMMA OtherStepsTyped ==
    ASSUME TypeOK, [Next]_vars,
           \A i \in Ids, k \in 0..MaxTry, ok \in BOOLEAN :
             ~BeginMount(i, k, ok) /\ ~CompleteIndex(i, k, ok)
    PROVE  TypeOK' /\ UNCHANGED reserved
<1> DEFINE Goal == TypeOK' /\ UNCHANGED reserved
<1>1. RowsOK'
  BY OtherStepsKeep DEF TypeOK, RowsOK
<1>2. ASSUME NEW i \in Ids,
             \/ Discover(i) \/ ContentChange(i) \/ MarkAbsent(i) \/ Reappear(i)
             \/ MarkMounted(i)
      PROVE  Goal
  BY <1>1, <1>2, BudgetSpent
     DEF Discover, ContentChange, MarkAbsent, Reappear, MarkMounted, RowsOK,
         TypeOK
<1>3. ASSUME NEW i \in Ids, sup' = [sup EXCEPT ![i] = NoKid]
      PROVE  sup' \in [Ids -> [at : Names \cup {NoName},
                               phase : {"none", "index", "mount"}]]
  BY <1>3, NothingTyped DEF TypeOK
<1>4. ASSUME NEW i \in Ids, IndexEnds(i) \/ MarkFailed(i) \/ ApplyFail(i)
      PROVE  Goal
  <2>1. kids' = kids \/ kids' = Forget(i, kids)
    BY <1>4 DEF IndexEnds, MarkFailed, ApplyFail
  <2>2. kids' \subseteq Kids
    BY <2>1, ForgetEnds DEF TypeOK, Kids
  <2> QED
    BY <1>1, <1>3, <1>4, <2>2, BudgetSpent
       DEF IndexEnds, MarkFailed, ApplyFail, RowsOK, TypeOK, Kids
<1>5. ASSUME NEW i \in Ids, OpUnmount(i) PROVE Goal
  BY <1>1, <1>3, <1>5, BudgetSpent DEF OpUnmount, Unmounted, RowsOK, TypeOK
<1>6. ASSUME NEW i \in Ids, Purge(i) PROVE Goal
  <2>1. \/ sup' = [sup EXCEPT ![i] = NoKid]
        \/ sup' = sup
    <3>1. CASE rows[i].status \in PurgeUnmountStatuses
      BY <1>6, <3>1 DEF Purge
    <3>2. CASE rows[i].status \notin PurgeUnmountStatuses
      <4>1. sup' = [sup EXCEPT ![i] = sup[i]]
        BY <1>6, <3>2 DEF Purge
      <4> QED
        BY <4>1 DEF TypeOK
    <3> QED
      BY <3>1, <3>2
  <2>2. PICK at \in dirs \cup {NoName} : removing' = [at |-> at, purge |-> {i}]
    BY <1>6 DEF Purge
  <2>3. removing' \in [at : Names \cup {NoName}, purge : SUBSET Ids]
    BY <2>2 DEF TypeOK
  <2>4. budget' \in 0..Budget
    BY <1>6, BudgetSpent DEF Purge, TypeOK
  <2>5. kids' \subseteq kids
    BY <1>6 DEF Purge, Unmounted
  <2>6. UNCHANGED <<reserved, rows, dirs>>
    BY <1>6 DEF Purge
  <2> QED
    BY <1>3, <2>1, <2>3, <2>4, <2>5, <2>6 DEF TypeOK
<1>7. ASSUME NEW kid \in kids, KidServes(kid) PROVE Goal
  <2>1. \A job \in Serving : [kid EXCEPT !.job = job] \in Kids
    BY DEF TypeOK, Kids
  <2>2. kids' \subseteq kids \cup {[kid EXCEPT !.job = job] : job \in Serving}
    BY <1>7 DEF KidServes, Serving
  <2> QED
    BY <1>7, <2>1, <2>2 DEF KidServes, TypeOK, Kids
<1>8. ASSUME NEW kid \in kids, KidDies(kid) PROVE Goal
  BY <1>8, BudgetSpent DEF KidDies, TypeOK
<1>9. ASSUME NEW n \in Names, FindUnused(n) PROVE Goal
  BY <1>9 DEF FindUnused, TypeOK
<1>10. ASSUME NEW n \in Names, MakeDir(n) PROVE Goal
  BY <1>10, BudgetSpent DEF MakeDir, TypeOK
<1>11. ASSUME Remove PROVE Goal
  BY <1>1, <1>11, NothingTyped DEF Remove, RowsOK, TypeOK
<1>12. ASSUME Restart PROVE Goal
  BY <1>1, <1>12, NothingTyped, BudgetSpent DEF Restart, RowsOK, TypeOK
<1>13. ASSUME UNCHANGED vars PROVE Goal
  BY <1>13 DEF vars, TypeOK
<1> QED
  BY <1>2, <1>4, <1>5, <1>6, <1>7, <1>8, <1>9, <1>10, <1>11, <1>12, <1>13
     DEF Next

\* A child that begins to serve stays whose and where it was, forgotten or not.
LEMMA KidServesKeeps ==
    ASSUME TypeOK, NEW kid \in kids, KidServes(kid), NEW x \in kids'
    PROVE  \/ x \in kids
           \/ /\ x.at = kid.at /\ x.of = kid.of /\ x.job \in Serving
              /\ kid.job = "forgotten" => x.job = "late"
<1>1. PICK job \in Serving : /\ kids' = (kids \ {kid}) \cup {[kid EXCEPT !.job = job]}
                             /\ kid.job = "forgotten" => job = "late"
  BY DEF KidServes, Serving
<1>2. /\ [kid EXCEPT !.job = job].at = kid.at /\ [kid EXCEPT !.job = job].of = kid.of
      /\ [kid EXCEPT !.job = job].job = job
  BY DEF TypeOK
<1> QED
  BY <1>1, <1>2

\* What an unmount leaves of a row's children is known to nobody, and forgotten.
LEMMA UnmountedForgotten ==
    ASSUME KidsKnown, NEW i \in Ids, NEW kid \in Unmounted(i)
    PROVE  kid \in kids /\ (kid.job = "starting" => kid.of # i)
BY DEF Unmounted, KidsKnown

\* The registry forgets a child only when it goes, or as forgotten.
LEMMA OtherStepsKnow ==
    ASSUME TypeOK, KidsKnown, [Next]_vars,
           \A i \in Ids, k \in 0..MaxTry, ok \in BOOLEAN :
             ~BeginMount(i, k, ok) /\ ~CompleteIndex(i, k, ok)
    PROVE  KidsKnown'
<1> DEFINE Same == \A kid \in kids' : kid.job = "starting" => kid \in kids
<1>1. ASSUME UNCHANGED sup, Same PROVE KidsKnown'
  BY <1>1 DEF KidsKnown
<1>2. ASSUME NEW i \in Ids, sup' = [sup EXCEPT ![i] = NoKid],
             \A kid \in kids' : kid.job = "starting" => kid \in kids /\ kid.of # i
      PROVE  KidsKnown'
  <2>1. \A j \in Ids \ {i} : sup'[j] = sup[j]
    BY <1>2 DEF TypeOK
  <2>2. \A kid \in kids : kid.of \in Ids
    BY DEF TypeOK
  <2> QED
    BY <1>2, <2>1, <2>2 DEF KidsKnown
<1>3. ASSUME NEW i \in Ids,
             \/ Discover(i) \/ ContentChange(i) \/ MarkAbsent(i) \/ Reappear(i)
             \/ MarkMounted(i)
      PROVE  KidsKnown'
  BY <1>1, <1>3 DEF Discover, ContentChange, MarkAbsent, Reappear, MarkMounted
<1>4. ASSUME NEW i \in Ids, IndexEnds(i) PROVE KidsKnown'
  BY <1>2, <1>4 DEF IndexEnds, KidsKnown
<1>5. ASSUME NEW i \in Ids, MarkFailed(i) PROVE KidsKnown'
  <2>1. \A kid \in kids : kid.job = "starting" => kid.of # i
    BY <1>5 DEF MarkFailed, KidsKnown
  <2>2. kids' = kids /\ sup' = [sup EXCEPT ![i] = NoKid]
    BY <1>5 DEF MarkFailed
  <2> QED
    BY <1>2, <2>1, <2>2
<1>6. ASSUME NEW i \in Ids, ApplyFail(i) PROVE KidsKnown'
  <2>1. \A kid \in Forget(i, kids) : kid.job = "starting" => kid \in kids /\ kid.of # i
    BY ForgetEnds
  <2>2. kids' = Forget(i, kids) /\ sup' = [sup EXCEPT ![i] = NoKid]
    BY <1>6 DEF ApplyFail
  <2> QED
    BY <1>2, <2>1, <2>2
<1>7. ASSUME NEW i \in Ids, OpUnmount(i) PROVE KidsKnown'
  <2>1. kids' = Unmounted(i) /\ sup' = [sup EXCEPT ![i] = NoKid]
    BY <1>7 DEF OpUnmount
  <2>2. \A kid \in Unmounted(i) : kid.job = "starting" => kid \in kids /\ kid.of # i
    BY UnmountedForgotten
  <2> QED
    BY <1>2, <2>1, <2>2
<1>8. ASSUME NEW i \in Ids, Purge(i) PROVE KidsKnown'
  <2>1. CASE rows[i].status \in PurgeUnmountStatuses
    <3>1. kids' = Unmounted(i) /\ sup' = [sup EXCEPT ![i] = NoKid]
      BY <1>8, <2>1 DEF Purge
    <3>2. \A kid \in Unmounted(i) : kid.job = "starting" => kid \in kids /\ kid.of # i
      BY UnmountedForgotten
    <3> QED
      BY <1>2, <3>1, <3>2
  <2>2. CASE rows[i].status \notin PurgeUnmountStatuses
    <3>1. sup' = [sup EXCEPT ![i] = sup[i]] /\ kids' = kids
      BY <1>8, <2>2 DEF Purge
    <3>2. sup' = sup
      BY <3>1 DEF TypeOK
    <3> QED
      BY <1>1, <3>1, <3>2
  <2> QED
    BY <2>1, <2>2
<1>9. ASSUME NEW kid \in kids, KidServes(kid) PROVE KidsKnown'
  <2>1. Same
    BY <1>9, KidServesKeeps DEF Serving
  <2> QED
    BY <1>1, <1>9, <2>1 DEF KidServes
<1>10. ASSUME NEW kid \in kids, KidDies(kid) PROVE KidsKnown'
  BY <1>1, <1>10 DEF KidDies
<1>11. ASSUME NEW n \in Names, FindUnused(n) \/ MakeDir(n) PROVE KidsKnown'
  BY <1>1, <1>11 DEF FindUnused, MakeDir
<1>12. ASSUME Remove \/ UNCHANGED vars PROVE KidsKnown'
  BY <1>1, <1>12 DEF Remove, vars
<1>13. ASSUME Restart PROVE KidsKnown'
  BY <1>13 DEF Restart, KidsKnown
<1> QED
  BY <1>3, <1>4, <1>5, <1>6, <1>7, <1>8, <1>9, <1>10, <1>11, <1>12, <1>13 DEF Next

\* A directory where the registry has a child stays, and no other row gets it.
LEMMA OtherStepsKeepSup ==
    ASSUME TypeOK, SupKept, [Next]_vars,
           \A i \in Ids, k \in 0..MaxTry, ok \in BOOLEAN :
             ~BeginMount(i, k, ok) /\ ~CompleteIndex(i, k, ok)
    PROVE  SupKept'
<1> DEFINE Forgets == \A j \in Ids : sup'[j] = sup[j] \/ sup'[j].at = NoName
           StaysPurged == \A j \in Ids : rows[j].status = "purged"
                                           => rows'[j].status = "purged"
<1>1. PathsKeptOrGone
  BY OtherStepsKeep DEF TypeOK, RowsOK
<1>2. ASSUME Forgets, StaysPurged, dirs \subseteq dirs',
             removing' = removing \/ removing'.at = NoName
      PROVE  SupKept'
  BY <1>1, <1>2 DEF SupKept, PathsKeptOrGone
<1>3. ASSUME NEW i \in Ids, sup' = [sup EXCEPT ![i] = NoKid] PROVE Forgets
  BY <1>3, NothingTyped DEF TypeOK
<1>4. ASSUME NEW i \in Ids, NEW st, Status(i, st), rows[i].status # "purged"
      PROVE  StaysPurged
  BY <1>4 DEF Status, TypeOK
<1>5. ASSUME NEW i \in Ids,
             \/ Discover(i) \/ ContentChange(i) \/ MarkAbsent(i) \/ Reappear(i)
             \/ MarkMounted(i)
      PROVE  SupKept'
  <2>1. rows[i].status # "purged" /\ \E st : Status(i, st)
    BY <1>5 DEF Discover, ContentChange, MarkAbsent, Reappear, MarkMounted, AtWork
  <2> QED
    BY <1>2, <1>4, <1>5, <2>1
       DEF Discover, ContentChange, MarkAbsent, Reappear, MarkMounted
<1>6. ASSUME NEW i \in Ids,
             IndexEnds(i) \/ MarkFailed(i) \/ ApplyFail(i) \/ OpUnmount(i)
      PROVE  SupKept'
  <2>1. \/ UNCHANGED rows
        \/ rows[i].status # "purged" /\ \E st : Status(i, st)
    BY <1>6 DEF IndexEnds, MarkFailed, ApplyFail, OpUnmount
  <2>2. StaysPurged
    BY <1>4, <2>1
  <2> QED
    BY <1>2, <1>3, <1>6, <2>2 DEF IndexEnds, MarkFailed, ApplyFail, OpUnmount
<1>7. ASSUME NEW i \in Ids, Purge(i) PROVE SupKept'
  <2>1. \A j \in Ids : sup'[j] = sup[j] \/ sup'[j].at = NoName
    <3>1. \/ sup' = [sup EXCEPT ![i] = NoKid]
          \/ sup' = [sup EXCEPT ![i] = sup[i]]
      BY <1>7 DEF Purge
    <3> QED
      BY <1>3, <3>1 DEF TypeOK
  <2>2. /\ removing'.at \in {rows[i].path, NoName} /\ removing'.purge = {i}
        /\ UNCHANGED <<rows, dirs>>
    BY <1>7 DEF Purge
  <2> QED
    BY <2>1, <2>2 DEF SupKept
<1>8. ASSUME NEW kid \in kids, KidServes(kid) \/ KidDies(kid) PROVE SupKept'
  BY <1>8 DEF KidServes, KidDies, SupKept
<1>9. ASSUME NEW n \in Names, FindUnused(n) PROVE SupKept'
  <2>1. removing'.at = n /\ UNCHANGED <<rows, sup, dirs>> /\ n \notin ProtectedMountPaths
    BY <1>9 DEF FindUnused
  <2> QED
    BY <2>1 DEF ProtectedMountPaths, SupKept
<1>10. ASSUME NEW n \in Names, MakeDir(n) PROVE SupKept'
  BY <1>10 DEF MakeDir, SupKept
<1>11. ASSUME Remove PROVE SupKept'
  <2>1. /\ removing'.at = NoName /\ dirs \ {removing.at} \subseteq dirs' /\ UNCHANGED sup
        /\ \A j \in Ids : rows'[j].status # "purged"
             => rows[j].status # "purged" /\ j \notin removing.purge
    BY <1>11, NothingTyped DEF Remove
  <2> QED
    BY <1>1, <2>1 DEF SupKept, PathsKeptOrGone
<1>12. ASSUME Restart PROVE SupKept'
  BY <1>12, NothingTyped DEF Restart, SupKept
<1>13. ASSUME UNCHANGED vars PROVE SupKept'
  BY <1>13 DEF vars, SupKept
<1> QED
  BY <1>5, <1>6, <1>7, <1>8, <1>9, <1>10, <1>11, <1>12, <1>13 DEF Next

\* While the cleaner is at a directory the daemon does nothing else, and it finds
\* only what no row at work and no child in the registry has.
LEMMA OtherStepsKeepWork ==
    ASSUME TypeOK, OnlyLateMountsEmptied, KidsKnown, SupKept, PathsDistinct,
           [Next]_vars,
           \A i \in Ids, k \in 0..MaxTry, ok \in BOOLEAN :
             ~BeginMount(i, k, ok) /\ ~CompleteIndex(i, k, ok)
    PROVE  OnlyLateMountsEmptied'
<1> DEFINE Goal == OnlyLateMountsEmptied'
<1>1. ASSUME removing' = Nothing PROVE Goal
  BY <1>1, NothingTyped DEF OnlyLateMountsEmptied
<1>2. ASSUME UNCHANGED <<rows, removing>>, kids' \subseteq kids PROVE Goal
  BY <1>2 DEF OnlyLateMountsEmptied
<1>3. ASSUME NEW i \in Ids,
             \/ Discover(i) \/ ContentChange(i) \/ MarkAbsent(i) \/ Reappear(i)
             \/ MarkMounted(i)
      PROVE  Goal
  BY <1>1, <1>3
     DEF Discover, ContentChange, MarkAbsent, Reappear, MarkMounted, Idle
<1>4. ASSUME NEW i \in Ids,
             IndexEnds(i) \/ MarkFailed(i) \/ ApplyFail(i) \/ OpUnmount(i)
      PROVE  Goal
  BY <1>1, <1>4 DEF IndexEnds, MarkFailed, ApplyFail, OpUnmount, Idle
<1>5. ASSUME NEW i \in Ids, Purge(i) PROVE Goal
  <2> DEFINE left == IF rows[i].status \in PurgeUnmountStatuses
                     THEN Unmounted(i) ELSE kids
  <2>1. /\ kids' = left /\ UNCHANGED rows /\ removing'.purge = {i}
        /\ removing'.at # NoName => /\ removing'.at = rows[i].path
                                    /\ rows[i].path \notin Served(left)
    BY <1>5 DEF Purge
  <2>2. left \subseteq kids
    BY DEF Unmounted
  <2> HIDE DEF left
  <2>3. ASSUME removing'.at # NoName, NEW kid \in kids', kid.at = removing'.at
        PROVE  \/ kid.job \in {"forgotten", "late"}
               \/ kid.of = i \/ rows[kid.of].status = "purged"
    <3>1. kid \in kids /\ kid.of \in Ids /\ kid.job \in Coming \cup Serving
      BY <2>1, <2>2 DEF TypeOK
    <3>2. kid.job \notin Serving
      BY <2>1, <2>3 DEF Served
    <3>3. CASE kid.job = "starting"
      <4>1. sup[kid.of].at = rows[i].path
        BY <2>1, <2>3, <3>1, <3>3 DEF KidsKnown
      <4> QED
        BY <2>1, <2>3, <3>1, <4>1 DEF SupKept
    <3> QED
      BY <3>1, <3>2, <3>3 DEF Coming
  <2>4. ASSUME removing'.at # NoName, NEW j \in Ids \ {i}
        PROVE  rows'[j].path # removing'.at
    BY <2>1, <2>4 DEF PathsDistinct
  <2> QED
    BY <2>1, <2>3, <2>4 DEF OnlyLateMountsEmptied
<1>6. ASSUME NEW kid \in kids, KidServes(kid) PROVE Goal
  <2>1. UNCHANGED <<rows, removing>>
    BY <1>6 DEF KidServes
  <2> SUFFICES ASSUME removing.at # NoName, NEW x \in kids', x.at = removing.at
               PROVE  \/ x.job \in {"forgotten", "late"}
                      \/ /\ removing.purge # {}
                         /\ x.of \in removing.purge \/ rows[x.of].status = "purged"
    BY <2>1 DEF OnlyLateMountsEmptied
  <2>2. CASE x \in kids
    BY <2>2 DEF OnlyLateMountsEmptied
  <2>3. CASE x \notin kids
    <3>1. /\ x.at = kid.at /\ x.of = kid.of
          /\ kid.job = "forgotten" => x.job = "late"
      BY <1>6, <2>3, KidServesKeeps
    <3>2. kid.job # "late"
      BY <1>6 DEF KidServes, Coming
    <3> QED
      BY <3>1, <3>2 DEF OnlyLateMountsEmptied
  <2> QED
    BY <2>2, <2>3
<1>7. ASSUME NEW kid \in kids, KidDies(kid) PROVE Goal
  BY <1>2, <1>7 DEF KidDies
<1>8. ASSUME NEW n \in Names, FindUnused(n) PROVE Goal
  <2>1. /\ removing'.at = n /\ UNCHANGED <<rows, kids>>
        /\ n \notin ProtectedMountPaths /\ n \notin Served(kids) /\ n # NoName
    BY <1>8, CandidateIsName DEF FindUnused, IsMount, Names
  <2>2. ASSUME NEW kid \in kids, kid.at = n PROVE kid.job = "forgotten"
    <3>1. kid.of \in Ids /\ kid.job \in Coming \cup Serving
      BY DEF TypeOK
    <3>2. kid.job \notin Serving
      BY <2>1, <2>2 DEF Served
    <3>3. kid.job # "starting"
      BY <2>1, <2>2, <3>1 DEF KidsKnown, ProtectedMountPaths
    <3> QED
      BY <3>1, <3>2, <3>3 DEF Coming
  <2> QED
    BY <2>1, <2>2 DEF OnlyLateMountsEmptied, ProtectedMountPaths
<1>9. ASSUME NEW n \in Names, MakeDir(n) PROVE Goal
  BY <1>2, <1>9 DEF MakeDir
<1>10. ASSUME Remove \/ Restart PROVE Goal
  BY <1>1, <1>10 DEF Remove, Restart
<1>11. ASSUME UNCHANGED vars PROVE Goal
  BY <1>2, <1>11 DEF vars
<1> QED
  BY <1>3, <1>4, <1>5, <1>6, <1>7, <1>8, <1>9, <1>10, <1>11 DEF Next

LEMMA OtherStepsKeepArchivesDir ==
    ASSUME TypeOK, ArchivesDirKept, ReservedIsNoPath, [Next]_vars,
           \A i \in Ids, k \in 0..MaxTry, ok \in BOOLEAN :
             ~BeginMount(i, k, ok) /\ ~CompleteIndex(i, k, ok)
    PROVE  ArchivesDirKept' /\ ReservedIsNoPath'
<1> DEFINE Goal == ArchivesDirKept' /\ ReservedIsNoPath'
<1>1. PathsKeptOrGone /\ NoNewKids /\ UNCHANGED reserved
  BY OtherStepsKeep, OtherStepsMountNothing, OtherStepsTyped DEF TypeOK, RowsOK
<1>2. ASSUME DirsKept PROVE Goal
  BY <1>1, <1>2, ArchivesDirUntouched
<1>3. ASSUME UNCHANGED <<dirs, removing>> PROVE Goal
  BY <1>2, <1>3 DEF DirsKept
<1>4. ASSUME NEW i \in Ids,
             \/ Discover(i) \/ ContentChange(i) \/ MarkAbsent(i) \/ Reappear(i)
             \/ MarkMounted(i)
      PROVE  Goal
  BY <1>3, <1>4 DEF Discover, ContentChange, MarkAbsent, Reappear, MarkMounted
<1>5. ASSUME NEW i \in Ids,
             IndexEnds(i) \/ MarkFailed(i) \/ ApplyFail(i) \/ OpUnmount(i)
      PROVE  Goal
  BY <1>3, <1>5 DEF IndexEnds, MarkFailed, ApplyFail, OpUnmount
<1>6. ASSUME NEW kid \in kids, KidServes(kid) \/ KidDies(kid) PROVE Goal
  BY <1>3, <1>6 DEF KidServes, KidDies
<1>7. ASSUME NEW n \in Names, MakeDir(n) PROVE Goal
  BY <1>2, <1>7 DEF MakeDir, DirsKept
<1>8. ASSUME Restart PROVE Goal
  BY <1>2, <1>8, NothingTyped DEF Restart, DirsKept
<1>9. ASSUME UNCHANGED dirs, reserved # NoName => removing'.at # reserved
      PROVE  Goal
  BY <1>1, <1>9
     DEF ArchivesDirKept, ReservedIsNoPath, PathsKeptOrGone, NoNewKids
<1>10. ASSUME NEW i \in Ids, Purge(i) PROVE Goal
  <2>1. removing'.at \in {rows[i].path, NoName} /\ UNCHANGED dirs
    BY <1>10 DEF Purge
  <2> QED
    BY <1>9, <2>1 DEF ReservedIsNoPath
<1>11. ASSUME NEW n \in Names, FindUnused(n) PROVE Goal
  <2>1. removing'.at = n /\ n # reserved /\ UNCHANGED dirs
    BY <1>11 DEF FindUnused, ReservedMountRootNames
  <2> QED
    BY <1>9, <2>1
<1>12. ASSUME Remove PROVE Goal
  <2>1. removing'.at = NoName /\ dirs \ {removing.at} \subseteq dirs'
    BY <1>12, NothingTyped DEF Remove
  <2> QED
    BY <1>1, <2>1
       DEF ArchivesDirKept, ReservedIsNoPath, PathsKeptOrGone, NoNewKids
<1>13. ASSUME UNCHANGED vars PROVE Goal
  BY <1>3, <1>13 DEF vars
<1> QED
  BY <1>4, <1>5, <1>6, <1>7, <1>8, <1>10, <1>11, <1>12, <1>13 DEF Next

\* No directory of mount_root is removed that a mount to come or the converted
\* archives need, under every order of starts, purges, removals and restarts; the
\* one mount that the cleaner may empty is that of a child which came up after
\* the daemon had forgotten it, or in a purge that of a purged archive
\* (RemoveUnusedMountDir, protectedMountPaths, reservedMountRootNames).
THEOREM DirsInUseKept == Spec => []DirInv
<1>1. Init => DirIInv
  <2> SUFFICES ASSUME Init PROVE DirIInv
    OBVIOUS
  <2>1. reserved \in Names \cup {NoName}
    BY NamesAssumption, CandidateIsName DEF Init
  <2>2. TypeOK
    BY <2>1, NothingTyped, NamesAssumption DEF Init, TypeOK, Rows
  <2>3. OnlyLateMountsEmptied /\ KidsKnown /\ SupKept /\ PathsDistinct
    BY NothingTyped DEF Init, OnlyLateMountsEmptied, KidsKnown, SupKept, PathsDistinct
  <2>4. ArchivesDirKept /\ ReservedIsNoPath
    BY NothingTyped DEF Init, ArchivesDirKept, ReservedIsNoPath
  <2> QED
    BY <2>2, <2>3, <2>4 DEF DirIInv, DirInv
<1>2. DirIInv /\ [Next]_vars => DirIInv'
  <2> SUFFICES ASSUME DirIInv, [Next]_vars PROVE DirIInv'
    OBVIOUS
  <2>1. CASE \E i \in Ids, k \in 0..MaxTry, ok \in BOOLEAN :
               BeginMount(i, k, ok) \/ CompleteIndex(i, k, ok)
    <3>1. PICK i \in Ids, k \in 0..MaxTry, ok \in BOOLEAN :
            /\ \E phase \in {"index", "mount"} : BeginProcess(i, k, phase, ok)
            /\ Idle /\ UNCHANGED <<reserved, removing>> /\ StartsFrom(i)
      BY <2>1 DEF BeginMount, CompleteIndex, StartsFrom
    <3> QED
      BY <3>1, BeginProcessKeepsDirs
  <2>2. CASE \A i \in Ids, k \in 0..MaxTry, ok \in BOOLEAN :
               ~BeginMount(i, k, ok) /\ ~CompleteIndex(i, k, ok)
    <3>1. PathsDistinct'
      BY <2>2, OtherStepsKeep, DistinctAfterKept DEF DirIInv, DirInv, TypeOK, RowsOK
    <3> QED
      BY <2>2, <3>1, OtherStepsTyped, OtherStepsKnow, OtherStepsKeepSup,
         OtherStepsKeepWork, OtherStepsKeepArchivesDir
         DEF DirIInv, DirInv
  <2> QED
    BY <2>1, <2>2
<1>3. DirIInv => DirInv
  BY DEF DirIInv
<1> QED
  BY <1>1, <1>2, <1>3, PTL DEF Spec
=============================================================================
