----------------------------- MODULE MountNames -----------------------------
(***************************************************************************)
(* Where archives are mounted: directories under mount_root, named after   *)
(* the archives.  A name is chosen anew at each start of a child, from     *)
(* what is free then (TakenMountNames, mountNameForRec,                    *)
(* SanitizeMountName); children that a timeout, a scan or a purge left     *)
(* behind still mount and serve where they were told to                    *)
(* (ClearStaleMountHolders); the cleaner removes directories that nothing  *)
(* uses (CleanupStaleMountDirs, RemoveUnusedMountDir).  The daemon does    *)
(* one operation at a time (opMu); the children go on meanwhile.           *)
(*                                                                         *)
(* Children that only build an index do not mount and are not among kids.  *)
(* "waiting" is discovered or failed, "mounted" also hooks_running.        *)
(***************************************************************************)
EXTENDS Naturals

CONSTANTS
    Ids,     \* archive rows, by id
    Clean,   \* by id, what SanitizeMountName makes of the base name alone
    MaxTry,  \* bound: names tried for a row after the plain one
    Budget   \* bound: disturbances

ASSUME NamesAssumption == MaxTry \in Nat /\ Budget \in Nat

VARIABLES
    reserved,  \* where archives_dir is under mount_root, if it is
    rows,
    sup,       \* the supervised child of each id: where it mounts, its phase
    kids,      \* FUSE children of this daemon, supervised or left behind;
               \* "forgotten" are those that the daemon forgot as they were
               \* starting, "late" once they serve all the same
    dirs,      \* directories of mount_root
    removing,  \* the directory that the cleaner found unused
    budget

vars == <<reserved, rows, sup, kids, dirs, removing, budget>>

NoName == <<>>

\* SanitizeMountName: the plain name, then the name with the first characters
\* of the id, then with longer and numbered ones.
Candidate(i, k) == IF k = 0 THEN <<Clean[i]>> ELSE <<Clean[i], i, k>>

Names == {Candidate(i, k) : i \in Ids, k \in 0..MaxTry}
AtWork == {"indexing", "mounting", "mounted"}
Coming == {"starting", "forgotten"}
Serving == {"serving", "late"}
NoKid == [at |-> NoName, phase |-> "none"]
Nothing == [at |-> NoName, purge |-> {}]

Rows == [status : AtWork \cup {"new", "waiting", "unmounting", "absent",
                               "purged"},
         path : Names \cup {NoName}]

TypeOK ==
    /\ reserved \in Names \cup {NoName}
    /\ rows \in [Ids -> Rows]
    /\ sup \in [Ids -> [at : Names \cup {NoName},
                        phase : {"none", "index", "mount"}]]
    /\ kids \subseteq [of : Ids, at : Names, job : Coming \cup Serving]
    /\ dirs \subseteq Names
    /\ removing \in [at : Names \cup {NoName}, purge : SUBSET Ids]
    /\ budget \in 0..Budget

Init ==
    /\ reserved \in {NoName} \cup {Candidate(i, 0) : i \in Ids}
    /\ rows = [i \in Ids |-> [status |-> "new", path |-> NoName]]
    /\ sup = [i \in Ids |-> NoKid]
    /\ kids = {}
    /\ dirs = {reserved} \ {NoName}
    /\ removing = Nothing
    /\ budget = Budget

Spend == budget > 0 /\ budget' = budget - 1

\* The daemon is between two of its operations.
Idle == removing = Nothing

Served(ks) == {kid.at : kid \in {k \in ks : k.job \in Serving}}
IsMount(n) == n \in Served(kids)
Status(i, st) ==
    rows' = [rows EXCEPT ![i] = [status |-> st, path |-> @.path]]

-----------------------------------------------------------------------------
(* The archives come and go; the scanner writes rows and unmounts nothing. *)

Discover(i) ==
    /\ Idle /\ rows[i].status = "new"
    /\ Status(i, "waiting")
    /\ UNCHANGED <<reserved, sup, kids, dirs, removing, budget>>

ContentChange(i) ==
    /\ Idle /\ rows[i].status \in AtWork \cup {"unmounting"} /\ Spend
    /\ Status(i, "waiting")
    /\ UNCHANGED <<reserved, sup, kids, dirs, removing>>

MarkAbsent(i) ==
    /\ Idle /\ rows[i].status \in AtWork \cup {"waiting", "unmounting"}
    /\ Status(i, "absent")
    /\ UNCHANGED <<reserved, sup, kids, dirs, removing, budget>>

Reappear(i) ==
    /\ Idle /\ rows[i].status = "absent" /\ Spend
    /\ Status(i, "waiting")
    /\ UNCHANGED <<reserved, sup, kids, dirs, removing>>

-----------------------------------------------------------------------------
(* Starting a child.                                                       *)

\* Mutant: what rows that do not run will want again does not count.
TakenMountNamesOnDisk == dirs

\* The directories that are there, and what any row has on record.
TakenMountNames == dirs \cup ({rows[j].path : j \in Ids} \ {NoName})

FirstFree(i, k, taken) ==
    /\ Candidate(i, k) \notin taken
    /\ \A l \in 0..MaxTry : l < k => Candidate(i, l) \in taken

\* The first candidate that nobody but the row itself has.
MountName(i, k) == FirstFree(i, k, TakenMountNames \ {rows[i].path})

\* Mutant: only children of the row itself are cleared.
ClearHoldersOwn(i, n) == {kid \in kids : ~(kid.at = n /\ kid.of = i)}

\* ClearStaleMountHolders: any child told to mount there is killed.
ClearHolders(i, n) == {kid \in kids : kid.at # n}

\* The registry has no child of i any more (DropLive, or another takes its
\* place); none of them is stopped.
Forget(i, ks) ==
    {IF kid.of = i /\ kid.job = "starting"
     THEN [kid EXCEPT !.job = "forgotten"] ELSE kid : kid \in ks}

\* beginMountProcess: the name goes into the row with the claim; a child that
\* is to mount clears its path first.  The registry forgets a child it had
\* for the row.  A refused spawn may come before or after the mkdir; it
\* leaves the child in the registry that CompleteIndex had not taken out.
BeginProcess(i, k, phase, ok) ==
    LET n    == Candidate(i, k)
        left == IF phase = "mount" THEN ClearHolders(i, n) ELSE kids
    IN  /\ MountName(i, k)
        /\ IF ok
           THEN /\ rows' = [rows EXCEPT ![i] =
                     [status |-> IF phase = "mount" THEN "mounting"
                                                    ELSE "indexing",
                      path |-> n]]
                /\ sup' = [sup EXCEPT ![i] = [at |-> n, phase |-> phase]]
                /\ dirs' = dirs \cup {n}
                /\ kids' = Forget(i, left) \cup
                     (IF phase = "mount"
                      THEN {[of |-> i, at |-> n, job |-> "starting"]} ELSE {})
                /\ UNCHANGED budget
           ELSE /\ rows' = [rows EXCEPT ![i] =
                     [status |-> "waiting", path |-> n]]
                /\ sup' = [sup EXCEPT ![i] =
                     IF rows[i].status = "indexing" THEN NoKid ELSE @]
                /\ dirs' \in {dirs, dirs \cup {n}}
                /\ kids' = left
                /\ Spend

BeginMount(i, k, ok) ==
    /\ Idle /\ rows[i].status = "waiting"
    /\ \E phase \in {"index", "mount"} : BeginProcess(i, k, phase, ok)
    /\ UNCHANGED <<reserved, removing>>

\* CompleteIndexAndStartMount, for a row that still waits for its index.
CompleteIndex(i, k, ok) ==
    /\ Idle /\ sup[i].phase = "index" /\ rows[i].status = "indexing"
    /\ BeginProcess(i, k, "mount", ok)
    /\ UNCHANGED <<reserved, removing>>

\* The index child fails, or the row has left indexing when it is done.
IndexEnds(i) ==
    /\ Idle /\ sup[i].phase = "index"
    /\ sup' = [sup EXCEPT ![i] = NoKid]
    /\ IF rows[i].status = "indexing" THEN Spend /\ Status(i, "waiting")
                                      ELSE UNCHANGED <<rows, budget>>
    /\ UNCHANGED <<reserved, kids, dirs, removing>>

-----------------------------------------------------------------------------
(* Children, whatever the daemon is at.                                    *)

\* A mount point that was removed meanwhile cannot be mounted on.
KidServes(kid) ==
    /\ kid.job \in Coming /\ kid.at \in dirs
    /\ kids' = (kids \ {kid}) \cup
         {[kid EXCEPT !.job = IF @ = "starting" THEN "serving" ELSE "late"]}
    /\ UNCHANGED <<reserved, rows, sup, dirs, removing, budget>>

KidDies(kid) ==
    /\ IF kid.job \in Serving THEN Spend ELSE UNCHANGED budget
    /\ kids' = kids \ {kid}
    /\ UNCHANGED <<reserved, rows, sup, dirs, removing>>

MarkMounted(i) ==
    /\ Idle /\ rows[i].status = "mounting" /\ sup[i].phase = "mount"
    /\ IsMount(sup[i].at)
    /\ Status(i, "mounted")
    /\ UNCHANGED <<reserved, sup, kids, dirs, removing, budget>>

\* MarkFailed for a supervised child that is gone.
MarkFailed(i) ==
    /\ Idle /\ sup[i].phase = "mount"
    /\ \A kid \in kids : kid.of = i => kid.at # sup[i].at
    /\ sup' = [sup EXCEPT ![i] = NoKid]
    /\ IF rows[i].status = "mounting" THEN Status(i, "waiting")
                                      ELSE UNCHANGED rows
    /\ UNCHANGED <<reserved, kids, dirs, removing, budget>>

\* applyFail: too long in progress, or not mounted any more.  DropLive forgets
\* the child and does not stop it.
ApplyFail(i) ==
    /\ Idle
    /\ \/ rows[i].status \in {"indexing", "mounting"} /\ Spend
       \/ /\ rows[i].status = "mounted" /\ ~IsMount(rows[i].path)
          /\ UNCHANGED budget
    /\ Status(i, "waiting")
    /\ sup' = [sup EXCEPT ![i] = NoKid]
    /\ kids' = Forget(i, kids)
    /\ UNCHANGED <<reserved, dirs, removing>>

-----------------------------------------------------------------------------
(* Unmounting, and removing directories.                                   *)

\* Engine.Unmount: the supervised child, else what serves at the recorded path.
Unmounted(i) ==
    LET path == IF sup[i].phase # "none" THEN sup[i].at ELSE rows[i].path
    IN  {kid \in kids : ~ /\ kid.at = path
                          /\ \/ kid.job \in Serving
                             \/ kid.of = i /\ sup[i].phase = "mount"}

OpUnmount(i) ==
    /\ Idle /\ rows[i].status \notin {"new", "purged"} /\ Spend
    /\ kids' = Unmounted(i)
    /\ sup' = [sup EXCEPT ![i] = NoKid]
    /\ Status(i, IF rows[i].status = "absent" THEN "absent" ELSE "unmounting")
    /\ UNCHANGED <<reserved, dirs, removing>>

PurgeUnmountStatuses == AtWork \cup {"unmounting"}

\* PurgeArchive, past its grace or by the administrator, up to the look at the
\* mount directory: only rows in progress or mounted are unmounted, and only a
\* directory that is no mount is removed.
Purge(i) ==
    LET stops == rows[i].status \in PurgeUnmountStatuses
        left  == IF stops THEN Unmounted(i) ELSE kids
        path  == rows[i].path
    IN  /\ Idle /\ rows[i].status \notin {"new", "purged"}
        /\ IF rows[i].status = "absent" THEN UNCHANGED budget ELSE Spend
        /\ kids' = left
        /\ sup' = [sup EXCEPT ![i] = IF stops THEN NoKid ELSE @]
        /\ removing' = [at |-> IF path \in dirs \ Served(left)
                               THEN path ELSE NoName,
                        purge |-> {i}]
        /\ UNCHANGED <<reserved, rows, dirs>>

\* Mutants: that nothing is mounted there is taken to be enough; no directory
\* of any row is removed.
NothingProtected == {NoName}
AllProtected == {rows[i].path : i \in Ids} \cup {sup[i].at : i \in Ids}

\* protectedMountPaths: of rows at work, and of supervised children.
ProtectedMountPaths ==
    {rows[i].path : i \in {j \in Ids : rows[j].status \in AtWork}}
        \cup {sup[i].at : i \in Ids}

ReservedMountRootNames == {reserved}

\* CleanupStaleMountDirs at the directory n.
FindUnused(n) ==
    /\ Idle /\ n \in dirs
    /\ n \notin ReservedMountRootNames \cup ProtectedMountPaths
    /\ ~IsMount(n)
    /\ removing' = [at |-> n, purge |-> {}]
    /\ UNCHANGED <<reserved, rows, sup, kids, dirs, budget>>

\* RemoveUnusedMountDir after its look, and the row with it in a purge.  Where
\* a child has come to serve meanwhile the directory itself stays.
Remove ==
    /\ ~Idle
    /\ dirs' = IF IsMount(removing.at) THEN dirs ELSE dirs \ {removing.at}
    /\ rows' = [i \in Ids |->
         IF i \in removing.purge
         THEN [status |-> "purged", path |-> NoName] ELSE rows[i]]
    /\ removing' = Nothing
    /\ UNCHANGED <<reserved, sup, kids, budget>>

\* Somebody makes a directory in mount_root.
MakeDir(n) ==
    /\ n \notin dirs /\ Spend
    /\ dirs' = dirs \cup {n}
    /\ UNCHANGED <<reserved, rows, sup, kids, removing>>

\* The daemon dies and starts again: Boot clears every pid and requeues what
\* was under way, so that ReconcileOrphanMounts knows no child and kills all.
Restart ==
    /\ Spend
    /\ rows' = [i \in Ids |->
         IF rows[i].status \in AtWork \cup {"unmounting"}
         THEN [status |-> "waiting", path |-> rows[i].path] ELSE rows[i]]
    /\ sup' = [i \in Ids |-> NoKid]
    /\ kids' = {}
    /\ removing' = Nothing
    /\ UNCHANGED <<reserved, dirs>>

Next ==
    \/ \E i \in Ids :
         \/ Discover(i) \/ ContentChange(i) \/ MarkAbsent(i) \/ Reappear(i)
         \/ \E k \in 0..MaxTry, ok \in BOOLEAN :
              BeginMount(i, k, ok) \/ CompleteIndex(i, k, ok)
         \/ IndexEnds(i) \/ MarkMounted(i) \/ MarkFailed(i) \/ ApplyFail(i)
         \/ OpUnmount(i) \/ Purge(i)
    \/ \E kid \in kids : KidServes(kid) \/ KidDies(kid)
    \/ \E n \in Names : FindUnused(n) \/ MakeDir(n)
    \/ Remove \/ Restart

\* A pass of the cleaner looks at every directory, and passes keep coming.
Fairness == WF_vars(Remove) /\ \A n \in Names : SF_vars(FindUnused(n))

Spec == Init /\ [][Next]_vars /\ Fairness

-----------------------------------------------------------------------------
\* No two rows are mounted, or will be, in the same place, although a name is
\* chosen again, from what is free, at each start: the start of one would kill
\* the child of the other (beginMountProcess).
PathsDistinct ==
    \A i, j \in Ids : i # j /\ rows[i].path # NoName
                        => rows[i].path # rows[j].path

\* What users see under the name of a mounted archive is that archive, not what
\* a child of an earlier owner of the name still serves
\* (ClearStaleMountHolders).
MountShowsItsArchive ==
    \A i \in Ids : rows[i].status = "mounted"
        => \A kid \in kids : kid.at = rows[i].path => kid.of = i

\* Of a mount that comes up between the cleaner's look at a directory and the
\* removal of what is in it the content is deleted, writes included (the RemoveAll
\* of RemoveUnusedMountDir).  That can happen to a child that the daemon forgot
\* before it served, at a timeout or for another start, and in a purge to that of a
\* purged archive; to no other, and to no row at work.
OnlyLateMountsEmptied ==
    removing.at # NoName
        => /\ \A kid \in kids : kid.at = removing.at
                => \/ kid.job \in {"forgotten", "late"}
                   \/ /\ removing.purge # {}
                      /\ \/ kid.of \in removing.purge
                         \/ rows[kid.of].status = "purged"
           /\ \A i \in Ids \ removing.purge :
                rows[i].status \in AtWork => rows[i].path # removing.at

\* The converted archives, kept in a directory of mount_root, are neither
\* removed as an unused directory nor mounted over (reservedMountRootNames).
ArchivesDirKept ==
    reserved # NoName => /\ reserved \in dirs
                         /\ removing.at # reserved
                         /\ \A kid \in kids : kid.at # reserved

\* No directory of mount_root is removed that the daemon knows to be in use, by
\* a mount to come or as archives_dir (mounts.go).
DirInv == TypeOK /\ OnlyLateMountsEmptied /\ ArchivesDirKept

\* No directory stays for good that is neither archives_dir, nor mounted, nor of
\* a row at work or a supervised child: names given up become free again
\* (CleanupStaleMountDirs).
Unused(n) ==
    /\ n \in dirs \ {reserved}
    /\ ~IsMount(n)
    /\ \A i \in Ids : /\ sup[i].at # n
                      /\ rows[i].status \in AtWork => rows[i].path # n
StaleDirsGo == \A n \in Names : []<>(~Unused(n))
=============================================================================
