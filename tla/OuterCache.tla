----------------------------- MODULE OuterCache -----------------------------
(***************************************************************************)
(* The cache of non-solid copies of one solid archive: its users, which    *)
(* fill it under a lock file (internal/convert/outer_cache.go), and the    *)
(* cleaner, which takes away what is left over, lock files included        *)
(* (internal/cleaner/nonsolid_cache.go).  A process does one of the two at *)
(* a time (opMu); other processes may use the same directory.  Locks are   *)
(* held on inodes, paths are names of inodes.                              *)
(***************************************************************************)
EXTENDS Naturals, FiniteSets

CONSTANTS
    Procs,       \* processes that may use the directory
    Setups,      \* pairs of the processes that do, and those that clean
    MaxVersion,  \* bound: contents the source file takes, one after another
    Solid,       \* the versions that are solid; others are mounted as they are
    Budget       \* bound: crashes

Versions == 1..MaxVersion

ASSUME CacheAssumption ==
    /\ IsFiniteSet(Procs)
    /\ Setups \subseteq [users : SUBSET Procs, cleaners : SUBSET Procs]
    /\ MaxVersion \in Nat \ {0}
    /\ Solid \subseteq Versions
    /\ Budget \in Nat

\* A process that cleans is alone with the directory.
ASSUME SetupsAssumption ==
    \A s \in Setups :
      s.cleaners = {} \/ \E p \in Procs : s.users \cup s.cleaners \subseteq {p}

VARIABLES
    setup,    \* who uses the directory; never changes
    source,   \* version of the source file
    dest,     \* by cache key: what is at {key}.7z
    partial,  \*   ... at {key}.7z.nonsolid.partial
    work,     \*   ... and in {key}.7z.nonsolid.partial.work
    linked,   \* inode that {key}.lock names, 0 if there is no such file
    task,     \* what a process is at
    fd,       \* inode of the lock file it has open, or 0
    serving,  \* key of the copy its registry has a mount of, or 0
    budget

files == <<dest, partial, work>>
vars == <<setup, source, files, linked, task, fd, serving, budget>>

\* A key stands for path, size and mtime, so for a version.
Keys == Versions
Inodes == 1..(Cardinality(Procs) + MaxVersion)

\* "cut" lacks members, but lists like a whole archive.
Nothing == [of |-> 0, form |-> "none"]
Things == {Nothing} \cup [of : Versions, form : {"whole", "cut"}]

\* Steps of EnsureNonsolidCachedCopy in their order, and of the cleaner.
Filling == {"held", "cleared", "extracted", "created", "removed", "renamed"}
Ensuring == {"listed", "missed", "opened", "handed"} \cup Filling
Cleaning == {"strip", "locks", "age", "trying", "unlinking"}

\* since: the source's version when the call began; todo: entries of the
\* cleaner's pass; pass: where it goes on after a lock file.
Idle == [at |-> "idle", key |-> 1, since |-> 1, todo |-> {}, pass |-> "locks"]

TypeOK ==
    /\ setup \in Setups
    /\ source \in Versions
    /\ dest \in [Keys -> Things]
    /\ partial \in [Keys -> Things]
    /\ work \in [Keys -> Things]
    /\ linked \in [Keys -> Inodes \cup {0}]
    /\ task \in [Procs -> [at : {"idle"} \cup Ensuring \cup Cleaning,
                           key : Keys, since : Versions, todo : SUBSET Keys,
                           pass : {"locks", "age"}]]
    /\ fd \in [Procs -> Inodes \cup {0}]
    /\ serving \in [Procs -> Keys \cup {0}]
    /\ budget \in 0..Budget

Init ==
    /\ setup \in Setups
    /\ source = 1
    /\ dest = [k \in Keys |-> Nothing]
    /\ partial = [k \in Keys |-> Nothing]
    /\ work = [k \in Keys |-> Nothing]
    /\ linked = [k \in Keys |-> 0]
    /\ task = [p \in Procs |-> Idle]
    /\ fd = [p \in Procs |-> 0]
    /\ serving = [p \in Procs |-> 0]
    /\ budget = Budget

At(p, step) == task[p].at = step
GoTo(p, step) == task' = [task EXCEPT ![p] = [@ EXCEPT !.at = step]]
Key(p) == task[p].key

\* flock: who has it on an inode; closing the file releases it.
HasLock(p) == task[p].at \in Filling \cup {"unlinking"}
Free(i) == \A q \in Procs : fd[q] = i => ~HasLock(q)
Close(p) == fd' = [fd EXCEPT ![p] = 0]

\* An inode number of no file that is linked or open.
FreshInode ==
    CHOOSE i \in Inodes : /\ \A k \in Keys : linked[k] # i
                          /\ \A q \in Procs : fd[q] # i

\* nonsolidCacheHit: a listing shows neither that members lack nor of which
\* version of the source this is the copy.
Hit(k) == dest[k] # Nothing

-----------------------------------------------------------------------------
(* EnsureNonsolidCachedCopy.                                               *)

\* The source is listed; only a solid one goes on.
Begin(p) ==
    /\ p \in setup.users
    /\ At(p, "idle")
    /\ source \in Solid
    /\ task' = [task EXCEPT ![p] = [Idle EXCEPT !.at = "listed",
                                                !.since = source]]
    /\ UNCHANGED <<setup, source, files, linked, fd, serving, budget>>

\* Mutant: the key is made of the path alone.
KeyOfPath == 1

\* CacheKeyForSource looks at the source again.
CacheKeyForSource == source

\* The fast path takes no lock.
LookUp(p) ==
    /\ At(p, "listed")
    /\ LET k == CacheKeyForSource
           step == IF Hit(k) THEN "handed" ELSE "missed"
       IN  task' = [task EXCEPT ![p] = [@ EXCEPT !.key = k, !.at = step]]
    /\ UNCHANGED <<setup, source, files, linked, fd, serving, budget>>

\* os.OpenFile with O_CREATE.
OpenLock(p) ==
    /\ At(p, "missed")
    /\ GoTo(p, "opened")
    /\ LET k == Key(p)
           i == IF linked[k] = 0 THEN FreshInode ELSE linked[k]
       IN  /\ linked' = [linked EXCEPT ![k] = i]
           /\ fd' = [fd EXCEPT ![p] = i]
    /\ UNCHANGED <<setup, source, files, serving, budget>>

\* Mutant: the lock does not exclude.
SharedFlock(p) ==
    /\ At(p, "opened")
    /\ GoTo(p, "held")
    /\ UNCHANGED <<setup, source, files, linked, fd, serving, budget>>

\* A blocking flock on what was opened, whether or not it is still linked.
Flock(p) ==
    /\ At(p, "opened")
    /\ Free(fd[p])
    /\ GoTo(p, "held")
    /\ UNCHANGED <<setup, source, files, linked, fd, serving, budget>>

\* populateOuterNonsolidCache drops leftovers first; no space, no populate.
StartFill(p) ==
    /\ At(p, "held")
    /\ \/ /\ GoTo(p, "cleared")
          /\ UNCHANGED fd
       \/ GoTo(p, "idle") /\ Close(p)
    /\ partial' = [partial EXCEPT ![Key(p)] = Nothing]
    /\ work' = [work EXCEPT ![Key(p)] = Nothing]
    /\ UNCHANGED <<setup, source, dest, linked, serving, budget>>

\* Mutant: filled without another look.
FillUnseen(p) == StartFill(p)

\* Mutant: without space the lock is held until there is some.
WaitInLock(p) ==
    /\ At(p, "held")
    /\ Hit(Key(p))
    /\ GoTo(p, "handed")
    /\ Close(p)
    /\ UNCHANGED <<setup, source, files, linked, serving, budget>>

\* Inside the lock the cache is looked at again.
Recheck(p) ==
    /\ At(p, "held")
    /\ IF Hit(Key(p))
         THEN /\ GoTo(p, "handed")
              /\ Close(p)
              /\ UNCHANGED <<setup, source, files, linked, serving, budget>>
         ELSE StartFill(p)

\* An error on the way: the deferred removals, then the lock is closed.
Fail(p) ==
    /\ GoTo(p, "idle")
    /\ Close(p)
    /\ partial' = [partial EXCEPT ![Key(p)] = Nothing]
    /\ work' = [work EXCEPT ![Key(p)] = Nothing]
    /\ UNCHANGED <<setup, source, linked, serving, budget>>

FillFails(p) ==
    /\ task[p].at \in {"cleared", "extracted"}
    /\ Fail(p)
    /\ UNCHANGED dest

\* 7z reads the source as it is now.
Extract(p) ==
    /\ At(p, "cleared")
    /\ GoTo(p, "extracted")
    /\ work' = [work EXCEPT ![Key(p)] = [of |-> source, form |-> "whole"]]
    /\ UNCHANGED <<setup, source, dest, partial, linked, fd, serving, budget>>

\* 7z packs what it finds in the work directory.
Create(p) ==
    /\ At(p, "extracted")
    /\ work[Key(p)] # Nothing
    /\ GoTo(p, "created")
    /\ partial' = [partial EXCEPT ![Key(p)] = work[Key(p)]]
    /\ UNCHANGED <<setup, source, dest, work, linked, fd, serving, budget>>

\* The old copy is removed before the new one takes its name.  Both are in one
\* directory, so the rename does not fail and no copy is made across devices.
RemoveDest(p) ==
    /\ At(p, "created")
    /\ partial[Key(p)] # Nothing
    /\ GoTo(p, "removed")
    /\ dest' = [dest EXCEPT ![Key(p)] = Nothing]
    /\ UNCHANGED <<setup, source, partial, work, linked, fd, serving, budget>>

Rename(p) ==
    /\ At(p, "removed")
    /\ partial[Key(p)] # Nothing
    /\ GoTo(p, "renamed")
    /\ dest' = [dest EXCEPT ![Key(p)] = partial[Key(p)]]
    /\ partial' = [partial EXCEPT ![Key(p)] = Nothing]
    /\ work' = [work EXCEPT ![Key(p)] = Nothing]
    /\ UNCHANGED <<setup, source, linked, fd, serving, budget>>

\* Size floor and a last listing; a copy that fails them is removed.
Verify(p) ==
    /\ At(p, "renamed")
    /\ \/ /\ Hit(Key(p))
          /\ GoTo(p, "handed")
          /\ UNCHANGED dest
       \/ /\ GoTo(p, "idle")
          /\ dest' = [dest EXCEPT ![Key(p)] = Nothing]
    /\ Close(p)
    /\ UNCHANGED <<setup, source, partial, work, linked, serving, budget>>

\* beginMountProcess starts the child on the copy and registers it.
Serve(p) ==
    /\ At(p, "handed")
    /\ serving' = [serving EXCEPT ![p] = Key(p)]
    /\ task' = [task EXCEPT ![p] = Idle]
    /\ UNCHANGED <<setup, source, files, linked, fd, budget>>

Unmount(p) ==
    /\ At(p, "idle")
    /\ serving[p] # 0
    /\ serving' = [serving EXCEPT ![p] = 0]
    /\ UNCHANGED <<setup, source, files, linked, task, fd, budget>>

-----------------------------------------------------------------------------
(* PruneNonsolidCache.                                                     *)

StartClean(p) ==
    /\ p \in setup.cleaners
    /\ At(p, "idle")
    /\ task' = [task EXCEPT ![p] = [Idle EXCEPT !.at = "strip",
                                                !.todo = Keys]]
    /\ UNCHANGED <<setup, source, files, linked, fd, serving, budget>>

Rest(p, k) == task[p].todo \ {k}
Done(p, k) == task' = [task EXCEPT ![p] = [@ EXCEPT !.todo = Rest(p, k)]]

\* Mutant: only the partial files.
StripPartial(p, k) ==
    /\ At(p, "strip")
    /\ k \in task[p].todo
    /\ Done(p, k)
    /\ partial' = [partial EXCEPT ![k] = Nothing]
    /\ UNCHANGED <<setup, source, dest, work, linked, fd, serving, budget>>

\* Pass 1: partial files and work directories, whoever is using them.
\* os.RemoveAll takes a directory away piece by piece.
Strip(p, k) ==
    /\ At(p, "strip")
    /\ k \in task[p].todo
    /\ IF work[k].form = "whole"
         THEN /\ work' = [work EXCEPT ![k] = [@ EXCEPT !.form = "cut"]]
              /\ UNCHANGED <<partial, task>>
         ELSE /\ work' = [work EXCEPT ![k] = Nothing]
              /\ partial' = [partial EXCEPT ![k] = Nothing]
              /\ Done(p, k)
    /\ UNCHANGED <<setup, source, dest, linked, fd, serving, budget>>

NextPass(p) ==
    /\ task[p].todo = {}
    /\ \/ /\ At(p, "strip")
          /\ task' = [task EXCEPT ![p] = [@ EXCEPT !.at = "locks", !.todo = Keys]]
       \/ /\ At(p, "locks")
          /\ task' = [task EXCEPT ![p] = [@ EXCEPT !.at = "age", !.todo = Keys,
                                                   !.pass = "age"]]
       \/ At(p, "age") /\ task' = [task EXCEPT ![p] = Idle]
    /\ UNCHANGED <<setup, source, files, linked, fd, serving, budget>>

\* tryRemoveLockFile opens the file, if it is still there ...
TryLockFile(p, k) ==
    IF linked[k] = 0
      THEN Done(p, k) /\ UNCHANGED fd
      ELSE /\ task' = [task EXCEPT ![p] = [@ EXCEPT !.at = "trying", !.key = k,
                                                    !.todo = Rest(p, k)]]
           /\ fd' = [fd EXCEPT ![p] = linked[k]]

\* Pass 2: lock files beside which there is no copy.
LookAtLock(p, k) ==
    /\ At(p, "locks")
    /\ k \in task[p].todo
    /\ IF dest[k] = Nothing
         THEN TryLockFile(p, k)
         ELSE Done(p, k) /\ UNCHANGED fd
    /\ UNCHANGED <<setup, source, files, linked, serving, budget>>

\* ... tries to lock it without waiting ...
TryFlock(p) ==
    /\ At(p, "trying")
    /\ IF Free(fd[p]) THEN GoTo(p, "unlinking") /\ UNCHANGED fd
                      ELSE GoTo(p, task[p].pass) /\ Close(p)
    /\ UNCHANGED <<setup, source, files, linked, serving, budget>>

\* ... removes what the name stands for by now, and closes.
Unlink(p) ==
    /\ At(p, "unlinking")
    /\ linked' = [linked EXCEPT ![Key(p)] = 0]
    /\ GoTo(p, task[p].pass)
    /\ Close(p)
    /\ UNCHANGED <<setup, source, files, serving, budget>>

\* What the cleaner is told of the copies in use: those of its own process.
LivePaths(p) == {serving[p]} \ {0}

\* Pass 3: copies that may be old enough and that this process does not serve.
AgePrune(p, k) ==
    /\ At(p, "age")
    /\ k \in task[p].todo
    /\ \/ /\ dest[k] # Nothing
          /\ k \notin LivePaths(p)
          /\ dest' = [dest EXCEPT ![k] = Nothing]
          /\ TryLockFile(p, k)
       \/ Done(p, k) /\ UNCHANGED <<dest, fd>>
    /\ UNCHANGED <<setup, source, partial, work, linked, serving, budget>>

-----------------------------------------------------------------------------

\* The file is replaced: another size or mtime, so another key.
SourceChanges ==
    /\ source < MaxVersion
    /\ source' = source + 1
    /\ UNCHANGED <<setup, files, linked, task, fd, serving, budget>>

\* Its files stay, its locks go, and the boot unmounts what it served.
Crash(p) ==
    /\ budget > 0
    /\ budget' = budget - 1
    /\ task' = [task EXCEPT ![p] = Idle]
    /\ serving' = [serving EXCEPT ![p] = 0]
    /\ Close(p)
    /\ UNCHANGED <<setup, source, files, linked>>

Ensure(p) ==
    \/ LookUp(p) \/ OpenLock(p) \/ Recheck(p)
    \/ Extract(p) \/ Create(p) \/ FillFails(p)
    \/ RemoveDest(p) \/ Rename(p) \/ Verify(p) \/ Serve(p)

Clean(p) ==
    \/ StartClean(p) \/ NextPass(p) \/ TryFlock(p) \/ Unlink(p)
    \/ \E k \in Keys : Strip(p, k) \/ LookAtLock(p, k) \/ AgePrune(p, k)

Next ==
    \/ \E p \in Procs : \/ Begin(p) \/ Ensure(p) \/ Flock(p) \/ Unmount(p)
                        \/ Clean(p) \/ Crash(p)
    \/ SourceChanges

\* A call goes on (7z ends), the kernel wakes who waits for a lock, and the
\* cleaner runs again and again between calls.
Fairness ==
    \A p \in Procs : /\ WF_vars(Ensure(p))
                     /\ SF_vars(Flock(p))
                     /\ SF_vars(Clean(p))

Spec == Init /\ [][Next]_vars
FairSpec == Spec /\ Fairness

-----------------------------------------------------------------------------

\* The copy that a call ends with is a whole copy of the source as it was at
\* some moment of the call (outer_cache.go: two looks, lock, populate, a key of
\* size and mtime).
HandedIsWhole ==
    [][\A p \in Procs :
         /\ ~At(p, "handed")
         /\ task'[p].at = "handed"
         => LET copy == dest'[task'[p].key]
            IN  copy.form = "whole" /\ copy.of \in task[p].since..source]_vars

\* "Concurrent populates of the same dest serialize" (outer_cache.go:204).
PopulatesSerialized ==
    \A p, q \in Procs :
        /\ p # q
        /\ task[p].at \in Filling
        /\ task[q].at \in Filling
        => Key(p) # Key(q)

\* Every process is at a step of the code, and no two at the populate of one
\* copy, whatever becomes of the lock's file (withNonsolidCacheLock).
CacheInv == TypeOK /\ PopulatesSerialized

InUse(k) == \E p \in Procs : serving[p] = k

\* A copy is not made again and not lost: only the last check of who made it
\* and the age prune remove it, and not while it serves a mount
\* (outer_cache.go, nonsolid_cache.go).
AcceptedCopyKept ==
    [][\A k \in Keys :
         /\ Hit(k)
         /\ dest'[k] # dest[k]
         => \/ \E p \in Procs : At(p, "age") /\ ~InUse(k)
            \/ \E p \in Procs : At(p, "renamed") /\ Key(p) = k]_vars

\* What crashed populates leave behind goes away.
LeftoversGo ==
    \A k \in Keys :
        <>[](\/ setup.cleaners = {}
             \/ partial[k] = Nothing /\ work[k] = Nothing
             \/ \E p \in Procs : task[p].at \in Filling /\ Key(p) = k)

\* Who waits for the lock gets it, also when its holder dies.
WaiterServed == \A p \in Procs : At(p, "opened") ~> ~At(p, "opened")

=============================================================================
