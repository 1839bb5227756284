--------------------------- MODULE OuterCache_proofs ---------------------------
(***************************************************************************)
(* The lock file serializes the populates of a copy, and what a call hands *)
(* out is a whole copy of the source, for any number of processes that use *)
(* the cache and for one that also cleans it (SetupsAssumption).  The      *)
(* argument: a flock is exclusive on an inode; without a cleaner the name  *)
(* of a lock file keeps its inode, so who fills a copy has the inode its   *)
(* name stands for; with one there is no other process to exclude.         *)
(***************************************************************************)
EXTENDS OuterCache, FiniteSetTheorems, TLAPS

Steps == {"idle"} \cup Ensuring \cup Cleaning
Tasks == [at : Steps, key : Keys, since : Versions, todo : SUBSET Keys,
          pass : {"locks", "age"}]

\* Steps with the lock file open, with its lock, and of a call that has it open.
Open == {"opened", "trying", "unlinking"} \cup Filling
Locked == Filling \cup {"unlinking"}
Holding == {"opened"} \cup Filling

\* Steps of a populate before the copy has its name.
Early == {"cleared", "extracted", "created", "removed"}

Active == setup.users \cup setup.cleaners

\* What may be found of a copy: nothing, or all of a version from that of its
\* key to the latest one, v.
Good(k, x, v) == x # Nothing => x.form = "whole" /\ x.of \in k..v

OnlyActive == \A p \in Procs : p \notin Active => At(p, "idle") /\ serving[p] = 0

LockInv ==
    /\ \A p \in Procs : fd[p] # 0 <=> task[p].at \in Open
    /\ \A p, q \in Procs : p # q /\ HasLock(p) /\ HasLock(q) => fd[p] # fd[q]
    /\ setup.cleaners = {} =>
         \A p \in Procs : task[p].at \in Holding => linked[Key(p)] = fd[p]
    /\ \A p \in Procs : task[p].at \in Cleaning => p \in setup.cleaners

\* The key a call goes by is a version the source had during the call.
KeyInv ==
    \A p \in Procs :
      /\ task[p].since <= source
      /\ task[p].at \in Ensuring \ {"listed"} => task[p].since <= Key(p) /\ Key(p) <= source

CopyInv ==
    /\ \A k \in Keys : Good(k, dest[k], source) /\ Good(k, partial[k], source)
    /\ \A p \in Procs : At(p, "extracted") => Good(Key(p), work[Key(p)], source)
    /\ \A p \in Procs : task[p].at \in Early => dest[Key(p)] = Nothing

CacheIInv == TypeOK /\ OnlyActive /\ LockInv /\ KeyInv /\ CopyInv

-----------------------------------------------------------------------------
(* The lock.                                                               *)

LEMMA SetupAlone ==
    ASSUME TypeOK, setup.cleaners # {}
    PROVE  \A p, q \in Active : p = q
BY SetupsAssumption DEF TypeOK, Active

\* No two processes fill one copy.
LEMMA Serialized ==
    ASSUME CacheIInv
    PROVE  PopulatesSerialized
<1> SUFFICES ASSUME NEW p \in Procs, NEW q \in Procs, p # q, task[p].at \in Filling,
                    task[q].at \in Filling
             PROVE  Key(p) # Key(q)
  BY DEF PopulatesSerialized
<1>1. CASE setup.cleaners = {}
  BY <1>1 DEF CacheIInv, LockInv, HasLock, Holding
<1>2. CASE setup.cleaners # {}
  <2>1. p \in Active /\ q \in Active
    BY DEF CacheIInv, OnlyActive, At, Filling
  <2> QED
    BY <1>2, <2>1, SetupAlone DEF CacheIInv
<1> QED
  BY <1>1, <1>2

LEMMA SomeSource == ASSUME TypeOK PROVE source \in Nat /\ source >= 1
BY CacheAssumption DEF TypeOK, Versions

LEMMA KeysNat == Keys \subseteq Nat /\ 0 \notin Keys /\ 1 \in Keys
BY CacheAssumption DEF Keys, Versions

LEMMA IdleTyped == Idle \in Tasks /\ Idle.at = "idle" /\ Idle.since = 1
BY KeysNat DEF Idle, Tasks, Steps, Keys

\* Changing where a task is at changes nothing else of it.
LEMMA AtSet ==
    ASSUME NEW t \in Tasks, NEW step \in Steps
    PROVE  LET u == [t EXCEPT !.at = step]
           IN  /\ u \in Tasks /\ u.at = step /\ u.key = t.key /\ u.since = t.since
               /\ u.todo = t.todo /\ u.pass = t.pass
BY DEF Tasks

\* One process takes a step: what it needs to have opened and locked, and what
\* the others may not lose by it.
LEMMA ProcessStep ==
    ASSUME CacheIInv, NEW p \in Procs, NEW t \in Tasks, NEW i \in Inodes \cup {0},
           task' = [task EXCEPT ![p] = t], fd' = [fd EXCEPT ![p] = i],
           UNCHANGED <<setup, source>>,
           t.at # "idle" => p \in Active,
           i # 0 <=> t.at \in Open,
           t.at \in Locked => (i = fd[p] /\ HasLock(p)) \/ Free(i),
           setup.cleaners = {} =>
             /\ t.at \in Holding => linked'[t.key] = i
             /\ \A q \in Procs : q # p /\ task[q].at \in Holding =>
                  linked'[Key(q)] = linked[Key(q)],
           t.at \in Cleaning => p \in setup.cleaners,
           t.since <= source,
           t.at \in Ensuring \ {"listed"} => t.since <= t.key /\ t.key <= source,
           \A q \in Procs : serving'[q] # 0 => q \in Active
    PROVE  /\ task' \in [Procs -> Tasks] /\ fd' \in [Procs -> Inodes \cup {0}]
           /\ task'[p] = t /\ \A q \in Procs : q # p => task'[q] = task[q]
           /\ OnlyActive' /\ LockInv' /\ KeyInv'
<1> USE DEF CacheIInv
<1>1. /\ task' \in [Procs -> Tasks] /\ task'[p] = t
      /\ \A q \in Procs : q # p => task'[q] = task[q]
  BY DEF TypeOK, Tasks, Steps
<1>2. /\ fd' \in [Procs -> Inodes \cup {0}] /\ fd'[p] = i
      /\ \A q \in Procs : q # p => fd'[q] = fd[q]
  BY DEF TypeOK
<1>3. OnlyActive'
  BY <1>1 DEF OnlyActive, At, Active
<1>4. KeyInv'
  BY <1>1 DEF KeyInv, Key
<1>5. LockInv'
  <2>1. (\A q \in Procs : fd[q] # 0 <=> task[q].at \in Open)'
    BY <1>1, <1>2 DEF LockInv
  <2>2. (\A q, r \in Procs : q # r /\ HasLock(q) /\ HasLock(r) => fd[q] # fd[r])'
    <3>1. ASSUME NEW q \in Procs, q # p, HasLock(q), t.at \in Locked
          PROVE  fd[q] # i
      BY <3>1 DEF LockInv, Free
    <3> QED
      BY <1>1, <1>2, <3>1 DEF LockInv, HasLock, Locked
  <2>3. (setup.cleaners = {} =>
           \A q \in Procs : task[q].at \in Holding => linked[Key(q)] = fd[q])'
    BY <1>1, <1>2 DEF LockInv, Key
  <2>4. (\A q \in Procs : task[q].at \in Cleaning => q \in setup.cleaners)'
    BY <1>1 DEF LockInv
  <2> QED
    BY <2>1, <2>2, <2>3, <2>4 DEF LockInv
<1> QED
  BY <1>1, <1>2, <1>3, <1>4, <1>5

\* ... and what it may do to the files.
LEMMA FileStep ==
    ASSUME CacheIInv, NEW p \in Procs, NEW t, task'[p] = t,
           \A q \in Procs : q # p => task'[q] = task[q],
           UNCHANGED source,
           \A k \in Keys : Good(k, dest'[k], source) /\ Good(k, partial'[k], source),
           t.at = "extracted" => Good(t.key, work'[t.key], source),
           t.at \in Early => dest'[t.key] = Nothing,
           \A q \in Procs : q # p =>
             /\ At(q, "extracted") => Good(Key(q), work'[Key(q)], source)
             /\ task[q].at \in Early => dest'[Key(q)] = Nothing
    PROVE  CopyInv'
BY DEF CopyInv, At, Key

\* The two promises about a step.
HandedStep ==
    \A p \in Procs :
      /\ ~At(p, "handed")
      /\ task'[p].at = "handed"
      => LET copy == dest'[task'[p].key]
         IN  copy.form = "whole" /\ copy.of \in task[p].since..source
AcceptedStep ==
    \A k \in Keys :
      /\ Hit(k)
      /\ dest'[k] # dest[k]
      => \/ \E p \in Procs : At(p, "age") /\ ~InUse(k)
         \/ \E p \in Procs : At(p, "renamed") /\ Key(p) = k

Kept == CacheIInv' /\ HandedStep /\ AcceptedStep

-----------------------------------------------------------------------------
(* A process goes from one step of the code to the next.                   *)

Moved(p, step) ==
    /\ task' \in [Procs -> Tasks] /\ fd' \in [Procs -> Inodes \cup {0}]
    /\ task'[p].at = step /\ task'[p].key = Key(p) /\ task'[p].since = task[p].since
    /\ \A q \in Procs : q # p => task'[q] = task[q]
    /\ OnlyActive' /\ LockInv' /\ KeyInv'

LEMMA Typed ==
    ASSUME TypeOK, NEW p \in Procs
    PROVE  /\ task[p] \in Tasks /\ fd[p] \in Inodes \cup {0} /\ Key(p) \in Keys
           /\ task[p].since \in Versions /\ task[p].at \in Steps
           /\ fd = [fd EXCEPT ![p] = fd[p]]
BY DEF TypeOK, Tasks, Steps, Key

LEMMA Serving ==
    ASSUME CacheIInv, UNCHANGED serving
    PROVE  \A q \in Procs : serving'[q] # 0 => q \in Active
BY DEF CacheIInv, OnlyActive

LEMMA GoToMoves ==
    ASSUME CacheIInv, NEW p \in Procs, ~At(p, "idle"), NEW step \in Steps, GoTo(p, step),
           UNCHANGED <<setup, source, serving>>,
           linked' = linked \/ setup.cleaners # {},
           \/ fd' = fd /\ (step \in Open <=> task[p].at \in Open)
           \/ Close(p) /\ step \notin Open,
           step \in Locked => HasLock(p) \/ Free(fd[p]),
           step \in Holding => task[p].at \in Holding,
           step \in Cleaning => task[p].at \in Cleaning,
           step \in Ensuring => task[p].at \in Ensuring \ {"listed"}
    PROVE  Moved(p, step)
<1> USE DEF CacheIInv
<1> DEFINE t == [task[p] EXCEPT !.at = step]
           i == IF fd' = fd THEN fd[p] ELSE 0
<1>1. /\ t \in Tasks /\ t.at = step /\ t.key = Key(p) /\ t.since = task[p].since
      /\ task' = [task EXCEPT ![p] = t]
  BY Typed, AtSet DEF GoTo, Key
<1>2. i \in Inodes \cup {0} /\ fd' = [fd EXCEPT ![p] = i] /\ (i = fd[p] \/ step \notin Open)
  BY Typed DEF Close
<1>3. i # 0 <=> step \in Open
  <2>1. CASE fd' = fd
    <3>1. fd[p] # 0 <=> task[p].at \in Open
      BY DEF LockInv
    <3>2. CASE step \in Open <=> task[p].at \in Open
      BY <2>1, <3>1, <3>2
    <3>3. CASE Close(p) /\ step \notin Open
      <4>1. fd[p] = 0
        BY <2>1, <3>3, Typed DEF Close, TypeOK
      <4> QED
        BY <2>1, <3>3, <4>1
    <3> QED
      BY <3>2, <3>3
  <2>2. CASE fd' # fd
    BY <2>2
  <2> QED
    BY <2>1, <2>2
<1> HIDE DEF t, i
<1>4. p \in Active
  BY DEF OnlyActive
<1>5. /\ t.at \in Locked => (i = fd[p] /\ HasLock(p)) \/ Free(i)
      /\ setup.cleaners = {} =>
           /\ t.at \in Holding => linked'[t.key] = i
           /\ \A q \in Procs : q # p /\ task[q].at \in Holding =>
                linked'[Key(q)] = linked[Key(q)]
      /\ t.at \in Cleaning => p \in setup.cleaners
  BY <1>1, <1>2 DEF Locked, Open, Holding, LockInv, Key
<1>6. /\ t.since <= source
      /\ t.at \in Ensuring \ {"listed"} => t.since <= t.key /\ t.key <= source
  BY <1>1 DEF KeyInv
<1>7. /\ task' \in [Procs -> Tasks] /\ fd' \in [Procs -> Inodes \cup {0}]
      /\ task'[p] = t /\ \A q \in Procs : q # p => task'[q] = task[q]
      /\ OnlyActive' /\ LockInv' /\ KeyInv'
  BY <1>1, <1>2, <1>3, <1>4, <1>5, <1>6, Serving, ProcessStep
<1> QED
  BY <1>1, <1>7 DEF Moved

LEMMA GoodStays ==
    ASSUME CacheIInv
    PROVE  \A k \in Keys : Good(k, Nothing, source) /\ Good(k, dest[k], source)
                           /\ Good(k, partial[k], source)
BY DEF CacheIInv, CopyInv, Good

\* A good copy that is there is one of the source since the call began.
LEMMA GoodIsHandable ==
    ASSUME CacheIInv, NEW p \in Procs, NEW k \in Keys, Hit(k), task[p].since <= k
    PROVE  dest[k].form = "whole" /\ dest[k].of \in task[p].since..source
<1>1. dest[k].form = "whole" /\ dest[k].of \in k..source
  BY DEF CacheIInv, CopyInv, Good, Hit
<1>2. task[p].since \in Nat /\ k \in Nat /\ source \in Nat
  BY Typed, KeysNat, SomeSource DEF CacheIInv, Versions, TypeOK
<1> QED
  BY <1>1, <1>2

\* Steps that leave the files alone.
LEMMA MovedKeeps ==
    ASSUME CacheIInv, NEW p \in Procs, NEW step, Moved(p, step),
           UNCHANGED <<setup, source, files>>,
           linked' \in [Keys -> Inodes \cup {0}], serving' \in [Procs -> Keys \cup {0}],
           budget' \in 0..Budget,
           step # "extracted",
           step \in Early => dest[Key(p)] = Nothing,
           step = "handed" => At(p, "handed") \/ (Hit(Key(p)) /\ task[p].since <= Key(p))
    PROVE  Kept
<1> USE DEF CacheIInv
<1>1. TypeOK'
  BY DEF Moved, TypeOK, Tasks, Steps, files
<1>2. CopyInv'
  <2>1. \A q \in Procs : q # p =>
          /\ At(q, "extracted") => Good(Key(q), work'[Key(q)], source)
          /\ task[q].at \in Early => dest'[Key(q)] = Nothing
    BY DEF CopyInv, files
  <2>2. \A k \in Keys : Good(k, dest'[k], source) /\ Good(k, partial'[k], source)
    BY GoodStays DEF files
  <2>3. (task'[p].at = "extracted" => Good(task'[p].key, work'[task'[p].key], source))
        /\ (task'[p].at \in Early => dest'[task'[p].key] = Nothing)
    BY DEF Moved, files
  <2> QED
    BY <2>1, <2>2, <2>3, FileStep DEF Moved
<1>3. HandedStep
  <2>1. ASSUME NEW q \in Procs, ~At(q, "handed"), task'[q].at = "handed"
        PROVE  /\ dest'[task'[q].key].form = "whole"
               /\ dest'[task'[q].key].of \in task[q].since..source
    <3>1. q = p /\ step = "handed" /\ task'[q].key = Key(p) /\ dest' = dest
      BY <2>1 DEF Moved, At, files
    <3> QED
      BY <2>1, <3>1, GoodIsHandable, Typed
  <2> QED
    BY <2>1 DEF HandedStep
<1>4. AcceptedStep
  BY DEF AcceptedStep, files
<1> QED
  BY <1>1, <1>2, <1>3, <1>4 DEF Kept, Moved

-----------------------------------------------------------------------------
(* Steps that touch no file but the lock's.                                *)

\* A process takes up something else.
Turned(p) ==
    /\ task' \in [Procs -> Tasks] /\ fd' \in [Procs -> Inodes \cup {0}]
    /\ \A q \in Procs : q # p => task'[q] = task[q]
    /\ OnlyActive' /\ LockInv' /\ KeyInv'

LEMMA TurnedKeeps ==
    ASSUME CacheIInv, NEW p \in Procs, Turned(p), UNCHANGED <<setup, source, files>>,
           linked' \in [Keys -> Inodes \cup {0}], serving' \in [Procs -> Keys \cup {0}],
           budget' \in 0..Budget,
           task'[p].at \notin Early,
           task'[p].at = "handed" => /\ Hit(task'[p].key) /\ task'[p].key \in Keys
                                     /\ task[p].since <= task'[p].key
    PROVE  Kept
<1> USE DEF CacheIInv
<1>1. TypeOK'
  BY DEF Turned, TypeOK, Tasks, Steps, files
<1>2. CopyInv'
  <2>1. \A q \in Procs : q # p =>
          /\ At(q, "extracted") => Good(Key(q), work'[Key(q)], source)
          /\ task[q].at \in Early => dest'[Key(q)] = Nothing
    BY DEF CopyInv, files
  <2>2. \A k \in Keys : Good(k, dest'[k], source) /\ Good(k, partial'[k], source)
    BY GoodStays DEF files
  <2> QED
    BY <2>1, <2>2, FileStep DEF Turned, Early
<1>3. HandedStep
  <2>1. ASSUME NEW q \in Procs, ~At(q, "handed"), task'[q].at = "handed"
        PROVE  /\ dest'[task'[q].key].form = "whole"
               /\ dest'[task'[q].key].of \in task[q].since..source
    <3>1. q = p /\ dest' = dest
      BY <2>1 DEF Turned, At, files
    <3> QED
      BY <2>1, <3>1, GoodIsHandable
  <2> QED
    BY <2>1 DEF HandedStep
<1>4. AcceptedStep
  BY DEF AcceptedStep, files
<1> QED
  BY <1>1, <1>2, <1>3, <1>4 DEF Kept, Turned

\* A step of a process that ends without the lock file open.
LEMMA ClosedTurn ==
    ASSUME CacheIInv, NEW p \in Procs, NEW t \in Tasks, t.at \notin Open,
           task' = [task EXCEPT ![p] = t],
           Close(p) \/ (fd' = fd /\ task[p].at \notin Open),
           UNCHANGED <<setup, source, linked>>,
           t.at # "idle" => p \in Active,
           t.at \in Cleaning => p \in setup.cleaners,
           t.since <= source,
           t.at \in Ensuring \ {"listed"} => t.since <= t.key /\ t.key <= source,
           \A q \in Procs : serving'[q] # 0 => q \in Active
    PROVE  Turned(p) /\ task'[p] = t
<1>1. fd' = [fd EXCEPT ![p] = 0]
  <2>1. CASE fd' = fd /\ task[p].at \notin Open
    <3>1. fd[p] = 0
      BY <2>1 DEF CacheIInv, LockInv
    <3> QED
      BY <2>1, <3>1, Typed DEF CacheIInv
  <2> QED
    BY <2>1 DEF Close
<1>2. t.at \notin Locked /\ t.at \notin Holding
  BY DEF Open, Locked, Holding
<1>3. /\ task' \in [Procs -> Tasks] /\ fd' \in [Procs -> Inodes \cup {0}]
      /\ task'[p] = t /\ \A q \in Procs : q # p => task'[q] = task[q]
      /\ OnlyActive' /\ LockInv' /\ KeyInv'
  BY <1>1, <1>2, ProcessStep
<1> QED
  BY <1>3 DEF Turned

LEMMA IdleHoldsNothing ==
    ASSUME NEW p, At(p, "idle") \/ At(p, "listed") \/ At(p, "missed") \/ At(p, "handed")
                  \/ At(p, "strip") \/ At(p, "locks") \/ At(p, "age")
    PROVE  task[p].at \notin Open
BY DEF At, Open, Filling

LEMMA BeginKeeps ==
    ASSUME CacheIInv, NEW p \in Procs, Begin(p) \/ StartClean(p)
    PROVE  Kept
<1> USE DEF CacheIInv
<1>1. PICK t \in Tasks :
        /\ task' = [task EXCEPT ![p] = t] /\ t.at \in {"listed", "strip"}
        /\ t.since <= source
        /\ t.at = "strip" => p \in setup.cleaners
        /\ t.at = "listed" => p \in setup.users
  <2>1. CASE Begin(p)
    <3> DEFINE t == [Idle EXCEPT !.at = "listed", !.since = source]
    <3>1. t \in Tasks /\ t.at = "listed" /\ t.since = source
      BY IdleTyped DEF Tasks, Steps, Ensuring, TypeOK
    <3>2. task' = [task EXCEPT ![p] = t] /\ p \in setup.users
      BY <2>1 DEF Begin
    <3> HIDE DEF t
    <3>3. t.since <= source /\ t.at # "strip"
      BY <3>1, SomeSource
    <3> QED
      BY <3>1, <3>2, <3>3
  <2>2. CASE StartClean(p)
    <3> DEFINE t == [Idle EXCEPT !.at = "strip", !.todo = Keys]
    <3>1. t \in Tasks /\ t.at = "strip" /\ t.since = 1
      BY IdleTyped DEF Tasks, Steps, Cleaning
    <3>2. task' = [task EXCEPT ![p] = t] /\ p \in setup.cleaners
      BY <2>2 DEF StartClean
    <3> HIDE DEF t
    <3>3. t.since <= source /\ t.at # "listed"
      BY <3>1, SomeSource
    <3> QED
      BY <3>1, <3>2, <3>3
  <2> QED
    BY <2>1, <2>2
<1>2. /\ UNCHANGED <<setup, source, files, linked, fd, serving, budget>>
      /\ task[p].at \notin Open
  BY IdleHoldsNothing DEF Begin, StartClean
<1>3. /\ t.at \notin Open /\ t.at \notin Early /\ t.at # "handed" /\ p \in Active
      /\ t.at \in Cleaning => p \in setup.cleaners
      /\ t.at \notin Ensuring \ {"listed"}
  BY <1>1 DEF Active, Open, Early, Filling, Cleaning, Ensuring
<1>4. Turned(p) /\ task'[p] = t
  BY <1>1, <1>2, <1>3, ClosedTurn, Serving
<1> QED
  BY <1>2, <1>3, <1>4, TurnedKeeps DEF TypeOK

\* The fast path: the key is the source's version now, so what is found under
\* it is not older than the call.
LEMMA LookUpKeeps ==
    ASSUME CacheIInv, NEW p \in Procs, LookUp(p)
    PROVE  Kept
<1> USE DEF CacheIInv
<1> DEFINE step == IF Hit(source) THEN "handed" ELSE "missed"
           t == [task[p] EXCEPT !.key = source, !.at = step]
<1>1. task[p] \in Tasks /\ source \in Keys /\ task[p].since <= source
  BY Typed DEF TypeOK, KeyInv, Keys
<1>2. /\ t \in Tasks /\ t.at = step /\ t.key = source /\ t.since = task[p].since
      /\ task' = [task EXCEPT ![p] = t]
      /\ step \in {"handed", "missed"} /\ (step = "handed" => Hit(source))
  BY <1>1 DEF LookUp, CacheKeyForSource, Tasks, Steps, Ensuring
<1> HIDE DEF t, step
<1>3. /\ UNCHANGED <<setup, source, files, linked, fd, serving, budget>>
      /\ task[p].at \notin Open /\ p \in Active
  BY IdleHoldsNothing DEF LookUp, OnlyActive, At
<1>4. t.at \notin Open /\ t.at \notin Cleaning /\ t.at \notin Early
  BY <1>2 DEF Open, Filling, Cleaning, Early
<1>5. source <= source
  BY SomeSource
<1>6. Turned(p) /\ task'[p] = t
  BY <1>1, <1>2, <1>3, <1>4, <1>5, ClosedTurn, Serving
<1> QED
  BY <1>1, <1>2, <1>3, <1>4, <1>6, TurnedKeeps DEF TypeOK

LEMMA ServeKeeps ==
    ASSUME CacheIInv, NEW p \in Procs, Serve(p)
    PROVE  Kept
<1> USE DEF CacheIInv
<1>1. /\ task' = [task EXCEPT ![p] = Idle]
      /\ UNCHANGED <<setup, source, files, linked, fd, budget>>
      /\ task[p].at \notin Open /\ p \in Active
  BY IdleHoldsNothing DEF Serve, OnlyActive, At
<1>2. /\ serving' \in [Procs -> Keys \cup {0}]
      /\ \A q \in Procs : serving'[q] # 0 => q \in Active
  BY <1>1, Typed DEF Serve, TypeOK, OnlyActive
<1>3. Idle.at \notin Open /\ Idle.at \notin Cleaning /\ Idle.at \notin Early
      /\ Idle.at \notin Ensuring
  BY IdleTyped DEF Open, Filling, Cleaning, Early, Ensuring
<1>4. Idle \in Tasks /\ Idle.at = "idle" /\ Idle.since <= source
  BY IdleTyped, SomeSource
<1>5. Turned(p) /\ task'[p] = Idle
  <2>1. /\ Idle.at # "idle" => p \in Active
        /\ Idle.at \in Cleaning => p \in setup.cleaners
        /\ Idle.at \in Ensuring \ {"listed"} => Idle.since <= Idle.key /\ Idle.key <= source
        /\ Close(p) \/ (fd' = fd /\ task[p].at \notin Open)
    BY <1>1, <1>3, <1>4
  <2>2. UNCHANGED <<setup, source, linked>>
    BY <1>1
  <2> QED
    BY <1>1, <1>2, <1>3, <1>4, <2>1, <2>2, ClosedTurn
<1> QED
  BY <1>1, <1>2, <1>3, <1>4, <1>5, TurnedKeeps DEF TypeOK

LEMMA CrashKeeps ==
    ASSUME CacheIInv, NEW p \in Procs, Crash(p)
    PROVE  Kept
<1> USE DEF CacheIInv
<1>1. /\ task' = [task EXCEPT ![p] = Idle] /\ Close(p)
      /\ UNCHANGED <<setup, source, files, linked>> /\ budget' \in 0..Budget
  BY CacheAssumption DEF Crash, TypeOK
<1>2. /\ serving' \in [Procs -> Keys \cup {0}]
      /\ \A q \in Procs : serving'[q] # 0 => q \in Active
  BY DEF Crash, TypeOK, OnlyActive
<1>3. Idle.at \notin Open /\ Idle.at \notin Cleaning /\ Idle.at \notin Early
      /\ Idle.at \notin Ensuring
  BY IdleTyped DEF Open, Filling, Cleaning, Early, Ensuring
<1>4. Idle \in Tasks /\ Idle.at = "idle" /\ Idle.since <= source
  BY IdleTyped, SomeSource
<1>5. Turned(p) /\ task'[p] = Idle
  <2>1. /\ Idle.at # "idle" => p \in Active
        /\ Idle.at \in Cleaning => p \in setup.cleaners
        /\ Idle.at \in Ensuring \ {"listed"} => Idle.since <= Idle.key /\ Idle.key <= source
    BY <1>3, <1>4
  <2>2. UNCHANGED <<setup, source, linked>>
    BY <1>1
  <2>3. Close(p) \/ (fd' = fd /\ task[p].at \notin Open)
    BY <1>1 DEF Close
  <2> QED
    BY <1>1, <1>2, <1>3, <1>4, <2>1, <2>2, <2>3, ClosedTurn
<1> QED
  BY <1>1, <1>2, <1>3, <1>4, <1>5, TurnedKeeps DEF TypeOK

\* An unmount, and a new version of the source: no process takes a step.
LEMMA UnmountKeeps ==
    ASSUME CacheIInv, NEW p \in Procs, Unmount(p)
    PROVE  Kept
<1> USE DEF CacheIInv
<1>1. /\ UNCHANGED <<setup, source, dest, partial, work, linked, task, fd, budget>>
      /\ serving' = [serving EXCEPT ![p] = 0]
  BY DEF Unmount, files
<1>2. TypeOK' /\ OnlyActive'
  BY <1>1 DEF TypeOK, OnlyActive, At, Active
<1>3. LockInv' /\ KeyInv' /\ CopyInv'
  BY <1>1 DEF LockInv, KeyInv, CopyInv, HasLock, Key, At
<1>4. HandedStep /\ AcceptedStep
  BY <1>1 DEF HandedStep, AcceptedStep, At
<1> QED
  BY <1>2, <1>3, <1>4 DEF Kept

LEMMA SourceChangesKeeps ==
    ASSUME CacheIInv, SourceChanges
    PROVE  Kept
<1> USE DEF CacheIInv
<1>1. /\ UNCHANGED <<setup, dest, partial, work, linked, task, fd, serving, budget>>
      /\ source' = source + 1 /\ source < MaxVersion
  BY DEF SourceChanges, files
<1>2. source \in Nat /\ source' \in Versions /\ source <= source'
  BY <1>1, CacheAssumption, SomeSource DEF Versions
<1>3. \A k \in Keys : \A x : Good(k, x, source) => Good(k, x, source')
  BY <1>1, <1>2, KeysNat DEF Good
<1>4. TypeOK' /\ OnlyActive' /\ LockInv'
  BY <1>1, <1>2 DEF TypeOK, OnlyActive, LockInv, At, Active, HasLock, Key
<1>5. KeyInv'
  <2>1. \A p \in Procs : task[p].since \in Nat /\ Key(p) \in Nat
    BY Typed, KeysNat DEF Versions
  <2> QED
    BY <1>1, <1>2, <2>1 DEF KeyInv, Key
<1>6. CopyInv'
  BY <1>1, <1>3, Typed DEF CopyInv, At, Key
<1>7. HandedStep /\ AcceptedStep
  BY <1>1 DEF HandedStep, AcceptedStep, At
<1> QED
  BY <1>4, <1>5, <1>6, <1>7 DEF Kept

-----------------------------------------------------------------------------
(* Opening and taking the lock.                                            *)

\* There are more inode numbers than files that are linked or open.
LEMMA FreshInodeIsInode ==
    ASSUME TypeOK, NEW p \in Procs, fd[p] = 0
    PROVE  FreshInode \in Inodes
<1> DEFINE T1 == {linked[k] : k \in Keys}
           T2 == {fd[q] : q \in Procs}
           L == [k \in Keys |-> linked[k]]
           F == [q \in Procs |-> fd[q]]
           n == Cardinality(Procs)
<1>1. /\ IsFiniteSet(Keys) /\ Cardinality(Keys) = MaxVersion
      /\ n \in Nat /\ MaxVersion \in Nat
  <2>1. n \in Nat
    BY CacheAssumption, FS_CardinalityType
  <2>2. 1 \in Int /\ MaxVersion \in Int /\ MaxVersion \in Nat /\ MaxVersion >= 1
    BY CacheAssumption
  <2>3. IsFiniteSet(1..MaxVersion) /\ Cardinality(1..MaxVersion) = MaxVersion
    BY <2>2, FS_Interval
  <2> QED
    BY <2>1, <2>2, <2>3 DEF Keys, Versions
<1>2. IsFiniteSet(T1) /\ Cardinality(T1) <= Cardinality(Keys)
  <2>1. L \in Surjection(Keys, T1)
    BY DEF Surjection
  <2> QED
    BY <1>1, <2>1, FS_Surjection
<1>3. IsFiniteSet(T2) /\ Cardinality(T2) <= n
  <2>1. F \in Surjection(Procs, T2)
    BY DEF Surjection
  <2> QED
    BY <2>1, CacheAssumption, FS_Surjection
<1>4. /\ IsFiniteSet(T1 \cup T2) /\ Cardinality(T1 \cup T2) <= n + MaxVersion
      /\ IsFiniteSet(T1 \cap T2)
  <2>1. IsFiniteSet(T1 \cap T2)
    BY <1>2, FS_Subset, T1 \cap T2 \in SUBSET T1
  <2>2. /\ Cardinality(T1) \in Nat /\ Cardinality(T2) \in Nat
        /\ Cardinality(T1 \cap T2) \in Nat
    BY <1>2, <1>3, <2>1, FS_CardinalityType
  <2>3. /\ IsFiniteSet(T1 \cup T2)
        /\ Cardinality(T1 \cup T2)
             = Cardinality(T1) + Cardinality(T2) - Cardinality(T1 \cap T2)
    BY <1>2, <1>3, FS_Union
  <2> HIDE DEF T1, T2, n
  <2> QED
    BY <1>1, <1>2, <1>3, <2>1, <2>2, <2>3
<1>5. \E i \in Inodes : i \notin T1 \cup T2
  <2> SUFFICES ASSUME Inodes \subseteq T1 \cup T2
               PROVE  FALSE
    OBVIOUS
  <2>1. 0..(n + MaxVersion) \subseteq T1 \cup T2
    <3>1. 0 \in T2
      BY DEF T2
    <3>2. 0..(n + MaxVersion) \subseteq Inodes \cup {0}
      BY <1>1 DEF Inodes
    <3> QED
      BY <3>1, <3>2
  <2>2. Cardinality(0..(n + MaxVersion)) <= Cardinality(T1 \cup T2)
    <3> HIDE DEF T1, T2, n
    <3> QED
      BY <1>4, <2>1, FS_Subset
  <2>3. Cardinality(0..(n + MaxVersion)) = n + MaxVersion + 1
    <3>1. 0 \in Int /\ n + MaxVersion \in Int /\ ~(0 > n + MaxVersion)
      BY <1>1
    <3> HIDE DEF n
    <3> QED
      BY <1>1, <3>1, FS_Interval
  <2>4. Cardinality(T1 \cup T2) \in Nat
    BY <1>4, FS_CardinalityType
  <2> HIDE DEF T1, T2, n
  <2> QED
    BY <1>1, <1>4, <2>2, <2>3, <2>4
<1>6. \E i \in Inodes : (\A k \in Keys : linked[k] # i) /\ (\A q \in Procs : fd[q] # i)
  BY <1>5
<1> QED
  BY <1>6 DEF FreshInode

LEMMA OpenLockKeeps ==
    ASSUME CacheIInv, NEW p \in Procs, OpenLock(p)
    PROVE  Kept
<1> USE DEF CacheIInv
<1> DEFINE k == Key(p)
           i == IF linked[k] = 0 THEN FreshInode ELSE linked[k]
           t == [task[p] EXCEPT !.at = "opened"]
<1>1. /\ task[p].at = "missed" /\ fd[p] = 0 /\ k \in Keys /\ p \in Active
      /\ task[p].since <= k /\ k <= source
  BY Typed DEF OpenLock, At, LockInv, KeyInv, OnlyActive, Ensuring, Open, Filling
<1>2. i \in Inodes
  BY <1>1, FreshInodeIsInode DEF TypeOK
<1>3. /\ t \in Tasks /\ t.at = "opened" /\ t.key = k /\ t.since = task[p].since
      /\ task' = [task EXCEPT ![p] = t]
  <2>1. "opened" \in Steps
    BY DEF Steps, Ensuring
  <2> QED
    BY <2>1, Typed, AtSet DEF OpenLock, GoTo, Key
<1>4. /\ linked' = [linked EXCEPT ![k] = i] /\ fd' = [fd EXCEPT ![p] = i]
      /\ UNCHANGED <<setup, source, files, serving, budget>>
  BY DEF OpenLock
<1> HIDE DEF t
<1>5. i # 0
  BY <1>2 DEF Inodes
<1>6. setup.cleaners = {} =>
        /\ t.at \in Holding => linked'[t.key] = i
        /\ \A q \in Procs : q # p /\ task[q].at \in Holding =>
             linked'[Key(q)] = linked[Key(q)]
  <2>1. linked' \in [Keys -> Inodes \cup {0}] /\ linked'[k] = i
    BY <1>1, <1>2, <1>4 DEF TypeOK
  <2>2. ASSUME setup.cleaners = {}, NEW q \in Procs, task[q].at \in Holding
        PROVE  linked'[Key(q)] = linked[Key(q)]
    <3>1. linked[Key(q)] = fd[q] /\ fd[q] # 0
      BY <2>2 DEF LockInv, Holding, Open
    <3> QED
      BY <1>1, <1>4, <3>1, Typed DEF TypeOK
  <2> QED
    BY <1>3, <2>1, <2>2
<1> HIDE DEF i, k
<1>7. t.at \notin Locked /\ t.at \in Open /\ t.at \notin Cleaning
  BY <1>3 DEF Locked, Open, Filling, Cleaning
<1>8. /\ task' \in [Procs -> Tasks] /\ fd' \in [Procs -> Inodes \cup {0}]
      /\ task'[p] = t /\ \A q \in Procs : q # p => task'[q] = task[q]
      /\ OnlyActive' /\ LockInv' /\ KeyInv'
  <2>1. t.since <= source
    BY <1>3 DEF KeyInv
  <2>2. i \in Inodes \cup {0} /\ (i # 0 <=> t.at \in Open)
    BY <1>2, <1>5, <1>7
  <2> QED
    BY <1>1, <1>3, <1>4, <1>6, <1>7, <2>1, <2>2, Serving, ProcessStep
<1>9. Moved(p, "opened")
  BY <1>3, <1>8 DEF Moved, k
<1>10. linked' \in [Keys -> Inodes \cup {0}]
  BY <1>1, <1>2, <1>4 DEF TypeOK
<1> QED
  BY <1>4, <1>9, <1>10, MovedKeeps DEF TypeOK, Early

LEMMA FlockKeeps ==
    ASSUME CacheIInv, NEW p \in Procs, Flock(p)
    PROVE  Kept
<1>1. /\ task[p].at = "opened" /\ GoTo(p, "held") /\ Free(fd[p])
      /\ UNCHANGED <<setup, source, files, linked, fd, serving, budget>>
  BY DEF Flock, At
<1>2. Moved(p, "held")
  BY <1>1, GoToMoves DEF At, Steps, Ensuring, Cleaning, Filling, Open, Holding
<1> QED
  BY <1>1, <1>2, MovedKeeps DEF Early, CacheIInv, TypeOK

LEMMA TryFlockKeeps ==
    ASSUME CacheIInv, NEW p \in Procs, TryFlock(p)
    PROVE  Kept
<1>1. /\ task[p].at = "trying" /\ task[p].pass \in {"locks", "age"}
      /\ UNCHANGED <<setup, source, files, linked, serving, budget>>
  BY DEF TryFlock, At, CacheIInv, TypeOK
<1>2. PICK step \in {"unlinking", "locks", "age"} : Moved(p, step)
  <2>1. CASE Free(fd[p])
    <3>1. GoTo(p, "unlinking") /\ fd' = fd
      BY <2>1 DEF TryFlock
    <3> QED
      BY <1>1, <2>1, <3>1, GoToMoves
         DEF At, Steps, Ensuring, Cleaning, Filling, Open, Holding
  <2>2. CASE ~Free(fd[p])
    <3>1. PICK step \in {"locks", "age"} : GoTo(p, step) /\ Close(p)
      BY <1>1, <2>2 DEF TryFlock
    <3> QED
      BY <1>1, <3>1, GoToMoves
         DEF At, Steps, Ensuring, Cleaning, Filling, Open, Holding, Locked
  <2> QED
    BY <2>1, <2>2
<1> QED
  BY <1>1, <1>2, MovedKeeps DEF Early, CacheIInv, TypeOK

LEMMA UnlinkKeeps ==
    ASSUME CacheIInv, NEW p \in Procs, Unlink(p)
    PROVE  Kept
<1>1. /\ task[p].at = "unlinking" /\ task[p].pass \in {"locks", "age"}
      /\ linked' = [linked EXCEPT ![Key(p)] = 0] /\ Close(p) /\ GoTo(p, task[p].pass)
      /\ UNCHANGED <<setup, source, files, serving, budget>>
  BY DEF Unlink, At, CacheIInv, TypeOK
<1>2. setup.cleaners # {}
  BY <1>1 DEF CacheIInv, LockInv, Cleaning
<1>3. PICK step \in {"locks", "age"} : step = task[p].pass
  BY <1>1
<1>4. Moved(p, step)
  BY <1>1, <1>2, <1>3, GoToMoves
     DEF At, Steps, Ensuring, Cleaning, Filling, Open, Holding, Locked
<1>5. linked' \in [Keys -> Inodes \cup {0}]
  BY <1>1 DEF CacheIInv, TypeOK
<1> QED
  BY <1>1, <1>4, <1>5, MovedKeeps DEF Early, CacheIInv, TypeOK

-----------------------------------------------------------------------------
(* Filling: a step changes files of its own key, where no other process is.*)

LEMMA FillKeeps ==
    ASSUME CacheIInv, NEW p \in Procs, task[p].at \in Filling,
           NEW step, Moved(p, step),
           UNCHANGED <<setup, source, linked, serving, budget>>,
           dest' \in [Keys -> Things], partial' \in [Keys -> Things],
           work' \in [Keys -> Things],
           \A k \in Keys : k # Key(p) => /\ dest'[k] = dest[k] /\ partial'[k] = partial[k]
                                         /\ work'[k] = work[k],
           Good(Key(p), dest'[Key(p)], source), Good(Key(p), partial'[Key(p)], source),
           step = "extracted" => Good(Key(p), work'[Key(p)], source),
           step \in Early => dest'[Key(p)] = Nothing,
           step = "handed" => dest' = dest /\ Hit(Key(p)),
           \/ dest'[Key(p)] = dest[Key(p)]
           \/ dest[Key(p)] = Nothing
           \/ At(p, "renamed")
    PROVE  Kept
<1> USE DEF CacheIInv
<1>1. TypeOK'
  BY DEF Moved, TypeOK, Tasks, Steps
<1>2. CopyInv'
  <2>1. \A k \in Keys : Good(k, dest'[k], source) /\ Good(k, partial'[k], source)
    BY GoodStays
  <2>2. ASSUME NEW q \in Procs, q # p
        PROVE  /\ At(q, "extracted") => Good(Key(q), work'[Key(q)], source)
               /\ task[q].at \in Early => dest'[Key(q)] = Nothing
    <3>1. task[q].at \in Filling => Key(q) # Key(p)
      BY <2>2, Serialized DEF PopulatesSerialized
    <3>2. At(q, "extracted") \/ task[q].at \in Early => task[q].at \in Filling
      BY DEF At, Early, Filling
    <3>3. Key(q) \in Keys
      BY Typed
    <3> QED
      BY <3>1, <3>2, <3>3 DEF CopyInv
  <2>3. /\ task'[p].at = "extracted" => Good(task'[p].key, work'[task'[p].key], source)
        /\ task'[p].at \in Early => dest'[task'[p].key] = Nothing
    BY DEF Moved
  <2> QED
    BY <2>1, <2>2, <2>3, FileStep DEF Moved
<1>3. HandedStep
  <2>1. ASSUME NEW q \in Procs, ~At(q, "handed"), task'[q].at = "handed"
        PROVE  /\ dest'[task'[q].key].form = "whole"
               /\ dest'[task'[q].key].of \in task[q].since..source
    <3>1. q = p /\ step = "handed" /\ task'[q].key = Key(p) /\ dest' = dest
      BY <2>1 DEF Moved, At
    <3>2. task[p].since <= Key(p) /\ Key(p) \in Keys
      BY Typed DEF KeyInv, Ensuring, Filling
    <3> QED
      BY <2>1, <3>1, <3>2, GoodIsHandable
  <2> QED
    BY <2>1 DEF HandedStep
<1>4. AcceptedStep
  BY DEF AcceptedStep, Hit
<1> QED
  BY <1>1, <1>2, <1>3, <1>4 DEF Kept, Moved

\* What a step of a populate leaves at its key.
LEMMA AtKey ==
    ASSUME CacheIInv, NEW p \in Procs
    PROVE  /\ Key(p) \in Keys /\ Nothing \in Things
           /\ Good(Key(p), dest[Key(p)], source) /\ Good(Key(p), partial[Key(p)], source)
           /\ Good(Key(p), Nothing, source)
           /\ dest \in [Keys -> Things] /\ partial \in [Keys -> Things]
           /\ work \in [Keys -> Things]
           /\ task[p].at \in Early => dest[Key(p)] = Nothing
BY Typed, GoodStays DEF CacheIInv, CopyInv, TypeOK, Things

\* From one step of the populate to the next, or out of it.
LEMMA FillMoves ==
    ASSUME CacheIInv, NEW p \in Procs, task[p].at \in Filling,
           UNCHANGED <<setup, source, linked, serving>>,
           NEW step \in {"idle", "handed"} \cup Filling, GoTo(p, step),
           IF step \in Filling THEN UNCHANGED fd ELSE Close(p)
    PROVE  Moved(p, step)
<1>1. /\ ~At(p, "idle") /\ step \in Steps /\ task[p].at \in Open /\ HasLock(p)
      /\ task[p].at \in Holding /\ task[p].at \in Ensuring \ {"listed"}
  BY DEF At, Filling, Steps, Open, HasLock, Holding, Ensuring
<1>2. step \notin Cleaning /\ (step \in Locked => step \in Filling)
      /\ (step \in Filling <=> step \in Open) /\ (step \in Holding <=> step \in Filling)
  BY DEF Filling, Cleaning, Locked, Open, Holding
<1> QED
  BY <1>1, <1>2, GoToMoves

LEMMA RecheckKeeps ==
    ASSUME CacheIInv, NEW p \in Procs, Recheck(p)
    PROVE  Kept
<1>1. task[p].at = "held" /\ task[p].at \in Filling
  BY DEF Recheck, At, Filling
<1>2. CASE Hit(Key(p))
  <2>1. /\ GoTo(p, "handed") /\ Close(p)
        /\ UNCHANGED <<setup, source, files, linked, serving, budget>>
    BY <1>2 DEF Recheck
  <2>2. Moved(p, "handed")
    BY <1>1, <2>1, FillMoves DEF Filling
  <2>3. dest' = dest /\ partial' = partial /\ work' = work
    BY <2>1 DEF files
  <2>4. "handed" \notin Early
    BY DEF Early
  <2> QED
    BY <1>1, <1>2, <2>1, <2>2, <2>3, <2>4, AtKey, FillKeeps
<1>3. CASE ~Hit(Key(p))
  <2>1. StartFill(p)
    BY <1>3 DEF Recheck
  <2>2. /\ partial' = [partial EXCEPT ![Key(p)] = Nothing]
        /\ work' = [work EXCEPT ![Key(p)] = Nothing]
        /\ UNCHANGED <<setup, source, dest, linked, serving, budget>>
    BY <2>1 DEF StartFill
  <2>3. PICK step \in {"cleared", "idle"} :
          GoTo(p, step) /\ (IF step \in Filling THEN UNCHANGED fd ELSE Close(p))
    BY <2>1 DEF StartFill, Filling
  <2>4. Moved(p, step)
    BY <1>1, <2>2, <2>3, FillMoves DEF Filling
  <2> QED
    BY <1>1, <1>3, <2>2, <2>4, AtKey, FillKeeps DEF Hit
<1> QED
  BY <1>2, <1>3

LEMMA FillFailsKeeps ==
    ASSUME CacheIInv, NEW p \in Procs, FillFails(p)
    PROVE  Kept
<1>1. task[p].at \in Filling
  BY DEF FillFails, Filling
<1>2. /\ GoTo(p, "idle") /\ Close(p)
      /\ partial' = [partial EXCEPT ![Key(p)] = Nothing]
      /\ work' = [work EXCEPT ![Key(p)] = Nothing]
      /\ UNCHANGED <<setup, source, dest, linked, serving, budget>>
  BY DEF FillFails, Fail
<1>3. Moved(p, "idle")
  BY <1>1, <1>2, FillMoves DEF Filling
<1>4. "idle" \notin Early
  BY DEF Early
<1> QED
  BY <1>1, <1>2, <1>3, <1>4, AtKey, FillKeeps

\* 7z reads the source later than the key was made of it.
LEMMA ExtractKeeps ==
    ASSUME CacheIInv, NEW p \in Procs, Extract(p)
    PROVE  Kept
<1>1. task[p].at = "cleared" /\ task[p].at \in Filling
  BY DEF Extract, At, Filling
<1> DEFINE x == [of |-> source, form |-> "whole"]
<1>2. /\ GoTo(p, "extracted") /\ work' = [work EXCEPT ![Key(p)] = x]
      /\ UNCHANGED <<setup, source, dest, partial, linked, fd, serving, budget>>
  BY DEF Extract
<1>3. Moved(p, "extracted")
  BY <1>1, <1>2, FillMoves DEF Filling
<1>4. x \in Things /\ Good(Key(p), x, source)
  <2>1. Key(p) <= source /\ Key(p) \in Nat
    BY <1>1, Typed, KeysNat DEF CacheIInv, KeyInv, Ensuring, Filling
  <2>2. source \in Versions /\ source \in Key(p)..source
    BY <2>1, SomeSource DEF CacheIInv, TypeOK
  <2> QED
    BY <2>2 DEF Things, Good
<1>5. task[p].at \in Early
  BY <1>1 DEF Early
<1> HIDE DEF x
<1> QED
  BY <1>1, <1>2, <1>3, <1>4, <1>5, AtKey, FillKeeps

LEMMA CreateKeeps ==
    ASSUME CacheIInv, NEW p \in Procs, Create(p)
    PROVE  Kept
<1>1. task[p].at = "extracted" /\ task[p].at \in Filling /\ task[p].at \in Early
  BY DEF Create, At, Filling, Early
<1>2. /\ GoTo(p, "created") /\ partial' = [partial EXCEPT ![Key(p)] = work[Key(p)]]
      /\ UNCHANGED <<setup, source, dest, work, linked, fd, serving, budget>>
  BY DEF Create
<1>3. Moved(p, "created")
  BY <1>1, <1>2, FillMoves DEF Filling
<1>4. work[Key(p)] \in Things /\ Good(Key(p), work[Key(p)], source)
  BY <1>1, AtKey DEF CacheIInv, CopyInv, At
<1> QED
  BY <1>1, <1>2, <1>3, <1>4, AtKey, FillKeeps

LEMMA RemoveDestKeeps ==
    ASSUME CacheIInv, NEW p \in Procs, RemoveDest(p)
    PROVE  Kept
<1>1. task[p].at = "created" /\ task[p].at \in Filling /\ task[p].at \in Early
  BY DEF RemoveDest, At, Filling, Early
<1>2. /\ GoTo(p, "removed") /\ dest' = [dest EXCEPT ![Key(p)] = Nothing]
      /\ UNCHANGED <<setup, source, partial, work, linked, fd, serving, budget>>
  BY DEF RemoveDest
<1>3. Moved(p, "removed")
  BY <1>1, <1>2, FillMoves DEF Filling
<1> QED
  BY <1>1, <1>2, <1>3, AtKey, FillKeeps

LEMMA RenameKeeps ==
    ASSUME CacheIInv, NEW p \in Procs, Rename(p)
    PROVE  Kept
<1>1. task[p].at = "removed" /\ task[p].at \in Filling /\ task[p].at \in Early
  BY DEF Rename, At, Filling, Early
<1>2. /\ GoTo(p, "renamed") /\ dest' = [dest EXCEPT ![Key(p)] = partial[Key(p)]]
      /\ partial' = [partial EXCEPT ![Key(p)] = Nothing]
      /\ work' = [work EXCEPT ![Key(p)] = Nothing]
      /\ UNCHANGED <<setup, source, linked, fd, serving, budget>>
  BY DEF Rename
<1>3. Moved(p, "renamed")
  BY <1>1, <1>2, FillMoves DEF Filling
<1>4. "renamed" \notin Early
  BY DEF Early
<1> QED
  BY <1>1, <1>2, <1>3, <1>4, AtKey, FillKeeps

LEMMA VerifyKeeps ==
    ASSUME CacheIInv, NEW p \in Procs, Verify(p)
    PROVE  Kept
<1>1. task[p].at = "renamed" /\ task[p].at \in Filling
  BY DEF Verify, At, Filling
<1>2. /\ Close(p) /\ UNCHANGED <<setup, source, partial, work, linked, serving, budget>>
      /\ \/ Hit(Key(p)) /\ GoTo(p, "handed") /\ dest' = dest
         \/ GoTo(p, "idle") /\ dest' = [dest EXCEPT ![Key(p)] = Nothing]
  BY DEF Verify
<1>3. PICK step \in {"handed", "idle"} :
        /\ GoTo(p, step)
        /\ step = "handed" => Hit(Key(p)) /\ dest' = dest
        /\ step = "idle" => dest' = [dest EXCEPT ![Key(p)] = Nothing]
  BY <1>2
<1>4. Moved(p, step)
  BY <1>1, <1>2, <1>3, FillMoves DEF Filling
<1>5. step \notin Early
  BY <1>3 DEF Early
<1> QED
  BY <1>1, <1>2, <1>3, <1>4, <1>5, AtKey, FillKeeps DEF At

-----------------------------------------------------------------------------
(* The cleaner: no other process is at anything.                           *)

\* A step of a cleaner that may take files away.
LEMMA CleanKeeps ==
    ASSUME CacheIInv, NEW p \in Procs, task[p].at \in Cleaning, Turned(p),
           UNCHANGED <<setup, source, linked, serving, budget>>,
           task'[p].at \in {"idle"} \cup Cleaning,
           dest' \in [Keys -> Things], work' \in [Keys -> Things],
           \A k \in Keys : dest'[k] \in {dest[k], Nothing},
           \A k \in Keys : dest'[k] # dest[k] => At(p, "age") /\ k \notin LivePaths(p),
           partial' \in [Keys -> Things],
           \A k \in Keys : partial'[k] \in {partial[k], Nothing}
    PROVE  Kept
<1> USE DEF CacheIInv
<1>1. TypeOK'
  BY DEF Turned, TypeOK, Tasks, Steps
<1>2. \A q \in Procs : q # p => At(q, "idle") /\ serving[q] = 0
  <2>1. p \in setup.cleaners
    BY DEF LockInv
  <2> QED
    BY <2>1, SetupAlone DEF Active, OnlyActive
<1>3. \A k \in Keys : Good(k, dest'[k], source) /\ Good(k, partial'[k], source)
  BY GoodStays
<1>4. CopyInv'
  <2>1. \A q \in Procs : q # p => ~At(q, "extracted") /\ task[q].at \notin Early
    BY <1>2 DEF At, Early
  <2>2. task'[p].at # "extracted" /\ task'[p].at \notin Early
    BY DEF Early, Cleaning
  <2> QED
    BY <1>3, <2>1, <2>2, FileStep DEF Turned
<1>5. HandedStep
  <2>1. \A q \in Procs : task'[q].at = "handed" => At(q, "handed")
    BY DEF Turned, Cleaning, At
  <2> QED
    BY <2>1 DEF HandedStep
<1>6. AcceptedStep
  <2>1. ASSUME NEW k \in Keys, k \notin LivePaths(p)
        PROVE  ~InUse(k)
    <3>1. k # 0
      BY KeysNat
    <3> QED
      BY <1>2, <2>1, <3>1 DEF LivePaths, InUse
  <2> QED
    BY <2>1 DEF AcceptedStep
<1> QED
  BY <1>1, <1>4, <1>5, <1>6 DEF Kept, Turned

\* A step of the cleaner without a lock file open.
LEMMA CleanTurn ==
    ASSUME CacheIInv, NEW p \in Procs, task[p].at \in {"strip", "locks", "age"},
           NEW t \in Tasks, t.at \in {"idle", "strip", "locks", "age"},
           t.since = task[p].since \/ t = Idle,
           task' = [task EXCEPT ![p] = t], UNCHANGED <<setup, source, linked, fd, serving>>
    PROVE  Turned(p) /\ task'[p] = t /\ t.at \notin Early /\ t.at # "handed"
<1>1. /\ task[p].at \notin Open /\ t.at \notin Open
      /\ t.at \notin Ensuring /\ t.at \notin Early /\ t.at # "handed"
  BY DEF Open, Filling, Ensuring, Early
<1>2. p \in setup.cleaners /\ p \in Active
  BY DEF CacheIInv, LockInv, Cleaning, Active
<1>3. t.since <= source
  BY IdleTyped, SomeSource DEF CacheIInv, KeyInv
<1>4. Turned(p) /\ task'[p] = t
  BY <1>1, <1>2, <1>3, Serving, ClosedTurn
<1> QED
  BY <1>1, <1>4

\* An entry of a pass is done.
LEMMA DoneTurns ==
    ASSUME CacheIInv, NEW p \in Procs, task[p].at \in {"strip", "locks", "age"},
           NEW k, Done(p, k), UNCHANGED <<setup, source, linked, fd, serving>>
    PROVE  Turned(p) /\ task'[p].at = task[p].at
<1> DEFINE rest == Rest(p, k)
           t == [task[p] EXCEPT !.todo = rest]
<1>1. t \in Tasks /\ t.at = task[p].at /\ t.since = task[p].since
  <2>1. task[p] \in Tasks /\ rest \in SUBSET Keys
    BY Typed DEF Tasks, CacheIInv, Rest
  <2> HIDE DEF rest
  <2> QED
    BY <2>1 DEF Tasks
<1>2. task' = [task EXCEPT ![p] = t]
  BY DEF Done
<1> HIDE DEF t
<1> QED
  BY <1>1, <1>2, CleanTurn

\* The lock file of an entry is opened, if there is one.
LEMMA TryLockFileTurns ==
    ASSUME CacheIInv, NEW p \in Procs, task[p].at \in {"strip", "locks", "age"},
           NEW k \in Keys, TryLockFile(p, k), UNCHANGED <<setup, source, linked, serving>>
    PROVE  Turned(p) /\ task'[p].at \in {task[p].at, "trying"}
<1>1. CASE linked[k] = 0
  BY <1>1, DoneTurns DEF TryLockFile
<1>2. CASE linked[k] # 0
  <2> DEFINE rest == Rest(p, k)
             t == [task[p] EXCEPT !.at = "trying", !.key = k, !.todo = rest]
             i == linked[k]
  <2>0. task' = [task EXCEPT ![p] = t] /\ fd' = [fd EXCEPT ![p] = i]
    BY <1>2 DEF TryLockFile
  <2>1. t \in Tasks /\ t.at = "trying" /\ t.since = task[p].since
    <3>1. task[p] \in Tasks /\ rest \in SUBSET Keys /\ "trying" \in Steps
      BY Typed DEF Tasks, CacheIInv, Rest, Steps, Cleaning
    <3> HIDE DEF rest
    <3> QED
      BY <3>1 DEF Tasks
  <2>2. i \in Inodes \cup {0} /\ i # 0
    BY <1>2 DEF CacheIInv, TypeOK
  <2> HIDE DEF t, i
  <2>3. /\ t.at \in Open /\ t.at \notin Locked /\ t.at \notin Holding /\ t.at \notin Ensuring
    BY <2>1 DEF Open, Locked, Holding, Ensuring, Filling
  <2>4. p \in setup.cleaners /\ p \in Active
    BY DEF CacheIInv, LockInv, Cleaning, Active
  <2>5. t.since <= source
    BY <2>1 DEF CacheIInv, KeyInv
  <2>6. /\ task' \in [Procs -> Tasks] /\ fd' \in [Procs -> Inodes \cup {0}]
        /\ task'[p] = t /\ \A q \in Procs : q # p => task'[q] = task[q]
        /\ OnlyActive' /\ LockInv' /\ KeyInv'
    BY <2>0, <2>1, <2>2, <2>3, <2>4, <2>5, Serving, ProcessStep
  <2> QED
    BY <2>1, <2>6 DEF Turned
<1> QED
  BY <1>1, <1>2

LEMMA NextPassKeeps ==
    ASSUME CacheIInv, NEW p \in Procs, NextPass(p)
    PROVE  Kept
<1>1. PICK t \in Tasks :
        /\ t.at \in {"idle", "locks", "age"} /\ (t.since = task[p].since \/ t = Idle)
        /\ task' = [task EXCEPT ![p] = t]
  <2>1. CASE At(p, "strip")
    <3> DEFINE t == [task[p] EXCEPT !.at = "locks", !.todo = Keys]
    <3>1. t \in Tasks /\ t.at = "locks" /\ t.since = task[p].since
      BY Typed DEF CacheIInv, Tasks, Steps, Cleaning
    <3>2. task' = [task EXCEPT ![p] = t]
      BY <2>1 DEF NextPass, At
    <3> HIDE DEF t
    <3> QED
      BY <3>1, <3>2
  <2>2. CASE At(p, "locks")
    <3> DEFINE t == [task[p] EXCEPT !.at = "age", !.todo = Keys, !.pass = "age"]
    <3>1. t \in Tasks /\ t.at = "age" /\ t.since = task[p].since
      BY Typed DEF CacheIInv, Tasks, Steps, Cleaning
    <3>2. task' = [task EXCEPT ![p] = t]
      BY <2>2 DEF NextPass, At
    <3> HIDE DEF t
    <3> QED
      BY <3>1, <3>2
  <2>3. CASE At(p, "age")
    BY <2>3, IdleTyped DEF NextPass, At
  <2> QED
    BY <2>1, <2>2, <2>3 DEF NextPass
<1>2. /\ task[p].at \in {"strip", "locks", "age"}
      /\ UNCHANGED <<setup, source, files, linked, fd, serving, budget>>
  BY DEF NextPass, At
<1>3. Turned(p) /\ task'[p] = t /\ t.at \notin Early /\ t.at # "handed"
  BY <1>1, <1>2, CleanTurn
<1> QED
  BY <1>2, <1>3, TurnedKeeps DEF CacheIInv, TypeOK

LEMMA StripKeeps ==
    ASSUME CacheIInv, NEW p \in Procs, NEW k \in Keys, Strip(p, k)
    PROVE  Kept
<1>1. /\ task[p].at = "strip" /\ task[p].at \in Cleaning
      /\ UNCHANGED <<setup, source, dest, linked, fd, serving, budget>>
  BY DEF Strip, At, Cleaning
<1>2. Turned(p) /\ task'[p].at = "strip"
  <2>1. CASE Done(p, k)
    BY <1>1, <2>1, DoneTurns
  <2>2. CASE task' = task
    <3>1. task' = [task EXCEPT ![p] = task[p]] /\ task[p] \in Tasks
      BY <2>2, Typed DEF CacheIInv, TypeOK
    <3> QED
      BY <1>1, <3>1, CleanTurn
  <2> QED
    BY <2>1, <2>2 DEF Strip
<1>3. /\ work' \in [Keys -> Things] /\ partial' \in [Keys -> Things]
      /\ \A j \in Keys : partial'[j] \in {partial[j], Nothing}
  <2>1. CASE work[k].form = "whole"
    <3> DEFINE x == [work[k] EXCEPT !.form = "cut"]
    <3>1. x \in Things
      BY <2>1 DEF CacheIInv, TypeOK, Things, Nothing
    <3>2. work' = [work EXCEPT ![k] = x] /\ partial' = partial
      BY <2>1 DEF Strip
    <3> HIDE DEF x
    <3> QED
      BY <3>1, <3>2 DEF CacheIInv, TypeOK
  <2>2. CASE work[k].form # "whole"
    <3>1. work' = [work EXCEPT ![k] = Nothing] /\ partial' = [partial EXCEPT ![k] = Nothing]
      BY <2>2 DEF Strip
    <3> QED
      BY <3>1 DEF CacheIInv, TypeOK, Things
  <2> QED
    BY <2>1, <2>2
<1> QED
  BY <1>1, <1>2, <1>3, CleanKeeps DEF CacheIInv, TypeOK

LEMMA LookAtLockKeeps ==
    ASSUME CacheIInv, NEW p \in Procs, NEW k \in Keys, LookAtLock(p, k)
    PROVE  Kept
<1>1. /\ task[p].at = "locks" /\ task[p].at \in Cleaning
      /\ UNCHANGED <<setup, source, files, linked, serving, budget>>
      /\ UNCHANGED <<dest, partial, work>>
  BY DEF LookAtLock, At, Cleaning, files
<1>2. Turned(p) /\ task'[p].at \in {"locks", "trying"}
  <2>1. CASE Done(p, k) /\ UNCHANGED fd
    BY <1>1, <2>1, DoneTurns
  <2>2. CASE TryLockFile(p, k)
    BY <1>1, <2>2, TryLockFileTurns
  <2> QED
    BY <2>1, <2>2 DEF LookAtLock
<1> QED
  BY <1>1, <1>2, CleanKeeps DEF CacheIInv, TypeOK, Cleaning

LEMMA AgePruneKeeps ==
    ASSUME CacheIInv, NEW p \in Procs, NEW k \in Keys, AgePrune(p, k)
    PROVE  Kept
<1>1. /\ task[p].at = "age" /\ task[p].at \in Cleaning
      /\ UNCHANGED <<setup, source, partial, work, linked, serving, budget>>
  BY DEF AgePrune, At, Cleaning
<1>2. Turned(p) /\ task'[p].at \in {"age", "trying"}
  <2>1. CASE Done(p, k) /\ UNCHANGED fd
    BY <1>1, <2>1, DoneTurns
  <2>2. CASE TryLockFile(p, k)
    BY <1>1, <2>2, TryLockFileTurns
  <2> QED
    BY <2>1, <2>2 DEF AgePrune
<1>3. /\ dest' \in [Keys -> Things] /\ \A j \in Keys : dest'[j] \in {dest[j], Nothing}
      /\ \A j \in Keys : dest'[j] # dest[j] => At(p, "age") /\ j \notin LivePaths(p)
  BY DEF AgePrune, CacheIInv, TypeOK, Things
<1> QED
  BY <1>1, <1>2, <1>3, CleanKeeps DEF CacheIInv, TypeOK, Cleaning

-----------------------------------------------------------------------------
(* The whole of it.                                                        *)

LEMMA CacheInit == Init => CacheIInv
<1> SUFFICES ASSUME Init
             PROVE  CacheIInv
  OBVIOUS
<1>1. TypeOK
  BY CacheAssumption, KeysNat, IdleTyped
     DEF Init, TypeOK, Things, Versions, Tasks, Steps, Keys
<1>2. OnlyActive /\ KeyInv
  BY IdleTyped DEF Init, OnlyActive, KeyInv, At, Ensuring, Filling
<1>3. LockInv
  BY IdleTyped DEF Init, LockInv, HasLock, Open, Holding, Filling, Cleaning
<1>4. CopyInv
  BY IdleTyped DEF Init, CopyInv, Good, At, Early
<1> QED
  BY <1>1, <1>2, <1>3, <1>4 DEF CacheIInv

LEMMA CacheNext ==
    ASSUME CacheIInv, [Next]_vars
    PROVE  Kept
<1>1. CASE UNCHANGED vars
  <2>1. TypeOK' /\ OnlyActive'
    BY <1>1 DEF vars, files, CacheIInv, TypeOK, OnlyActive, At, Active
  <2>2. LockInv' /\ KeyInv' /\ CopyInv'
    BY <1>1 DEF vars, files, CacheIInv, LockInv, KeyInv, CopyInv, HasLock, Key, At
  <2>3. HandedStep /\ AcceptedStep
    BY <1>1 DEF vars, files, HandedStep, AcceptedStep, At
  <2> QED
    BY <2>1, <2>2, <2>3 DEF Kept, CacheIInv
<1>2. ASSUME NEW p \in Procs, Ensure(p)
      PROVE  Kept
  BY <1>2, LookUpKeeps, OpenLockKeeps, RecheckKeeps, ExtractKeeps, CreateKeeps,
     FillFailsKeeps, RemoveDestKeeps, RenameKeeps, VerifyKeeps, ServeKeeps DEF Ensure
<1>3. ASSUME NEW p \in Procs, Clean(p)
      PROVE  Kept
  BY <1>3, BeginKeeps, NextPassKeeps, TryFlockKeeps, UnlinkKeeps, StripKeeps,
     LookAtLockKeeps, AgePruneKeeps DEF Clean
<1> QED
  BY <1>1, <1>2, <1>3, BeginKeeps, FlockKeeps, UnmountKeeps, CrashKeeps,
     SourceChangesKeeps DEF Next

LEMMA CacheIInvHolds == Spec => []CacheIInv
<1>1. CacheIInv /\ [Next]_vars => CacheIInv'
  BY CacheNext DEF Kept
<1> QED
  BY CacheInit, <1>1, PTL DEF Spec

\* No two processes are at the populate of one copy (withNonsolidCacheLock,
\* outer_cache.go): every process is at a step of the code, too.
THEOREM CacheInvHolds == Spec => []CacheInv
<1>1. CacheIInv => CacheInv
  BY Serialized DEF CacheIInv, CacheInv
<1> QED
  BY <1>1, CacheIInvHolds, PTL

\* What EnsureNonsolidCachedCopy ends with is a whole copy of the source as it
\* was at some moment of the call.
THEOREM HandedIsWholeHolds == Spec => HandedIsWhole
<1>1. CacheIInv /\ [Next]_vars => [HandedStep]_vars
  BY CacheNext DEF Kept
<1>2. [][HandedStep]_vars => HandedIsWhole
  BY PTL DEF HandedStep, HandedIsWhole
<1> HIDE DEF HandedStep
<1>3. Spec => [][HandedStep]_vars
  BY <1>1, CacheIInvHolds, PTL DEF Spec
<1> QED
  BY <1>2, <1>3, PTL

\* A copy that is there stays until the check of who made it or the age prune
\* of its own daemon takes it away, and then it serves no mount.
THEOREM AcceptedCopyKeptHolds == Spec => AcceptedCopyKept
<1>1. CacheIInv /\ [Next]_vars => [AcceptedStep]_vars
  BY CacheNext DEF Kept
<1>2. [][AcceptedStep]_vars => AcceptedCopyKept
  BY PTL DEF AcceptedStep, AcceptedCopyKept
<1>3. Spec => [][AcceptedStep]_vars
  BY <1>1, CacheIInvHolds, PTL DEF Spec
<1> QED
  BY <1>2, <1>3, PTL

=============================================================================
