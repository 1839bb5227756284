------------------------------ MODULE Scanner ------------------------------
(***************************************************************************)
(* One discovery pass over the source directories (internal/scanner): the  *)
(* stable-file gate and the row are brought up to date for every path seen *)
(* (phase "scan", or "assume" with assume_stable), then the rows whose     *)
(* path was not seen become absent (phase "absent").  Children are never   *)
(* touched: a mounted row may leave mounted while its child still serves.  *)
(***************************************************************************)
EXTENDS DaemonState

\* ListSourceFiles: the regular files of the source directories; a directory
\* that is not there has none.
Listed == {p \in Paths : file[p] # Gone}

\* StableFileGate.Check, mode two_scans; ForgetMissing for a path not seen.
Observed(p) ==
    IF p \notin Listed THEN [seen |-> Gone, n |-> 0]
    ELSE [seen |-> file[p],
          n    |-> IF phase = "assume" \/ gate[p].seen = file[p] THEN 2 ELSE 1]

\* A path without a row gets one, under an id not used before.
NewIds(p) == {a \in Archives : PathOf[a] = p /\ rows[a].status = "unborn"}

ObservePath(p) ==
    /\ phase \in {"scan", "assume"}
    /\ p \in todo
    /\ todo' = todo \ {p}
    /\ gate' = [gate EXCEPT ![p] = Observed(p)]
    /\ \/ /\ p \notin Listed \/ (RowsAt(p) = {} /\ NewIds(p) = {})
          /\ UNCHANGED rows
       \/ /\ p \in Listed
          /\ \E a \in RowsAt(p) :
               rows' = [rows EXCEPT ![a] = ObservedRow(@, file[p], ResetHooksOnChange)]
       \/ /\ p \in Listed /\ RowsAt(p) = {}
          /\ \E a \in NewIds(p) :
               rows' = [rows EXCEPT ![a] = InsertDiscovered(@, file[p])]
    /\ UNCHANGED <<live, kids, index, world, phase, lowDisk>>

\* Mutant: a path is taken as missing until it is stable.
AbsentDueUnstable(a) ==
    rows[a].status \in ActiveStatuses /\ ~Stable(PathOf[a])
\* The gate keeps exactly the paths of this pass: n = 0 means not seen.
AbsentDue(a) ==
    rows[a].status \in ActiveStatuses /\ gate[PathOf[a]].n = 0
ScanAbsent(a) ==
    /\ Visit("absent", a)
    /\ AbsentDue(a)
    /\ rows' = [rows EXCEPT ![a] = MarkAbsent(@)]
    /\ UNCHANGED <<live, kids, index, world, gate, phase, lowDisk>>

=============================================================================
