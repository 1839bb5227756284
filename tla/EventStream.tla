---------------------------- MODULE EventStream ----------------------------
(***************************************************************************)
(* GET /api/events and the dashboard that reads it.  The daemon's status   *)
(* document reaches each dashboard by three ways that overlap: the initial *)
(* and periodic full snapshots of its event stream, the differences the    *)
(* stream sends in between, and the /api/archives answers the dashboard    *)
(* asks for itself.  A stream is read in order; an answer that was made    *)
(* before an event may arrive after it.                                    *)
(*                                                                         *)
(*   now      the document the daemon would give: a row per archive, and   *)
(*            mark, its last_scan_at; low_disk goes the way of the counts  *)
(*   notify   Service.changeNotify, one place, shared by all streams       *)
(*   prev     the stream's last document, or Closed without a stream       *)
(*   turn     refreshes since the last full snapshot                       *)
(*   pipe     events sent and not yet read by the dashboard                *)
(*   view     what the dashboard shows: the table and the overview         *)
(*   polling  the fallback poll timer                                      *)
(*   answer   the dashboard's own request: none, asked, or its answer      *)
(*   pure     no answer was applied since the last full snapshot (history) *)
(*   changes  changes and faults left                                      *)
(***************************************************************************)
EXTENDS Integers, Sequences, FiniteSets

CONSTANTS
    Clients,    \* open dashboards
    Archives,   \* archive ids
    Rows,       \* contents of a row of the status document
    Watched,    \* Watched[r]: the fields of r in archiveWatchKeys
    NoRow,      \* the archive is not in the document
    Marks,      \* values of last_scan_at, 0 until a daemon has scanned
    FullEvery,  \* SSEFullSnapshotEvery
    Room,       \* bound: events a connection holds before its writer waits
    Closed, None, Asked,
    MaxChanges  \* bound: changes of the document and faults

ASSUME FullEveryAssumption == FullEvery \in Nat \ {0}
ASSUME RoomAssumption == Room \in Nat \ {0}
ASSUME NoRowAssumption == NoRow \notin Rows
ASSUME MarksAssumption == 0 \in Marks
ASSUME WatchedAssumption == Watched \in [Rows -> Rows]
ASSUME MaxChangesAssumption == MaxChanges \in Nat

VARIABLES now, notify, prev, turn, pipe, view, polling, answer, pure, changes

server == <<prev, turn>>
dashboard == <<view, polling, answer, pure>>
streamVars ==
    <<now, notify, prev, turn, pipe, view, polling, answer, pure, changes>>

Tables == [Archives -> Rows \cup {NoRow}]
Documents == [rows : Tables, mark : Marks]

EmptyTable == [a \in Archives |-> NoRow]

\* The counts of status.Build, from the rows.
Counts(rows) ==
    [w \in {Watched[r] : r \in Rows} |->
        Cardinality({a \in Archives : rows[a] # NoRow /\ Watched[rows[a]] = w})]

\* buildCountsEvent: the overview, which repeats last_scan_at.
Overview(doc) == [counts |-> Counts(doc.rows), mark |-> doc.mark]

Overviews == {Overview(doc) : doc \in Documents}
Views == [table : Tables, overview : Overviews]

\* applyOverview: an overview without a last_scan_at leaves the one shown.
WithOverview(v, o) ==
    [v EXCEPT !.overview =
        [counts |-> o.counts,
         mark |-> IF o.mark = 0 THEN v.overview.mark ELSE o.mark]]

\* applySnapshot: what v shows once it is given the document.
Shown(v, doc) == [WithOverview(v, Overview(doc)) EXCEPT !.table = doc.rows]

\* archiveWatchEqual
SameWatched(r, s) ==
    \/ r = NoRow /\ s = NoRow
    \/ r # NoRow /\ s # NoRow /\ Watched[r] = Watched[s]

Snapshot(doc) == [kind |-> "snapshot", doc |-> doc]

\* Mutant: only rows that were there before are compared.
PatchesOfKnown(old, new) ==
    {a \in Archives : /\ old.rows[a] # NoRow /\ new.rows[a] # NoRow
                      /\ ~SameWatched(old.rows[a], new.rows[a])}

\* The rows that are new or changed, and those that are gone.
Patches(old, new) ==
    {a \in Archives : /\ new.rows[a] # NoRow
                      /\ ~SameWatched(old.rows[a], new.rows[a])}
Removed(old, new) ==
    {a \in Archives : old.rows[a] # NoRow /\ new.rows[a] = NoRow}

\* DiffSnapshots: the counts event first, then the archive event.
Deltas(old, new) ==
    (IF Overview(old) = Overview(new) THEN <<>>
       ELSE <<[kind |-> "counts", overview |-> Overview(new)]>>)
    \o
    (IF Patches(old, new) \cup Removed(old, new) = {} THEN <<>>
       ELSE <<[kind |-> "archive",
               rows |-> [a \in Patches(old, new) |-> new.rows[a]],
               removed |-> Removed(old, new)]>>)

\* patchArchiveRows: removals, then rows put in place or added.
PatchTable(table, e) ==
    [a \in Archives |-> IF a \in DOMAIN e.rows THEN e.rows[a]
                        ELSE IF a \in e.removed THEN NoRow ELSE table[a]]

\* What the dashboard shows after an event.
Applied(v, e) ==
    CASE e.kind = "snapshot" -> Shown(v, e.doc)
      [] e.kind = "counts"   -> WithOverview(v, e.overview)
      [] e.kind = "archive"  -> [v EXCEPT !.table = PatchTable(@, e)]

-----------------------------------------------------------------------------
\* The dashboard asks for the archives and connects; it polls until the
\* stream proves healthy.
StreamInit ==
    /\ now = [rows |-> EmptyTable, mark |-> 0]
    /\ notify = FALSE
    /\ prev = [c \in Clients |-> Closed]
    /\ turn = [c \in Clients |-> 0]
    /\ pipe = [c \in Clients |-> <<>>]
    /\ view = [c \in Clients |->
                  [table |-> EmptyTable, overview |-> Overview(now)]]
    /\ polling = [c \in Clients |-> TRUE]
    /\ answer = [c \in Clients |-> Asked]
    /\ pure = [c \in Clients |-> FALSE]
    /\ changes = MaxChanges

SpendChange == changes > 0 /\ changes' = changes - 1

\* One row, or the mark, is another; a daemon that starts anew has no mark.
Steps(doc) ==
    {[doc EXCEPT !.rows = [doc.rows EXCEPT ![a] = r]] :
         a \in Archives, r \in Rows \cup {NoRow}}
      \cup {[doc EXCEPT !.mark = m] : m \in Marks}

\* A tick or a control operation changes the document and leaves a token in
\* notify; what changes with time or in a child leaves none.
Change(doc, wakes) ==
    /\ doc \in Steps(now) \ {now}
    /\ SpendChange
    /\ now' = doc
    /\ notify' = (notify \/ wakes)
    /\ UNCHANGED <<server, pipe, dashboard>>

\* statusOptions: when the store cannot list its rows the document has none,
\* and says it is ok.
Reads(doc) ==
    \/ doc = now /\ UNCHANGED changes
    \/ doc = [now EXCEPT !.rows = EmptyTable] /\ doc # now /\ SpendChange

\* A new stream starts with a full snapshot.  The dashboard stops polling.
Connect(c, doc) ==
    /\ prev[c] = Closed
    /\ Reads(doc)
    /\ prev' = [prev EXCEPT ![c] = doc]
    /\ turn' = [turn EXCEPT ![c] = 0]
    /\ pipe' = [pipe EXCEPT ![c] = <<Snapshot(doc)>>]
    /\ polling' = [polling EXCEPT ![c] = FALSE]
    /\ UNCHANGED <<now, notify, view, answer, pure>>

Sent(c, doc, events) ==
    /\ pipe' = [pipe EXCEPT ![c] = @ \o events]
    /\ prev' = [prev EXCEPT ![c] = doc]

\* emitSSERefresh on a wake: differences only.  One stream takes the token.
Wake(c, doc) ==
    /\ prev[c] # Closed /\ Len(pipe[c]) <= Room
    /\ notify
    /\ notify' = FALSE
    /\ Reads(doc)
    /\ Sent(c, doc, Deltas(prev[c], doc))
    /\ UNCHANGED <<now, turn, dashboard>>

\* A stream that is not one of Clients takes the token.
TakenElsewhere ==
    /\ notify
    /\ notify' = FALSE
    /\ UNCHANGED <<now, server, pipe, dashboard, changes>>

\* Mutant: the full snapshot is only sent when something changed.
DueIfChanged(c, doc) == turn[c] + 1 >= FullEvery /\ doc # prev[c]

Due(c, doc) == turn[c] + 1 >= FullEvery

NextTurn(n) == (n + 1) % FullEvery

\* emitSSERefresh on the ticker: differences, and in its turn a full snapshot.
Refresh(c, doc) ==
    /\ prev[c] # Closed /\ Len(pipe[c]) <= Room
    /\ Reads(doc)
    /\ Sent(c, doc, Deltas(prev[c], doc)
                      \o IF Due(c, doc) THEN <<Snapshot(doc)>> ELSE <<>>)
    /\ turn' = [turn EXCEPT ![c] = NextTurn(@)]
    /\ UNCHANGED <<now, notify, dashboard>>

\* The dashboard reads an event.  After a full snapshot it may ask for the
\* archives again.
Deliver(c) ==
    /\ pipe[c] # <<>>
    /\ LET e == Head(pipe[c]) IN
         /\ view' = [view EXCEPT ![c] = Applied(@, e)]
         /\ pure' = [pure EXCEPT ![c] = @ \/ e.kind = "snapshot"]
         /\ answer' \in
              {answer} \cup
              {[answer EXCEPT ![c] = Asked] :
                 x \in {y \in {c} : e.kind = "snapshot" /\ answer[c] = None}}
    /\ pipe' = [pipe EXCEPT ![c] = Tail(@)]
    /\ UNCHANGED <<now, notify, server, polling, changes>>

PollsOnError(c) == polling' = [polling EXCEPT ![c] = TRUE]

\* The connection fails: what was under way is lost, the dashboard polls and
\* reconnects later.
Drop(c) ==
    /\ prev[c] # Closed
    /\ SpendChange
    /\ prev' = [prev EXCEPT ![c] = Closed]
    /\ turn' = [turn EXCEPT ![c] = 0]
    /\ pipe' = [pipe EXCEPT ![c] = <<>>]
    /\ PollsOnError(c)
    /\ UNCHANGED <<now, notify, view, answer, pure>>

Poll(c) ==
    /\ polling[c]
    /\ answer[c] = None
    /\ answer' = [answer EXCEPT ![c] = Asked]
    /\ UNCHANGED <<now, notify, server, pipe, view, polling, pure, changes>>

\* GET /api/archives is answered from the document of this moment.
Answer(c, doc) ==
    /\ answer[c] = Asked
    /\ Reads(doc)
    /\ answer' = [answer EXCEPT ![c] = doc]
    /\ UNCHANGED <<now, notify, server, pipe, view, polling, pure>>

\* refreshArchives: the answer replaces the table and the overview, whatever
\* the stream said since it was made.
ApplyAnswer(c) ==
    /\ answer[c] \in Documents
    /\ view' = [view EXCEPT ![c] = Shown(@, answer[c])]
    /\ answer' = [answer EXCEPT ![c] = None]
    /\ pure' = [pure EXCEPT ![c] = FALSE]
    /\ UNCHANGED <<now, notify, server, pipe, polling, changes>>

\* refreshArchives fails: the table is emptied, also while the stream is live.
AnswerFails(c) ==
    /\ answer[c] # None
    /\ SpendChange
    /\ view' = [view EXCEPT ![c] = [view[c] EXCEPT !.table = EmptyTable]]
    /\ answer' = [answer EXCEPT ![c] = None]
    /\ pure' = [pure EXCEPT ![c] = FALSE]
    /\ UNCHANGED <<now, notify, server, pipe, polling>>

StreamNext ==
    \/ \E doc \in Documents, wakes \in BOOLEAN : Change(doc, wakes)
    \/ \E c \in Clients, doc \in Documents :
         \/ Connect(c, doc)
         \/ Wake(c, doc)
         \/ Refresh(c, doc)
         \/ Answer(c, doc)
    \/ \E c \in Clients :
         \/ Deliver(c)
         \/ Drop(c)
         \/ Poll(c)
         \/ ApplyAnswer(c)
         \/ AnswerFails(c)
    \/ TakenElsewhere

StreamSpec == StreamInit /\ [][StreamNext]_streamVars

\* The ticker and the timers fire, requests are answered and what was sent is
\* read.  Nothing says that a wake is ever taken by a given stream, nor that a
\* stream can be opened.
StreamFairness ==
    \A c \in Clients :
      /\ WF_streamVars(\E doc \in Documents : Refresh(c, doc))
      /\ WF_streamVars(\E doc \in Documents : Answer(c, doc))
      /\ WF_streamVars(Deliver(c))
      /\ WF_streamVars(Poll(c))
      /\ WF_streamVars(ApplyAnswer(c))

FairStreamSpec == StreamSpec /\ StreamFairness

-----------------------------------------------------------------------------
Events ==
    [kind : {"snapshot"}, doc : Documents]
      \cup [kind : {"counts"}, overview : Overviews]
      \cup [kind : {"archive"}, removed : SUBSET Archives,
            rows : UNION {[s -> Rows] : s \in SUBSET Archives}]

\* Every variable stays in the set its comment names.
StreamTypeOK ==
    /\ now \in Documents /\ notify \in BOOLEAN
    /\ prev \in [Clients -> Documents \cup {Closed}]
    /\ turn \in [Clients -> 0..FullEvery - 1]
    /\ pipe \in [Clients -> Seq(Events)]
    /\ \A c \in Clients : Len(pipe[c]) <= Room + 3
    /\ view \in [Clients -> Views]
    /\ polling \in [Clients -> BOOLEAN]
    /\ answer \in [Clients -> Documents \cup {None, Asked}]
    /\ pure \in [Clients -> BOOLEAN]
    /\ changes \in 0..MaxChanges

\* What a dashboard that shows v will show once it has read the events of s.
Replay(v, s) ==
    LET after[i \in 0..Len(s)] ==
          IF i = 0 THEN v ELSE Applied(after[i - 1], s[i])
    IN  after[Len(s)]

\* v shows doc in all that is watched, and an older scan if doc has none.
Sees(v, doc) ==
    /\ v.overview.counts = Counts(doc.rows)
    /\ doc.mark # 0 => v.overview.mark = doc.mark
    /\ \A a \in Archives : SameWatched(v.table[a], doc.rows[a])

\* A dashboard that only the stream has written to shows, once it has read
\* what was sent, the document the stream took last: differences, snapshots
\* and their order lose nothing that is watched.
StreamTracks ==
    \A c \in Clients :
      prev[c] # Closed
        /\ (pure[c] \/ \E i \in DOMAIN pipe[c] : pipe[c][i].kind = "snapshot")
        => Sees(Replay(view[c], pipe[c]), prev[c])

\* What a stream has sent adds up to what it computed (sse.go, sse_diff.go).
StreamInv == StreamTypeOK /\ StreamTracks

\* Once the document stays as it is, every dashboard comes to show it whole,
\* so that being given it once more would change nothing:
\* after a lost wake, a stale or failed answer, a failed read of the store, or
\* a connection that drops and is never made again.
DashboardsConverge ==
    \A doc \in Documents :
      <>[](now = doc) => \A c \in Clients : <>[](view[c] = Shown(view[c], doc))

=============================================================================
