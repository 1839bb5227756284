---------------------------- MODULE ServiceFront ----------------------------
(***************************************************************************)
(* The run loop of serve, the three ways in - control socket, HTTP and     *)
(* signals - and the configuration they change.  opMu serializes ticks     *)
(* and HTTP calls; the control socket is served inside a tick; signals     *)
(* only leave a flag.  The configuration file is shared with an editor and *)
(* with command lines that write it themselves when the daemon does not    *)
(* answer.                                                                 *)
(*                                                                         *)
(*   loop     where Service.Run is                                         *)
(*   opMu     who holds it                                                 *)
(*   stop, reload   the flags                                              *)
(*   file     the texts of the configuration file, Bad if it does not load *)
(*   mem      *s.Config                                                    *)
(*   got      what doReload has read and not applied yet                   *)
(*   serving  the peer whose connection ServeReady handles                 *)
(*   foreign  someone wrote the file since the set under way (history)     *)
(*   queue    peers in the socket's backlog                                *)
(*   peer     a command line: its request, the file it read at its start   *)
(*   call     a dashboard's call: idle, waiting or set;  form  its form    *)
(*   budget   edits, requests, signals and crashes left                    *)
(***************************************************************************)
EXTENDS Durations, FiniteSets

CONSTANTS
    Tabs,       \* dashboards
    Peers,      \* command lines, one request each
    Keys,       \* keys of the configuration, durations here
    Values,     \* texts people write
    Bad, Nobody, Loop,
    Budget      \* bound

ASSUME NamesAssumption ==
    /\ Bad \notin [Keys -> Texts] /\ Values \subseteq Texts
    /\ Nobody \notin Tabs /\ Loop \notin Tabs /\ Nobody # Loop
    /\ Budget \in Nat

VARIABLES loop, opMu, stop, reload, file, mem, got, serving, foreign,
          queue, peer, call, form, budget

flags == <<stop, reload>>
config == <<file, mem, got, foreign>>
socket == <<serving, queue, peer>>
http == <<call, form>>
vars == <<loop, opMu, stop, reload, file, mem, got, serving, foreign,
          queue, peer, call, form, budget>>

Files == [Keys -> Texts]
Written == [Keys -> Values]
Configs == [Keys -> Nat]

\* Load, and ToPublicMap: what is written, answered and shown in the form.
Loaded(f) == [k \in Keys |-> ParseDuration(f[k])]
PublicMap(c) == [k \in Keys |-> FormatDuration(c[k])]

Up == {"check", "tick", "load", "apply", "serve", "reading", "written", "work"}
Leaving == {"drain", "close"}

\* A command line: reload, stop, a set of one key, or a client that connects
\* and sends nothing.
Requests == [op : {"set"}, key : Keys, value : Values]
              \cup [op : {"reload", "stop", "silent"}]
NoRequest == [op |-> "none"]
Idle == [phase |-> "idle", request |-> NoRequest, base |-> Bad]
PeerStates ==
    [phase : {"sent", "offline", "done", "failed"}, request : Requests,
     base : Configs \cup {Bad}] \cup {Idle}

Init ==
    /\ file \in {[k \in Keys |-> v] : v \in Values}
    /\ mem = Loaded(file) /\ got = Bad /\ foreign = FALSE
    /\ loop = "check" /\ opMu = Nobody /\ stop = FALSE /\ reload = FALSE
    /\ serving = Nobody /\ queue = {} /\ peer = [p \in Peers |-> Idle]
    /\ call = [t \in Tabs |-> "idle"] /\ form = [t \in Tabs |-> Bad]
    /\ budget = Budget

Spend == budget > 0 /\ budget' = budget - 1

-----------------------------------------------------------------------------
(* Outside the daemon. *)

\* An editor saves a file that loads, or one that does not.
Edit(f) ==
    /\ f # file
    /\ \/ f = Bad
       \/ file = Bad /\ f \in Written
       \/ file # Bad /\ f # Bad /\ \E k \in Keys : f = [file EXCEPT ![k] = f[k]]
    /\ Spend
    /\ file' = f /\ foreign' = TRUE
    /\ UNCHANGED <<loop, opMu, flags, mem, got, socket, http>>

\* SIGHUP, SIGTERM
Signal(hup) ==
    /\ loop \in Up /\ Spend
    /\ IF hup THEN reload' = TRUE /\ UNCHANGED stop
              ELSE stop' = TRUE /\ UNCHANGED reload
    /\ UNCHANGED <<loop, opMu, config, socket, http>>

Mine(p, phase) == [peer EXCEPT ![p] = [@ EXCEPT !.phase = phase]]

\* The client has no answer: a set goes on by itself, any other gives up.
WithoutAnswer(p) ==
    IF peer[p].request.op = "set" THEN "offline" ELSE "failed"

\* A command line loads the file and sends its request; without a socket it
\* has no answer.
Request(p, r) ==
    /\ peer[p] = Idle /\ file # Bad /\ Spend
    /\ LET up == loop # "down"
           new == [phase |-> IF up THEN "sent"
                             ELSE IF r.op = "set" THEN "offline" ELSE "failed",
                   request |-> r, base |-> Loaded(file)]
       IN /\ peer' = [peer EXCEPT ![p] = new]
          /\ queue' = IF up THEN queue \cup {p} ELSE queue
    /\ UNCHANGED <<loop, opMu, flags, config, serving, http>>

\* The client's 30 s are over.  Its request stays in the backlog.
GiveUp(p) ==
    /\ peer[p].phase = "sent"
    /\ peer' = Mine(p, WithoutAnswer(p))
    /\ UNCHANGED <<loop, opMu, flags, config, serving, queue, http, budget>>

\* ApplyUpdate with a patch.
Patched(c, r) == PublicMap([c EXCEPT ![r.key] = ParseDuration(r.value)])

\* config set writes the file itself: its patch over the file it loaded first.
OfflineSet(p) ==
    /\ peer[p].phase = "offline"
    /\ file' = Patched(peer[p].base, peer[p].request)
    /\ foreign' = TRUE
    /\ peer' = Mine(p, "done")
    /\ UNCHANGED <<loop, opMu, flags, mem, got, serving, queue, http,
                   budget>>

-----------------------------------------------------------------------------
(* The run loop. *)

Boot ==
    /\ loop = "down" /\ file # Bad
    /\ mem' = Loaded(file) /\ got' = Bad
    /\ loop' = "check" /\ stop' = FALSE /\ reload' = FALSE
    /\ UNCHANGED <<opMu, file, foreign, socket, http, budget>>

\* Shutdown starts: the HTTP server accepts nothing more.
StopLoop == loop' = "drain" /\ UNCHANGED opMu

CheckStop ==
    /\ loop = "check"
    /\ IF stop THEN StopLoop ELSE loop' = "tick" /\ UNCHANGED opMu
    /\ UNCHANGED <<flags, config, socket, http, budget>>

BeginTick ==
    /\ loop = "tick" /\ opMu = Nobody
    /\ opMu' = Loop
    /\ reload' = FALSE
    /\ loop' = IF reload THEN "load" ELSE "serve"
    /\ UNCHANGED <<stop, config, socket, http, budget>>

\* doReload reads the file ...
LoadFile ==
    /\ loop = "load"
    /\ got' = file
    /\ loop' = "apply"
    /\ UNCHANGED <<opMu, flags, file, mem, foreign, socket, http, budget>>

\* Mutant: a request that came while the file was applied goes with the old.
ReloadDone == FALSE

ReloadLeft == reload

\* ... and takes it, or keeps the old configuration when it did not load.
ApplyFile ==
    /\ loop = "apply"
    /\ mem' = IF got = Bad THEN mem ELSE Loaded(got)
    /\ got' = Bad
    /\ reload' = ReloadLeft
    /\ loop' = "serve"
    /\ UNCHANGED <<opMu, stop, file, foreign, socket, http, budget>>

Accept(p) ==
    /\ loop = "serve" /\ p \in queue
    /\ queue' = queue \ {p}
    /\ serving' = p
    /\ loop' = "reading"
    /\ UNCHANGED <<opMu, flags, config, peer, http, budget>>

\* Mutant: the connection has no deadline.
ReadEndsNever(p) == peer[p].request.op # "silent" \/ peer[p].phase # "sent"

\* A line was sent, or the connection's deadline passes.
ReadEnds(p) == TRUE

\* handleConnection: stop and reload only set their flag; a set writes the
\* file from the configuration in memory.
Handle(p) ==
    /\ loop = "reading" /\ serving = p /\ ReadEnds(p)
    /\ LET r == peer[p].request IN
         /\ stop' = (stop \/ r.op = "stop")
         /\ reload' = (reload \/ r.op = "reload")
         /\ IF r.op = "set"
              THEN /\ file' = Patched(mem, r) /\ foreign' = FALSE
                   /\ loop' = "written" /\ UNCHANGED <<peer, serving>>
              ELSE /\ loop' = "serve" /\ serving' = Nobody
                   /\ peer' = IF peer[p].phase # "sent" THEN peer
                              ELSE Mine(p, IF r.op = "silent" THEN "failed"
                                           ELSE "done")
                   /\ UNCHANGED <<file, foreign>>
    /\ UNCHANGED <<opMu, mem, got, queue, http, budget>>

\* opConfigSet loads what was written, which an editor may have replaced.
TakesFile(f) == IF f = Bad THEN mem ELSE Loaded(f)

FinishSet(p) ==
    /\ loop = "written" /\ serving = p
    /\ mem' = TakesFile(file)
    /\ serving' = Nobody /\ loop' = "serve"
    /\ peer' = IF peer[p].phase = "sent" THEN Mine(p, "done") ELSE peer
    /\ UNCHANGED <<opMu, flags, file, got, foreign, queue, http, budget>>

\* No connection is pending: the rest of the tick, then sleep.
EndTick ==
    /\ loop = "serve" /\ queue = {}
    /\ opMu' = Nobody
    /\ loop' = "check"
    /\ UNCHANGED <<flags, config, socket, http, budget>>

\* http.Server.Shutdown returns when every handler has, or after 5 s: an open
\* event stream never does, a call that waits for opMu or has it may not.
Drained ==
    /\ loop = "drain"
    /\ loop' = "close"
    /\ UNCHANGED <<opMu, flags, config, socket, http, budget>>

\* What the process leaves behind when it ends: connections are reset.
Gone ==
    /\ loop' = "down" /\ opMu' = Nobody
    /\ queue' = {} /\ serving' = Nobody
    /\ peer' = [p \in Peers |->
                  IF peer[p].phase = "sent"
                    THEN [peer[p] EXCEPT !.phase = WithoutAnswer(p)] ELSE peer[p]]
    /\ call' = [t \in Tabs |-> "idle"]
    /\ got' = Bad
    /\ UNCHANGED <<flags, file, mem, foreign, form>>

\* The rest of Shutdown, under opMu, and the end of the process: a call that
\* waits still gets no answer.
Teardown ==
    /\ loop = "close" /\ opMu = Nobody
    /\ Gone
    /\ UNCHANGED budget

Crash == loop # "down" /\ Spend /\ Gone

-----------------------------------------------------------------------------
(* HTTP. *)

\* The settings page loads the configuration.
OpenForm(t) ==
    /\ loop \in Up /\ call[t] = "idle" /\ opMu = Nobody
    /\ form[t] # PublicMap(mem)
    /\ form' = [form EXCEPT ![t] = PublicMap(mem)]
    /\ UNCHANGED <<loop, opMu, flags, config, socket, call, budget>>

\* The page posts its whole form with one field changed.
Post(t, k, v) ==
    /\ loop \in Up /\ call[t] = "idle" /\ form[t] # Bad
    /\ v # form[t][k]
    /\ Spend
    /\ form' = [form EXCEPT ![t] = [@ EXCEPT ![k] = v]]
    /\ call' = [call EXCEPT ![t] = "waiting"]
    /\ UNCHANGED <<loop, opMu, flags, config, socket>>

\* Mutant: HTTP calls are not serialized with the tick.
EnterAny(t) == call[t] = "waiting"

Enter(t) == call[t] = "waiting" /\ opMu = Nobody

\* HandleRequest: once it has opMu the call writes the file ...
CallWrites(t) ==
    /\ Enter(t)
    /\ opMu' = t
    /\ file' = PublicMap(Loaded(form[t])) /\ foreign' = FALSE
    /\ call' = [call EXCEPT ![t] = "set"]
    /\ UNCHANGED <<loop, flags, mem, got, socket, form, budget>>

\* ... loads it and answers with what it wrote, which the page then shows.
CallEnds(t) ==
    /\ call[t] = "set"
    /\ mem' = TakesFile(file)
    /\ opMu' = Nobody
    /\ call' = [call EXCEPT ![t] = "idle"]
    /\ form' = [form EXCEPT ![t] = PublicMap(Loaded(form[t]))]
    /\ UNCHANGED <<loop, flags, file, got, foreign, socket, budget>>

Next ==
    \/ \E f \in Written \cup {Bad} : Edit(f)
    \/ \E hup \in BOOLEAN : Signal(hup)
    \/ \E p \in Peers :
         \/ \E r \in Requests : Request(p, r)
         \/ GiveUp(p)
         \/ OfflineSet(p)
         \/ Accept(p)
         \/ Handle(p)
         \/ FinishSet(p)
    \/ Boot \/ CheckStop \/ BeginTick \/ LoadFile \/ ApplyFile \/ EndTick
    \/ Drained \/ Teardown \/ Crash
    \/ \E t \in Tabs :
         \/ OpenForm(t)
         \/ \E k \in Keys, v \in Values : Post(t, k, v)
         \/ CallWrites(t)
         \/ CallEnds(t)

Spec == Init /\ [][Next]_vars

\* The loop goes on, a read ends at its deadline, and whoever waits for opMu
\* gets it: a Go mutex is handed to its oldest waiter once that one has
\* waited long enough.  Nobody need edit, ask, signal or start the daemon.
Fairness ==
    /\ WF_vars(CheckStop \/ LoadFile \/ ApplyFile \/ EndTick \/ Drained)
    /\ SF_vars(BeginTick) /\ SF_vars(Teardown)
    /\ \A p \in Peers : WF_vars(Accept(p) \/ Handle(p) \/ FinishSet(p))
    /\ \A t \in Tabs : SF_vars(CallWrites(t)) /\ WF_vars(CallEnds(t))

FairSpec == Spec /\ Fairness

-----------------------------------------------------------------------------
TypeOK ==
    /\ loop \in Up \cup Leaving \cup {"down"}
    /\ opMu \in Tabs \cup {Nobody, Loop}
    /\ stop \in BOOLEAN /\ reload \in BOOLEAN /\ foreign \in BOOLEAN
    /\ file \in Files \cup {Bad} /\ got \in Files \cup {Bad}
    /\ mem \in Configs
    /\ serving \in Peers \cup {Nobody} /\ queue \subseteq Peers
    /\ peer \in [Peers -> PeerStates]
    /\ call \in [Tabs -> {"idle", "waiting", "set"}]
    /\ form \in [Tabs -> Files \cup {Bad}]
    /\ budget \in 0..Budget

\* While it runs and nobody else wrote the file, the daemon's configuration is
\* the file's, but for the set under way: no reload puts an older file over a
\* set that was answered, and no set is answered without being in effect
\* (opConfigSet, doReload).
MemoryFollowsFile ==
    loop # "down" /\ ~foreign =>
        \/ mem = Loaded(file)
        \/ loop = "written"
        \/ \E t \in Tabs : call[t] = "set"

\* A set that is answered changed the keys it names to what it said, and no
\* other key, unless someone else wrote the file meanwhile (ApplyUpdate,
\* FormatDuration).
SetInEffect ==
    [][/\ \A p \in Peers :
            LET r == peer[p].request
            IN  peer[p].phase = "sent" /\ peer'[p].phase = "done"
                  /\ r.op = "set" /\ ~foreign
                  => mem' = [mem EXCEPT ![r.key] = ParseDuration(r.value)]
       /\ \A t \in Tabs :
            call[t] = "set" /\ call'[t] = "idle" /\ loop' # "down" /\ ~foreign
              => mem' = Loaded(form[t])]_vars

\* Under opMu the configuration is the file's, also while a stop waits for the
\* calls that go on beside it (tick.go, service.go).
FrontInv == TypeOK /\ MemoryFollowsFile

\* A reload that was asked for takes the file as it is then, also when it is
\* asked for in the middle of another, unless the file changes once more or
\* the daemon stops (RequestReload, Tick).
ReloadTaken ==
    \A f \in Written :
        reload /\ file = f ~> mem = Loaded(f) \/ file # f \/ loop = "down"

\* A stop is obeyed, whatever holds opMu or the socket then (Stop, Run,
\* Shutdown).
StopEnds == stop ~> loop = "down"

\* A connection in the backlog is taken, behind clients that send nothing too
\* (ServeReady, handleConnection).
QueueServed == \A p \in Peers : p \in queue ~> p \notin queue

\* Nobody waits for ever: the loop for opMu, a call for the loop, a client for
\* another that is silent.
NobodyStuck == StopEnds /\ QueueServed

=============================================================================
