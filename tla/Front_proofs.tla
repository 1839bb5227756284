----------------------------- MODULE Front_proofs -----------------------------
(***************************************************************************)
(* What the daemon tells its users is true, for any number of dashboards,  *)
(* command lines, keys and archives.                                       *)
(*                                                                         *)
(* ServiceFront: the configuration it runs with is the one in its file.    *)
(* The argument is mutual exclusion: a set writes the file and takes it in *)
(* two steps, a reload reads and takes it in two steps, and opMu keeps     *)
(* each pair together.  What is written reads back as what was meant,      *)
(* which is a fact about durations and comes first.                        *)
(*                                                                         *)
(* EventStream: a view with the events on their way to it is the document  *)
(* the stream took last.  The argument is about Replay, which is recursive *)
(* over the pipe: it is unrolled by induction, then what is sent later is  *)
(* read later, and from a full snapshot on its way the view it finds does  *)
(* not matter.                                                             *)
(***************************************************************************)
EXTENDS ServiceFront, EventStream, SequenceTheorems, WellFoundedInduction, TLAPS

-----------------------------------------------------------------------------
(* Durations.                                                              *)

\* A unit that divides a number of milliseconds.
LEMMA Divides ==
    ASSUME NEW v \in Nat, NEW c \in {1, 1000, 60000, 3600000, 86400000}, v % c = 0
    PROVE  (v \div c) \in Nat /\ (v \div c) * c = v
<1>1. v % 1 = 0 => (v \div 1) \in Nat /\ (v \div 1) * 1 = v
  OBVIOUS
<1>2. v % 1000 = 0 => (v \div 1000) \in Nat /\ (v \div 1000) * 1000 = v
  OBVIOUS
<1>3. v % 60000 = 0 => (v \div 60000) \in Nat /\ (v \div 60000) * 60000 = v
  OBVIOUS
<1>4. v % 3600000 = 0 => (v \div 3600000) \in Nat /\ (v \div 3600000) * 3600000 = v
  OBVIOUS
<1>5. v % 86400000 = 0
        => (v \div 86400000) \in Nat /\ (v \div 86400000) * 86400000 = v
  OBVIOUS
<1>6. CASE c = 1
  BY <1>1, <1>6
<1>7. CASE c = 1000
  BY <1>2, <1>7
<1>8. CASE c = 60000
  BY <1>3, <1>8
<1>9. CASE c = 3600000
  BY <1>4, <1>9
<1>10. CASE c = 86400000
  BY <1>5, <1>10
<1> QED
  BY <1>6, <1>7, <1>8, <1>9, <1>10

\* The unit of a duration divides it.
LEMMA UnitFits ==
    ASSUME NEW v \in Nat
    PROVE  /\ UnitOf(v) \in Units
           /\ Millis[UnitOf(v)] \in {1, 1000, 60000, 3600000, 86400000}
           /\ v % Millis[UnitOf(v)] = 0
<1>a. v % 1 = 0
  OBVIOUS
<1>b. /\ Millis["ms"] = 1 /\ Millis["s"] = 1000 /\ Millis["m"] = 60000
      /\ Millis["h"] = 3600000 /\ Millis["d"] = 86400000
      /\ Millis["fraction"] = 1
  BY DEF Millis
<1>1. CASE v = 0
  <2>1. UnitOf(v) = "s"
    BY <1>1 DEF UnitOf
  <2>2. v % 1000 = 0
    BY <1>1
  <2> QED
    BY <1>b, <2>1, <2>2 DEF Units
<1>2. CASE v # 0 /\ v < 1000
  <2>1. UnitOf(v) = "ms"
    BY <1>2 DEF UnitOf
  <2> QED
    BY <1>a, <1>b, <2>1 DEF Units
<1>3. CASE v # 0 /\ ~(v < 1000)
  <2>1. \/ UnitOf(v) = "d" /\ v % Millis["d"] = 0
        \/ UnitOf(v) = "h" /\ v % Millis["h"] = 0
        \/ UnitOf(v) = "m" /\ v % Millis["m"] = 0
        \/ UnitOf(v) = "s" /\ v % Millis["s"] = 0
        \/ UnitOf(v) = "fraction"
    BY <1>3, Zenon DEF UnitOf
  <2> QED
    BY <1>a, <1>b, <2>1 DEF Units
<1> QED
  BY <1>1, <1>2, <1>3

\* What the daemon writes for a duration reads back as that duration: a set
\* never changes a value it was not asked to change (ToPublicMap, ParseDuration).
THEOREM DurationRoundTrip ==
    \A v \in Nat : /\ FormatDuration(v) \in Texts
                   /\ ParseDuration(FormatDuration(v)) = v
<1> TAKE v \in Nat
<1>1. (v \div Millis[UnitOf(v)]) \in Nat /\ (v \div Millis[UnitOf(v)]) * Millis[UnitOf(v)] = v
  BY UnitFits, Divides
<1> QED
  BY <1>1, UnitFits DEF FormatDuration, ParseDuration, Texts

-----------------------------------------------------------------------------
(* Configurations.                                                         *)

LEMMA ParseTyped ==
    ASSUME NEW t \in Texts
    PROVE  ParseDuration(t) \in Nat
<1>1. t.amount \in Nat /\ t.unit \in Units
  BY DEF Texts
<1>2. Millis[t.unit] \in Nat
  BY <1>1 DEF Millis, Units
<1> QED
  BY <1>1, <1>2 DEF ParseDuration

LEMMA LoadedTyped ==
    ASSUME NEW f \in Files
    PROVE  Loaded(f) \in Configs
BY ParseTyped DEF Loaded, Files, Configs

\* What is written of a configuration loads as that configuration.
LEMMA PublicMapLoads ==
    ASSUME NEW c \in Configs
    PROVE  PublicMap(c) \in Files /\ Loaded(PublicMap(c)) = c
BY DurationRoundTrip DEF PublicMap, Files, Configs, Loaded

SetRequests == [op : {"set"}, key : Keys, value : Values]

LEMMA PatchedLoads ==
    ASSUME NEW c \in Configs, NEW r \in SetRequests
    PROVE  /\ Patched(c, r) \in Files
           /\ Loaded(Patched(c, r)) = [c EXCEPT ![r.key] = ParseDuration(r.value)]
<1>1. r.key \in Keys /\ ParseDuration(r.value) \in Nat
  BY NamesAssumption, ParseTyped DEF SetRequests
<1>2. [c EXCEPT ![r.key] = ParseDuration(r.value)] \in Configs
  BY <1>1 DEF Configs
<1> QED
  BY <1>2, PublicMapLoads DEF Patched

LEMMA PeerRequest ==
    ASSUME TypeOK, NEW p \in Peers, peer[p].request.op = "set"
    PROVE  peer[p].request \in SetRequests /\ peer[p].phase # "idle"
<1>1. peer[p] \in PeerStates
  BY DEF TypeOK
<1>2. peer[p] # Idle
  BY DEF Idle, NoRequest
<1> QED
  BY <1>1, <1>2 DEF PeerStates, Requests, SetRequests

\* A peer that has sent something and goes on.
LEMMA MineTyped ==
    ASSUME TypeOK, NEW p \in Peers, peer[p].phase # "idle",
           NEW phase \in {"sent", "offline", "done", "failed"}
    PROVE  LET q == [peer[p] EXCEPT !.phase = phase]
           IN  /\ q \in PeerStates /\ q.phase = phase
               /\ q.request = peer[p].request /\ q.base = peer[p].base
<1>1. peer[p] \in [phase : {"sent", "offline", "done", "failed"},
                   request : Requests, base : Configs \cup {Bad}]
  BY DEF TypeOK, PeerStates, Idle
<1> QED
  BY <1>1, Zenon DEF PeerStates

-----------------------------------------------------------------------------
(* The invariant.                                                          *)

\* opMu is held by the loop exactly within a tick, by a call exactly while it
\* sets.
InTick == {"load", "apply", "serve", "reading", "written", "work"}
OneInside ==
    /\ opMu = Loop <=> loop \in InTick
    /\ \A t \in Tabs : call[t] = "set" <=> opMu = t

\* What nobody else wrote since the last set loads, and is what a reload read.
FileLoads == ~foreign => file # Bad
ReadIsFile == loop = "apply" /\ ~foreign => got = file

\* In the middle of a set the file holds what it was asked for.
SetWritten ==
    loop = "written" =>
      \A p \in Peers : serving = p =>
        /\ peer[p].request.op = "set"
        /\ ~foreign => file = Patched(mem, peer[p].request)
CallWritten ==
    \A t \in Tabs : call[t] # "idle" =>
      /\ form[t] \in Files
      /\ call[t] = "set" /\ ~foreign => file = PublicMap(Loaded(form[t]))

\* A command line loaded a file first, and goes on by itself with a set only.
PeersLoaded ==
    \A p \in Peers :
      /\ peer[p].phase # "idle" => peer[p].base \in Configs
      /\ peer[p].phase = "offline" => peer[p].request.op = "set"

Order == OneInside /\ FileLoads /\ ReadIsFile
FileInv == MemoryFollowsFile /\ SetWritten /\ CallWritten

FrontIInv == TypeOK /\ PeersLoaded /\ Order /\ FileInv

LEMMA FileLoaded ==
    ASSUME TypeOK, FileLoads, ~foreign
    PROVE  file \in Files /\ TakesFile(file) = Loaded(file)
BY DEF TypeOK, FileLoads, TakesFile

LEMMA TakesFileTyped ==
    ASSUME TypeOK
    PROVE  TakesFile(file) \in Configs
BY LoadedTyped DEF TypeOK, TakesFile

LEMMA Spent == ASSUME TypeOK, Spend PROVE budget' \in 0..Budget
BY NamesAssumption DEF TypeOK, Spend

-----------------------------------------------------------------------------
(* Types.                                                                  *)

LEMMA PeerGoesOn ==
    ASSUME TypeOK, PeersLoaded, NEW p \in Peers,
           NEW phase \in {"offline", "done", "failed"},
           peer[p].phase # "idle", peer' = Mine(p, phase),
           phase = "offline" => peer[p].request.op = "set"
    PROVE  peer' \in [Peers -> PeerStates] /\ PeersLoaded'
<1> DEFINE q == [peer[p] EXCEPT !.phase = phase]
<1>1. /\ q \in PeerStates /\ q.phase = phase
      /\ q.request = peer[p].request /\ q.base = peer[p].base
  <2>1. phase \in {"sent", "offline", "done", "failed"}
    OBVIOUS
  <2> QED
    BY <2>1, MineTyped
<1>2. peer' = [peer EXCEPT ![p] = q]
  BY DEF Mine
<1> HIDE DEF q
<1>3. peer' \in [Peers -> PeerStates]
  BY <1>1, <1>2 DEF TypeOK
<1>4. peer'[p] = q /\ \A x \in Peers : x # p => peer'[x] = peer[x]
  BY <1>2 DEF TypeOK
<1> QED
  BY <1>1, <1>3, <1>4 DEF PeersLoaded

LEMMA OutsideTyped ==
    ASSUME TypeOK, PeersLoaded,
           \/ \E f \in Written \cup {Bad} : Edit(f)
           \/ \E hup \in BOOLEAN : Signal(hup)
           \/ \E p \in Peers :
                \/ \E r \in Requests : Request(p, r)
                \/ GiveUp(p)
                \/ OfflineSet(p)
    PROVE  TypeOK' /\ PeersLoaded'
<1> DEFINE Goal == TypeOK' /\ PeersLoaded'
<1>1. ASSUME NEW f \in Written \cup {Bad}, Edit(f) PROVE Goal
  <2>1. Written \subseteq Files
    BY NamesAssumption DEF Written, Files
  <2> QED
    BY <1>1, <2>1, Spent
       DEF Edit, TypeOK, PeersLoaded, flags, config, socket, http
<1>2. ASSUME NEW hup \in BOOLEAN, Signal(hup) PROVE Goal
  <2>1. stop' \in BOOLEAN /\ reload' \in BOOLEAN
    BY <1>2, Zenon DEF Signal, TypeOK
  <2> QED
    BY <1>2, <2>1, Spent DEF Signal, TypeOK, PeersLoaded, config, socket, http
<1>3. ASSUME NEW p \in Peers, NEW r \in Requests, Request(p, r) PROVE Goal
  <2> DEFINE ph == IF loop # "down" THEN "sent"
                   ELSE IF r.op = "set" THEN "offline" ELSE "failed"
             new == [phase |-> ph, request |-> r, base |-> Loaded(file)]
  <2>1. Loaded(file) \in Configs
    BY <1>3, LoadedTyped DEF Request, TypeOK
  <2>2. new \in PeerStates
    BY <2>1 DEF PeerStates
  <2>3. peer' = [peer EXCEPT ![p] = new] /\ queue' \subseteq queue \cup {p}
    BY <1>3 DEF Request
  <2> HIDE DEF ph
  <2>4. /\ new.base = Loaded(file) /\ new.request = r /\ new.phase = ph
        /\ ph = "offline" => r.op = "set"
    BY DEF ph
  <2> HIDE DEF new
  <2>5. peer' \in [Peers -> PeerStates] /\ PeersLoaded'
    BY <2>1, <2>2, <2>3, <2>4 DEF TypeOK, PeersLoaded
  <2> QED
    BY <1>3, <2>3, <2>5, Spent DEF Request, TypeOK, flags, config, http
<1>5. ASSUME NEW p \in Peers, GiveUp(p) PROVE Goal
  <2>1. /\ WithoutAnswer(p) \in {"offline", "failed"}
        /\ WithoutAnswer(p) = "offline" => peer[p].request.op = "set"
    BY DEF WithoutAnswer
  <2>2. peer' \in [Peers -> PeerStates] /\ PeersLoaded'
    BY <1>5, <2>1, PeerGoesOn DEF GiveUp
  <2> QED
    BY <1>5, <2>2 DEF GiveUp, TypeOK, flags, config, http
<1>6. ASSUME NEW p \in Peers, OfflineSet(p) PROVE Goal
  <2>1. peer' \in [Peers -> PeerStates] /\ PeersLoaded'
    BY <1>6, PeerGoesOn DEF OfflineSet
  <2>2. peer[p].base \in Configs
    BY <1>6 DEF OfflineSet, PeersLoaded
  <2>3. file' \in Files
    <3>1. file' = Patched(peer[p].base, peer[p].request)
      BY <1>6 DEF OfflineSet
    <3>2. peer[p].request \in SetRequests
      BY <1>6, PeerRequest DEF OfflineSet, PeersLoaded
    <3> QED
      BY <2>2, <3>1, <3>2, PatchedLoads
  <2> QED
    BY <1>6, <2>1, <2>3 DEF OfflineSet, TypeOK, flags, http
<1> QED
  BY <1>1, <1>2, <1>3, <1>5, <1>6

\* What the end of the process leaves of the command lines.
LEMMA GonePeers ==
    ASSUME TypeOK, PeersLoaded, Gone
    PROVE  /\ peer' \in [Peers -> PeerStates] /\ PeersLoaded'
           /\ \A p \in Peers : peer'[p].phase = "done" => peer[p].phase = "done"
<1> DEFINE q(p) == IF peer[p].phase = "sent"
                     THEN [peer[p] EXCEPT !.phase = WithoutAnswer(p)] ELSE peer[p]
<1>1. ASSUME NEW p \in Peers
      PROVE  /\ q(p) \in PeerStates
             /\ q(p).phase # "idle" => q(p).base \in Configs
             /\ q(p).phase = "offline" => q(p).request.op = "set"
             /\ q(p).phase = "done" => peer[p].phase = "done"
  <2>1. CASE peer[p].phase = "sent"
    <3>1. /\ WithoutAnswer(p) \in {"offline", "failed"}
          /\ WithoutAnswer(p) = "offline" => peer[p].request.op = "set"
      BY DEF WithoutAnswer
    <3>2. LET x == [peer[p] EXCEPT !.phase = WithoutAnswer(p)]
          IN  /\ x \in PeerStates /\ x.phase = WithoutAnswer(p)
              /\ x.request = peer[p].request /\ x.base = peer[p].base
      BY <2>1, <3>1, MineTyped
    <3> QED
      BY <2>1, <3>1, <3>2 DEF PeersLoaded
  <2>2. CASE peer[p].phase # "sent"
    BY <2>2 DEF TypeOK, PeersLoaded
  <2> QED
    BY <2>1, <2>2
<1>2. peer' = [p \in Peers |-> q(p)]
  BY DEF Gone
<1> HIDE DEF q
<1> QED
  BY <1>1, <1>2 DEF PeersLoaded

LEMMA LoopTyped ==
    ASSUME TypeOK, PeersLoaded,
           \/ Boot \/ CheckStop \/ BeginTick \/ LoadFile \/ ApplyFile \/ EndTick
           \/ Drained \/ Teardown \/ Crash
    PROVE  TypeOK' /\ PeersLoaded'
<1> DEFINE Goal == TypeOK' /\ PeersLoaded'
<1>1. CASE Boot
  BY <1>1, LoadedTyped
     DEF Boot, TypeOK, PeersLoaded, Up, Leaving, socket, http
<1>2. CASE CheckStop
  BY <1>2 DEF CheckStop, StopLoop, TypeOK, PeersLoaded, Up, Leaving, flags, config,
              socket, http
<1>3. CASE BeginTick
  BY <1>3 DEF BeginTick, TypeOK, PeersLoaded, Up, Leaving, config, socket, http
<1>4. CASE LoadFile
  BY <1>4 DEF LoadFile, TypeOK, PeersLoaded, Up, Leaving, flags, socket, http
<1>5. CASE ApplyFile
  BY <1>5, LoadedTyped
     DEF ApplyFile, ReloadLeft, TypeOK, PeersLoaded, Up, Leaving, socket, http
<1>6. CASE EndTick
  BY <1>6 DEF EndTick, TypeOK, PeersLoaded, Up, Leaving, flags, config, socket, http
<1>7. CASE Drained
  BY <1>7 DEF Drained, TypeOK, PeersLoaded, Up, Leaving, flags, config, socket, http
<1>8. CASE Gone /\ budget' \in 0..Budget
  BY <1>8, GonePeers DEF Gone, TypeOK, flags
<1> QED
  BY <1>1, <1>2, <1>3, <1>4, <1>5, <1>6, <1>7, <1>8, Spent
     DEF Teardown, Crash, TypeOK

LEMMA SocketTyped ==
    ASSUME TypeOK, PeersLoaded, SetWritten, NEW p \in Peers,
           Accept(p) \/ Handle(p) \/ FinishSet(p)
    PROVE  TypeOK' /\ PeersLoaded'
<1>1. CASE Accept(p)
  BY <1>1 DEF Accept, TypeOK, PeersLoaded, Up, Leaving, flags, config, http
<1>2. CASE Handle(p) /\ peer[p].request.op = "set"
  <2>1. file' \in Files
    BY <1>2, PeerRequest, PatchedLoads DEF Handle, TypeOK
  <2>2. stop' \in BOOLEAN /\ reload' \in BOOLEAN
    BY <1>2, Zenon DEF Handle
  <2> QED
    BY <1>2, <2>1, <2>2 DEF Handle, TypeOK, PeersLoaded, Up, Leaving, http
<1>3. CASE Handle(p) /\ peer[p].request.op # "set"
  <2>1. peer' \in [Peers -> PeerStates] /\ PeersLoaded'
    <3>1. CASE peer[p].phase # "sent"
      BY <1>3, <3>1 DEF Handle, TypeOK, PeersLoaded
    <3>2. CASE peer[p].phase = "sent"
      BY <1>3, <3>2, PeerGoesOn DEF Handle
    <3> QED
      BY <3>1, <3>2
  <2>2. stop' \in BOOLEAN /\ reload' \in BOOLEAN
    BY <1>3, Zenon DEF Handle
  <2> QED
    BY <1>3, <2>1, <2>2 DEF Handle, TypeOK, Up, Leaving, http
<1>4. CASE FinishSet(p)
  <2>1. peer' \in [Peers -> PeerStates] /\ PeersLoaded'
    <3>1. CASE peer[p].phase # "sent"
      BY <1>4, <3>1 DEF FinishSet, TypeOK, PeersLoaded
    <3>2. CASE peer[p].phase = "sent"
      BY <1>4, <3>2, PeerGoesOn DEF FinishSet
    <3> QED
      BY <3>1, <3>2
  <2> QED
    BY <1>4, <2>1, TakesFileTyped DEF FinishSet, TypeOK, Up, Leaving, flags, http
<1> QED
  BY <1>1, <1>2, <1>3, <1>4

LEMMA HttpTyped ==
    ASSUME TypeOK, PeersLoaded, CallWritten, NEW t \in Tabs,
           \/ OpenForm(t)
           \/ \E k \in Keys, v \in Values : Post(t, k, v)
           \/ CallWrites(t)
           \/ CallEnds(t)
    PROVE  TypeOK' /\ PeersLoaded'
<1> DEFINE Goal == TypeOK' /\ PeersLoaded'
<1>1. CASE OpenForm(t)
  <2>1. PublicMap(mem) \in Files
    BY PublicMapLoads DEF TypeOK
  <2> QED
    BY <1>1, <2>1 DEF OpenForm, TypeOK, PeersLoaded, flags, config, socket
<1>2. ASSUME NEW k \in Keys, NEW v \in Values, Post(t, k, v) PROVE Goal
  <2>1. form[t] \in Files
    BY <1>2 DEF Post, TypeOK
  <2>2. [form[t] EXCEPT ![k] = v] \in Files
    BY <2>1, NamesAssumption DEF Files
  <2> QED
    BY <1>2, <2>2, Spent DEF Post, TypeOK, PeersLoaded, flags, config, socket
<1>3. CASE CallWrites(t)
  <2>1. PublicMap(Loaded(form[t])) \in Files
    BY <1>3, LoadedTyped, PublicMapLoads DEF CallWrites, Enter, CallWritten
  <2> QED
    BY <1>3, <2>1 DEF CallWrites, TypeOK, PeersLoaded, flags, socket
<1>4. CASE CallEnds(t)
  <2>1. PublicMap(Loaded(form[t])) \in Files
    BY <1>4, LoadedTyped, PublicMapLoads DEF CallEnds, CallWritten
  <2> QED
    BY <1>4, <2>1, TakesFileTyped DEF CallEnds, TypeOK, PeersLoaded, flags, socket
<1> QED
  BY <1>1, <1>2, <1>3, <1>4

-----------------------------------------------------------------------------
(* Every step keeps the invariant.                                         *)

LEMMA MineKeepsRequests ==
    ASSUME TypeOK, NEW p \in Peers, NEW phase, peer[p].phase # "idle",
           peer' = Mine(p, phase) \/ peer' = peer
    PROVE  \A x \in Peers : peer'[x].request = peer[x].request
<1>1. peer[p] \in [phase : {"sent", "offline", "done", "failed"},
                   request : Requests, base : Configs \cup {Bad}]
  BY DEF TypeOK, PeerStates, Idle
<1>2. [peer[p] EXCEPT !.phase = phase].request = peer[p].request
  BY <1>1
<1>3. CASE peer' = Mine(p, phase)
  <2>1. peer' = [peer EXCEPT ![p] = [peer[p] EXCEPT !.phase = phase]]
    BY <1>3 DEF Mine
  <2> QED
    BY <1>2, <2>1 DEF TypeOK
<1> QED
  BY <1>3

\* Outside the daemon: nothing of the loop or of opMu moves, and who writes
\* the file is someone else.
LEMMA OutsideKeeps ==
    ASSUME FrontIInv,
           \/ \E f \in Written \cup {Bad} : Edit(f)
           \/ \E hup \in BOOLEAN : Signal(hup)
           \/ \E p \in Peers :
                \/ \E r \in Requests : Request(p, r)
                \/ GiveUp(p)
                \/ OfflineSet(p)
    PROVE  Order' /\ FileInv'
<1> USE DEF FrontIInv, Order, FileInv
<1>1. /\ UNCHANGED <<loop, opMu, mem, got, serving, call, form>>
      /\ UNCHANGED <<file, foreign>> \/ foreign' = TRUE
  BY DEF Edit, Signal, Request, GiveUp, OfflineSet, config, socket, http
<1>2. ASSUME loop = "written", NEW p \in Peers, serving = p
      PROVE  peer'[p].request = peer[p].request
  <2>1. peer[p].request.op = "set" /\ peer[p] # Idle
    BY <1>2 DEF SetWritten, Idle, NoRequest
  <2>2. ASSUME NEW x \in Peers, NEW r \in Requests, Request(x, r)
        PROVE  peer'[p] = peer[p]
    BY <2>1, <2>2 DEF Request, TypeOK
  <2>3. ASSUME NEW x \in Peers, GiveUp(x) \/ OfflineSet(x)
        PROVE  peer'[p].request = peer[p].request
    BY <2>3, MineKeepsRequests DEF GiveUp, OfflineSet
  <2>4. peer' = peer \/ \E x \in Peers :
                          \/ \E r \in Requests : Request(x, r)
                          \/ GiveUp(x)
                          \/ OfflineSet(x)
    BY DEF Edit, Signal, socket
  <2> QED
    BY <2>2, <2>3, <2>4
<1>3. Order'
  BY <1>1 DEF OneInside, FileLoads, ReadIsFile
<1>4. MemoryFollowsFile' /\ CallWritten'
  BY <1>1 DEF MemoryFollowsFile, CallWritten
<1>5. SetWritten'
  BY <1>1, <1>2 DEF SetWritten
<1> QED
  BY <1>3, <1>4, <1>5

\* The loop on its own.  Only BeginTick takes opMu, and only EndTick and the
\* end of the process give it back.
LEMMA LoopKeeps ==
    ASSUME FrontIInv,
           Boot \/ CheckStop \/ BeginTick \/ LoadFile \/ ApplyFile \/ EndTick
    PROVE  Order' /\ FileInv'
<1> USE DEF FrontIInv, Order, FileInv
<1>1. UNCHANGED <<file, foreign, peer, serving, call, form>>
  BY DEF Boot, CheckStop, StopLoop, BeginTick, LoadFile, ApplyFile, EndTick, config,
         socket, http
<1>2. CallWritten' /\ FileLoads'
  BY <1>1 DEF CallWritten, FileLoads
<1>3. SetWritten'
  BY DEF Boot, CheckStop, StopLoop, BeginTick, LoadFile, ApplyFile, EndTick,
         SetWritten
<1>4. OneInside'
  BY <1>1, NamesAssumption
     DEF Boot, CheckStop, StopLoop, BeginTick, LoadFile, ApplyFile, EndTick,
         OneInside, InTick
<1>5. ReadIsFile'
  BY <1>1 DEF Boot, CheckStop, StopLoop, BeginTick, LoadFile, ApplyFile, EndTick,
              ReadIsFile
<1>6. MemoryFollowsFile'
  <2>1. CASE Boot
    BY <2>1 DEF Boot, MemoryFollowsFile
  <2>2. CASE ApplyFile
    BY <1>1, <2>2 DEF ApplyFile, MemoryFollowsFile, ReadIsFile, FileLoads
  <2>3. CASE CheckStop \/ BeginTick \/ LoadFile \/ EndTick
    BY <1>1, <2>3 DEF CheckStop, StopLoop, BeginTick, LoadFile, EndTick, config,
                      MemoryFollowsFile
  <2> QED
    BY <2>1, <2>2, <2>3
<1> QED
  BY <1>2, <1>3, <1>4, <1>5, <1>6

\* A stop: opMu is not the loop's while it drains, and a call that is left may
\* go on with its set.
LEMMA StopKeeps ==
    ASSUME FrontIInv, Drained \/ Teardown \/ Crash
    PROVE  Order' /\ FileInv'
<1> USE DEF FrontIInv, Order, FileInv
<1>1. CASE Drained
  <2>1. /\ UNCHANGED <<opMu, file, mem, foreign, peer, call, form>>
        /\ loop' = "close" /\ loop = "drain"
    BY <1>1 DEF Drained, config, socket, http
  <2>2. Order'
    BY <2>1 DEF OneInside, InTick, FileLoads, ReadIsFile
  <2>3. FileInv'
    BY <2>1 DEF MemoryFollowsFile, SetWritten, CallWritten
  <2> QED
    BY <2>2, <2>3
<1>2. CASE Gone
  <2>1. /\ loop' = "down" /\ opMu' = Nobody /\ UNCHANGED <<file, foreign>>
        /\ \A t \in Tabs : call'[t] = "idle"
    BY <1>2 DEF Gone
  <2> QED
    BY <2>1, NamesAssumption
       DEF OneInside, InTick, FileLoads, ReadIsFile, SetWritten,
           CallWritten, MemoryFollowsFile
<1> QED
  BY <1>1, <1>2 DEF Teardown, Crash

\* The control socket, within a tick: no call is in the middle of a set.
LEMMA SocketKeeps ==
    ASSUME FrontIInv, NEW p \in Peers, Accept(p) \/ Handle(p) \/ FinishSet(p)
    PROVE  Order' /\ FileInv'
<1> USE DEF FrontIInv, Order, FileInv
<1>1. /\ opMu = Loop /\ \A t \in Tabs : call[t] # "set"
      /\ loop' \in InTick \ {"apply"} /\ UNCHANGED <<opMu, call, form>>
  BY NamesAssumption
     DEF Accept, Handle, FinishSet, OneInside, InTick, flags, http
<1>2. OneInside' /\ ReadIsFile' /\ CallWritten'
  BY <1>1, NamesAssumption
     DEF OneInside, InTick, ReadIsFile, CallWritten
<1>3. CASE Accept(p)
  BY <1>1, <1>2, <1>3 DEF Accept, config, FileLoads, SetWritten, MemoryFollowsFile
<1>4. CASE Handle(p) /\ peer[p].request.op = "set"
  <2>1. /\ file' = Patched(mem, peer[p].request) /\ loop' = "written"
        /\ UNCHANGED <<mem, peer, serving>> /\ serving = p
    BY <1>4 DEF Handle
  <2>2. file' \in Files
    BY <1>4, <2>1, PeerRequest, PatchedLoads DEF TypeOK
  <2>3. FileLoads'
    BY <2>2, NamesAssumption DEF FileLoads, Files
  <2> QED
    BY <1>2, <1>4, <2>1, <2>3 DEF SetWritten, MemoryFollowsFile
<1>5. CASE Handle(p) /\ peer[p].request.op # "set"
  <2>1. loop' = "serve" /\ loop = "reading" /\ UNCHANGED <<file, mem, foreign>>
    BY <1>5 DEF Handle
  <2> QED
    BY <1>1, <1>2, <2>1 DEF FileLoads, SetWritten, MemoryFollowsFile
<1>6. CASE FinishSet(p)
  <2>1. loop' = "serve" /\ UNCHANGED <<file, foreign>> /\ mem' = TakesFile(file)
    BY <1>6 DEF FinishSet
  <2> QED
    BY <1>2, <2>1 DEF FileLoads, SetWritten, MemoryFollowsFile, TakesFile
<1> QED
  BY <1>3, <1>4, <1>5, <1>6

\* The dashboards' calls: one that has opMu is alone, the loop is outside its
\* tick.
LEMMA HttpKeeps ==
    ASSUME FrontIInv, TypeOK', NEW t \in Tabs,
           \/ OpenForm(t)
           \/ \E k \in Keys, v \in Values : Post(t, k, v)
           \/ CallWrites(t)
           \/ CallEnds(t)
    PROVE  Order' /\ FileInv'
<1> DEFINE Goal == Order' /\ FileInv'
<1> USE DEF FrontIInv, Order, FileInv
<1>1. UNCHANGED <<loop, got, serving, peer>>
  BY DEF OpenForm, Post, CallWrites, CallEnds, config, socket
<1>2. CASE OpenForm(t)
  <2>1. /\ UNCHANGED <<opMu, file, mem, foreign, call>> /\ call[t] = "idle"
        /\ \A x \in Tabs : x # t => form'[x] = form[x]
    BY <1>2 DEF OpenForm, config, TypeOK
  <2> QED
    BY <1>1, <2>1 DEF OneInside, FileLoads, ReadIsFile, SetWritten,
                      CallWritten, MemoryFollowsFile
<1>3. ASSUME NEW k \in Keys, NEW v \in Values, Post(t, k, v) PROVE Goal
  <2>1. /\ UNCHANGED <<opMu, file, mem, foreign>> /\ loop \in Up
        /\ call[t] = "idle" /\ call'[t] = "waiting" /\ form'[t] # Bad
        /\ \A x \in Tabs : x # t => form'[x] = form[x] /\ call'[x] = call[x]
    <3>1. form[t] \in Files
      BY <1>3 DEF Post, TypeOK
    <3>2. [form[t] EXCEPT ![k] = v] \in Files
      BY <3>1, NamesAssumption DEF Files
    <3>3. form'[t] # Bad
      BY <1>3, <3>2, NamesAssumption DEF Post, TypeOK, Files
    <3> QED
      BY <1>3, <3>3 DEF Post, config, TypeOK
  <2>2. form'[t] \in Files
    BY <2>1 DEF TypeOK
  <2>3. OneInside'
    BY <1>1, <2>1 DEF OneInside, Up
  <2>4. FileLoads' /\ ReadIsFile' /\ SetWritten' /\ CallWritten'
    BY <1>1, <2>1, <2>2 DEF FileLoads, ReadIsFile, SetWritten, CallWritten
  <2>5. MemoryFollowsFile'
    BY <1>1, <2>1 DEF MemoryFollowsFile
  <2> QED
    BY <2>3, <2>4, <2>5
<1>4. CASE CallWrites(t)
  <2>1. /\ opMu = Nobody /\ opMu' = t /\ UNCHANGED <<mem, form>>
        /\ file' = PublicMap(Loaded(form[t])) /\ foreign' = FALSE
        /\ call[t] = "waiting" /\ call'[t] = "set"
        /\ \A x \in Tabs : x # t => call'[x] = call[x]
    BY <1>4 DEF CallWrites, Enter, TypeOK
  <2>2. loop \notin InTick /\ \A x \in Tabs : call[x] # "set"
    BY <2>1, NamesAssumption DEF OneInside
  <2>3. file' \in Files
    BY <2>1, LoadedTyped, PublicMapLoads DEF CallWritten
  <2>4. OneInside'
    BY <1>1, <2>1, <2>2, NamesAssumption DEF OneInside
  <2>5. FileLoads' /\ ReadIsFile' /\ SetWritten'
    BY <1>1, <2>2, <2>3, NamesAssumption
       DEF FileLoads, ReadIsFile, SetWritten, InTick, Files
  <2>6. CallWritten' /\ MemoryFollowsFile'
    BY <2>1, <2>2 DEF CallWritten, MemoryFollowsFile
  <2> QED
    BY <2>4, <2>5, <2>6
<1>5. CASE CallEnds(t)
  <2>1. /\ call[t] = "set" /\ call'[t] = "idle" /\ opMu' = Nobody
        /\ UNCHANGED <<file, foreign>> /\ mem' = TakesFile(file)
        /\ \A x \in Tabs : x # t => call'[x] = call[x] /\ form'[x] = form[x]
    BY <1>5 DEF CallEnds, TypeOK
  <2>2. opMu = t /\ loop \notin InTick /\ \A x \in Tabs : x # t => call[x] # "set"
    BY <2>1, NamesAssumption DEF OneInside
  <2>3. OneInside'
    BY <1>1, <2>1, <2>2, NamesAssumption DEF OneInside
  <2>4. FileLoads' /\ ReadIsFile' /\ SetWritten' /\ CallWritten'
    BY <1>1, <2>1, <2>2 DEF FileLoads, ReadIsFile, SetWritten, CallWritten, InTick
  <2>5. MemoryFollowsFile'
    BY <1>1, <2>1 DEF MemoryFollowsFile, FileLoads, TakesFile
  <2> QED
    BY <2>3, <2>4, <2>5
<1> QED
  BY <1>2, <1>3, <1>4, <1>5

LEMMA FrontInvStep ==
    ASSUME FrontIInv, [Next]_vars
    PROVE  FrontIInv'
<1>1. CASE UNCHANGED vars
  BY <1>1 DEF vars, FrontIInv, TypeOK, PeersLoaded, Order, FileInv, OneInside, FileLoads,
              ReadIsFile, MemoryFollowsFile, SetWritten, CallWritten
<1>2. CASE Next
  <2> DEFINE Outside == \/ \E f \in Written \cup {Bad} : Edit(f)
                        \/ \E hup \in BOOLEAN : Signal(hup)
                        \/ \E p \in Peers :
                             \/ \E r \in Requests : Request(p, r)
                             \/ GiveUp(p)
                             \/ OfflineSet(p)
             Inner == Boot \/ CheckStop \/ BeginTick \/ LoadFile \/ ApplyFile \/ EndTick
             Ending == Drained \/ Teardown \/ Crash
  <2>1. CASE Outside
    BY <2>1, OutsideTyped, OutsideKeeps DEF FrontIInv
  <2>2. CASE Inner
    BY <2>2, LoopTyped, LoopKeeps DEF FrontIInv
  <2>3. CASE Ending
    BY <2>3, LoopTyped, StopKeeps DEF FrontIInv
  <2>4. ASSUME NEW p \in Peers, Accept(p) \/ Handle(p) \/ FinishSet(p)
        PROVE  FrontIInv'
    BY <2>4, SocketTyped, SocketKeeps DEF FrontIInv, FileInv
  <2>5. ASSUME NEW t \in Tabs,
               \/ OpenForm(t)
               \/ \E k \in Keys, v \in Values : Post(t, k, v)
               \/ CallWrites(t)
               \/ CallEnds(t)
        PROVE  FrontIInv'
    BY <2>5, HttpTyped, HttpKeeps DEF FrontIInv, FileInv
  <2>6. \/ Outside \/ Inner \/ Ending
        \/ \E p \in Peers : Accept(p) \/ Handle(p) \/ FinishSet(p)
        \/ \E t \in Tabs :
             \/ OpenForm(t)
             \/ \E k \in Keys, v \in Values : Post(t, k, v)
             \/ CallWrites(t)
             \/ CallEnds(t)
    BY <1>2 DEF Next
  <2> QED
    BY <2>1, <2>2, <2>3, <2>4, <2>5, <2>6
<1> QED
  BY <1>1, <1>2

LEMMA FrontInvInit == Init => FrontIInv
<1> SUFFICES ASSUME Init PROVE FrontIInv
  OBVIOUS
<1>1. file \in Files
  BY NamesAssumption DEF Init, Files
<1>2. TypeOK
  <2>1. mem \in Configs
    BY <1>1, LoadedTyped DEF Init
  <2>2. peer \in [Peers -> PeerStates]
    BY DEF Init, PeerStates
  <2>3. budget \in 0..Budget
    BY NamesAssumption DEF Init
  <2> QED
    BY <1>1, <2>1, <2>2, <2>3 DEF Init, TypeOK, Up
<1>3. Order
  BY <1>1, NamesAssumption
     DEF Init, Order, OneInside, InTick, FileLoads, ReadIsFile, Files
<1>4. PeersLoaded /\ FileInv
  BY DEF Init, Idle, PeersLoaded, FileInv, MemoryFollowsFile, SetWritten, CallWritten
<1> QED
  BY <1>2, <1>3, <1>4 DEF FrontIInv

\* While the daemon runs its configuration is what the file says, unless
\* someone else wrote it, whatever ticks, sets, reloads and calls do in
\* whatever order, also beside a stop (service.go, tick.go).
THEOREM FrontInvHolds == Spec => []FrontInv
<1>1. FrontIInv => FrontInv
  BY DEF FrontIInv, FrontInv, Order, FileInv
<1> QED
  BY FrontInvInit, FrontInvStep, <1>1, PTL DEF Spec

-----------------------------------------------------------------------------
(* What a set that is answered did.                                        *)

LEMMA AnsweredByFinishSet ==
    ASSUME FrontIInv, [Next]_vars, NEW p \in Peers,
           peer[p].phase = "sent", peer'[p].phase = "done",
           peer[p].request.op = "set"
    PROVE  FinishSet(p)
<1> USE DEF FrontIInv
<1>1. ASSUME NEW x \in Peers, NEW phase, peer[x].phase # "idle",
             peer' = Mine(x, phase)
      PROVE  x = p /\ phase = "done"
  <2>1. \A y \in Peers : y # x => peer'[y] = peer[y]
    BY <1>1 DEF Mine, TypeOK
  <2>2. x = p
    BY <2>1
  <2>3. peer[p] \in [phase : {"sent", "offline", "done", "failed"},
                     request : Requests, base : Configs \cup {Bad}]
    BY DEF TypeOK, PeerStates, Idle
  <2>4. peer'[p] = [peer[p] EXCEPT !.phase = phase]
    BY <1>1, <2>2 DEF Mine, TypeOK
  <2>5. [peer[p] EXCEPT !.phase = phase].phase = phase
    BY <2>3
  <2> QED
    BY <2>2, <2>4, <2>5
<1>2. peer' # peer
  OBVIOUS
<1>3. ASSUME NEW x \in Peers, NEW r \in Requests, Request(x, r) PROVE FALSE
  <2>1. x # p
    BY <1>3 DEF Request, Idle
  <2> QED
    BY <1>3, <2>1 DEF Request, TypeOK
<1>4. ASSUME NEW x \in Peers, GiveUp(x) PROVE FALSE
  BY <1>1, <1>4 DEF GiveUp, WithoutAnswer
<1>5. ASSUME NEW x \in Peers, OfflineSet(x) PROVE FALSE
  BY <1>1, <1>5 DEF OfflineSet
<1>6. ASSUME NEW x \in Peers, Handle(x) PROVE FALSE
  BY <1>1, <1>2, <1>6 DEF Handle
<1>7. ASSUME NEW x \in Peers, FinishSet(x) PROVE x = p
  BY <1>1, <1>2, <1>7 DEF FinishSet
<1>8. ~Gone
  BY GonePeers
<1> QED
  <2>1. \E x \in Peers : FinishSet(x)
    BY <1>2, <1>3, <1>4, <1>5, <1>6, <1>8, SMTT(60)
       DEF Next, vars, Edit, Signal, Boot, CheckStop, BeginTick, LoadFile, ApplyFile,
           EndTick, Drained, Teardown, Crash, Accept, OpenForm, Post, CallWrites,
           CallEnds, socket
  <2> QED
    BY <1>7, <2>1

LEMMA AnsweredByCallEnds ==
    ASSUME FrontIInv, [Next]_vars, NEW t \in Tabs,
           call[t] = "set", call'[t] = "idle", loop' # "down"
    PROVE  CallEnds(t)
<1> USE DEF FrontIInv
<1>1. call' # call
  OBVIOUS
<1>2. ~Gone
  BY DEF Gone
<1>3. ASSUME NEW x \in Tabs, NEW k \in Keys, NEW v \in Values, Post(x, k, v) PROVE FALSE
  BY <1>3 DEF Post, TypeOK
<1>4. ASSUME NEW x \in Tabs, CallWrites(x) PROVE FALSE
  BY <1>4 DEF CallWrites, TypeOK
<1>5. ASSUME NEW x \in Tabs, CallEnds(x) PROVE x = t
  BY <1>5 DEF CallEnds, TypeOK
<1>6. \E x \in Tabs : CallEnds(x)
  BY <1>1, <1>2, <1>3, <1>4, SMTT(60)
     DEF Next, vars, Edit, Signal, Request, GiveUp, OfflineSet, Boot, CheckStop, BeginTick,
         LoadFile, ApplyFile, EndTick, Drained, Teardown, Crash, Accept, Handle, FinishSet,
         OpenForm, http
<1> QED
  BY <1>5, <1>6

\* An answered set put exactly what it names in effect, if nobody else wrote
\* the file since: the file still holds the patch, and a patch of any
\* configuration reads back as that configuration with one key changed
\* (ApplyUpdate, FormatDuration).
THEOREM SetInEffectHolds == Spec => SetInEffect
<1> DEFINE Answered ==
      /\ \A p \in Peers :
           LET r == peer[p].request
           IN  peer[p].phase = "sent" /\ peer'[p].phase = "done"
                 /\ r.op = "set" /\ ~foreign
                 => mem' = [mem EXCEPT ![r.key] = ParseDuration(r.value)]
      /\ \A t \in Tabs :
           call[t] = "set" /\ call'[t] = "idle" /\ loop' # "down" /\ ~foreign
             => mem' = Loaded(form[t])
<1>1. ASSUME FrontIInv, [Next]_vars PROVE Answered
  <2> USE <1>1 DEF FrontIInv, Order, FileInv
  <2>1. ASSUME NEW p \in Peers, peer[p].phase = "sent", peer'[p].phase = "done",
               peer[p].request.op = "set", ~foreign
        PROVE  mem' = [mem EXCEPT ![peer[p].request.key]
                                    = ParseDuration(peer[p].request.value)]
    <3>1. FinishSet(p)
      BY <2>1, AnsweredByFinishSet
    <3>2. file = Patched(mem, peer[p].request) /\ mem' = Loaded(file)
      BY <2>1, <3>1, FileLoaded DEF FinishSet, SetWritten
    <3>3. peer[p].request \in SetRequests
      BY <2>1, PeerRequest
    <3> QED
      BY <3>2, <3>3, PatchedLoads DEF TypeOK
  <2>2. ASSUME NEW t \in Tabs, call[t] = "set", call'[t] = "idle", loop' # "down", ~foreign
        PROVE  mem' = Loaded(form[t])
    <3>1. CallEnds(t)
      BY <2>2, AnsweredByCallEnds
    <3>2. file = PublicMap(Loaded(form[t])) /\ form[t] \in Files /\ mem' = Loaded(file)
      BY <2>2, <3>1, FileLoaded DEF CallEnds, CallWritten
    <3> QED
      BY <3>2, LoadedTyped, PublicMapLoads
  <2> QED
    BY <2>1, <2>2
<1>2. FrontIInv /\ [Next]_vars => [Answered]_vars
  BY <1>1
<1> HIDE DEF Answered
<1>3. Spec => [][Answered]_vars
  BY FrontInvInit, FrontInvStep, <1>2, PTL DEF Spec
<1> QED
  BY <1>3 DEF SetInEffect, Answered

-----------------------------------------------------------------------------
(* The event stream.                                                       *)

\* A set of numbers that is not empty has a least one.
LEMMA LeastNat ==
    ASSUME NEW T \in SUBSET Nat, T # {}
    PROVE  \E n \in T : \A m \in T : n <= m
<1> DEFINE R == OpToRel(<, Nat)
<1>1. IsWellFoundedOn(R, Nat)
  BY NatLessThanWellFounded
<1> HIDE DEF R
<1>2. \E n \in T : \A m \in T : ~(<<m, n>> \in R)
  BY <1>1, WFMin, Zenon
<1>3. \A m, n \in Nat : m < n => <<m, n>> \in R
  BY DEF R, OpToRel
<1>4. PICK n \in T : \A m \in T : ~(<<m, n>> \in R)
  BY <1>2
<1>5. ASSUME NEW m \in T PROVE n <= m
  <2>1. ~(m < n)
    BY <1>3, <1>4
  <2> QED
    BY <2>1
<1> QED
  BY <1>5

\* Induction, as a fact about sets.
LEMMA InductionUpTo ==
    ASSUME NEW j \in Nat, NEW n \in Nat, NEW T, j \in T,
           \A i \in j..n - 1 : i \in T => i + 1 \in T
    PROVE  \A i \in j..n : i \in T
<1> DEFINE Missing == {i \in j..n : i \notin T}
<1> SUFFICES ASSUME Missing # {} PROVE FALSE
  OBVIOUS
<1>1. Missing \in SUBSET Nat
  OBVIOUS
<1>2. PICK m \in Missing : \A i \in Missing : m <= i
  BY <1>1, LeastNat
<1>3. m \in Nat /\ j <= m /\ m <= n /\ m \notin T /\ m # j
  BY <1>2
<1>4. m - 1 \in j..n /\ m - 1 \in j..n - 1 /\ m - 1 \notin Missing
  BY <1>2, <1>3
<1>5. m - 1 \in T
  BY <1>4
<1>6. (m - 1) + 1 \in T
  BY <1>4, <1>5
<1> QED
  BY <1>3, <1>6

-----------------------------------------------------------------------------
(* Reading a pipe.                                                         *)

\* f is what is shown after each of the events of s.
Traces(f, v, s) ==
    /\ f[0] = v
    /\ \A i \in 1..Len(s) : f[i] = Applied(f[i - 1], s[i])

\* The definition of after in Replay.
Unrolls(f, v, s, n) ==
    f = [i \in 0..n |-> IF i = 0 THEN v ELSE Applied(f[i - 1], s[i])]

LEMMA UnrollStep ==
    ASSUME NEW v, NEW s, NEW n \in Nat, NEW f, Unrolls(f, v, s, n)
    PROVE  \E g : Unrolls(g, v, s, n + 1)
<1> DEFINE g == [i \in 0..n + 1 |-> IF i <= n THEN f[i]
                                    ELSE Applied(f[n], s[n + 1])]
<1>1. \A i \in 0..n + 1 :
        g[i] = IF i = 0 THEN v ELSE Applied(g[i - 1], s[i])
  <2> SUFFICES ASSUME NEW i \in 0..n + 1
               PROVE  g[i] = IF i = 0 THEN v ELSE Applied(g[i - 1], s[i])
    OBVIOUS
  <2>1. CASE i = 0
    BY <2>1 DEF Unrolls
  <2>2. CASE i \in 1..n
    <3>1. g[i] = f[i] /\ g[i - 1] = f[i - 1]
      BY <2>2
    <3>2. f[i] = Applied(f[i - 1], s[i])
      BY <2>2 DEF Unrolls
    <3> HIDE DEF g
    <3> QED
      BY <2>2, <3>1, <3>2
  <2>3. CASE i = n + 1
    <3>1. g[i] = Applied(f[n], s[n + 1]) /\ g[n] = f[n]
      BY <2>3
    <3> HIDE DEF g
    <3> QED
      BY <2>3, <3>1
  <2> QED
    BY <2>1, <2>2, <2>3
<1>2. g = [i \in 0..n + 1 |-> g[i]]
  OBVIOUS
<1> HIDE DEF g
<1>3. Unrolls(g, v, s, n + 1)
  BY <1>1, <1>2 DEF Unrolls
<1> QED
  BY <1>3

LEMMA UnrollExists ==
    ASSUME NEW v, NEW s, NEW n \in Nat
    PROVE  \E f : Unrolls(f, v, s, n)
<1> DEFINE T == {i \in Nat : \E f : Unrolls(f, v, s, i)}
<1>1. 0 \in T
  <2>1. Unrolls([i \in 0..0 |-> v], v, s, 0)
    BY DEF Unrolls
  <2> QED
    BY <2>1
<1>2. \A i \in 0..n - 1 : i \in T => i + 1 \in T
  BY UnrollStep
<1> HIDE DEF T
<1>3. n \in T
  BY <1>1, <1>2, InductionUpTo
<1> QED
  BY <1>3 DEF T

\* The recursion of Replay is one: there is a trace, and it ends in Replay.
LEMMA ReplayTrace ==
    ASSUME NEW v, NEW s, Len(s) \in Nat
    PROVE  \E f : Traces(f, v, s) /\ Replay(v, s) = f[Len(s)]
<1> DEFINE f == CHOOSE x : Unrolls(x, v, s, Len(s))
<1>1. Unrolls(f, v, s, Len(s))
  BY UnrollExists
<1>2. Replay(v, s) = f[Len(s)]
  BY DEF Replay, Unrolls
<1> HIDE DEF f
<1>3. Traces(f, v, s)
  BY <1>1 DEF Unrolls, Traces
<1> QED
  BY <1>2, <1>3

\* t holds after place a the events that s holds after place j, up to b and n.
SameEvents(s, j, n, t, a, b) ==
    /\ j \in Nat /\ n \in Nat /\ a \in Nat /\ b \in Nat
    /\ Len(s) \in Nat /\ Len(t) \in Nat
    /\ j <= n /\ n <= Len(s) /\ b <= Len(t) /\ b = a + (n - j)
    /\ \A i \in 1..n - j : t[a + i] = s[j + i]

\* Traces that agree before the same events agree after them.
LEMMA TracesAgree ==
    ASSUME NEW f, NEW v, NEW s, Traces(f, v, s),
           NEW g, NEW w, NEW t, Traces(g, w, t),
           NEW j, NEW n, NEW a, NEW b, SameEvents(s, j, n, t, a, b),
           g[a] = f[j]
    PROVE  g[b] = f[n]
<1> USE DEF SameEvents
<1> DEFINE T == {i \in Nat : g[a + i] = f[j + i]}
<1>1. 0 \in T
  OBVIOUS
<1>2. ASSUME NEW i \in 0..(n - j) - 1, i \in T PROVE i + 1 \in T
  <2>1. j + (i + 1) \in 1..Len(s) /\ a + (i + 1) \in 1..Len(t) /\ i + 1 \in 1..n - j
    OBVIOUS
  <2>2. f[j + (i + 1)] = Applied(f[(j + (i + 1)) - 1], s[j + (i + 1)])
    BY <2>1 DEF Traces
  <2>3. g[a + (i + 1)] = Applied(g[(a + (i + 1)) - 1], t[a + (i + 1)])
    BY <2>1 DEF Traces
  <2>4. (j + (i + 1)) - 1 = j + i /\ (a + (i + 1)) - 1 = a + i
    OBVIOUS
  <2>5. t[a + (i + 1)] = s[j + (i + 1)] /\ g[a + i] = f[j + i]
    BY <1>2, <2>1
  <2> QED
    BY <2>2, <2>3, <2>4, <2>5
<1> HIDE DEF T
<1>3. n - j \in Nat /\ 0 \in Nat
  OBVIOUS
<1>4. n - j \in 0..n - j
  BY <1>3
<1>5. n - j \in T
  <2> DEFINE m == n - j
  <2> HIDE DEF m
  <2>1. m \in Nat /\ \A i \in 0..m - 1 : i \in T => i + 1 \in T
    BY <1>2, <1>3 DEF m
  <2>2. \A i \in 0..m : i \in T
    BY <1>1, <1>3, <2>1, InductionUpTo
  <2>3. m \in 0..m
    BY <2>1
  <2> QED
    BY <2>2, <2>3 DEF m
<1>6. a + (n - j) = b /\ j + (n - j) = n
  OBVIOUS
<1> QED
  BY <1>5, <1>6 DEF T

LEMMA ReplayNone == ASSUME NEW v PROVE Replay(v, <<>>) = v
<1>1. Len(<<>>) = 0
  OBVIOUS
<1>2. PICK f : Traces(f, v, <<>>) /\ Replay(v, <<>>) = f[Len(<<>>)]
  BY <1>1, ReplayTrace
<1> QED
  BY <1>1, <1>2 DEF Traces

LEMMA ReplayOne == ASSUME NEW v, NEW e PROVE Replay(v, <<e>>) = Applied(v, e)
<1>1. Len(<<e>>) = 1 /\ <<e>>[1] = e
  OBVIOUS
<1>2. PICK f : Traces(f, v, <<e>>) /\ Replay(v, <<e>>) = f[Len(<<e>>)]
  BY <1>1, ReplayTrace
<1>3. f[1] = Applied(f[0], e) /\ f[0] = v
  BY <1>1, <1>2 DEF Traces
<1> QED
  BY <1>1, <1>2, <1>3

\* What is sent later is read later.
LEMMA ReplayConcat ==
    ASSUME NEW v, NEW s \in Seq(Events), NEW t \in Seq(Events)
    PROVE  Replay(v, s \o t) = Replay(Replay(v, s), t)
<1> DEFINE m == Len(s)
           n == Len(t)
           w == Replay(v, s)
           all == s \o t
<1>1. /\ m \in Nat /\ n \in Nat /\ Len(all) = m + n /\ Len(all) \in Nat
      /\ \A i \in 1..m : all[i] = s[i]
      /\ \A i \in 1..n : all[m + i] = t[i]
  OBVIOUS
<1>2. PICK f : Traces(f, v, s) /\ w = f[m]
  BY <1>1, ReplayTrace
<1>3. PICK g : Traces(g, w, t) /\ Replay(w, t) = g[n]
  BY <1>1, ReplayTrace
<1> HIDE DEF all
<1>4. PICK h : Traces(h, v, all) /\ Replay(v, all) = h[Len(all)]
  BY <1>1, ReplayTrace
<1> HIDE DEF m, n, w
<1>5. h[m] = f[m]
  <2>1. SameEvents(s, 0, m, all, 0, m)
    BY <1>1 DEF SameEvents, m
  <2>2. h[0] = f[0]
    BY <1>2, <1>4 DEF Traces
  <2> QED
    BY <1>2, <1>4, <2>1, <2>2, TracesAgree
<1>6. h[m + n] = g[n]
  <2>1. SameEvents(t, 0, n, all, m, m + n)
    BY <1>1 DEF SameEvents, n
  <2>2. h[m] = g[0]
    BY <1>2, <1>3, <1>5 DEF Traces
  <2> QED
    BY <1>3, <1>4, <2>1, <2>2, TracesAgree
<1> QED
  BY <1>1, <1>3, <1>4, <1>6 DEF all, w

LEMMA ReplayFirst ==
    ASSUME NEW v, NEW s \in Seq(Events), s # <<>>
    PROVE  Replay(v, s) = Replay(Applied(v, Head(s)), Tail(s))
<1> DEFINE e == Head(s)
           h == <<e>>
           t == Tail(s)
<1>1. s = h \o t /\ h \in Seq(Events) /\ t \in Seq(Events)
  OBVIOUS
<1>2. Replay(v, h) = Applied(v, e)
  BY ReplayOne
<1> HIDE DEF h, t
<1>3. Replay(v, h \o t) = Replay(Replay(v, h), t)
  BY <1>1, ReplayConcat
<1> QED
  BY <1>1, <1>2, <1>3 DEF t

\* The events from the i-th on.
From(s, i) == SubSeq(s, i, Len(s))

LEMMA FromTyped ==
    ASSUME NEW s \in Seq(Events), NEW i \in 1..Len(s)
    PROVE  /\ From(s, i) \in Seq(Events)
           /\ Len(From(s, i)) = (Len(s) - i) + 1
           /\ \A k \in 1..Len(From(s, i)) : From(s, i)[k] = s[(i + k) - 1]
<1>1. Len(s) \in Nat /\ i \in Int /\ i <= Len(s) /\ \A k \in i..Len(s) : s[k] \in Events
  OBVIOUS
<1>2. /\ SubSeq(s, i, Len(s)) \in Seq(Events)
      /\ Len(SubSeq(s, i, Len(s))) = IF i <= Len(s) THEN Len(s) - i + 1 ELSE 0
      /\ \A k \in 1..Len(s) - i + 1 : SubSeq(s, i, Len(s))[k] = s[i + k - 1]
  BY <1>1, SubSeqProperties
<1> QED
  BY <1>1, <1>2 DEF From

LEMMA FromSplits ==
    ASSUME NEW s \in Seq(Events), NEW i \in 1..Len(s)
    PROVE  /\ SubSeq(s, 1, i - 1) \in Seq(Events)
           /\ s = SubSeq(s, 1, i - 1) \o From(s, i)
<1> DEFINE j == i - 1
<1>1. /\ Len(s) \in Nat /\ i = j + 1 /\ j \in (1 - 1)..Len(s) /\ j \in Int
      /\ 1 \in 1..Len(s) + 1 /\ Len(s) \in j..Len(s)
      /\ \A k \in 1..j : s[k] \in Events
  OBVIOUS
<1> HIDE DEF j
<1>2. SubSeq(s, 1, j) \in Seq(Events)
  BY <1>1, SubSeqProperties
<1>3. SubSeq(s, 1, j) \o SubSeq(s, j + 1, Len(s)) = SubSeq(s, 1, Len(s))
  BY <1>1, ConcatAdjacentSubSeq
<1>4. SubSeq(s, 1, Len(s)) = s
  BY SubSeqFull
<1> QED
  BY <1>1, <1>2, <1>3, <1>4 DEF From, j

LEMMA FromFirst ==
    ASSUME NEW s \in Seq(Events), s # <<>>
    PROVE  1 \in DOMAIN s /\ From(s, 1) = s
BY SubSeqFull DEF From

LEMMA FromOfTail ==
    ASSUME NEW s \in Seq(Events), s # <<>>, NEW i \in 1..Len(Tail(s))
    PROVE  /\ i + 1 \in 1..Len(s) /\ Tail(s)[i] = s[i + 1]
           /\ From(Tail(s), i) = From(s, i + 1)
<1> DEFINE t == Tail(s)
           j == i + 1
<1>1. /\ t \in Seq(Events) /\ Len(s) \in Nat /\ Len(t) = Len(s) - 1
      /\ i \in Int /\ i \in 1..Len(t) /\ j \in 1..Len(s) /\ j = i + 1
      /\ \A k \in 1..Len(t) : t[k] = s[k + 1]
  BY HeadTailProperties
<1> HIDE DEF t, j
<1> DEFINE a == From(t, i)
           b == From(s, j)
<1>2. /\ a \in Seq(Events) /\ Len(a) = (Len(t) - i) + 1
      /\ \A k \in 1..Len(a) : a[k] = t[(i + k) - 1]
  BY <1>1, FromTyped
<1>3. /\ b \in Seq(Events) /\ Len(b) = (Len(s) - j) + 1
      /\ \A k \in 1..Len(b) : b[k] = s[(j + k) - 1]
  BY <1>1, FromTyped
<1> HIDE DEF a, b
<1>4. Len(a) = Len(b)
  BY <1>1, <1>2, <1>3
<1>5. ASSUME NEW k \in 1..Len(a) PROVE a[k] = b[k]
  <2> DEFINE x == (i + k) - 1
             y == (j + k) - 1
  <2>1. x \in 1..Len(t) /\ y = x + 1
    BY <1>1, <1>2, <1>5
  <2>2. a[k] = t[x] /\ b[k] = s[y]
    BY <1>2, <1>3, <1>4, <1>5
  <2> HIDE DEF x, y
  <2> QED
    BY <1>1, <2>1, <2>2
<1>6. a = b
  BY <1>2, <1>3, <1>4, <1>5, SeqEqual
<1> QED
  BY <1>1, <1>6 DEF a, b, t, j

\* What is sent later is at the end of each rest.
LEMMA FromOfConcat ==
    ASSUME NEW s \in Seq(Events), NEW t \in Seq(Events), NEW i \in 1..Len(s)
    PROVE  (s \o t)[i] = s[i] /\ From(s \o t, i) = From(s, i) \o t
<1> DEFINE u == s \o t
           m == Len(s)
           n == Len(t)
           a == From(u, i)
           b == From(s, i)
           c == b \o t
<1>1. /\ u \in Seq(Events) /\ m \in Nat /\ n \in Nat /\ Len(u) = m + n
      /\ i \in Int /\ 1 <= i /\ i <= m /\ i \in 1..Len(u)
      /\ \A k \in 1..m + n : u[k] = IF k <= m THEN s[k] ELSE t[k - m]
  BY ConcatProperties
<1> HIDE DEF u
<1>2. /\ a \in Seq(Events) /\ Len(a) = ((m + n) - i) + 1
      /\ \A k \in 1..Len(a) : a[k] = u[(i + k) - 1]
  BY <1>1, FromTyped
<1>3. /\ b \in Seq(Events) /\ Len(b) = (m - i) + 1
      /\ \A k \in 1..Len(b) : b[k] = s[(i + k) - 1]
  BY FromTyped
<1> HIDE DEF a, b
<1>4. /\ c \in Seq(Events) /\ Len(c) = Len(b) + n
      /\ \A k \in 1..Len(b) + n : c[k] = IF k <= Len(b) THEN b[k] ELSE t[k - Len(b)]
  BY <1>3, ConcatProperties
<1> HIDE DEF c, m, n
<1>5. Len(a) = Len(c)
  BY <1>1, <1>2, <1>3, <1>4
<1>6. ASSUME NEW k \in 1..Len(a) PROVE a[k] = c[k]
  <2> DEFINE x == (i + k) - 1
             y == k - Len(b)
  <2>1. /\ x \in 1..m + n /\ k \in 1..Len(b) + n /\ (x <= m <=> k <= Len(b))
        /\ x - m = y
    BY <1>1, <1>2, <1>3, <1>6
  <2>2. a[k] = u[x] /\ (k <= Len(b) => b[k] = s[x])
    BY <1>1, <1>2, <1>3, <1>6
  <2>3. c[k] = IF k <= Len(b) THEN b[k] ELSE t[y]
    BY <1>4, <2>1
  <2> HIDE DEF x, y
  <2>4. u[x] = IF x <= m THEN s[x] ELSE t[x - m]
    BY <1>1, <2>1
  <2> QED
    BY <2>1, <2>2, <2>3, <2>4
<1>7. a = c
  BY <1>2, <1>4, <1>5, <1>6, SeqEqual
<1>8. u[i] = s[i]
  BY <1>1
<1> QED
  BY <1>7, <1>8 DEF a, b, c, u

LEMMA FromOfLater ==
    ASSUME NEW s \in Seq(Events), NEW t \in Seq(Events),
           NEW i \in Len(s) + 1..Len(s) + Len(t)
    PROVE  /\ i - Len(s) \in 1..Len(t) /\ (s \o t)[i] = t[i - Len(s)]
           /\ From(s \o t, i) = From(t, i - Len(s))
<1> DEFINE e == Len(s) + Len(t)
<1>1. /\ Len(s \o t) = e /\ i \in Len(s) + 1..e /\ e \in Len(s) + 1..e
      /\ e - Len(s) = Len(t) /\ i - Len(s) \in 1..Len(t)
      /\ (s \o t)[i] = t[i - Len(s)]
  BY ConcatProperties
<1>2. SubSeq(s \o t, i, e) = SubSeq(t, i - Len(s), e - Len(s))
  <2>1. e \in Len(s) + 1..Len(s) + Len(t)
    BY <1>1
  <2> HIDE DEF e
  <2> QED
    BY <2>1, SubSeqOfConcat2
<1> HIDE DEF e
<1> QED
  BY <1>1, <1>2 DEF From

\* Whatever is shown when the i-th event is read, then s leads to doc.
Leads(s, i, doc) == \A w \in Views : Sees(Replay(w, From(s, i)), doc)

-----------------------------------------------------------------------------
(* What the stream sends.                                                  *)

LEMMA OverviewTyped ==
    ASSUME NEW doc \in Documents
    PROVE  /\ Overview(doc) \in Overviews
           /\ Overview(doc).counts = Counts(doc.rows)
           /\ Overview(doc).mark = doc.mark
BY DEF Overview, Overviews

\* Every overview has its counts from a table, and every mark has one.
LEMMA WithOverviewTyped ==
    ASSUME NEW v \in Views, NEW o \in Overviews
    PROVE  /\ WithOverview(v, o) \in Views
           /\ WithOverview(v, o).table = v.table
           /\ WithOverview(v, o).overview.counts = o.counts
           /\ WithOverview(v, o).overview.mark
                = IF o.mark = 0 THEN v.overview.mark ELSE o.mark
<1> DEFINE m == IF o.mark = 0 THEN v.overview.mark ELSE o.mark
           n == [counts |-> o.counts, mark |-> m]
<1>1. PICK d \in Documents : o = Overview(d)
  BY DEF Overviews
<1>2. PICK e \in Documents : v.overview = Overview(e)
  BY DEF Views, Overviews
<1>3. m \in Marks
  BY <1>1, <1>2, OverviewTyped DEF Documents
<1> HIDE DEF m
<1>4. d.rows \in Tables
  BY DEF Documents
<1> DEFINE x == [rows |-> d.rows, mark |-> m]
<1>5. x \in Documents /\ x.rows = d.rows /\ x.mark = m
  BY <1>3, <1>4 DEF Documents
<1> HIDE DEF x
<1>6. n = Overview(x)
  BY <1>1, <1>5, OverviewTyped DEF Overview
<1>7. n \in Overviews /\ n.counts = o.counts /\ n.mark = m
  BY <1>5, <1>6, OverviewTyped
<1> HIDE DEF n
<1>8. WithOverview(v, o) = [v EXCEPT !.overview = n]
  BY DEF WithOverview, n, m
<1> QED
  BY <1>7, <1>8 DEF Views, m

LEMMA ShownTyped ==
    ASSUME NEW v \in Views, NEW doc \in Documents
    PROVE  Shown(v, doc) \in Views /\ Sees(Shown(v, doc), doc)
<1> DEFINE o == Overview(doc)
           w == WithOverview(v, o)
<1>1. o \in Overviews /\ o.counts = Counts(doc.rows) /\ o.mark = doc.mark
  BY OverviewTyped
<1>2. doc.rows \in Tables
  BY DEF Documents
<1>3. Shown(v, doc) = [w EXCEPT !.table = doc.rows]
  BY DEF Shown
<1> HIDE DEF o
<1>4. /\ w \in Views /\ w.overview.counts = o.counts
      /\ w.overview.mark = IF o.mark = 0 THEN v.overview.mark ELSE o.mark
  BY <1>1, WithOverviewTyped
<1> HIDE DEF w
<1>5. /\ Shown(v, doc) \in Views
      /\ Shown(v, doc).table = doc.rows /\ Shown(v, doc).overview = w.overview
  BY <1>2, <1>3, <1>4 DEF Views
<1>6. \A a \in Archives : SameWatched(doc.rows[a], doc.rows[a])
  BY DEF SameWatched
<1> QED
  BY <1>1, <1>4, <1>5, <1>6 DEF Sees

LEMMA SnapshotTyped ==
    ASSUME NEW doc \in Documents
    PROVE  Snapshot(doc) \in Events
BY DEF Snapshot, Events

LEMMA AppliedTyped ==
    ASSUME NEW v \in Views, NEW e \in Events
    PROVE  Applied(v, e) \in Views
<1>1. CASE e \in [kind : {"snapshot"}, doc : Documents]
  BY <1>1, ShownTyped DEF Applied
<1>2. CASE e \in [kind : {"counts"}, overview : Overviews]
  <2>1. Applied(v, e) = WithOverview(v, e.overview) /\ e.overview \in Overviews
    BY <1>2 DEF Applied
  <2> QED
    BY <2>1, WithOverviewTyped
<1>3. CASE e \in [kind : {"archive"}, removed : SUBSET Archives,
                  rows : UNION {[d -> Rows] : d \in SUBSET Archives}]
  <2>1. PatchTable(v.table, e) \in Tables
    <3>1. \A a \in DOMAIN e.rows : e.rows[a] \in Rows
      BY <1>3
    <3>2. v.table \in Tables
      BY DEF Views
    <3> QED
      BY <3>1, <3>2 DEF PatchTable, Tables
  <2>2. Applied(v, e) = [v EXCEPT !.table = PatchTable(v.table, e)]
    BY <1>3 DEF Applied
  <2> QED
    BY <2>1, <2>2 DEF Views
<1> QED
  BY <1>1, <1>2, <1>3 DEF Events

LEMMA ReplayTyped ==
    ASSUME NEW v \in Views, NEW s \in Seq(Events)
    PROVE  Replay(v, s) \in Views
<1> DEFINE n == Len(s)
<1>1. n \in Nat /\ 0 \in Nat /\ n \in 0..n
  OBVIOUS
<1>2. PICK f : Traces(f, v, s) /\ Replay(v, s) = f[n]
  BY <1>1, ReplayTrace
<1> DEFINE T == {i \in Nat : f[i] \in Views}
<1>3. 0 \in T
  BY <1>2 DEF Traces
<1>4. ASSUME NEW i \in 0..n - 1, i \in T PROVE i + 1 \in T
  <2>1. i + 1 \in 1..Len(s) /\ (i + 1) - 1 = i /\ s[i + 1] \in Events
    OBVIOUS
  <2>2. f[i + 1] = Applied(f[i], s[i + 1])
    BY <1>2, <2>1 DEF Traces
  <2> QED
    BY <1>4, <2>1, <2>2, AppliedTyped
<1> HIDE DEF n, T
<1>5. \A i \in 0..n : i \in T
  BY <1>1, <1>3, <1>4, InductionUpTo
<1> QED
  BY <1>1, <1>2, <1>5 DEF T

\* DiffSnapshots sends at most a counts event and an archive event.
LEMMA DeltasTyped ==
    ASSUME NEW old \in Documents, NEW new \in Documents
    PROVE  LET counts  == [kind |-> "counts", overview |-> Overview(new)]
               archive == [kind |-> "archive",
                           rows |-> [a \in Patches(old, new) |-> new.rows[a]],
                           removed |-> Removed(old, new)]
           IN  /\ counts \in Events /\ archive \in Events
               /\ Deltas(old, new) \in Seq(Events)
               /\ Len(Deltas(old, new)) <= 2
<1> DEFINE counts  == [kind |-> "counts", overview |-> Overview(new)]
           rs      == [a \in Patches(old, new) |-> new.rows[a]]
           archive == [kind |-> "archive", rows |-> rs, removed |-> Removed(old, new)]
<1>1. counts \in Events
  BY OverviewTyped DEF Events
<1>2. archive \in Events
  <2>1. Patches(old, new) \in SUBSET Archives /\ Removed(old, new) \in SUBSET Archives
    BY DEF Patches, Removed
  <2>2. rs \in [Patches(old, new) -> Rows]
    BY DEF Patches, Documents, Tables
  <2> HIDE DEF rs
  <2>3. rs \in UNION {[d -> Rows] : d \in SUBSET Archives}
    BY <2>1, <2>2
  <2> QED
    BY <2>1, <2>3 DEF Events
<1>3. Deltas(old, new) = (IF Overview(old) = Overview(new) THEN <<>> ELSE <<counts>>)
                         \o (IF Patches(old, new) \cup Removed(old, new) = {} THEN <<>>
                               ELSE <<archive>>)
  BY DEF Deltas
<1> HIDE DEF counts, archive
<1>4. Deltas(old, new) \in Seq(Events) /\ Len(Deltas(old, new)) <= 2
  BY <1>1, <1>2, <1>3
<1> QED
  BY <1>1, <1>2, <1>4 DEF counts, archive

\* Who sees a document and reads the differences sees the next one.
LEMMA DeltasTrack ==
    ASSUME NEW v \in Views, NEW old \in Documents, NEW new \in Documents,
           Sees(v, old)
    PROVE  Sees(Replay(v, Deltas(old, new)), new)
<1> DEFINE counts  == [kind |-> "counts", overview |-> Overview(new)]
           rs      == [a \in Patches(old, new) |-> new.rows[a]]
           archive == [kind |-> "archive", rows |-> rs, removed |-> Removed(old, new)]
           ds      == IF Overview(old) = Overview(new) THEN <<>> ELSE <<counts>>
           as      == IF Patches(old, new) \cup Removed(old, new) = {} THEN <<>>
                        ELSE <<archive>>
           w       == Replay(v, ds)
<1>1. counts \in Events /\ archive \in Events
  BY DeltasTyped
<1>2. ds \in Seq(Events) /\ as \in Seq(Events)
  <2> HIDE DEF counts, archive
  <2> QED
    BY <1>1
<1>3. Replay(v, Deltas(old, new)) = Replay(w, as)
  <2>1. Deltas(old, new) = ds \o as
    BY DEF Deltas
  <2> HIDE DEF ds, as
  <2>2. Replay(v, ds \o as) = Replay(Replay(v, ds), as)
    BY <1>2, ReplayConcat
  <2> QED
    BY <2>1, <2>2
<1>4. /\ w.overview.counts = Counts(new.rows)
      /\ new.mark # 0 => w.overview.mark = new.mark
      /\ w.table = v.table /\ w \in Views
  <2>1. CASE Overview(old) = Overview(new)
    BY <2>1, ReplayNone, OverviewTyped DEF Sees
  <2>2. CASE Overview(old) # Overview(new)
    <3> DEFINE o == Overview(new)
    <3>1. w = Applied(v, counts)
      BY <2>2, ReplayOne
    <3>2. Applied(v, counts) = WithOverview(v, o)
      BY DEF Applied
    <3>3. o \in Overviews /\ o.counts = Counts(new.rows) /\ o.mark = new.mark
      BY OverviewTyped
    <3> HIDE DEF o
    <3> QED
      BY <3>1, <3>2, <3>3, WithOverviewTyped
  <2> QED
    BY <2>1, <2>2
<1> HIDE DEF w
<1>5. ASSUME NEW a \in Archives
      PROVE  /\ a \notin Patches(old, new) \cup Removed(old, new)
                  => SameWatched(v.table[a], new.rows[a])
             /\ a \in Removed(old, new) => new.rows[a] = NoRow
  <2>1. SameWatched(v.table[a], old.rows[a])
    BY DEF Sees
  <2> QED
    BY <2>1 DEF Patches, Removed, SameWatched
<1>6. CASE Patches(old, new) \cup Removed(old, new) = {}
  <2>1. Replay(w, as) = w
    BY <1>6, ReplayNone
  <2> QED
    BY <1>3, <1>4, <1>5, <1>6, <2>1 DEF Sees
<1>7. CASE Patches(old, new) \cup Removed(old, new) # {}
  <2>1. Replay(w, as) = Applied(w, archive)
    BY <1>7, ReplayOne
  <2>2. Applied(w, archive) = [w EXCEPT !.table = PatchTable(w.table, archive)]
    BY DEF Applied
  <2> DEFINE x == PatchTable(w.table, archive)
  <2>3. ASSUME NEW a \in Archives PROVE SameWatched(x[a], new.rows[a])
    <3>1. CASE a \in Patches(old, new)
      BY <3>1 DEF PatchTable, SameWatched
    <3>2. CASE a \in Removed(old, new) /\ a \notin Patches(old, new)
      BY <1>5, <3>2 DEF PatchTable, SameWatched
    <3>3. CASE a \notin Patches(old, new) \cup Removed(old, new)
      BY <1>4, <1>5, <3>3 DEF PatchTable
    <3> QED
      BY <3>1, <3>2, <3>3
  <2> HIDE DEF x
  <2>4. Replay(w, as).table = x /\ Replay(w, as).overview = w.overview
    BY <1>4, <2>1, <2>2 DEF x, Views
  <2> QED
    BY <1>3, <1>4, <2>3, <2>4 DEF Sees
<1> QED
  BY <1>6, <1>7

-----------------------------------------------------------------------------
(* The invariant.                                                          *)

\* A view that only the stream has written to leads to prev, and so does any
\* view once a full snapshot is read: that one may show an older scan.
Follows(c) ==
    prev[c] # Closed =>
      /\ pure[c] => Sees(Replay(view[c], pipe[c]), prev[c])
      /\ \A i \in DOMAIN pipe[c] :
           pipe[c][i].kind = "snapshot" => Leads(pipe[c], i, prev[c])

LEMMA FollowsTracks ==
    ASSUME StreamTypeOK, \A c \in Clients : Follows(c)
    PROVE  StreamTracks
<1> SUFFICES ASSUME NEW c \in Clients, prev[c] # Closed,
                    NEW i \in DOMAIN pipe[c], pipe[c][i].kind = "snapshot"
             PROVE  Sees(Replay(view[c], pipe[c]), prev[c])
  BY DEF StreamTracks, Follows
<1> DEFINE s == pipe[c]
           a == SubSeq(s, 1, i - 1)
           b == From(s, i)
           w == Replay(view[c], a)
<1>1. s \in Seq(Events) /\ view[c] \in Views /\ i \in 1..Len(s)
  BY DEF StreamTypeOK
<1>2. a \in Seq(Events) /\ b \in Seq(Events) /\ s = a \o b
  BY <1>1, FromTyped, FromSplits
<1>3. Leads(s, i, prev[c])
  BY DEF Follows
<1> HIDE DEF a
<1>4. w \in Views
  BY <1>1, <1>2, ReplayTyped
<1>5. Sees(Replay(w, b), prev[c])
  BY <1>3, <1>4 DEF Leads
<1> HIDE DEF b, s
<1>6. Replay(view[c], a \o b) = Replay(w, b)
  BY <1>2, ReplayConcat
<1> QED
  BY <1>2, <1>5, <1>6 DEF s

LEMMA ReadsTyped ==
    ASSUME StreamTypeOK, NEW doc, Reads(doc)
    PROVE  changes' \in 0..MaxChanges
BY MaxChangesAssumption DEF StreamTypeOK, Reads, SpendChange

LEMMA ChangeSpent ==
    ASSUME StreamTypeOK, SpendChange
    PROVE  changes' \in 0..MaxChanges
BY MaxChangesAssumption DEF StreamTypeOK, SpendChange

\* What is sent after events that lead to one document leads to the next.
LEMMA SendingTracks ==
    ASSUME NEW w \in Views, NEW s \in Seq(Events),
           NEW old \in Documents, NEW doc \in Documents,
           NEW last \in {<<>>, <<Snapshot(doc)>>}, last \in Seq(Events),
           Sees(Replay(w, s), old)
    PROVE  Sees(Replay(w, s \o (Deltas(old, doc) \o last)), doc)
<1> DEFINE more == Deltas(old, doc)
           x    == Replay(w, s)
           y    == Replay(x, more)
<1>1. more \in Seq(Events)
  BY DeltasTyped
<1>2. x \in Views
  BY ReplayTyped
<1>3. Sees(y, doc)
  BY <1>2, DeltasTrack
<1> HIDE DEF more
<1>4. y \in Views
  BY <1>1, <1>2, ReplayTyped
<1>5. more \o last \in Seq(Events)
  BY <1>1
<1> HIDE DEF x
<1>6. Replay(x, more \o last) = Replay(y, last)
  BY <1>1, ReplayConcat
<1>7. Replay(w, s \o (more \o last)) = Replay(x, more \o last)
  BY <1>5, ReplayConcat DEF x
<1> HIDE DEF y
<1>8. Sees(Replay(y, last), doc)
  <2>1. CASE last = <<>>
    BY <1>3, <2>1, ReplayNone
  <2>2. CASE last = <<Snapshot(doc)>>
    <3>1. Replay(y, last) = Applied(y, Snapshot(doc))
      BY <2>2, ReplayOne
    <3>2. Applied(y, Snapshot(doc)) = Shown(y, doc)
      BY DEF Applied, Snapshot
    <3> QED
      BY <1>4, <3>1, <3>2, ShownTyped
  <2> QED
    BY <2>1, <2>2
<1> QED
  BY <1>6, <1>7, <1>8 DEF more

\* A full snapshot leads to its document.
LEMMA SnapshotLeads ==
    ASSUME NEW doc \in Documents, NEW w \in Views
    PROVE  Sees(Replay(w, <<Snapshot(doc)>>), doc)
<1>1. Replay(w, <<Snapshot(doc)>>) = Applied(w, Snapshot(doc))
  BY ReplayOne
<1>2. Applied(w, Snapshot(doc)) = Shown(w, doc)
  BY DEF Applied, Snapshot
<1> QED
  BY <1>1, <1>2, ShownTyped

\* The stream sends the differences, and a full snapshot or nothing.
LEMMA SentFollows ==
    ASSUME StreamTypeOK, NEW c \in Clients, NEW doc \in Documents, Follows(c),
           prev[c] # Closed, Len(pipe[c]) <= Room,
           NEW last \in {<<>>, <<Snapshot(doc)>>},
           Sent(c, doc, Deltas(prev[c], doc) \o last), view' = view, pure' = pure
    PROVE  /\ pipe' \in [Clients -> Seq(Events)]
           /\ \A d \in Clients : Len(pipe'[d]) <= Room + 3
           /\ prev' \in [Clients -> Documents \cup {Closed}]
           /\ \A d \in Clients : d # c => pipe'[d] = pipe[d] /\ prev'[d] = prev[d]
           /\ Follows(c)'
<1> DEFINE old  == prev[c]
           s    == pipe[c]
           more == Deltas(old, doc)
           both == more \o last
           v    == view[c]
           u    == s \o both
<1>1. /\ old \in Documents /\ s \in Seq(Events) /\ v \in Views
      /\ Len(s) \in Nat /\ Len(s) <= Room /\ Room \in Nat
  BY RoomAssumption DEF StreamTypeOK
<1>2. more \in Seq(Events) /\ Len(more) <= 2
  BY <1>1, DeltasTyped
<1>3. last \in Seq(Events) /\ Len(last) <= 1
  <2> DEFINE e == Snapshot(doc)
  <2>1. e \in Events
    BY SnapshotTyped
  <2> HIDE DEF e
  <2>2. <<e>> \in Seq(Events) /\ Len(<<e>>) = 1 /\ Len(<<>>) = 0
    BY <2>1
  <2>3. <<>> \in Seq(Events)
    OBVIOUS
  <2>4. CASE last = <<>>
    BY <2>2, <2>3, <2>4
  <2>5. CASE last = <<e>>
    BY <2>2, <2>5
  <2> QED
    BY <2>4, <2>5 DEF e
<1>4. pipe' = [pipe EXCEPT ![c] = u] /\ prev' = [prev EXCEPT ![c] = doc]
  BY DEF Sent
<1>5. \A k \in DOMAIN more : more[k].kind # "snapshot"
  BY DEF Deltas
<1>6. ASSUME NEW x \in Seq(Events), NEW w \in Views, Sees(Replay(w, x), old)
      PROVE  Sees(Replay(w, x \o both), doc)
  BY <1>1, <1>3, <1>6, SendingTracks
<1> HIDE DEF more
<1>7. both \in Seq(Events) /\ Len(both) <= 3 /\ Len(both) \in Nat
  BY <1>2, <1>3
<1>8. ASSUME NEW k \in DOMAIN both, both[k].kind = "snapshot"
      PROVE  From(both, k) = <<Snapshot(doc)>>
  <2>1. k \in 1..Len(more) \/ (k = Len(more) + 1 /\ Len(last) = 1)
    BY <1>2, <1>3, <1>8
  <2>2. k \notin 1..Len(more)
    BY <1>2, <1>3, <1>5, <1>8
  <2>3. last = <<Snapshot(doc)>> /\ k = Len(more) + 1
    BY <2>1, <2>2
  <2> DEFINE e == Snapshot(doc)
  <2> HIDE DEF e
  <2>4. e \in Events
    BY SnapshotTyped DEF e
  <2>5. /\ <<e>> \in Seq(Events) /\ <<e>> # <<>> /\ Len(<<e>>) = 1
        /\ k - Len(more) = 1 /\ k \in Len(more) + 1..Len(more) + 1
    BY <1>2, <2>3, <2>4
  <2>6. both = more \o <<e>>
    BY <2>3 DEF both, e
  <2>7. From(more \o <<e>>, k) = From(<<e>>, k - Len(more))
    BY <1>2, <2>5, FromOfLater
  <2> QED
    BY <2>5, <2>6, <2>7, FromFirst DEF e
<1> HIDE DEF both
<1>9. u \in Seq(Events) /\ Len(u) <= Room + 3 /\ Len(u) = Len(s) + Len(both)
  BY <1>1, <1>7
<1>10. ASSUME NEW i \in DOMAIN u, u[i].kind = "snapshot" PROVE Leads(u, i, doc)
  <2>1. CASE i \in DOMAIN s
    <3>0. i \in 1..Len(s)
      BY <1>1, <2>1
    <3>1. u[i] = s[i] /\ From(u, i) = From(s, i) \o both
      BY <1>1, <1>7, <3>0, FromOfConcat
    <3>2. From(s, i) \in Seq(Events)
      BY <1>1, <3>0, FromTyped
    <3>3. \A w \in Views : Sees(Replay(w, From(s, i)), old)
      BY <1>10, <2>1, <3>1 DEF Follows, Leads
    <3>4. \A w \in Views : Sees(Replay(w, From(s, i) \o both), doc)
      BY <1>6, <3>2, <3>3
    <3> QED
      BY <3>1, <3>4 DEF Leads
  <2>2. CASE i \notin DOMAIN s
    <3> DEFINE k == i - Len(s)
    <3>1. k \in DOMAIN both /\ u[i] = both[k] /\ From(u, i) = From(both, k)
      BY <1>1, <1>7, <1>9, <2>2, FromOfLater DEF u
    <3>2. From(u, i) = <<Snapshot(doc)>>
      BY <1>8, <1>10, <3>1
    <3> QED
      BY <3>2, SnapshotLeads DEF Leads
  <2> QED
    BY <2>1, <2>2
<1>11. pure[c] => Sees(Replay(v, u), doc)
  BY <1>1, <1>6 DEF Follows
<1> HIDE DEF u
<1>12. pipe'[c] = u /\ prev'[c] = doc /\ view'[c] = v /\ pure'[c] = pure[c]
  BY <1>4 DEF StreamTypeOK
<1>13. Follows(c)'
  BY <1>10, <1>11, <1>12 DEF Follows, Leads
<1> QED
  BY <1>4, <1>9, <1>12, <1>13 DEF StreamTypeOK

LEMMA StreamTypeInit == StreamInit => StreamTypeOK /\ \A c \in Clients : Follows(c)
<1> SUFFICES ASSUME StreamInit PROVE StreamTypeOK /\ \A c \in Clients : Follows(c)
  OBVIOUS
<1> USE DEF StreamInit
<1>1. now \in Documents
  BY MarksAssumption DEF Documents, Tables, EmptyTable
<1>2. \A c \in Clients : view[c] \in Views
  BY <1>1, OverviewTyped DEF Views, Documents
<1>3. <<>> \in Seq(Events) /\ Len(<<>>) = 0
  OBVIOUS
<1>4. 0 \in 0..FullEvery - 1
  BY FullEveryAssumption
<1>5. changes \in 0..MaxChanges
  BY MaxChangesAssumption
<1>6. \A c \in Clients : Len(pipe[c]) <= Room + 3
  BY <1>3, RoomAssumption
<1>7. StreamTypeOK
  BY <1>1, <1>2, <1>3, <1>4, <1>5, <1>6 DEF StreamTypeOK
<1> QED
  BY <1>7 DEF Follows

\* A dashboard whose stream, pipe, view and history stay as they are follows on.
LEMMA StillFollows ==
    ASSUME NEW c \in Clients, Follows(c),
           prev'[c] = prev[c], pipe'[c] = pipe[c],
           view'[c] = view[c], pure'[c] = pure[c]
    PROVE  Follows(c)'
BY DEF Follows, Leads

LEMMA ChangeFollows ==
    ASSUME StreamTypeOK, \A c \in Clients : Follows(c),
           NEW doc \in Documents, NEW wakes \in BOOLEAN, Change(doc, wakes)
    PROVE  StreamTypeOK' /\ \A c \in Clients : Follows(c)'
<1>1. changes' \in 0..MaxChanges
  BY ChangeSpent DEF Change
<1>2. notify' \in BOOLEAN
  BY DEF Change, StreamTypeOK
<1>3. now' = doc /\ UNCHANGED <<prev, turn, pipe, view, polling, answer, pure>>
  BY DEF Change, server, dashboard
<1>4. StreamTypeOK'
  BY <1>1, <1>2, <1>3 DEF StreamTypeOK
<1> QED
  BY <1>3, <1>4, StillFollows

LEMMA ConnectFollows ==
    ASSUME StreamTypeOK, \A c \in Clients : Follows(c),
           NEW c \in Clients, NEW doc \in Documents, Connect(c, doc)
    PROVE  StreamTypeOK' /\ \A d \in Clients : Follows(d)'
<1> DEFINE s == <<Snapshot(doc)>>
<1>1. changes' \in 0..MaxChanges
  BY ReadsTyped DEF Connect
<1>2. s \in Seq(Events) /\ Len(s) = 1 /\ Len(s) <= Room + 3
  <2>1. Snapshot(doc) \in Events
    BY SnapshotTyped
  <2> QED
    BY <2>1, RoomAssumption
<1>3. 0 \in 0..FullEvery - 1
  BY FullEveryAssumption
<1>4. (\A w \in Views : Sees(Replay(w, s), doc)) /\ From(s, 1) = s
  <2>1. \A w \in Views : Sees(Replay(w, s), doc)
    BY SnapshotLeads
  <2>2. s # <<>>
    OBVIOUS
  <2> QED
    BY <1>2, <2>1, <2>2, FromFirst
<1> HIDE DEF s
<1>5. /\ pipe' = [pipe EXCEPT ![c] = s] /\ prev' = [prev EXCEPT ![c] = doc]
      /\ turn' = [turn EXCEPT ![c] = 0] /\ polling' = [polling EXCEPT ![c] = FALSE]
      /\ UNCHANGED <<now, notify, view, answer, pure>>
  BY DEF Connect, s
<1>6. StreamTypeOK'
  BY <1>1, <1>2, <1>3, <1>5 DEF StreamTypeOK
<1>7. Follows(c)'
  <2>1. /\ pipe'[c] = s /\ prev'[c] = doc /\ view'[c] = view[c]
        /\ view[c] \in Views /\ DOMAIN s = {1}
    BY <1>2, <1>5 DEF StreamTypeOK
  <2> QED
    BY <1>4, <2>1 DEF Follows, Leads
<1>8. ASSUME NEW d \in Clients, d # c PROVE Follows(d)'
  BY <1>5, <1>8, StillFollows DEF StreamTypeOK
<1> QED
  BY <1>6, <1>7, <1>8

LEMMA WakeFollows ==
    ASSUME StreamTypeOK, \A c \in Clients : Follows(c),
           NEW c \in Clients, NEW doc \in Documents, Wake(c, doc)
    PROVE  StreamTypeOK' /\ \A d \in Clients : Follows(d)'
<1>1. changes' \in 0..MaxChanges
  BY ReadsTyped DEF Wake
<1>2. Sent(c, doc, Deltas(prev[c], doc) \o <<>>)
  <2>1. prev[c] \in Documents
    BY DEF Wake, StreamTypeOK
  <2>2. Deltas(prev[c], doc) \in Seq(Events)
    BY <2>1, DeltasTyped
  <2>3. Deltas(prev[c], doc) \o <<>> = Deltas(prev[c], doc)
    BY <2>2
  <2> QED
    BY <2>3 DEF Wake
<1>3. /\ prev[c] # Closed /\ Len(pipe[c]) <= Room /\ notify' = FALSE
      /\ UNCHANGED <<now, turn, view, polling, answer, pure>>
  BY DEF Wake, dashboard
<1>4. /\ pipe' \in [Clients -> Seq(Events)]
      /\ \A d \in Clients : Len(pipe'[d]) <= Room + 3
      /\ prev' \in [Clients -> Documents \cup {Closed}]
      /\ \A d \in Clients : d # c => pipe'[d] = pipe[d] /\ prev'[d] = prev[d]
      /\ Follows(c)'
  BY <1>2, <1>3, SentFollows
<1>5. StreamTypeOK'
  BY <1>1, <1>3, <1>4 DEF StreamTypeOK
<1>6. ASSUME NEW d \in Clients, d # c PROVE Follows(d)'
  BY <1>3, <1>4, <1>6, StillFollows
<1> QED
  BY <1>4, <1>5, <1>6

LEMMA RefreshFollows ==
    ASSUME StreamTypeOK, \A c \in Clients : Follows(c),
           NEW c \in Clients, NEW doc \in Documents, Refresh(c, doc)
    PROVE  StreamTypeOK' /\ \A d \in Clients : Follows(d)'
<1> DEFINE last == IF Due(c, doc) THEN <<Snapshot(doc)>> ELSE <<>>
<1>1. changes' \in 0..MaxChanges
  BY ReadsTyped DEF Refresh
<1>2. turn' \in [Clients -> 0..FullEvery - 1]
  <2>1. NextTurn(turn[c]) \in 0..FullEvery - 1
    BY FullEveryAssumption DEF NextTurn, StreamTypeOK
  <2> QED
    BY <2>1 DEF Refresh, StreamTypeOK
<1>3. /\ prev[c] # Closed /\ Len(pipe[c]) <= Room
      /\ Sent(c, doc, Deltas(prev[c], doc) \o last)
      /\ UNCHANGED <<now, notify, view, polling, answer, pure>>
  BY DEF Refresh, dashboard
<1>4. last \in {<<>>, <<Snapshot(doc)>>}
  OBVIOUS
<1> HIDE DEF last
<1>5. /\ pipe' \in [Clients -> Seq(Events)]
      /\ \A d \in Clients : Len(pipe'[d]) <= Room + 3
      /\ prev' \in [Clients -> Documents \cup {Closed}]
      /\ \A d \in Clients : d # c => pipe'[d] = pipe[d] /\ prev'[d] = prev[d]
      /\ Follows(c)'
  BY <1>3, <1>4, SentFollows
<1>6. StreamTypeOK'
  BY <1>1, <1>2, <1>3, <1>5 DEF StreamTypeOK
<1>7. ASSUME NEW d \in Clients, d # c PROVE Follows(d)'
  BY <1>3, <1>5, <1>7, StillFollows
<1> QED
  BY <1>5, <1>6, <1>7

LEMMA DeliverFollows ==
    ASSUME StreamTypeOK, \A c \in Clients : Follows(c),
           NEW c \in Clients, Deliver(c)
    PROVE  StreamTypeOK' /\ \A d \in Clients : Follows(d)'
<1> DEFINE s == pipe[c]
           e == Head(s)
           t == Tail(s)
           v == Applied(view[c], e)
           q == pure[c] \/ e.kind = "snapshot"
<1>1. s \in Seq(Events) /\ s # <<>> /\ Len(s) <= Room + 3 /\ Room \in Nat
  BY RoomAssumption DEF Deliver, StreamTypeOK
<1>2. /\ e \in Events /\ t \in Seq(Events) /\ Len(t) <= Room + 3
      /\ Len(s) \in Nat /\ Len(t) = Len(s) - 1 /\ e = s[1]
      /\ \A i \in 2..Len(s) : t[i - 1] = s[i]
  BY <1>1
<1>3. v \in Views
  BY <1>2, AppliedTyped DEF StreamTypeOK
<1>4. /\ view' = [view EXCEPT ![c] = v] /\ pure' = [pure EXCEPT ![c] = q]
      /\ pipe' = [pipe EXCEPT ![c] = t]
      /\ UNCHANGED <<now, notify, prev, turn, polling, changes>>
  BY DEF Deliver, server
<1>5. answer' \in [Clients -> Documents \cup {None, Asked}]
  <2>1. answer' = answer \/ answer' = [answer EXCEPT ![c] = Asked]
    BY DEF Deliver
  <2> QED
    BY <2>1 DEF StreamTypeOK
<1>6. Replay(view[c], s) = Replay(v, t)
  BY <1>1, ReplayFirst
<1>7. q \in BOOLEAN
  BY DEF StreamTypeOK
<1> HIDE DEF v, t, q
<1>8. StreamTypeOK'
  BY <1>2, <1>3, <1>4, <1>5, <1>7 DEF StreamTypeOK
<1>9. Follows(c)'
  <2>1. pipe'[c] = t /\ view'[c] = v /\ pure'[c] = q /\ prev'[c] = prev[c]
    BY <1>4 DEF StreamTypeOK
  <2> SUFFICES ASSUME prev[c] # Closed
               PROVE  /\ q => Sees(Replay(v, t), prev[c])
                      /\ \A i \in DOMAIN t :
                           t[i].kind = "snapshot" => Leads(t, i, prev[c])
    BY <2>1 DEF Follows, Leads
  <2>2. ASSUME q PROVE Sees(Replay(v, t), prev[c])
    <3>1. CASE pure[c]
      BY <1>6, <3>1 DEF Follows
    <3>2. CASE e.kind = "snapshot"
      <4>1. 1 \in DOMAIN s /\ From(s, 1) = s
        BY <1>1, FromFirst
      <4>2. Leads(s, 1, prev[c])
        BY <1>2, <3>2, <4>1 DEF Follows
      <4>3. view[c] \in Views
        BY DEF StreamTypeOK
      <4> QED
        BY <1>6, <4>1, <4>2, <4>3 DEF Leads
    <3> QED
      BY <2>2, <3>1, <3>2 DEF q
  <2>3. ASSUME NEW i \in DOMAIN t, t[i].kind = "snapshot" PROVE Leads(t, i, prev[c])
    <3>1. i + 1 \in DOMAIN s /\ t[i] = s[i + 1] /\ From(t, i) = From(s, i + 1)
      BY <1>1, <2>3, FromOfTail DEF t
    <3>2. Leads(s, i + 1, prev[c])
      BY <2>3, <3>1 DEF Follows
    <3> QED
      BY <3>1, <3>2 DEF Leads
  <2> QED
    BY <2>2, <2>3
<1>10. ASSUME NEW d \in Clients, d # c PROVE Follows(d)'
  BY <1>4, <1>10, StillFollows DEF StreamTypeOK
<1> QED
  BY <1>8, <1>9, <1>10

LEMMA DropFollows ==
    ASSUME StreamTypeOK, \A c \in Clients : Follows(c),
           NEW c \in Clients, Drop(c)
    PROVE  StreamTypeOK' /\ \A d \in Clients : Follows(d)'
<1>1. changes' \in 0..MaxChanges
  BY ChangeSpent DEF Drop
<1>2. /\ prev' = [prev EXCEPT ![c] = Closed] /\ turn' = [turn EXCEPT ![c] = 0]
      /\ pipe' = [pipe EXCEPT ![c] = <<>>] /\ polling' = [polling EXCEPT ![c] = TRUE]
      /\ UNCHANGED <<now, notify, view, answer, pure>>
  BY DEF Drop, PollsOnError
<1>3. <<>> \in Seq(Events) /\ Len(<<>>) <= Room + 3 /\ 0 \in 0..FullEvery - 1
  BY RoomAssumption, FullEveryAssumption
<1>4. StreamTypeOK'
  BY <1>1, <1>2, <1>3 DEF StreamTypeOK
<1>5. Follows(c)'
  BY <1>2 DEF Follows, StreamTypeOK
<1>6. ASSUME NEW d \in Clients, d # c PROVE Follows(d)'
  BY <1>2, <1>6, StillFollows DEF StreamTypeOK
<1> QED
  BY <1>4, <1>5, <1>6

\* What the dashboard asks for itself spoils its view, and the history says so.
LEMMA OwnAnswerFollows ==
    ASSUME StreamTypeOK, \A c \in Clients : Follows(c),
           NEW c \in Clients, NEW v \in Views,
           view' = [view EXCEPT ![c] = v], pure' = [pure EXCEPT ![c] = FALSE],
           UNCHANGED <<prev, pipe>>
    PROVE  \A d \in Clients : Follows(d)'
<1>1. Follows(c)'
  <2>1. view'[c] = v /\ ~pure'[c] /\ prev'[c] = prev[c] /\ pipe'[c] = pipe[c]
    BY DEF StreamTypeOK
  <2> QED
    BY <2>1 DEF Follows, Leads
<1>2. ASSUME NEW d \in Clients, d # c PROVE Follows(d)'
  BY <1>2, StillFollows DEF StreamTypeOK
<1> QED
  BY <1>1, <1>2

LEMMA AnswersFollow ==
    ASSUME StreamTypeOK, \A c \in Clients : Follows(c),
           NEW c \in Clients, ApplyAnswer(c) \/ AnswerFails(c)
    PROVE  StreamTypeOK' /\ \A d \in Clients : Follows(d)'
<1>1. PICK v \in Views : view' = [view EXCEPT ![c] = v]
  <2>1. CASE ApplyAnswer(c)
    <3>1. answer[c] \in Documents /\ view[c] \in Views
      BY <2>1 DEF ApplyAnswer, StreamTypeOK
    <3>2. view' = [view EXCEPT ![c] = Shown(view[c], answer[c])]
      BY <2>1 DEF ApplyAnswer
    <3> QED
      BY <3>1, <3>2, ShownTyped
  <2>2. CASE AnswerFails(c)
    <3> DEFINE v == [view[c] EXCEPT !.table = EmptyTable]
    <3>1. EmptyTable \in Tables /\ view[c] \in Views
      BY DEF EmptyTable, Tables, StreamTypeOK
    <3>2. v \in Views
      BY <3>1 DEF Views
    <3> QED
      BY <2>2, <3>2 DEF AnswerFails
  <2> QED
    BY <2>1, <2>2
<1>2. /\ answer' = [answer EXCEPT ![c] = None] /\ pure' = [pure EXCEPT ![c] = FALSE]
      /\ UNCHANGED <<now, notify, prev, turn, pipe, polling>>
  BY DEF ApplyAnswer, AnswerFails, server
<1>3. changes' \in 0..MaxChanges
  BY ChangeSpent DEF ApplyAnswer, AnswerFails, StreamTypeOK
<1>4. StreamTypeOK'
  BY <1>1, <1>2, <1>3 DEF StreamTypeOK
<1> QED
  BY <1>1, <1>2, <1>4, OwnAnswerFollows

\* The request of a dashboard, the poll timer and other streams leave its
\* view and its pipe alone.
LEMMA OthersFollow ==
    ASSUME StreamTypeOK, \A c \in Clients : Follows(c),
           \/ TakenElsewhere
           \/ \E c \in Clients : Poll(c)
           \/ \E c \in Clients, doc \in Documents : Answer(c, doc)
    PROVE  StreamTypeOK' /\ \A d \in Clients : Follows(d)'
<1>1. UNCHANGED <<now, prev, turn, pipe, view, polling, pure>>
  BY DEF TakenElsewhere, Poll, Answer, server, dashboard
<1>2. changes' \in 0..MaxChanges /\ notify' \in BOOLEAN
  BY ReadsTyped DEF TakenElsewhere, Poll, Answer, StreamTypeOK
<1>3. answer' \in [Clients -> Documents \cup {None, Asked}]
  BY DEF TakenElsewhere, Poll, Answer, dashboard, StreamTypeOK
<1>4. StreamTypeOK'
  BY <1>1, <1>2, <1>3 DEF StreamTypeOK
<1> QED
  BY <1>1, <1>4, StillFollows

\* What a stream has sent adds up to what it computed, for any number of
\* dashboards, archives and rows and any room in a connection: no order of
\* wakes, refreshes, reads, drops and the dashboard's own requests makes it
\* lose a watched change (sse.go, sse_diff.go, app.svelte.ts).
THEOREM StreamInvHolds == StreamSpec => []StreamInv
<1> DEFINE IInv == StreamTypeOK /\ \A c \in Clients : Follows(c)
<1>1. IInv => StreamInv
  BY FollowsTracks DEF StreamInv
<1>2. StreamInit => IInv
  BY StreamTypeInit
<1>3. IInv /\ [StreamNext]_streamVars => IInv'
  <2> SUFFICES ASSUME StreamTypeOK, \A c \in Clients : Follows(c),
                      [StreamNext]_streamVars
               PROVE  StreamTypeOK' /\ \A c \in Clients : Follows(c)'
    OBVIOUS
  <2>1. ASSUME NEW doc \in Documents, NEW wakes \in BOOLEAN, Change(doc, wakes)
        PROVE  StreamTypeOK' /\ \A c \in Clients : Follows(c)'
    BY <2>1, ChangeFollows
  <2>2. ASSUME NEW c \in Clients, NEW doc \in Documents,
               Connect(c, doc) \/ Wake(c, doc) \/ Refresh(c, doc)
        PROVE  StreamTypeOK' /\ \A d \in Clients : Follows(d)'
    BY <2>2, ConnectFollows, WakeFollows, RefreshFollows
  <2>3. ASSUME NEW c \in Clients,
               Deliver(c) \/ Drop(c) \/ ApplyAnswer(c) \/ AnswerFails(c)
        PROVE  StreamTypeOK' /\ \A d \in Clients : Follows(d)'
    BY <2>3, DeliverFollows, DropFollows, AnswersFollow
  <2>4. CASE \/ TakenElsewhere
             \/ \E c \in Clients : Poll(c)
             \/ \E c \in Clients, doc \in Documents : Answer(c, doc)
    BY <2>4, OthersFollow
  <2>5. CASE UNCHANGED streamVars
    BY <2>5 DEF streamVars, StreamTypeOK, Follows, Leads
  <2> QED
    BY <2>1, <2>2, <2>3, <2>4, <2>5 DEF StreamNext
<1> QED
  BY <1>1, <1>2, <1>3, PTL DEF StreamSpec

=============================================================================
