---------------------------- MODULE TunnelProofs ----------------------------
(***************************************************************************)
(* Tunnel, for every set of names, ports and route tables, any number of   *)
(* sessions and loops at a time, and any number of edits and faults:       *)
(*                                                                         *)
(*   TypeCorrect   Spec => []TypeOK                                        *)
(*   RoutesStay    Spec => RoutesMoveForward                               *)
(*   StreamsSpared Spec => []DrainSparesStreams                            *)
(*   StatusStays   Spec => []StatusIsOwn                                   *)
(*   AcksAreServed Spec => []AckedIsServed                                 *)
(*                                                                         *)
(* and MCTunnel, for any amount of data on its stream and any window:      *)
(*                                                                         *)
(*   NothingIsCutHolds   MCInit /\ [][MCNext] => []NothingIsCut            *)
(***************************************************************************)
EXTENDS MCTunnel, TLAPS

-----------------------------------------------------------------------------
(* The invariant *)

RoutesMessage == [type : {"routes"}, run : Nat, gen : Nat, table : Tables]
AckMessage    == [type : {"ack"}, gen : Nat, errors : SUBSET Ports]
HelloMessage  == [type : {"hello"}, ok : BOOLEAN]

\* The generation of a was made before that of b, or is the same.
NotAfter(a, b) == a.run < b.run \/ (a.run = b.run /\ a.gen <= b.gen)

IsRoutes(m) == m.type = "routes"

\* A hello is the first message either side reads, and the only one.
HelloFirst(r) ==
    /\ r.hs \in {"control", "hello"} =>
         \A i \in 1..Len(r.toHome) : r.toHome[i] \in IF i = 1 THEN HelloMessage ELSE AckMessage
    /\ r.hs = "live" => \A i \in 1..Len(r.toHome) : r.toHome[i] \in AckMessage
    /\ r.gs = "hello" =>
         \A i \in 1..Len(r.toGw) : r.toGw[i] \in IF i = 1 THEN HelloMessage ELSE RoutesMessage
    /\ r.gs = "live" => \A i \in 1..Len(r.toGw) : r.toGw[i] \in RoutesMessage

\* Neither side goes on before the other has sent what it waits for.
InStep(r) ==
    /\ r.hs = "none" => r = NoSession
    /\ r.gs = "none" => r.toGw = <<>> /\ r.toHome = <<>> /\ r.hs \in {"none", "control", "gone"}
    /\ r.hs = "control" => r.toGw = <<>> /\ r.gs # "live"
    /\ r.hs = "hello" => r.toHome # <<>>
    /\ r.link /\ r.hs \in {"hello", "live"} /\ r.gs = "hello" => r.toGw # <<>>

\* The routes on the way to the gateway are in order, and the home has no older ones.
InOrder(r, h) ==
    /\ \A i \in 1..Len(r.toGw) : IsRoutes(r.toGw[i]) => NotAfter(r.toGw[i], h)
    /\ \A i, j \in 1..Len(r.toGw) :
         i < j /\ IsRoutes(r.toGw[i]) /\ IsRoutes(r.toGw[j]) => NotAfter(r.toGw[i], r.toGw[j])

\* The gateway has none that are newer than those.
Ahead(r, g) == \A i \in 1..Len(r.toGw) : IsRoutes(r.toGw[i]) => NotAfter(g, r.toGw[i])

Fit(r) == r \in Session /\ HelloFirst(r) /\ InStep(r)

TunnelInv ==
    /\ TypeOK
    /\ home.table # None => home.tgen = home.gen
    /\ NotAfter(gw, home)
    /\ \A s \in Sessions : Fit(sess[s]) /\ InOrder(sess[s], home)
    /\ \A s \in Sessions : s = gw.session => Ahead(sess[s], gw)

-----------------------------------------------------------------------------
(* Sessions *)

\* There is a session to begin with.
LEMMA NoSessionFit ==
  /\ Fit(NoSession) /\ NoSession.toGw = <<>> /\ NoSession.toHome = <<>>
  /\ NoSession.hs = "none" /\ NoSession.gs = "none" /\ NoSession.link = FALSE
BY DEF Fit, HelloFirst, InStep, NoSession, Session

\* A home that closes a session sends nothing more.
LEMMA HomeClosedFit ==
  ASSUME NEW r, Fit(r)
  PROVE  Fit(HomeClosed(r)) /\ HomeClosed(r).toGw \in {r.toGw, <<>>}
<1>1. CASE r.hs = "none"
  BY <1>1 DEF HomeClosed
<1>2. CASE r.hs # "none"
  <2> DEFINE c == [r EXCEPT !.hs = "gone", !.link = FALSE]
  <2>1. HomeClosed(r) = IF c.gs = "gone" THEN NoSession ELSE c
    BY <1>2 DEF HomeClosed, Tidied, Fit, Session
  <2>2. c.toGw = r.toGw /\ c.toHome = r.toHome /\ c.gs = r.gs /\ c.hs = "gone" /\ c.link = FALSE
    BY DEF Fit, Session
  <2>3. c \in Session
    BY DEF Fit, Session
  <2>4. Fit(c)
    <3> HIDE DEF c
    <3> QED BY <2>2, <2>3 DEF Fit, HelloFirst, InStep
  <2> QED BY <2>1, <2>2, <2>4, NoSessionFit
<1> QED BY <1>1, <1>2

\* A gateway that does sends none either.
LEMMA GwClosedFit ==
  ASSUME NEW r, Fit(r), r # NoSession
  PROVE  Fit(GwClosed(r)) /\ GwClosed(r).toGw \in {r.toGw, <<>>}
<1> DEFINE c == [r EXCEPT !.gs = "gone", !.link = FALSE]
<1>1. GwClosed(r) = IF c.hs = "gone" THEN NoSession ELSE c
  BY DEF GwClosed, Tidied, Fit, Session
<1>2. c.toGw = r.toGw /\ c.toHome = r.toHome /\ c.hs = r.hs /\ c.gs = "gone" /\ c.link = FALSE
  BY DEF Fit, Session
<1>3. c \in Session
  BY DEF Fit, Session
<1>4. Fit(c)
  <2> HIDE DEF c
  <2>1. r.hs # "none"
    BY DEF Fit, InStep
  <2> QED BY <1>2, <1>3, <2>1 DEF Fit, HelloFirst, InStep
<1> QED BY <1>1, <1>2, <1>4, NoSessionFit

\* The network loses what it loses.
LEMMA UnlinkedFit ==
  ASSUME NEW r, Fit(r)
  PROVE  Fit([r EXCEPT !.link = FALSE]) /\ [r EXCEPT !.link = FALSE].toGw = r.toGw
<1> DEFINE c == [r EXCEPT !.link = FALSE]
<1>1. /\ c.toGw = r.toGw /\ c.toHome = r.toHome /\ c.hs = r.hs /\ c.gs = r.gs /\ c.link = FALSE
      /\ c \in Session
  BY DEF Fit, Session
<1>2. r.hs = "none" => c = NoSession
  <2>1. [NoSession EXCEPT !.link = FALSE] = NoSession
    BY NoSessionFit DEF Fit, Session
  <2> QED BY <2>1 DEF Fit, InStep
<1> HIDE DEF c
<1>3. Fit(c)
  BY <1>1, <1>2 DEF Fit, HelloFirst, InStep
<1> QED BY <1>1, <1>3 DEF c

-----------------------------------------------------------------------------
(* The home *)

Known(h) == h \in Home /\ (h.table # None => h.tgen = h.gen)

\* Generations are ordered.
LEMMA NotAfterOrder ==
  ASSUME NEW a, NEW b, NEW c, {a.run, a.gen, b.run, b.gen, c.run, c.gen} \subseteq Nat
  PROVE  /\ NotAfter(a, a)
         /\ NotAfter(a, b) /\ NotAfter(b, c) => NotAfter(a, c)
BY DEF NotAfter

\* Every gateway entry has a state.
LEMMA WantState ==
  ASSUME NEW def \in AllDefs, NEW t
  PROVE  Want(def, t) \in States
BY DEF Want, AllDefs, States

\* A reload only ever adds a generation.
LEMMA WithRoutesKnown ==
  ASSUME NEW h, Known(h), NEW def \in AllDefs, NEW t \in Tables \cup {None}
  PROVE  /\ Known(WithRoutes(h, def, t))
         /\ WithRoutes(h, def, t).run = h.run /\ WithRoutes(h, def, t).phase = h.phase
         /\ h.gen <= WithRoutes(h, def, t).gen
<1> DEFINE w == WithRoutes(h, def, t)
<1>0. h \in Home /\ h.gen \in Nat /\ h.gen + 1 \in Nat /\ h.gen <= h.gen + 1
  BY DEF Known, Home
<1>1. CASE t = None
  <2>1. w = [h EXCEPT !.def = def, !.table = None, !.tgen = 0]
    BY <1>1 DEF WithRoutes
  <2>2. w \in Home
    <3> DEFINE d == [h EXCEPT !.def = def]
    <3>1. d \in Home
      BY <1>0 DEF Home
    <3>2. w = [d EXCEPT !.table = None, !.tgen = 0]
      BY <1>0, <2>1 DEF Home
    <3> HIDE DEF d, w
    <3> QED BY <3>1, <3>2 DEF Home
  <2>3. w.table = None /\ w.run = h.run /\ w.gen = h.gen /\ w.phase = h.phase
    BY <1>0, <2>1 DEF Home
  <2> QED BY <1>0, <2>2, <2>3 DEF Known
<1>2. CASE t # None /\ h.table = t
  <2>1. w = [h EXCEPT !.def = def]
    BY <1>2 DEF WithRoutes
  <2>2. /\ w \in Home /\ w.table = h.table /\ w.tgen = h.tgen /\ w.run = h.run /\ w.gen = h.gen
        /\ w.phase = h.phase
    BY <1>0, <2>1 DEF Home
  <2> QED BY <1>0, <2>2 DEF Known
<1>3. CASE t # None /\ h.table # t
  <2>1. w = [h EXCEPT !.def = def, !.table = t, !.gen = h.gen + 1, !.tgen = h.gen + 1]
    BY <1>3 DEF WithRoutes
  <2>2. w \in Home
    BY ZenonT(60), <1>0, <2>1 DEF Home
  <2>3. w.tgen = w.gen /\ w.run = h.run /\ w.gen = h.gen + 1 /\ w.phase = h.phase
    BY <1>0, <2>1 DEF Home
  <2> QED BY <1>0, <2>2, <2>3 DEF Known
<1> QED BY <1>1, <1>2, <1>3

\* A process starts without a table, as a new run.
LEMMA FreshKnown ==
  ASSUME NEW h \in Home
  PROVE  Known(Fresh(h)) /\ Fresh(h).run = h.run + 1 /\ Fresh(h).phase = "run"
<1>1. h.run \in Nat /\ h.run + 1 \in Nat
  BY DEF Home
<1>2. Fresh(h) \in Home
  BY <1>1 DEF Fresh, Home
<1>3. Fresh(h).table = None /\ Fresh(h).run = h.run + 1 /\ Fresh(h).phase = "run"
  BY <1>1 DEF Fresh, Home
<1> QED BY <1>2, <1>3 DEF Known

\* Starting a loop, or none, generates nothing.
LEMMA StartedKnown ==
  ASSUME TypeOK, NEW h, Known(h), Started(h)
  PROVE  /\ Known(home') /\ home'.run = h.run /\ home'.gen = h.gen /\ home'.phase = h.phase
         /\ loops' \in [Loops -> Loop]
<1> DEFINE want == Want(h.def, h.table)
<1>1. want \in States
  BY WantState DEF Known, Home
<1> HIDE DEF want
<1>2. CASE want # "connecting"
  <2>1. home' = [h EXCEPT !.loop = None, !.state = want] /\ loops' = loops
    BY <1>2 DEF Started, want
  <2> QED BY <1>1, <2>1 DEF Known, Home, TypeOK
<1>3. CASE want = "connecting"
  <2>1. PICK l \in FreeLoops :
          /\ home' = [h EXCEPT !.loop = l, !.state = want]
          /\ loops' = [loops EXCEPT ![l] = [pc |-> "dial", sess |-> None]]
    BY <1>3 DEF Started, want
  <2>2. l \in Loops
    BY DEF FreeLoops
  <2>3. [pc |-> "dial", sess |-> None] \in Loop
    BY DEF Loop
  <2> QED BY <1>1, <2>1, <2>2, <2>3 DEF Known, Home, TypeOK
<1> QED BY <1>2, <1>3

\* Faults and edits are counted.
LEMMA Counted ==
  ASSUME TypeOK
  PROVE  /\ Fault => faults' \in 0..MaxFaults
         /\ Edited => edits' \in 0..MaxEdits
BY TunnelAssumption DEF TypeOK, Fault, Edited

-----------------------------------------------------------------------------
(* What most steps leave *)

\* Steps after which queues hold what they held, or nothing.
LEMMA QueuesKept ==
  ASSUME TunnelInv, TypeOK',
         Known(home'), NotAfter(home, home'),
         gw'.run = gw.run, gw'.gen = gw.gen, gw'.session \in {gw.session, None},
         \A s \in Sessions : Fit(sess'[s]) /\ sess'[s].toGw \in {sess[s].toGw, <<>>}
  PROVE  TunnelInv'
<1>1. {home.run, home.gen, home'.run, home'.gen, gw.run, gw.gen} \subseteq Nat
  BY DEF TunnelInv, TypeOK, Home, Gateway
<1>2. NotAfter(gw', home')
  BY <1>1 DEF TunnelInv, NotAfter
<1>3. ASSUME NEW s \in Sessions
      PROVE  /\ InOrder(sess'[s], home')
             /\ s = gw'.session => Ahead(sess'[s], gw')
  <2>1. CASE sess'[s].toGw = <<>>
    BY <2>1 DEF InOrder, Ahead
  <2>2. CASE sess'[s].toGw = sess[s].toGw
    <3> DEFINE q == sess[s].toGw
    <3>1. InOrder(sess[s], home) /\ Fit(sess[s]) /\ (s = gw.session => Ahead(sess[s], gw))
      BY DEF TunnelInv
    <3>2. \A i \in 1..Len(q) : IsRoutes(q[i]) => NotAfter(q[i], home) /\ q[i].run \in Nat /\ q[i].gen \in Nat
      <4>1. q \in Seq(Message)
        BY <3>1 DEF Fit, Session
      <4>2. \A i \in 1..Len(q) : q[i] \in Message
        BY <4>1
      <4> HIDE DEF q
      <4>3. \A m \in Message : IsRoutes(m) => m.run \in Nat /\ m.gen \in Nat
        BY DEF Message, IsRoutes
      <4> QED BY <3>1, <4>2, <4>3 DEF InOrder, q
    <3>3. \A i \in 1..Len(q) : IsRoutes(q[i]) => NotAfter(q[i], home')
      <4> HIDE DEF q
      <4> QED BY SMTT(60), <1>1, <3>2 DEF NotAfter
    <3>4. s = gw'.session => s = gw.session
      BY TunnelAssumption
    <3>5. InOrder(sess'[s], home')
      BY <2>2, <3>1, <3>3 DEF InOrder
    <3> QED BY <2>2, <3>1, <3>4, <3>5 DEF Ahead, NotAfter
  <2> QED BY <2>1, <2>2
<1> QED BY <1>2, <1>3 DEF TunnelInv, Known

\* Steps that touch no session
LEMMA SessionsKept ==
  ASSUME TunnelInv, UNCHANGED <<sess, gw>>,
         Known(home'), NotAfter(home, home'),
         loops' \in [Loops -> Loop], conns' \in [Clients -> Conn],
         edits' \in 0..MaxEdits, faults' \in 0..MaxFaults
  PROVE  TunnelInv'
<1>1. TypeOK'
  BY DEF TunnelInv, TypeOK, Known
<1>2. \A s \in Sessions : Fit(sess'[s]) /\ sess'[s].toGw \in {sess[s].toGw, <<>>}
  BY DEF TunnelInv
<1> QED BY <1>1, <1>2, QueuesKept

-----------------------------------------------------------------------------
(* The steps of the home *)

\* what the invariant says of the home and the bookkeeping
LEMMA InvFacts ==
  ASSUME TunnelInv
  PROVE  /\ Known(home) /\ NotAfter(home, home)
         /\ loops \in [Loops -> Loop] /\ conns \in [Clients -> Conn]
         /\ edits \in 0..MaxEdits /\ faults \in 0..MaxFaults
         /\ \A s \in Sessions : Fit(sess[s])
         /\ sess \in [Sessions -> Session]
<1>1. home.run \in Nat /\ home.gen \in Nat
  BY DEF TunnelInv, TypeOK, Home
<1> QED BY <1>1 DEF TunnelInv, TypeOK, Known, NotAfter

\* A home that differs in its phase, loop or status only
LEMMA SameGeneration ==
  ASSUME TunnelInv, home'.run = home.run, home'.gen = home.gen
  PROVE  NotAfter(home, home')
<1>1. home.run \in Nat /\ home.gen \in Nat
  BY DEF TunnelInv, TypeOK, Home
<1> QED BY <1>1 DEF NotAfter

\* A reload leaves the sessions, but may kick one, and no older generation.
LEMMA ReloadInv ==
  ASSUME TunnelInv, NEW def \in Defs, NEW t \in Tables \cup {None}, NEW changed \in BOOLEAN,
         Reload(def, t, changed)
  PROVE  TunnelInv'
<1> DEFINE h    == WithRoutes(home, def, t)
           kept == Want(def, t) = "connecting" /\ home.loop # None /\ ~changed
<1>1. Known(h) /\ h.run = home.run /\ home.gen <= h.gen
  BY InvFacts, WithRoutesKnown, TunnelAssumption
<1>2. home.run \in Nat /\ home.gen \in Nat
  BY DEF TunnelInv, TypeOK, Home
<1>3. edits' \in 0..MaxEdits /\ faults' \in 0..MaxFaults /\ UNCHANGED <<gw, conns>>
  BY InvFacts, Counted DEF Reload, TunnelInv
<1>4. CASE ~kept
  <2>1. Started(h) /\ UNCHANGED sess
    BY <1>4 DEF Reload
  <2>2. /\ Known(home') /\ home'.run = h.run /\ home'.gen = h.gen
        /\ loops' \in [Loops -> Loop]
    <3> HIDE DEF h
    <3> QED BY <1>1, <2>1, StartedKnown DEF TunnelInv
  <2>3. NotAfter(home, home')
    BY <1>1, <1>2, <2>2 DEF NotAfter
  <2> QED BY <1>3, <2>1, <2>2, <2>3, SessionsKept, InvFacts
<1>5. CASE kept
  <2>1. home' = h /\ UNCHANGED loops
    BY <1>5 DEF Reload
  <2>2. Known(home') /\ NotAfter(home, home')
    BY <1>1, <1>2, <2>1 DEF NotAfter
  <2>3. CASE UNCHANGED sess
    BY <1>3, <2>1, <2>2, <2>3, SessionsKept, InvFacts
  <2>4. CASE ~UNCHANGED sess
    <3> DEFINE s == loops[home.loop].sess
    <3>1. s # None /\ sess[s].hs = "live" /\ sess' = [sess EXCEPT ![s].kick = TRUE]
      BY <1>5, <2>4 DEF Reload
    <3>2. s \in Sessions
      BY <1>5, <3>1, InvFacts DEF Loop, Known, Home
    <3> DEFINE k == [sess[s] EXCEPT !.kick = TRUE]
    <3>3. /\ k.toGw = sess[s].toGw /\ k.toHome = sess[s].toHome /\ k.hs = sess[s].hs
          /\ k.gs = sess[s].gs /\ k.link = sess[s].link /\ k \in Session
      <4>1. sess[s] \in Session
        BY <3>2, InvFacts
      <4> QED BY ONLY <4>1 DEF Session
    <3>4. sess' = [sess EXCEPT ![s] = k]
      BY <3>1
    <3> HIDE DEF k, s
    <3>5. Fit(k)
      BY <3>1, <3>2, <3>3, InvFacts DEF Fit, HelloFirst, InStep
    <3>6. \A q \in Sessions : Fit(sess'[q]) /\ sess'[q].toGw \in {sess[q].toGw, <<>>}
      BY <3>2, <3>3, <3>4, <3>5, InvFacts
    <3>7. TypeOK'
      BY <1>3, <2>1, <2>2, <3>3, <3>4, InvFacts DEF TunnelInv, TypeOK, Known
    <3> QED BY <1>3, <2>2, <3>6, <3>7, QueuesKept
  <2> QED BY <2>3, <2>4
<1> QED BY <1>4, <1>5

\* A restarted engine starts again from a run of its own; one that stops closes its sessions.
LEMMA EngineInv ==
  ASSUME TunnelInv, EngineStarts \/ EngineDies \/ Shutdown \/ Drained \/ Exited
  PROVE  TunnelInv'
<1>1. CASE EngineStarts
  <2> DEFINE f == Fresh(home)
             h == WithRoutes(f, home.def, home.table)
  <2>1. Known(f) /\ f.run = home.run + 1 /\ home.run \in Nat
    BY InvFacts, FreshKnown DEF Known, Home
  <2>2. home.def \in AllDefs /\ home.table \in Tables \cup {None}
    BY InvFacts DEF Known, Home
  <2>3. Known(h) /\ h.run = home.run + 1
    <3> HIDE DEF f
    <3> QED BY <2>1, <2>2, WithRoutesKnown
  <2>4. Started(h)
    BY <1>1 DEF EngineStarts
  <2>5. Known(home') /\ home'.run = home.run + 1 /\ loops' \in [Loops -> Loop]
    <3> HIDE DEF h
    <3> QED BY <2>3, <2>4, StartedKnown DEF TunnelInv
  <2>6. NotAfter(home, home')
    BY <2>1, <2>5 DEF NotAfter
  <2> QED BY <1>1, <2>5, <2>6, SessionsKept, InvFacts DEF EngineStarts
<1>2. CASE EngineDies
  <2>1. /\ home' = [home EXCEPT !.phase = "off", !.loop = None, !.state = "disconnected"]
        /\ loops' = [l \in Loops |-> NoLoop]
        /\ sess' = [s \in Sessions |-> HomeClosed(sess[s])]
        /\ conns' = [c \in Clients |-> IF conns[c].at \in AtHome THEN NoConn ELSE conns[c]]
        /\ faults' \in 0..MaxFaults /\ UNCHANGED <<gw, edits>>
    BY <1>2, Counted DEF EngineDies, TunnelInv
  <2>2. Known(home') /\ home'.run = home.run /\ home'.gen = home.gen
    BY <2>1, InvFacts DEF Known, Home, States
  <2>3. \A s \in Sessions : Fit(sess'[s]) /\ sess'[s].toGw \in {sess[s].toGw, <<>>}
    BY <2>1, HomeClosedFit, InvFacts
  <2>4. sess' \in [Sessions -> Session]
    BY <2>1, <2>3 DEF Fit
  <2>5. loops' \in [Loops -> Loop] /\ conns' \in [Clients -> Conn]
    BY <2>1, InvFacts DEF NoLoop, Loop, NoConn, Conn
  <2>6. TypeOK'
    BY <2>1, <2>2, <2>4, <2>5, InvFacts DEF TunnelInv, TypeOK, Known
  <2> QED BY <2>1, <2>2, <2>3, <2>6, QueuesKept, SameGeneration
<1>3. CASE Shutdown
  <2>1. Known(home') /\ home'.run = home.run /\ home'.gen = home.gen
    BY <1>3, InvFacts DEF Shutdown, Known, Home
  <2> QED BY <1>3, <2>1, SessionsKept, SameGeneration, InvFacts, Counted DEF Shutdown, TunnelInv
<1>4. CASE Drained
  <2>1. Known(home') /\ home'.run = home.run /\ home'.gen = home.gen
    BY <1>4, InvFacts DEF Drained, Known, Home
  <2> QED BY <1>4, <2>1, SessionsKept, SameGeneration, InvFacts DEF Drained
<1>5. CASE Exited
  <2>1. Known(home') /\ home'.run = home.run /\ home'.gen = home.gen
    BY <1>5, InvFacts DEF Exited, Known, Home
  <2> QED BY <1>5, <2>1, SessionsKept, SameGeneration, InvFacts DEF Exited
<1> QED BY <1>1, <1>2, <1>3, <1>4, <1>5

\* A step that changes the status only
LEMMA StatusOnly ==
  ASSUME TunnelInv, NEW st \in States, home' = [home EXCEPT !.state = st]
  PROVE  Known(home') /\ NotAfter(home, home')
<1>1. home \in Home /\ (home.table # None => home.tgen = home.gen)
  BY DEF TunnelInv, TypeOK
<1>2. /\ home' \in Home /\ home'.run = home.run /\ home'.gen = home.gen
      /\ home'.table = home.table /\ home'.tgen = home.tgen
  BY <1>1 DEF Home
<1> QED BY <1>1, <1>2, SameGeneration DEF Known

\* What a loop reports does so.
LEMMA UpdatedKnown ==
  ASSUME TunnelInv, NEW l, NEW st \in States, home' = Updated(l, [home EXCEPT !.state = st])
  PROVE  Known(home') /\ NotAfter(home, home')
<1>1. CASE home' = home
  BY <1>1, InvFacts
<1>2. CASE home' = [home EXCEPT !.state = st]
  BY <1>2, StatusOnly
<1> QED BY <1>1, <1>2 DEF Updated

\* A loop ends, or goes on to another step.
LEMMA LoopTyped ==
  ASSUME TunnelInv, NEW l, NEW n \in Loop
  PROVE  [loops EXCEPT ![l] = n] \in [Loops -> Loop]
BY InvFacts

\* A loop dials, and a new session has nothing on the way.
LEMMA LoopSteps ==
  ASSUME TunnelInv, NEW l \in Loops, LoopStep(l) \/ DialFails(l)
  PROVE  TunnelInv'
<1>0. NoLoop \in Loop /\ "disconnected" \in States /\ "connecting" \in States
  BY DEF NoLoop, Loop, States
<1>1. Ended(l) => loops' \in [Loops -> Loop]
  BY <1>0, LoopTyped DEF Ended
<1>2. \A pc \in {"dial", "dialing"} : [loops EXCEPT ![l].pc = pc] \in [Loops -> Loop]
  BY InvFacts DEF Loop
<1>3. CASE Dial(l)
  <2>1. Known(home') /\ NotAfter(home, home')
    <3>1. home' = home \/ \E st \in States : home' = [home EXCEPT !.state = st]
      <4>1. home.state \in States
        BY DEF TunnelInv, TypeOK, Home
      <4> QED BY <1>0, <1>3, <4>1 DEF Dial
    <3>2. CASE home' = home
      BY <3>2, InvFacts
    <3>3. ASSUME NEW st \in States, home' = [home EXCEPT !.state = st]
          PROVE  Known(home') /\ NotAfter(home, home')
      BY <3>3, StatusOnly
    <3> QED BY <3>1, <3>2, <3>3
  <2>2. loops' \in [Loops -> Loop]
    BY <1>1, <1>2, <1>3 DEF Dial
  <2> QED BY <1>3, <2>1, <2>2, SessionsKept, InvFacts DEF Dial
<1>4. CASE DialDone(l)
  <2>1. PICK s \in FreeSessions :
          \/ /\ sess' = [sess EXCEPT ![s].hs = "gone"]
             /\ GivenUp(l)
          \/ /\ sess' = [sess EXCEPT ![s] = [NoSession EXCEPT !.hs = "control", !.loop = l, !.link = TRUE]]
             /\ loops' = [loops EXCEPT ![l] = [pc |-> "conn", sess |-> s]]
             /\ UNCHANGED home
    BY <1>4 DEF DialDone
  <2>2. s \in Sessions /\ sess[s] = NoSession
    BY DEF FreeSessions
  <2>3. Known(home') /\ NotAfter(home, home')
    BY <1>0, <2>1, UpdatedKnown, InvFacts DEF GivenUp
  <2>4. loops' \in [Loops -> Loop]
    <3>1. [pc |-> "conn", sess |-> s] \in Loop
      BY <2>2 DEF Loop
    <3> QED BY <1>1, <2>1, <3>1, LoopTyped DEF GivenUp
  <2> DEFINE a == [NoSession EXCEPT !.hs = "gone"]
             b == [NoSession EXCEPT !.hs = "control", !.loop = l, !.link = TRUE]
  <2>5. a \in Session /\ a.hs = "gone" /\ a.gs = "none" /\ a.toGw = <<>> /\ a.toHome = <<>>
    BY NoSessionFit DEF Fit, Session
  <2>6. b \in Session /\ b.hs = "control" /\ b.gs = "none" /\ b.toGw = <<>> /\ b.toHome = <<>>
    BY NoSessionFit DEF Fit, Session
  <2>7. sess' = [sess EXCEPT ![s] = a] \/ sess' = [sess EXCEPT ![s] = b]
    BY <2>1, <2>2, InvFacts
  <2> HIDE DEF a, b
  <2>f. Fit(a) /\ Fit(b)
    BY <2>5, <2>6 DEF Fit, HelloFirst, InStep
  <2>8. \A q \in Sessions : Fit(sess'[q]) /\ sess'[q].toGw \in {sess[q].toGw, <<>>}
    BY <2>2, <2>5, <2>6, <2>7, <2>f, InvFacts
  <2>9. sess' \in [Sessions -> Session]
    BY <2>2, <2>5, <2>6, <2>7, InvFacts DEF Fit
  <2>10. UNCHANGED <<gw, conns, edits, faults>>
    BY <1>4 DEF DialDone
  <2>11. TypeOK'
    BY <2>3, <2>4, <2>9, <2>10 DEF TunnelInv, TypeOK, Known
  <2> QED BY <2>3, <2>8, <2>10, <2>11, QueuesKept
<1>5. CASE DialFails(l)
  <2>1. Known(home') /\ NotAfter(home, home')
    <3>1. \/ GivenUp(l)
          \/ home' = [home EXCEPT !.state = "disconnected"]
      BY <1>5 DEF DialFails
    <3> QED BY <1>0, <3>1, UpdatedKnown, StatusOnly DEF GivenUp
  <2>2. loops' \in [Loops -> Loop] /\ faults' \in 0..MaxFaults
    BY <1>1, <1>2, <1>5, InvFacts, Counted DEF DialFails, GivenUp, TunnelInv
  <2> QED BY <1>5, <2>1, <2>2, SessionsKept, InvFacts DEF DialFails
<1> QED BY <1>3, <1>4, <1>5 DEF LoopStep

-----------------------------------------------------------------------------
(* Queues and streams *)

\* A message is read.
LEMMA TailFacts ==
  ASSUME NEW q \in Seq(Message), q # <<>>
  PROVE  /\ Tail(q) \in Seq(Message) /\ Head(q) = q[1] /\ 1 \in 1..Len(q)
         /\ \A i \in 1..Len(Tail(q)) : Tail(q)[i] = q[i + 1] /\ i + 1 \in 1..Len(q)
  OBVIOUS

\* A message is sent.
LEMMA AppendFacts ==
  ASSUME NEW q \in Seq(Message), NEW m \in Message
  PROVE  /\ Append(q, m) \in Seq(Message) /\ Len(q) \in Nat
         /\ \A i \in 1..Len(Append(q, m)) :
              \/ i \in 1..Len(q) /\ Append(q, m)[i] = q[i]
              \/ i = Len(q) + 1 /\ Append(q, m)[i] = m
         /\ Append(q, m) # <<>>
  OBVIOUS

\* It is the first one.
LEMMA FirstMessage ==
  ASSUME NEW m \in Message
  PROVE  /\ Append(<<>>, m) \in Seq(Message) /\ Append(<<>>, m) # <<>>
         /\ \A i \in 1..Len(Append(<<>>, m)) : i = 1 /\ Append(<<>>, m)[i] = m
<1>1. <<>> \in Seq(Message) /\ Len(<<>>) = 0
  OBVIOUS
<1>2. \A i \in 1..Len(Append(<<>>, m)) : i = 1 /\ Append(<<>>, m)[i] = m
  BY <1>1, AppendFacts
<1> QED BY <1>1, <1>2, AppendFacts

\* A step of one session that adds nothing to what goes to the gateway
LEMMA OneSession ==
  ASSUME TunnelInv, NEW s \in Sessions, NEW n, sess' = [sess EXCEPT ![s] = n],
         Fit(n), n.toGw \in {sess[s].toGw, <<>>}
  PROVE  /\ sess' \in [Sessions -> Session]
         /\ \A q \in Sessions : Fit(sess'[q]) /\ sess'[q].toGw \in {sess[q].toGw, <<>>}
<1>1. sess \in [Sessions -> Session] /\ \A q \in Sessions : Fit(sess[q])
  BY InvFacts
<1>2. n \in Session
  BY DEF Fit
<1> QED BY <1>1, <1>2

\* Streams end with their session.
LEMMA CutTyped ==
  ASSUME TunnelInv, NEW s, NEW places
  PROVE  Cut(s, places) \in [Clients -> Conn]
<1>1. NoConn \in Conn
  BY DEF NoConn, Conn
<1> QED BY <1>1, InvFacts DEF Cut

\* A connection of the home is over.
LEMMA ConnOverInv ==
  ASSUME TunnelInv, NEW s \in Sessions, NEW st \in States, ConnOver(s, st),
         UNCHANGED <<gw, edits, faults>>
  PROVE  TunnelInv'
<1>1. Known(home') /\ NotAfter(home, home')
  BY UpdatedKnown DEF ConnOver
<1>2. sess' = [sess EXCEPT ![s] = HomeClosed(sess[s])]
  BY DEF ConnOver
<1>3. Fit(HomeClosed(sess[s])) /\ HomeClosed(sess[s]).toGw \in {sess[s].toGw, <<>>}
  BY InvFacts, HomeClosedFit
<1>4. /\ sess' \in [Sessions -> Session]
      /\ \A q \in Sessions : Fit(sess'[q]) /\ sess'[q].toGw \in {sess[q].toGw, <<>>}
  BY <1>2, <1>3, OneSession
<1>5. loops' \in [Loops -> Loop]
  <2>1. NoLoop \in Loop /\ [pc |-> "dial", sess |-> None] \in Loop
    BY DEF NoLoop, Loop
  <2> QED BY <2>1, LoopTyped DEF ConnOver, Ended
<1>6. conns' \in [Clients -> Conn]
  BY CutTyped DEF ConnOver
<1>7. TypeOK'
  BY <1>1, <1>4, <1>5, <1>6 DEF TunnelInv, TypeOK, Known
<1> QED BY <1>1, <1>4, <1>7, QueuesKept

\* A connection of the gateway is.
LEMMA LostInv ==
  ASSUME TunnelInv, NEW s \in Sessions, sess[s] # NoSession, Lost(s),
         UNCHANGED <<home, loops, edits, faults>>
  PROVE  TunnelInv'
<1>1. Fit(GwClosed(sess[s])) /\ GwClosed(sess[s]).toGw \in {sess[s].toGw, <<>>}
  BY InvFacts, GwClosedFit
<1>2. sess' = [sess EXCEPT ![s] = GwClosed(sess[s])]
  BY DEF Lost
<1>3. /\ sess' \in [Sessions -> Session]
      /\ \A q \in Sessions : Fit(sess'[q]) /\ sess'[q].toGw \in {sess[q].toGw, <<>>}
  BY <1>1, <1>2, OneSession
<1>4. /\ gw' \in Gateway /\ gw'.run = gw.run /\ gw'.gen = gw.gen
      /\ gw'.session \in {gw.session, None}
  <2>1. gw \in Gateway
    BY DEF TunnelInv, TypeOK
  <2>2. PICK a \in {gw.session, None}, b \in {gw.active, None} :
          gw' = [gw EXCEPT !.session = a, !.active = b]
    BY DEF Lost
  <2> QED BY <2>1, <2>2 DEF Gateway
<1>5. conns' \in [Clients -> Conn]
  BY CutTyped DEF Lost
<1>6. TypeOK'
  BY <1>3, <1>4, <1>5 DEF TunnelInv, TypeOK
<1>7. Known(home') /\ NotAfter(home, home')
  BY InvFacts
<1> QED BY <1>3, <1>4, <1>6, <1>7, QueuesKept

\* What ends a session adds nothing to it.
LEMMA EndsInv ==
  ASSUME TunnelInv, NEW s \in Sessions, ConnEnds(s) \/ GatewayEnds(s) \/ Breaks(s)
  PROVE  TunnelInv'
<1>1. CASE ConnEnds(s)
  BY <1>1, ConnOverInv DEF ConnEnds, States
<1>2. CASE GatewayEnds(s)
  BY <1>2, LostInv DEF GatewayEnds
<1>3. CASE Breaks(s)
  <2> DEFINE n == [sess[s] EXCEPT !.link = FALSE]
  <2>1. Fit(n) /\ n.toGw = sess[s].toGw
    BY InvFacts, UnlinkedFit
  <2>2. sess' = [sess EXCEPT ![s] = n]
    BY <1>3 DEF Breaks
  <2> HIDE DEF n
  <2>3. /\ sess' \in [Sessions -> Session]
        /\ \A q \in Sessions : Fit(sess'[q]) /\ sess'[q].toGw \in {sess[q].toGw, <<>>}
    BY <2>1, <2>2, OneSession
  <2>4. UNCHANGED <<home, loops, gw, conns, edits>> /\ faults' \in 0..MaxFaults
    BY <1>3, Counted DEF Breaks, TunnelInv
  <2>5. TypeOK'
    BY <2>3, <2>4 DEF TunnelInv, TypeOK
  <2>6. Known(home') /\ NotAfter(home, home')
    BY <2>4, InvFacts
  <2> QED BY <2>3, <2>4, <2>5, <2>6, QueuesKept
<1> QED BY <1>1, <1>2, <1>3

\* The gateway's hello is the first message home reads, and only acks follow.
LEMMA GetHelloInv ==
  ASSUME TunnelInv, NEW s \in Sessions, GetHello(s)
  PROVE  TunnelInv'
<1> DEFINE r == sess[s]
           ok == Head(r.toHome).ok
<1>1. r.hs = "hello" /\ r.toHome # <<>>
  BY DEF GetHello
<1>2. Fit(r) /\ r.toHome \in Seq(Message) /\ r \in Session
  BY InvFacts DEF Fit, Session
<1>3. UNCHANGED <<gw, edits, faults>>
  BY DEF GetHello
<1>4. CASE \E st \in States : ConnOver(s, st)
  BY <1>3, <1>4, ConnOverInv
<1>5. CASE /\ sess' = [sess EXCEPT ![s] = [r EXCEPT !.hs = "live", !.kick = TRUE, !.toHome = Tail(r.toHome)]]
           /\ home' = Connected(home)
           /\ UNCHANGED <<loops, conns>>
  <2> DEFINE n == [r EXCEPT !.hs = "live", !.kick = TRUE, !.toHome = Tail(r.toHome)]
  <2>1. /\ Tail(r.toHome) \in Seq(Message)
        /\ \A i \in 1..Len(Tail(r.toHome)) :
             Tail(r.toHome)[i] = r.toHome[i + 1] /\ i + 1 \in 1..Len(r.toHome) /\ i + 1 # 1
    BY <1>1, <1>2, TailFacts
  <2>2. /\ n \in Session /\ n.toGw = r.toGw /\ n.toHome = Tail(r.toHome) /\ n.hs = "live"
        /\ n.gs = r.gs /\ n.link = r.link
    <3> HIDE DEF r
    <3> QED BY <1>2, <2>1 DEF Session
  <2>3. \A i \in 1..Len(n.toHome) : n.toHome[i] \in AckMessage
    <3> HIDE DEF n, r
    <3> QED BY <1>1, <1>2, <2>1, <2>2 DEF Fit, HelloFirst
  <2>4. sess' = [sess EXCEPT ![s] = n]
    BY <1>5
  <2> HIDE DEF n, r
  <2>5. Fit(n)
    BY <1>1, <1>2, <2>2, <2>3 DEF Fit, HelloFirst, InStep
  <2>6. n.toGw \in {sess[s].toGw, <<>>}
    BY <2>2 DEF r
  <2>7. /\ sess' \in [Sessions -> Session]
        /\ \A q \in Sessions : Fit(sess'[q]) /\ sess'[q].toGw \in {sess[q].toGw, <<>>}
    BY <2>4, <2>5, <2>6, OneSession
  <2>8. Known(home') /\ home'.run = home.run /\ home'.gen = home.gen
    <3>1. home' = [home EXCEPT !.state = "connected", !.acked = 0, !.errors = {}]
      BY <1>5 DEF Connected
    <3> QED BY <3>1, InvFacts DEF Known, Home, States
  <2>9. TypeOK'
    BY <1>3, <1>5, <2>7, <2>8 DEF TunnelInv, TypeOK, Known
  <2> QED BY <1>3, <2>7, <2>8, <2>9, QueuesKept, SameGeneration
<1> DEFINE st == IF ok THEN "disconnected" ELSE "incompatible"
<1>6. st \in States
  <2> HIDE DEF ok
  <2> QED BY DEF States
<1>7. \/ ConnOver(s, st)
      \/ /\ sess' = [sess EXCEPT ![s] = [r EXCEPT !.hs = "live", !.kick = TRUE, !.toHome = Tail(r.toHome)]]
         /\ home' = Connected(home)
         /\ UNCHANGED <<loops, conns>>
  BY DEF GetHello
<1> HIDE DEF st
<1> QED BY <1>4, <1>5, <1>6, <1>7

\* An ack changes the status only.
LEMMA GetAckInv ==
  ASSUME TunnelInv, NEW s \in Sessions, GetAck(s)
  PROVE  TunnelInv'
<1> DEFINE r == sess[s]
           m == Head(r.toHome)
           n == [r EXCEPT !.toHome = Tail(r.toHome)]
<1>1. r.hs = "live" /\ r.toHome # <<>> /\ sess' = [sess EXCEPT ![s] = n]
      /\ UNCHANGED <<loops, gw, conns, edits, faults>>
  BY DEF GetAck
<1>2. Fit(r) /\ r.toHome \in Seq(Message) /\ r \in Session
  BY InvFacts DEF Fit, Session
<1>3. /\ Tail(r.toHome) \in Seq(Message) /\ m = r.toHome[1] /\ 1 \in 1..Len(r.toHome)
      /\ \A i \in 1..Len(Tail(r.toHome)) :
           Tail(r.toHome)[i] = r.toHome[i + 1] /\ i + 1 \in 1..Len(r.toHome)
  BY <1>1, <1>2, TailFacts
<1>4. /\ n \in Session /\ n.toGw = r.toGw /\ n.toHome = Tail(r.toHome) /\ n.hs = "live"
      /\ n.gs = r.gs /\ n.link = r.link
  <2> HIDE DEF r
  <2> QED BY <1>1, <1>2, <1>3 DEF Session
<1>5. \A i \in 1..Len(n.toHome) : n.toHome[i] \in AckMessage
  <2> HIDE DEF n, r, m
  <2> QED BY <1>1, <1>2, <1>3, <1>4 DEF Fit, HelloFirst
<1>6. m \in AckMessage
  <2> HIDE DEF n, r, m
  <2> QED BY <1>1, <1>2, <1>3 DEF Fit, HelloFirst
<1>7. Known(home') /\ home'.run = home.run /\ home'.gen = home.gen
  <2>1. CASE home' = home
    BY <2>1, InvFacts
  <2>2. CASE home' = [home EXCEPT !.acked = m.gen, !.errors = m.errors]
    <3>1. m.gen \in Nat /\ m.errors \in SUBSET Ports
      BY <1>6 DEF AckMessage
    <3> HIDE DEF m
    <3> QED BY <2>2, <3>1, InvFacts DEF Known, Home
  <2> QED BY <2>1, <2>2 DEF GetAck, Updated
<1> HIDE DEF m, n, r
<1>8. Fit(n)
  BY <1>1, <1>2, <1>4, <1>5 DEF Fit, HelloFirst, InStep
<1>9. n.toGw \in {sess[s].toGw, <<>>}
  BY <1>4 DEF r
<1>10. /\ sess' \in [Sessions -> Session]
       /\ \A q \in Sessions : Fit(sess'[q]) /\ sess'[q].toGw \in {sess[q].toGw, <<>>}
  BY <1>1, <1>8, <1>9, OneSession
<1>11. TypeOK'
  BY <1>1, <1>7, <1>10 DEF TunnelInv, TypeOK, Known
<1> QED BY <1>1, <1>7, <1>10, <1>11, QueuesKept, SameGeneration

\* Streams change no routes.
LEMMA StreamsInv ==
  ASSUME TunnelInv, NEW c \in Clients, ConnStep(c)
  PROVE  TunnelInv'
<1>1. UNCHANGED <<home, loops, sess, gw, edits, faults>>
  BY DEF ConnStep, Accept, Open, Count, Handle, Finish
<1>2. conns \in [Clients -> Conn] /\ NoConn \in Conn
  BY InvFacts DEF NoConn, Conn
<1>3. conns' \in [Clients -> Conn]
  <2>1. CASE Accept(c)
    <3>1. PICK w \in gw.table :
            conns' = [conns EXCEPT ![c] = [at |-> "picked", sess |-> gw.active, want |-> w]]
      BY <2>1 DEF Accept
    <3>2. gw.active \in Sessions \cup {None} /\ w \in Things
      BY DEF TunnelInv, TypeOK, Gateway
    <3>3. [at |-> "picked", sess |-> gw.active, want |-> w] \in Conn
      BY <3>2 DEF Conn
    <3> QED BY <1>2, <3>1, <3>3
  <2>2. \A at \in {"opened", "counted", "served"} : [conns[c] EXCEPT !.at = at] \in Conn
    BY <1>2 DEF Conn
  <2>3. CASE Open(c)
    BY <1>2, <2>2, <2>3 DEF Open
  <2>4. CASE Count(c)
    BY <1>2, <2>2, <2>4 DEF Count
  <2>5. CASE Handle(c)
    BY <1>2, <2>2, <2>5 DEF Handle
  <2>6. CASE Finish(c)
    BY <1>2, <2>6 DEF Finish
  <2> QED BY <2>1, <2>3, <2>4, <2>5, <2>6 DEF ConnStep
<1> QED BY <1>1, <1>3, InvFacts, SessionsKept

-----------------------------------------------------------------------------
(* The steps that change what is on the way, or what the gateway has *)

\* Routes in a queue are of some generation.
LEMMA QueuedRoutes ==
  ASSUME TunnelInv, NEW s \in Sessions, NEW i \in 1..Len(sess[s].toGw), IsRoutes(sess[s].toGw[i])
  PROVE  sess[s].toGw[i].run \in Nat /\ sess[s].toGw[i].gen \in Nat
<1> DEFINE q == sess[s].toGw
<1>1. q \in Seq(Message)
  BY InvFacts DEF Fit, Session
<1>2. q[i] \in Message
  BY <1>1
<1> HIDE DEF q
<1> QED BY <1>2 DEF Message, IsRoutes, q

\* The home goes on as it is.  Each queue is what it was, or nothing, and is of
\* the session the gateway keeps if it is of the session the gateway has; or it
\* is in order.
LEMMA QueuesInOrder ==
  ASSUME TunnelInv, TypeOK', UNCHANGED home, NotAfter(gw', home),
         \A s \in Sessions :
           /\ Fit(sess'[s])
           /\ \/ /\ sess'[s].toGw \in {sess[s].toGw, <<>>}
                 /\ s = gw'.session => s = gw.session /\ gw'.run = gw.run /\ gw'.gen = gw.gen
              \/ /\ InOrder(sess'[s], home)
                 /\ s = gw'.session => Ahead(sess'[s], gw')
  PROVE  TunnelInv'
<1>1. ASSUME NEW s \in Sessions
      PROVE  InOrder(sess'[s], home) /\ (s = gw'.session => Ahead(sess'[s], gw'))
  <2>1. InOrder(sess[s], home) /\ (s = gw.session => Ahead(sess[s], gw))
    BY DEF TunnelInv
  <2>2. CASE sess'[s].toGw = <<>>
    BY <2>2 DEF InOrder, Ahead
  <2>3. CASE /\ sess'[s].toGw = sess[s].toGw
             /\ s = gw'.session => s = gw.session /\ gw'.run = gw.run /\ gw'.gen = gw.gen
    BY <2>1, <2>3 DEF InOrder, Ahead, NotAfter
  <2> QED BY <2>2, <2>3
<1> QED BY <1>1 DEF TunnelInv

\* The home's hello is the first message the gateway reads.
LEMMA GetControlInv ==
  ASSUME TunnelInv, NEW s \in Sessions, GetControl(s)
  PROVE  TunnelInv'
<1> DEFINE r == sess[s]
           t == Told(r, Hello(TRUE))
           n == [t EXCEPT !.hs = "hello"]
<1>1. r.hs = "control" /\ r.toHome # <<>> /\ UNCHANGED <<home, loops, gw, conns, edits, faults>>
  BY DEF GetControl
<1>2. sess' = [sess EXCEPT ![s] = n]
  BY DEF GetControl
<1>3. Fit(r) /\ r \in Session /\ r.toGw = <<>> /\ r.gs \notin {"none", "live"}
  BY <1>1, InvFacts DEF Fit, InStep
<1> HIDE DEF r
<1>4. Hello(TRUE) \in Message /\ Hello(TRUE) \in HelloMessage /\ ~IsRoutes(Hello(TRUE))
  BY DEF Hello, Message, HelloMessage, IsRoutes
<1>5. /\ t \in Session /\ t.toHome = r.toHome /\ t.gs = r.gs /\ t.link = r.link
      /\ t.toGw = IF r.link THEN Append(<<>>, Hello(TRUE)) ELSE <<>>
  <2>1. Append(<<>>, Hello(TRUE)) \in Seq(Message)
    BY <1>4, FirstMessage
  <2> QED BY <1>3, <2>1 DEF Told, Session
<1> HIDE DEF t
<1>6. /\ n \in Session /\ n.toHome = r.toHome /\ n.gs = r.gs /\ n.link = r.link
      /\ n.hs = "hello" /\ n.toGw = t.toGw
  BY <1>5 DEF Session
<1>7. \A i \in 1..Len(n.toGw) : i = 1 /\ n.toGw[i] = Hello(TRUE)
  <2>1. CASE n.toGw = <<>>
    BY <2>1
  <2>2. CASE n.toGw = Append(<<>>, Hello(TRUE))
    BY <1>4, <2>2, FirstMessage
  <2> QED BY <1>5, <1>6, <2>1, <2>2
<1>8. n.link => n.toGw # <<>>
  BY <1>4, <1>5, <1>6, FirstMessage
<1> HIDE DEF n
<1>9. Fit(n)
  <2>1. HelloFirst(n)
    BY <1>1, <1>3, <1>4, <1>6, <1>7 DEF Fit, HelloFirst
  <2>2. InStep(n)
    BY <1>1, <1>3, <1>6, <1>8 DEF InStep
  <2> QED BY <1>6, <2>1, <2>2 DEF Fit
<1>10. InOrder(n, home) /\ Ahead(n, gw)
  BY <1>4, <1>7 DEF InOrder, Ahead
<1>11. sess' \in [Sessions -> Session]
  BY <1>2, <1>6, InvFacts
<1>12. TypeOK'
  BY <1>1, <1>11 DEF TunnelInv, TypeOK
<1>13. \A q \in Sessions : q # s => sess'[q] = sess[q]
  BY <1>2, InvFacts
<1>14. sess'[s] = n
  BY <1>2, InvFacts
<1>15. \A q \in Sessions : Fit(sess'[q])
  BY <1>9, <1>13, <1>14, InvFacts
<1>16. NotAfter(gw', home)
  BY <1>1 DEF TunnelInv
<1> QED BY <1>1, <1>10, <1>12, <1>13, <1>14, <1>15, <1>16, QueuesInOrder

\* A push is the home's last generation, and so behind what is on the way.
LEMMA WriteRoutesInv ==
  ASSUME TunnelInv, NEW s \in Sessions, WriteRoutes(s)
  PROVE  TunnelInv'
<1> DEFINE r == sess[s]
           m == [type |-> "routes", run |-> home.run, gen |-> home.tgen, table |-> home.table]
<1>1. r.hs = "live" /\ UNCHANGED <<home, loops, gw, conns, edits, faults>>
  BY DEF WriteRoutes
<1>2. Fit(r) /\ r \in Session /\ r.toGw \in Seq(Message) /\ home \in Home
  BY InvFacts DEF Fit, Session, Known
<1>3. InOrder(r, home) /\ (s = gw.session => Ahead(r, gw))
  BY DEF TunnelInv
<1>q. \A i \in 1..Len(r.toGw) : IsRoutes(r.toGw[i]) => r.toGw[i].run \in Nat /\ r.toGw[i].gen \in Nat
  BY QueuedRoutes
<1> DEFINE Good(n) == /\ Fit(n) /\ InOrder(n, home)
                      /\ s = gw.session => Ahead(n, gw)
<1>4. ASSUME NEW n, sess' = [sess EXCEPT ![s] = n], Good(n)
      PROVE  TunnelInv'
  <2>1. sess' \in [Sessions -> Session]
    BY <1>4, InvFacts DEF Fit
  <2>2. TypeOK'
    BY <1>1, <2>1 DEF TunnelInv, TypeOK
  <2>3. sess'[s] = n /\ \A q \in Sessions : q # s => sess'[q] = sess[q]
    BY <1>4, InvFacts
  <2>4. \A q \in Sessions : Fit(sess'[q])
    BY <1>4, <2>3, InvFacts
  <2>5. NotAfter(gw', home)
    BY <1>1 DEF TunnelInv
  <2> QED BY <1>1, <1>4, <2>2, <2>3, <2>4, <2>5, QueuesInOrder
<1> HIDE DEF r
<1>5. CASE home.table = None
  <2> DEFINE n == [r EXCEPT !.kick = FALSE]
  <2>1. sess' = [sess EXCEPT ![s] = n]
    BY <1>5 DEF WriteRoutes, r
  <2>2. /\ n \in Session /\ n.toGw = r.toGw /\ n.toHome = r.toHome /\ n.hs = "live"
        /\ n.gs = r.gs /\ n.link = r.link
    BY <1>1, <1>2 DEF Session
  <2> HIDE DEF n
  <2>3. Fit(n)
    BY <1>1, <1>2, <2>2 DEF Fit, HelloFirst, InStep
  <2>4. Good(n)
    BY <1>3, <2>2, <2>3 DEF InOrder, Ahead
  <2> QED BY <1>4, <2>1, <2>4
<1>6. CASE home.table # None
  <2> DEFINE t == Told(r, m)
             n == [t EXCEPT !.kick = FALSE, !.sent = home.tgen]
  <2>1. sess' = [sess EXCEPT ![s] = n]
    BY <1>6 DEF WriteRoutes, r
  <2>2. home.run \in Nat /\ home.tgen \in Nat /\ home.tgen = home.gen /\ home.table \in Tables
    BY <1>2, <1>6, InvFacts DEF Home, Known
  <2>3. m \in RoutesMessage /\ m \in Message /\ m.run = home.run /\ m.gen = home.gen
    BY <2>2 DEF RoutesMessage, Message
  <2> HIDE DEF m
  <2>4. /\ Append(r.toGw, m) \in Seq(Message) /\ Len(r.toGw) \in Nat
        /\ \A i \in 1..Len(Append(r.toGw, m)) :
             \/ i \in 1..Len(r.toGw) /\ Append(r.toGw, m)[i] = r.toGw[i]
             \/ i = Len(r.toGw) + 1 /\ Append(r.toGw, m)[i] = m
        /\ Append(r.toGw, m) # <<>>
    BY <1>2, <2>3, AppendFacts
  <2>5. /\ t \in Session /\ t.toHome = r.toHome /\ t.hs = "live" /\ t.gs = r.gs /\ t.link = r.link
        /\ t.toGw = IF r.link THEN Append(r.toGw, m) ELSE r.toGw
    BY <1>1, <1>2, <2>4 DEF Told, Session
  <2> HIDE DEF t
  <2>6. /\ n \in Session /\ n.toHome = r.toHome /\ n.hs = "live" /\ n.gs = r.gs /\ n.link = r.link
        /\ n.toGw = t.toGw
    BY <2>2, <2>5 DEF Session
  <2> HIDE DEF n
  <2>7. CASE ~r.link
    <3>1. n.toGw = r.toGw
      BY <2>5, <2>6, <2>7
    <3>2. Fit(n)
      BY <1>1, <1>2, <2>6, <3>1 DEF Fit, HelloFirst, InStep
    <3>3. Good(n)
      BY <1>3, <3>1, <3>2 DEF InOrder, Ahead
    <3> QED BY <1>4, <2>1, <3>3
  <2>8. CASE r.link
    <3> DEFINE q == n.toGw
    <3>1. /\ Len(r.toGw) \in Nat /\ q # <<>>
          /\ \A i \in 1..Len(q) : \/ i \in 1..Len(r.toGw) /\ q[i] = r.toGw[i]
                                  \/ i = Len(r.toGw) + 1 /\ q[i] = m
      BY <2>4, <2>5, <2>6, <2>8
    <3>2. r.gs # "none" /\ (r.gs = "hello" => r.toGw # <<>>)
      BY <1>1, <1>2, <2>8 DEF Fit, InStep
    <3>3. r.toGw # <<>> => Len(r.toGw) # 0
      BY <1>2
    <3> HIDE DEF q
    <3>4. HelloFirst(n)
      <4>1. r.gs = "hello" =>
              \A i \in 1..Len(q) : q[i] \in IF i = 1 THEN HelloMessage ELSE RoutesMessage
        BY <1>2, <2>3, <3>1, <3>2, <3>3 DEF Fit, HelloFirst
      <4>2. r.gs = "live" => \A i \in 1..Len(q) : q[i] \in RoutesMessage
        BY <1>2, <2>3, <3>1 DEF Fit, HelloFirst
      <4> QED BY <1>1, <1>2, <2>6, <4>1, <4>2 DEF Fit, HelloFirst, q
    <3>5. InStep(n)
      BY <1>1, <1>2, <2>6, <3>1, <3>2 DEF Fit, InStep, q
    <3>6. home.run \in Nat /\ home.gen \in Nat /\ gw.run \in Nat /\ gw.gen \in Nat /\ NotAfter(gw, home)
      BY <2>2 DEF TunnelInv, TypeOK, Gateway
    <3>7. NotAfter(m, home) /\ NotAfter(gw, m)
      BY <2>3, <3>6 DEF NotAfter
    <3>8. \A i \in 1..Len(q) : IsRoutes(q[i]) => NotAfter(q[i], home)
      BY <1>3, <3>1, <3>7 DEF InOrder
    <3>9. ASSUME NEW i \in 1..Len(q), NEW j \in 1..Len(q), i < j, IsRoutes(q[i]), IsRoutes(q[j])
          PROVE  NotAfter(q[i], q[j])
      <4>1. i \in 1..Len(r.toGw) /\ q[i] = r.toGw[i]
        <5>1. Len(q) \in Nat /\ (j \in 1..Len(r.toGw) \/ j = Len(r.toGw) + 1)
          <6>1. q \in Seq(Message)
            BY <2>6 DEF Session, q
          <6> QED BY <3>1, <6>1
        <5>2. i # Len(r.toGw) + 1
          BY <3>1, <3>9, <5>1
        <5> QED BY <3>1, <5>2
      <4>2. CASE j \in 1..Len(r.toGw) /\ q[j] = r.toGw[j]
        BY <1>3, <3>9, <4>1, <4>2 DEF InOrder
      <4>3. CASE q[j] = m
        BY <1>3, <2>3, <3>9, <4>1, <4>3 DEF InOrder, NotAfter
      <4> QED BY <3>1, <4>2, <4>3
    <3>10. s = gw.session => \A i \in 1..Len(q) : IsRoutes(q[i]) => NotAfter(gw, q[i])
      BY <1>3, <3>1, <3>7 DEF Ahead
    <3>11. Good(n)
      BY <2>6, <3>4, <3>5, <3>8, <3>9, <3>10 DEF Fit, InOrder, Ahead, q
    <3> QED BY <1>4, <2>1, <3>11
  <2> QED BY <2>7, <2>8
<1> QED BY <1>5, <1>6

\* What is left of a queue in order is, and its first routes are older.
LEMMA RestInOrder ==
  ASSUME TunnelInv, NEW s \in Sessions, sess[s].toGw # <<>>,
         NEW n, n.toGw = Tail(sess[s].toGw)
  PROVE  /\ InOrder(n, home) /\ (s = gw.session => Ahead(n, gw))
         /\ IsRoutes(Head(sess[s].toGw)) => Ahead(n, Head(sess[s].toGw))
<1> DEFINE q == sess[s].toGw
           t == Tail(q)
<1>1. InOrder(sess[s], home) /\ (s = gw.session => Ahead(sess[s], gw))
  BY DEF TunnelInv
<1>2. q \in Seq(Message)
  BY InvFacts DEF Fit, Session
<1>3. /\ Head(q) = q[1] /\ 1 \in 1..Len(q)
      /\ \A i \in 1..Len(t) : t[i] = q[i + 1] /\ i + 1 \in 1..Len(q)
  BY <1>2, TailFacts
<1>4. \A i \in 1..Len(t) : i \in Nat /\ 1 < i + 1
  OBVIOUS
<1> HIDE DEF q, t
<1>5. /\ \A i \in 1..Len(q) : IsRoutes(q[i]) => NotAfter(q[i], home)
      /\ \A i, j \in 1..Len(q) : i < j /\ IsRoutes(q[i]) /\ IsRoutes(q[j]) => NotAfter(q[i], q[j])
  BY <1>1 DEF InOrder, q
<1>6. \A i \in 1..Len(t) : IsRoutes(t[i]) => NotAfter(t[i], home)
  BY <1>3, <1>5
<1>7. \A i, j \in 1..Len(t) : i < j /\ IsRoutes(t[i]) /\ IsRoutes(t[j]) => NotAfter(t[i], t[j])
  <2>1. \A i, j \in 1..Len(t) : i < j => i + 1 < j + 1
    BY <1>4
  <2> QED BY <1>3, <1>5, <2>1
<1>8. s = gw.session => \A i \in 1..Len(t) : IsRoutes(t[i]) => NotAfter(gw, t[i])
  BY <1>1, <1>3 DEF Ahead, q
<1>9. IsRoutes(Head(q)) => \A i \in 1..Len(t) : IsRoutes(t[i]) => NotAfter(Head(q), t[i])
  BY <1>3, <1>4, <1>5
<1>10. n.toGw = t
  BY DEF q, t
<1> QED BY <1>6, <1>7, <1>8, <1>9, <1>10 DEF InOrder, Ahead, q

\* After the home's hello there are only pushes.
LEMMA EstablishInv ==
  ASSUME TunnelInv, NEW s \in Sessions, Establish(s)
  PROVE  TunnelInv'
<1> DEFINE r == sess[s]
<1>1. r.gs = "hello" /\ r.toGw # <<>> /\ UNCHANGED <<home, loops, edits, faults>>
  BY DEF Establish
<1>2. Fit(r) /\ r \in Session /\ r.toGw \in Seq(Message)
  BY InvFacts DEF Fit, Session
<1>3. CASE Lost(s)
  <2>1. r # NoSession
    BY <1>1, NoSessionFit
  <2> QED BY <1>1, <1>3, <2>1, LostInv
<1>4. CASE /\ gw' = [gw EXCEPT !.active = s]
           /\ sess' = [sess EXCEPT ![s].gs = "live", ![s].toGw = Tail(@)]
           /\ UNCHANGED conns
  <2> DEFINE n == [r EXCEPT !.gs = "live", !.toGw = Tail(r.toGw)]
  <2>1. sess' = [sess EXCEPT ![s] = n]
    BY <1>4, InvFacts
  <2>2. /\ Tail(r.toGw) \in Seq(Message)
        /\ \A i \in 1..Len(Tail(r.toGw)) :
             Tail(r.toGw)[i] = r.toGw[i + 1] /\ i + 1 \in 1..Len(r.toGw) /\ i + 1 # 1
    BY <1>1, <1>2, TailFacts
  <2> HIDE DEF r
  <2>3. /\ n \in Session /\ n.toHome = r.toHome /\ n.hs = r.hs /\ n.gs = "live"
        /\ n.toGw = Tail(r.toGw)
    BY <1>2, <2>2 DEF Session
  <2> HIDE DEF n
  <2>4. \A i \in 1..Len(n.toGw) : n.toGw[i] \in RoutesMessage
    BY <1>1, <1>2, <2>2, <2>3 DEF Fit, HelloFirst
  <2>5. r.hs \notin {"none", "control"}
    BY <1>1, <1>2, NoSessionFit DEF Fit, InStep
  <2>6. Fit(n)
    BY <1>1, <1>2, <2>3, <2>4, <2>5 DEF Fit, HelloFirst, InStep
  <2>7. InOrder(n, home) /\ (s = gw.session => Ahead(n, gw))
    BY <1>1, <2>3, RestInOrder DEF r
  <2>8. /\ gw' \in Gateway /\ gw'.run = gw.run /\ gw'.gen = gw.gen /\ gw'.session = gw.session
    BY <1>4 DEF TunnelInv, TypeOK, Gateway
  <2>9. sess' \in [Sessions -> Session]
    BY <2>1, <2>3, InvFacts
  <2>10. TypeOK'
    BY <1>1, <1>4, <2>8, <2>9 DEF TunnelInv, TypeOK
  <2>11. sess'[s] = n /\ \A q \in Sessions : q # s => sess'[q] = sess[q]
    BY <2>1, InvFacts
  <2>12. \A q \in Sessions : Fit(sess'[q])
    BY <2>6, <2>11, InvFacts
  <2>13. NotAfter(gw', home)
    BY <2>8 DEF TunnelInv, NotAfter
  <2>14. s = gw'.session => Ahead(n, gw')
    BY <2>7, <2>8 DEF Ahead, NotAfter
  <2> QED BY <1>1, <2>7, <2>8, <2>10, <2>11, <2>12, <2>13, <2>14, QueuesInOrder
<1> QED BY <1>3, <1>4 DEF Establish

\* A session the gateway attaches has nothing on the way yet.
LEMMA AttachInv ==
  ASSUME TunnelInv, NEW s \in Sessions, Attach(s)
  PROVE  TunnelInv'
<1> DEFINE r == sess[s]
           x == Hello(gw.compatible)
           t == Answered(r, x)
           n == [t EXCEPT !.gs = "hello"]
<1>1. /\ r.gs = "none" /\ r.hs # "none" /\ UNCHANGED <<home, loops, conns, edits, faults>>
      /\ gw' = [gw EXCEPT !.session = s, !.active = None]
  BY DEF Attach
<1>2. /\ sess'[s] = n
      /\ \A q \in Sessions : q # s => sess'[q] \in {sess[q], Superseded(sess[q])}
      /\ sess' = [q \in Sessions |-> sess'[q]]
  BY DEF Attach
<1>3. Fit(r) /\ r \in Session /\ r.toGw = <<>> /\ r.toHome = <<>> /\ r.hs \in {"control", "gone"}
  BY <1>1, InvFacts DEF Fit, InStep
<1>4. gw \in Gateway
  BY DEF TunnelInv, TypeOK
<1>5. x \in Message /\ x \in HelloMessage
  BY <1>4 DEF Hello, Message, HelloMessage, Gateway
<1> HIDE DEF r, x
<1>6. /\ t \in Session /\ t.toGw = <<>> /\ t.hs = r.hs
      /\ t.toHome \in {<<>>, Append(<<>>, x)}
  <2>1. Append(<<>>, x) \in Seq(Message)
    BY <1>5, FirstMessage
  <2> QED BY <1>3, <2>1 DEF Answered, Session
<1> HIDE DEF t
<1>7. /\ n \in Session /\ n.toGw = <<>> /\ n.hs = r.hs /\ n.toHome = t.toHome /\ n.gs = "hello"
  BY <1>6 DEF Session
<1> HIDE DEF n
<1>8. \A i \in 1..Len(n.toHome) : i = 1 /\ n.toHome[i] = x
  <2>1. CASE n.toHome = <<>>
    BY <2>1
  <2>2. CASE n.toHome = Append(<<>>, x)
    BY <1>5, <2>2, FirstMessage
  <2> QED BY <1>6, <1>7, <2>1, <2>2
<1>9. Fit(n)
  BY <1>3, <1>5, <1>7, <1>8 DEF Fit, HelloFirst, InStep
<1>10. ASSUME NEW q \in Sessions, q # s
       PROVE  Fit(sess'[q]) /\ sess'[q].toGw = sess[q].toGw
  <2>1. Fit(sess[q])
    BY InvFacts
  <2>2. Fit(Superseded(sess[q])) /\ Superseded(sess[q]).toGw = sess[q].toGw
    BY <2>1, UnlinkedFit DEF Superseded
  <2> QED BY <1>2, <1>10, <2>1, <2>2
<1>11. \A q \in Sessions : Fit(sess'[q])
  BY <1>2, <1>9, <1>10
<1>12. sess' \in [Sessions -> Session]
  BY <1>2, <1>11 DEF Fit
<1>13. gw' \in Gateway /\ gw'.session = s /\ gw'.run = gw.run /\ gw'.gen = gw.gen
  BY <1>1, <1>4 DEF Gateway
<1>14. TypeOK'
  BY <1>1, <1>12, <1>13 DEF TunnelInv, TypeOK
<1>15. NotAfter(gw', home)
  BY <1>13 DEF TunnelInv, NotAfter
<1>16. InOrder(n, home) /\ Ahead(n, gw')
  BY <1>7 DEF InOrder, Ahead
<1> QED BY <1>1, <1>2, <1>10, <1>11, <1>13, <1>14, <1>15, <1>16, QueuesInOrder

\* What the gateway takes is newer than what it has.
LEMMA TakenIsNewer ==
  ASSUME TunnelInv, NEW s \in Sessions, sess[s].gs = "live", sess[s].toGw # <<>>
  PROVE  /\ Head(sess[s].toGw) \in RoutesMessage /\ IsRoutes(Head(sess[s].toGw))
         /\ NotAfter(Head(sess[s].toGw), home)
         /\ s = gw.session => NotAfter(gw, Head(sess[s].toGw))
<1> DEFINE q == sess[s].toGw
<1>1. InOrder(sess[s], home) /\ Fit(sess[s]) /\ (s = gw.session => Ahead(sess[s], gw))
  BY DEF TunnelInv
<1>2. q \in Seq(Message)
  BY <1>1 DEF Fit, Session
<1>3. Head(q) = q[1] /\ 1 \in 1..Len(q)
  BY <1>2, TailFacts
<1> HIDE DEF q
<1>4. Head(q) \in RoutesMessage
  BY <1>1, <1>3 DEF Fit, HelloFirst, q
<1>5. IsRoutes(Head(q))
  BY <1>4 DEF RoutesMessage, IsRoutes
<1> QED BY <1>1, <1>3, <1>4, <1>5 DEF InOrder, Ahead, q

\* The gateway has the generation of the push it read, which what is left is not older than.
LEMMA ApplyRoutesInv ==
  ASSUME TunnelInv, NEW s \in Sessions, ApplyRoutes(s)
  PROVE  TunnelInv'
<1> DEFINE r == sess[s]
           m == Head(r.toGw)
<1>1. r.gs = "live" /\ r.toGw # <<>> /\ UNCHANGED <<home, loops, edits, faults>>
  BY DEF ApplyRoutes
<1>2. Fit(r) /\ r \in Session /\ r.toGw \in Seq(Message) /\ r.toHome \in Seq(Message)
  BY InvFacts DEF Fit, Session
<1>3. CASE ~Takes(s)
  <2>1. Lost(s)
    BY <1>3 DEF ApplyRoutes
  <2>2. r # NoSession
    BY <1>1, NoSessionFit
  <2> QED BY <1>1, <2>1, <2>2, LostInv
<1>4. CASE Takes(s)
  <2>1. PICK failed \in SUBSET ((m.table \cap Ports) \ gw.ports) :
          LET bound == (m.table \cap Ports) \ failed IN
          /\ gw' = [gw EXCEPT !.run = m.run, !.gen = m.gen, !.ports = bound,
                              !.table = (m.table \cap Names) \cup bound]
          /\ sess' = [sess EXCEPT ![s] =
               [Answered(sess[s], [type |-> "ack", gen |-> m.gen, errors |-> failed])
                  EXCEPT !.toGw = Tail(@)]]
          /\ UNCHANGED conns
    BY <1>4 DEF ApplyRoutes
  <2> DEFINE bound == (m.table \cap Ports) \ failed
             x == [type |-> "ack", gen |-> m.gen, errors |-> failed]
             t == Answered(r, x)
             n == [t EXCEPT !.toGw = Tail(t.toGw)]
  <2>2. m \in RoutesMessage /\ IsRoutes(m) /\ NotAfter(m, home)
    BY <1>1, TakenIsNewer
  <2>3. InOrder([toGw |-> Tail(r.toGw)], home) /\ Ahead([toGw |-> Tail(r.toGw)], m)
    BY <1>1, <2>2, RestInOrder
  <2>4. sess' = [sess EXCEPT ![s] = n]
    BY <2>1
  <2>5. /\ Tail(r.toGw) \in Seq(Message)
        /\ \A i \in 1..Len(Tail(r.toGw)) :
             Tail(r.toGw)[i] = r.toGw[i + 1] /\ i + 1 \in 1..Len(r.toGw)
    BY <1>1, <1>2, TailFacts
  <2> HIDE DEF m
  <2>6. m.run \in Nat /\ m.gen \in Nat /\ m.table \in Tables
    BY <2>2 DEF RoutesMessage
  <2>7. x \in AckMessage /\ x \in Message
    BY <2>6 DEF AckMessage, Message
  <2>8. gw' \in Gateway /\ gw'.session = s /\ gw'.run = m.run /\ gw'.gen = m.gen
    <3>1. gw \in Gateway /\ gw.session = s
      BY <1>4 DEF TunnelInv, TypeOK, Takes
    <3>2. bound \in SUBSET Ports /\ (m.table \cap Names) \cup bound \in SUBSET Things
      BY DEF Things
    <3> HIDE DEF bound
    <3>3. gw' = [gw EXCEPT !.run = m.run, !.gen = m.gen, !.ports = bound,
                           !.table = (m.table \cap Names) \cup bound]
      BY <2>1 DEF bound
    <3> QED BY <2>6, <3>1, <3>2, <3>3 DEF Gateway
  <2> HIDE DEF x, r
  <2>9. /\ Append(r.toHome, x) \in Seq(Message) /\ Len(r.toHome) \in Nat
        /\ \A i \in 1..Len(Append(r.toHome, x)) :
             \/ i \in 1..Len(r.toHome) /\ Append(r.toHome, x)[i] = r.toHome[i]
             \/ i = Len(r.toHome) + 1 /\ Append(r.toHome, x)[i] = x
        /\ Append(r.toHome, x) # <<>>
    BY <1>2, <2>7, AppendFacts
  <2>10. /\ t \in Session /\ t.toGw = r.toGw /\ t.hs = r.hs /\ t.gs = "live" /\ t.link = r.link
         /\ t.toHome \in {r.toHome, Append(r.toHome, x)}
    BY <1>1, <1>2, <2>9 DEF Answered, Session
  <2> HIDE DEF t
  <2>11. /\ n \in Session /\ n.hs = r.hs /\ n.gs = "live" /\ n.link = r.link
         /\ n.toHome = t.toHome /\ n.toGw = Tail(r.toGw)
    BY <2>5, <2>10 DEF Session
  <2> HIDE DEF n
  <2>12. r.hs \notin {"none", "control"}
    BY <1>1, <1>2, NoSessionFit DEF Fit, InStep
  <2>13. \A i \in 1..Len(n.toGw) : n.toGw[i] \in RoutesMessage
    BY <1>1, <1>2, <2>5, <2>11 DEF Fit, HelloFirst
  <2>14. r.hs = "hello" => r.toHome # <<>> /\ Len(r.toHome) # 0
    BY <1>2 DEF Fit, InStep
  <2>15. \A i \in 1..Len(n.toHome) :
           \/ i \in 1..Len(r.toHome) /\ n.toHome[i] = r.toHome[i]
           \/ i = Len(r.toHome) + 1 /\ n.toHome[i] = x
    <3>1. CASE n.toHome = r.toHome
      BY <3>1
    <3>2. CASE n.toHome = Append(r.toHome, x)
      BY <2>9, <3>2
    <3> QED BY <2>10, <2>11, <3>1, <3>2
  <2>16. HelloFirst(n)
    <3>1. r.hs = "hello" =>
            \A i \in 1..Len(n.toHome) : n.toHome[i] \in IF i = 1 THEN HelloMessage ELSE AckMessage
      BY <1>2, <2>7, <2>9, <2>14, <2>15 DEF Fit, HelloFirst
    <3>2. r.hs = "live" => \A i \in 1..Len(n.toHome) : n.toHome[i] \in AckMessage
      BY <1>2, <2>7, <2>15 DEF Fit, HelloFirst
    <3> QED BY <2>11, <2>12, <2>13, <3>1, <3>2 DEF HelloFirst
  <2>17. InStep(n)
    BY <2>9, <2>10, <2>11, <2>12, <2>14 DEF InStep
  <2>18. Fit(n)
    BY <2>11, <2>16, <2>17 DEF Fit
  <2>19. InOrder(n, home) /\ Ahead(n, gw')
    BY <2>3, <2>8, <2>11 DEF InOrder, Ahead, NotAfter
  <2>20. sess' \in [Sessions -> Session]
    BY <2>4, <2>11, InvFacts
  <2>21. TypeOK'
    BY <1>1, <2>1, <2>8, <2>20 DEF TunnelInv, TypeOK
  <2>22. sess'[s] = n /\ \A q \in Sessions : q # s => sess'[q] = sess[q]
    BY <2>4, InvFacts
  <2>23. \A q \in Sessions : Fit(sess'[q])
    BY <2>18, <2>22, InvFacts
  <2>24. NotAfter(gw', home)
    BY <2>2, <2>8 DEF NotAfter
  <2> QED BY SMTT(60), <1>1, <2>8, <2>19, <2>21, <2>22, <2>23, <2>24, QueuesInOrder
<1> QED BY <1>3, <1>4

\* A gateway that restarts has no session, and no generation.
LEMMA GatewayRestartsInv ==
  ASSUME TunnelInv, NEW ok \in Versions, GatewayRestarts(ok)
  PROVE  TunnelInv'
<1>1. /\ gw' = NoGateway(ok)
      /\ sess' = [s \in Sessions |-> IF sess[s] = NoSession THEN NoSession ELSE GwClosed(sess[s])]
      /\ conns' = [c \in Clients |-> IF conns[c].at \in AtGateway THEN NoConn ELSE conns[c]]
      /\ UNCHANGED <<home, loops, edits>> /\ faults' \in 0..MaxFaults
  BY Counted DEF GatewayRestarts, TunnelInv
<1>2. \A s \in Sessions : Fit(sess'[s]) /\ sess'[s].toGw \in {sess[s].toGw, <<>>}
  BY <1>1, InvFacts, NoSessionFit, GwClosedFit
<1>3. sess' \in [Sessions -> Session]
  BY <1>1, <1>2 DEF Fit
<1>4. conns' \in [Clients -> Conn]
  BY <1>1, InvFacts DEF NoConn, Conn
<1>5. gw' \in Gateway /\ gw'.session = None /\ gw'.run = 0 /\ gw'.gen = 0
  BY <1>1, TunnelAssumption DEF NoGateway, Gateway
<1>6. TypeOK'
  BY <1>1, <1>3, <1>4, <1>5 DEF TunnelInv, TypeOK
<1>7. NotAfter(gw', home)
  BY <1>5 DEF TunnelInv, TypeOK, Home, NotAfter
<1>8. \A s \in Sessions : s # gw'.session
  BY <1>5, TunnelAssumption
<1> QED BY <1>1, <1>2, <1>6, <1>7, <1>8, QueuesInOrder

-----------------------------------------------------------------------------
(* The theorems *)

\* There are no sessions to begin with.
LEMMA InitInv ==
  ASSUME Init
  PROVE  TunnelInv
<1>1. PICK def \in Defs, t \in Tables \cup {None} :
        LET want == Want(def, t)
            runs == want = "connecting"
        IN  /\ home = [ phase |-> "run", late |-> FALSE, run |-> 1, def |-> def, table |-> t,
                        tgen |-> IF t = None THEN 0 ELSE 1, gen |-> IF t = None THEN 0 ELSE 1,
                        loop |-> IF runs THEN 1 ELSE None, state |-> want,
                        acked |-> 0, errors |-> {} ]
            /\ loops = [l \in Loops |-> IF runs /\ l = 1 THEN [pc |-> "dial", sess |-> None] ELSE NoLoop]
  BY DEF Init
<1>2. /\ sess = [s \in Sessions |-> NoSession] /\ gw = NoGateway(TRUE)
      /\ conns = [c \in Clients |-> NoConn] /\ edits = 0 /\ faults = 0
  BY DEF Init
<1> DEFINE want == Want(def, t)
<1>3. def \in AllDefs /\ want \in States
  BY TunnelAssumption, WantState
<1> HIDE DEF want
<1>4. 1 \in Loops
  BY TunnelAssumption DEF Loops
<1>5. /\ home = [ phase |-> "run", late |-> FALSE, run |-> 1, def |-> def, table |-> t,
                  tgen |-> IF t = None THEN 0 ELSE 1, gen |-> IF t = None THEN 0 ELSE 1,
                  loop |-> IF want = "connecting" THEN 1 ELSE None, state |-> want,
                  acked |-> 0, errors |-> {} ]
      /\ loops = [l \in Loops |-> IF want = "connecting" /\ l = 1
                                  THEN [pc |-> "dial", sess |-> None] ELSE NoLoop]
  BY <1>1 DEF want
<1>6. home \in Home /\ home.run = 1 /\ home.gen \in Nat /\ home.tgen = home.gen
  BY <1>3, <1>4, <1>5 DEF Home
<1>7. loops \in [Loops -> Loop]
  BY <1>5 DEF Loop, NoLoop
<1>8. sess \in [Sessions -> Session] /\ conns \in [Clients -> Conn]
  BY <1>2, NoSessionFit DEF Fit, NoConn, Conn
<1>9. gw \in Gateway /\ gw.session = None /\ gw.run = 0 /\ gw.gen = 0
  BY <1>2 DEF NoGateway, Gateway
<1>10. TypeOK
  <2>1. edits \in 0..MaxEdits /\ faults \in 0..MaxFaults
    BY <1>2, TunnelAssumption
  <2> QED BY <1>6, <1>7, <1>8, <1>9, <2>1 DEF TypeOK
<1>11. \A s \in Sessions : Fit(sess[s]) /\ sess[s].toGw = <<>>
  BY <1>2, NoSessionFit
<1>12. \A s \in Sessions : InOrder(sess[s], home) /\ Ahead(sess[s], gw)
  BY <1>11 DEF InOrder, Ahead
<1>13. NotAfter(gw, home)
  BY <1>6, <1>9 DEF NotAfter
<1> QED BY <1>6, <1>10, <1>11, <1>12, <1>13 DEF TunnelInv

\* Each step keeps the invariant.
LEMMA StepInv ==
  ASSUME TunnelInv, [Next]_vars
  PROVE  TunnelInv'
<1>1. CASE UNCHANGED vars
  <2>1. \A s \in Sessions : Fit(sess'[s]) /\ sess'[s] = sess[s]
    BY <1>1, InvFacts DEF vars
  <2> QED BY <1>1, <2>1, InvFacts, SessionsKept DEF vars
<1>2. ASSUME NEW s \in Sessions, SessionStep(s) \/ Breaks(s)
      PROVE  TunnelInv'
  BY <1>2, GetControlInv, GetHelloInv, GetAckInv, WriteRoutesInv, EndsInv, AttachInv,
     EstablishInv, ApplyRoutesInv
     DEF SessionStep, HomeReads, Control
<1> QED BY <1>1, <1>2, ReloadInv, EngineInv, LoopSteps, GatewayRestartsInv, StreamsInv DEF Next

\* The invariant holds in every state.
LEMMA Invariant == Spec => []TunnelInv
<1>1. Init => TunnelInv
  BY InitInv
<1>2. TunnelInv /\ [Next]_vars => TunnelInv'
  BY StepInv
<1> QED BY <1>1, <1>2, PTL DEF Spec

\* Every variable stays of its type, whatever is dialed, replaced and lost.
THEOREM TypeCorrect == Spec => []TypeOK
<1>1. TunnelInv => TypeOK
  BY DEF TunnelInv
<1> QED BY <1>1, Invariant, PTL

\* A gateway takes its routes from the newest session only, whose pushes are in
\* the order of their generations, none older than what the gateway has: what
\* it serves is never replaced by something older, unless it restarts.
THEOREM RoutesStay == Spec => RoutesMoveForward
<1> DEFINE Forward == <<gw.run, gw.gen>>' # <<gw.run, gw.gen>> /\ gw'.run # 0
                        => gw'.run > gw.run \/ (gw'.run = gw.run /\ gw'.gen > gw.gen)
<1>1. ASSUME TunnelInv, [Next]_vars
      PROVE  [Forward]_vars
  <2>1. CASE UNCHANGED vars
    BY <2>1
  <2>2. gw \in Gateway
    BY <1>1 DEF TunnelInv, TypeOK
  <2>3. CASE gw'.run = gw.run /\ gw'.gen = gw.gen
    BY <2>3
  <2>4. ASSUME NEW s \in Sessions, SessionStep(s)
        PROVE  Forward
    <3>1. CASE Lost(s)
      <4>1. PICK a, b : gw' = [gw EXCEPT !.session = a, !.active = b]
        BY <3>1 DEF Lost
      <4> QED BY <2>2, <4>1 DEF Gateway
    <3>2. CASE UNCHANGED gw
      BY <3>2
    <3>3. CASE Attach(s)
      BY <2>2, <3>3 DEF Attach, Gateway
    <3>4. CASE Establish(s)
      <4>1. CASE gw' = [gw EXCEPT !.active = s]
        BY <2>2, <4>1 DEF Gateway
      <4> QED BY <3>1, <3>4, <4>1 DEF Establish
    <3>5. CASE ApplyRoutes(s)
      <4> DEFINE m == Head(sess[s].toGw)
      <4>1. CASE ~Takes(s)
        BY <3>1, <3>5, <4>1 DEF ApplyRoutes
      <4>2. CASE Takes(s)
        <5>1. PICK b, t : gw' = [gw EXCEPT !.run = m.run, !.gen = m.gen, !.ports = b, !.table = t]
          BY ZenonT(60), <3>5, <4>2 DEF ApplyRoutes
        <5>2. m \in RoutesMessage /\ NotAfter(gw, m)
          BY <1>1, <3>5, <4>2, TakenIsNewer DEF ApplyRoutes, Takes
        <5> HIDE DEF m
        <5>3. gw'.run = m.run /\ gw'.gen = m.gen
          BY <2>2, <5>1 DEF Gateway
        <5>4. m.run \in Nat /\ m.gen \in Nat /\ gw.run \in Nat /\ gw.gen \in Nat
          BY <2>2, <5>2 DEF RoutesMessage, Gateway
        <5> QED BY SMTT(60), <5>2, <5>3, <5>4 DEF NotAfter
      <4> QED BY <4>1, <4>2
    <3> QED BY <2>4, <3>1, <3>2, <3>3, <3>4, <3>5
            DEF SessionStep, HomeReads, Control, GetControl, GetHello, GetAck, WriteRoutes,
                ConnEnds, GatewayEnds
  <2>5. ASSUME NEW ok \in Versions, GatewayRestarts(ok)
        PROVE  Forward
    BY <2>5 DEF GatewayRestarts, NoGateway
  <2>6. CASE UNCHANGED gw
    BY SMTT(60), <2>6
  <2>7. UNCHANGED vars \/ UNCHANGED gw
          \/ (\E s \in Sessions : SessionStep(s)) \/ (\E ok \in Versions : GatewayRestarts(ok))
    BY <1>1 DEF Next, Reload, Shutdown, Drained, Exited, EngineStarts, EngineDies, LoopStep, Dial,
                DialDone, DialFails, Breaks, ConnStep, Accept, Open, Count, Handle, Finish
  <2> QED BY <2>1, <2>4, <2>5, <2>6, <2>7
<1> QED BY <1>1, Invariant, PTL DEF Spec, RoutesMoveForward

\* The engine counts a stream before it looks whether it is draining, so what
\* is being served when the drain ends was counted: nothing is cut off unless
\* the drain timeout passed.
THEOREM StreamsSpared == Spec => []DrainSparesStreams
<1>1. Init => DrainSparesStreams
  BY DEF Init, DrainSparesStreams
<1>2. ASSUME TunnelInv, DrainSparesStreams, [Next]_vars
      PROVE  DrainSparesStreams'
  <2> DEFINE Over == home.phase \in {"close", "off"} /\ ~home.late
             Spared == \A c \in Clients : conns'[c].at = "served" => conns[c].at = "served"
  <2>1. home \in Home /\ conns \in [Clients -> Conn] /\ NoConn.at # "served"
    BY <1>2 DEF TunnelInv, TypeOK, NoConn
  <2>2. ASSUME Over' => Over, Spared
        PROVE  DrainSparesStreams'
    BY <1>2, <2>2 DEF DrainSparesStreams
  <2>3. ASSUME NEW c \in Clients, ConnStep(c)
        PROVE  DrainSparesStreams'
    <3>1. UNCHANGED home /\ \A b \in Clients : b # c => conns'[b] = conns[b]
      BY <2>1, <2>3 DEF ConnStep, Accept, Open, Count, Handle, Finish
    <3>2. Over => conns'[c].at # "served"
      <4>1. Over => conns[c].at # "served" /\ Draining
        BY <1>2 DEF DrainSparesStreams, Draining
      <4>2. CASE Handle(c)
        BY <2>1, <4>1, <4>2 DEF Handle, Served
      <4>3. CASE Accept(c) \/ Count(c) \/ Finish(c)
        BY <2>1, <4>3 DEF Accept, Count, Finish, Conn
      <4>4. CASE Open(c)
        <5>1. conns'[c] \in {[conns[c] EXCEPT !.at = "opened"], NoConn}
          BY <2>1, <4>4 DEF Open
        <5> QED BY <2>1, <5>1 DEF Conn
      <4> QED BY <2>3, <4>2, <4>3, <4>4 DEF ConnStep
    <3> QED BY <1>2, <3>1, <3>2 DEF DrainSparesStreams
  <2>4. CASE Drained
    <3>1. home'.late = (InFlight # {}) /\ UNCHANGED conns
      BY <2>1, <2>4 DEF Drained, Home
    <3> QED BY <3>1 DEF DrainSparesStreams, InFlight
  <2>5. CASE EngineDies
    BY <2>1, <2>5 DEF EngineDies, AtHome, DrainSparesStreams
  <2>6. CASE Shutdown
    BY <2>1, <2>6 DEF Shutdown, Home, DrainSparesStreams
  <2>7. CASE Exited
    <3>1. home'.late = home.late /\ UNCHANGED conns /\ home.phase = "close"
      BY <2>1, <2>7 DEF Exited, Home
    <3> QED BY <2>2, <3>1
  <2>8. CASE EngineStarts
    <3> DEFINE f == Fresh(home)
               h == WithRoutes(f, home.def, home.table)
    <3>1. Known(f) /\ f.phase = "run"
      BY <2>1, FreshKnown
    <3>2. home.def \in AllDefs /\ home.table \in Tables \cup {None} /\ Started(h)
      BY <2>1, <2>8 DEF EngineStarts, Home
    <3> HIDE DEF f
    <3>3. Known(h) /\ h.phase = "run"
      BY <3>1, <3>2, WithRoutesKnown
    <3> HIDE DEF h
    <3>4. home'.phase = "run"
      BY <1>2, <3>2, <3>3, StartedKnown DEF TunnelInv
    <3> QED BY <3>4 DEF DrainSparesStreams
  <2>9. ASSUME NEW def \in Defs, NEW t \in Tables \cup {None}, NEW changed \in BOOLEAN,
               Reload(def, t, changed)
        PROVE  DrainSparesStreams'
    <3> DEFINE h == WithRoutes(home, def, t)
    <3>1. Known(h) /\ h.phase = "run"
      BY <1>2, <2>9, InvFacts, WithRoutesKnown, TunnelAssumption DEF Reload
    <3>2. home' = h \/ Started(h)
      BY <2>9 DEF Reload
    <3> HIDE DEF h
    <3>3. home'.phase = "run"
      BY <1>2, <3>1, <3>2, StartedKnown DEF TunnelInv
    <3> QED BY <3>3 DEF DrainSparesStreams
  <2>10. ASSUME NEW l \in Loops, LoopStep(l) \/ DialFails(l)
         PROVE  DrainSparesStreams'
    <3>1. UNCHANGED conns /\ \/ home' = home
                             \/ \E st : home' = [home EXCEPT !.state = st]
      BY <2>10 DEF LoopStep, Dial, DialDone, DialFails, GivenUp, Updated
    <3>2. home'.phase = home.phase /\ home'.late = home.late
      BY <2>1, <3>1 DEF Home
    <3> QED BY <2>2, <3>1, <3>2
  <2>11. ASSUME NEW s \in Sessions, SessionStep(s) \/ Breaks(s)
         PROVE  DrainSparesStreams'
    <3>1. Spared
      <4>1. ASSUME NEW places, conns' = Cut(s, places)
            PROVE  Spared
        <5>1. \A c \in Clients : conns'[c] = conns[c] \/ conns'[c] = NoConn
          BY ONLY <4>1 DEF Cut
        <5> QED BY <2>1, <5>1
      <4> DEFINE Cuts == \/ UNCHANGED conns
                         \/ conns' = Cut(s, AtHome)
                         \/ conns' = Cut(s, AtGateway)
      <4>2. HomeReads(s) \/ WriteRoutes(s) \/ ConnEnds(s) => Cuts
        BY ONLY DEF HomeReads, GetControl, GetHello, GetAck, WriteRoutes, ConnEnds, ConnOver
      <4>3. Attach(s) \/ Control(s) \/ GatewayEnds(s) \/ Breaks(s) => Cuts
        BY ONLY DEF Attach, Control, Establish, ApplyRoutes, GatewayEnds, Lost, Breaks
      <4>4. Cuts
        <5> HIDE DEF Cuts
        <5> QED BY ONLY SMTT(60), <2>11, <4>2, <4>3 DEF SessionStep
      <4> QED BY <4>1, <4>4
    <3> DEFINE Later == \/ home' = home
                        \/ \E st : home' = [home EXCEPT !.state = st]
                        \/ home' = Connected(home)
                        \/ \E k, e : home' = [home EXCEPT !.acked = k, !.errors = e]
    <3>2. HomeReads(s) \/ WriteRoutes(s) \/ ConnEnds(s) => Later
      BY ONLY ZenonT(60) DEF HomeReads, GetControl, GetHello, GetAck, WriteRoutes, ConnEnds, ConnOver, Updated
    <3>3. Attach(s) \/ Control(s) \/ GatewayEnds(s) \/ Breaks(s) => Later
      BY ONLY DEF Attach, Control, Establish, ApplyRoutes, GatewayEnds, Lost, Breaks
    <3>4. Later
      <4> HIDE DEF Later
      <4> QED BY ONLY <2>11, <3>2, <3>3 DEF SessionStep
    <3>5. home'.phase = home.phase /\ home'.late = home.late
      BY <2>1, <3>4 DEF Home, Connected
    <3> QED BY <2>2, <3>1, <3>5
  <2>12. ASSUME NEW ok \in Versions, GatewayRestarts(ok)
         PROVE  DrainSparesStreams'
    BY <2>1, <2>2, <2>12 DEF GatewayRestarts
  <2>13. CASE UNCHANGED vars
    BY <2>2, <2>13 DEF vars
  <2> QED BY <1>2, <2>3, <2>4, <2>5, <2>6, <2>7, <2>8, <2>9, <2>10, <2>11, <2>12, <2>13 DEF Next
<1> QED BY <1>1, <1>2, Invariant, PTL DEF Spec

-----------------------------------------------------------------------------
(* The status is of the loop there is *)

\* the home has the session in hand
Up(r) == r.hs \in {"control", "hello", "live"}

\* Each session the home has in hand is that of one loop, and each loop at a
\* connection has its own session.
Paired ==
    /\ \A s \in Sessions : Up(sess[s]) =>
         sess[s].loop \in Loops /\ loops[sess[s].loop] = [pc |-> "conn", sess |-> s]
    /\ \A l \in Loops :
         /\ loops[l].pc # "conn" => loops[l].sess = None
         /\ loops[l].pc = "conn" =>
              loops[l].sess \in Sessions /\ Up(sess[loops[l].sess]) /\ sess[loops[l].sess].loop = l

\* A shutdown leaves no loop behind.
LoopsEnd ==
    /\ home.phase \in {"close", "off"} => home.loop = None
    /\ home.phase = "off" => \A l \in Loops : loops[l] = NoLoop

StatusInv == Paired /\ LoopsEnd /\ StatusIsOwn

\* The session of the current loop, if it has one, is up and its own.
LEMMA CurrentPaired ==
  ASSUME TunnelInv, Paired, Current # None
  PROVE  /\ home.loop \in Loops /\ Current \in Sessions /\ Current = loops[home.loop].sess
         /\ Up(sess[Current]) /\ sess[Current].loop = home.loop
         /\ loops[home.loop].pc = "conn"
<1>1. home.loop \in Loops \cup {None}
  BY DEF TunnelInv, TypeOK, Home
<1>2. home.loop \in Loops /\ Current = loops[home.loop].sess
  BY <1>1 DEF Current
<1> QED BY <1>2 DEF Paired

\* Steps after which every loop has the session it had
LEMMA StatusKept ==
  ASSUME TunnelInv, StatusInv, UNCHANGED loops,
         home'.phase \in {home.phase, "drain"}, home'.loop = home.loop, home'.state = home.state,
         home.loop = None => home'.def = home.def /\ home'.table = home.table,
         \A s \in Sessions :
           /\ Up(sess'[s]) <=> Up(sess[s])
           /\ Up(sess[s]) => /\ sess'[s].loop = sess[s].loop
                             /\ sess'[s].hs = "live" <=> sess[s].hs = "live"
  PROVE  StatusInv'
<1>1. Paired'
  BY DEF StatusInv, Paired
<1>2. LoopsEnd'
  BY DEF StatusInv, LoopsEnd
<1>3. Current' = Current
  BY DEF Current
<1>4. Current # None => Current \in Sessions /\ Up(sess[Current])
  BY CurrentPaired DEF StatusInv
<1>5. ASSUME home'.phase = "run" PROVE StatusIsOwn'
  <2>1. home.phase = "run"
    BY <1>5
  <2>2. CASE home.loop = None
    BY <2>1, <2>2 DEF StatusInv, StatusIsOwn
  <2>3. CASE home.loop # None
    BY <2>1, <2>3, <1>3, <1>4 DEF StatusInv, StatusIsOwn
  <2> QED BY <2>2, <2>3
<1> QED BY <1>1, <1>2, <1>5 DEF StatusInv, StatusIsOwn

\* A gateway that gets a loop has no connection yet; one that gets none is said to be
\* without.
LEMMA StatusStarted ==
  ASSUME TunnelInv, Paired, NEW h, Known(h), h.phase = "run", Started(h), UNCHANGED sess
  PROVE  StatusInv'
<1> DEFINE want == Want(h.def, h.table)
<1>1. h \in Home /\ loops \in [Loops -> Loop]
  BY InvFacts DEF Known
<1>2. want \in States
  BY <1>1, WantState DEF Home
<1>3. CASE want # "connecting"
  <2>1. home' = [h EXCEPT !.loop = None, !.state = want] /\ UNCHANGED loops
    BY <1>3 DEF Started
  <2>2. /\ home'.loop = None /\ home'.state = want /\ home'.phase = "run"
        /\ home'.def = h.def /\ home'.table = h.table
    BY <1>1, <2>1 DEF Home
  <2>3. Paired'
    BY <2>1 DEF Paired
  <2> QED BY <2>2, <2>3 DEF StatusInv, LoopsEnd, StatusIsOwn
<1>4. CASE want = "connecting"
  <2>1. PICK l \in FreeLoops :
          /\ home' = [h EXCEPT !.loop = l, !.state = want]
          /\ loops' = [loops EXCEPT ![l] = [pc |-> "dial", sess |-> None]]
    BY <1>4 DEF Started
  <2>2. l \in Loops /\ loops[l] = NoLoop /\ l # None
    BY TunnelAssumption DEF FreeLoops
  <2>3. home'.loop = l /\ home'.state = "connecting" /\ home'.phase = "run"
    BY <1>1, <1>4, <2>1 DEF Home
  <2>4. loops'[l] = [pc |-> "dial", sess |-> None] /\ \A k \in Loops : k # l => loops'[k] = loops[k]
    BY <1>1, <2>1, <2>2
  <2>5. Paired'
    BY <2>2, <2>4 DEF Paired, NoLoop
  <2>6. Current' = None
    BY <2>2, <2>3, <2>4 DEF Current
  <2> QED BY <2>2, <2>3, <2>5, <2>6 DEF StatusInv, LoopsEnd, StatusIsOwn
<1> QED BY <1>3, <1>4

\* A loop that goes on to another step outside a connection leaves no session
\* behind, and what it reports is of the loop there is.
LEMMA StatusMoved ==
  ASSUME TunnelInv, StatusInv, NEW l \in Loops, NEW n, n.sess = None, n.pc # "conn",
         home.phase = "off" => n = NoLoop,
         loops' = [loops EXCEPT ![l] = n],
         NEW st \in States \ {"connected"},
         home' = home \/ (home.loop = l /\ home' = [home EXCEPT !.state = st]) \/ home.phase # "run",
         home' = home \/ home' = [home EXCEPT !.state = st],
         home' = home => home.loop # l \/ home.state # "connected" \/ home.phase # "run",
         \A s \in Sessions :
           /\ Up(sess[s]) /\ sess[s].loop # l =>
                Up(sess'[s]) /\ sess'[s].loop = sess[s].loop /\ sess'[s].hs = sess[s].hs
           /\ Up(sess'[s]) => Up(sess[s]) /\ sess[s].loop # l
  PROVE  StatusInv'
<1>0. home \in Home /\ loops \in [Loops -> Loop]
  BY InvFacts DEF Known
<1>1. /\ home'.phase = home.phase /\ home'.loop = home.loop /\ home'.def = home.def
      /\ home'.table = home.table /\ home'.state \in {home.state, st}
  BY <1>0 DEF Home
<1>2. loops'[l] = n /\ \A k \in Loops : k # l => loops'[k] = loops[k]
  BY <1>0
<1>3. Paired'
  BY <1>2 DEF StatusInv, Paired
<1>4. LoopsEnd'
  BY <1>1, <1>2 DEF StatusInv, LoopsEnd
<1>5. ASSUME home.phase = "run", home.loop = l PROVE StatusIsOwn'
  <2>1. Current' = None /\ l # None
    BY <1>1, <1>2, <1>5, TunnelAssumption DEF Current
  <2>2. home'.state # "connected"
    <3>1. CASE home' = home
      BY <1>5, <3>1
    <3>2. CASE home' # home
      BY <1>0, <3>2 DEF Home
    <3> QED BY <3>1, <3>2
  <2> QED BY <1>1, <1>5, <2>1, <2>2 DEF StatusIsOwn
<1>6. ASSUME home.phase = "run", home.loop # l PROVE StatusIsOwn'
  <2>1. home' = home
    BY <1>6
  <2>2. home.loop \in Loops \cup {None}
    BY <1>0 DEF Home
  <2>3. Current' = Current
    BY <1>2, <1>6, <2>1, <2>2 DEF Current
  <2>4. Current # None => Current \in Sessions /\ Up(sess[Current]) /\ sess[Current].loop # l
    BY <1>6, CurrentPaired DEF StatusInv
  <2>5. Current # None => sess'[Current].hs = sess[Current].hs
    BY <2>4
  <2>6. CASE home.loop = None
    BY <1>6, <2>1, <2>6 DEF StatusInv, StatusIsOwn
  <2>7. CASE home.loop # None
    BY <1>6, <2>1, <2>3, <2>5, <2>7 DEF StatusInv, StatusIsOwn
  <2> QED BY <2>6, <2>7
<1> QED BY <1>1, <1>3, <1>4, <1>5, <1>6 DEF StatusInv, StatusIsOwn

\* A dial is begun, done, or given up.
LEMMA StatusLoops ==
  ASSUME TunnelInv, StatusInv, NEW l \in Loops, LoopStep(l) \/ DialFails(l)
  PROVE  StatusInv'
<1>0. /\ home \in Home /\ loops \in [Loops -> Loop] /\ sess \in [Sessions -> Session]
      /\ NoLoop.pc = "none" /\ NoLoop.sess = None
      /\ home.state \in States
      /\ {"disconnected", "connecting", "incompatible"} \subseteq States \ {"connected"}
  BY InvFacts DEF Known, NoLoop, Home, States
<1>1. loops[l].pc \in {"dial", "dialing"}
  BY DEF LoopStep, Dial, DialDone, DialFails
<1>2. /\ \A s \in Sessions : Up(sess[s]) => sess[s].loop # l
      /\ loops[l].sess = None
      /\ home.phase # "off"
      /\ home.loop = l /\ home.phase = "run" => home.state # "connected"
  <2>1. ASSUME NEW s \in Sessions, Up(sess[s]) PROVE sess[s].loop # l
    <3>1. loops[sess[s].loop] = [pc |-> "conn", sess |-> s]
      BY <2>1 DEF StatusInv, Paired
    <3> QED BY <1>1, <3>1
  <2>2. loops[l].sess = None
    BY <1>1 DEF StatusInv, Paired
  <2>3. home.phase # "off"
    BY <1>0, <1>1 DEF StatusInv, LoopsEnd
  <2>4. home.loop = l /\ home.phase = "run" => home.state # "connected"
    BY <2>2, TunnelAssumption DEF StatusInv, StatusIsOwn, Current
  <2> QED BY <2>1, <2>2, <2>3, <2>4
<1>3. CASE Dial(l)
  <2>1. CASE Canceled(l) \/ Draining
    <3>1. loops' = [loops EXCEPT ![l] = NoLoop] /\ home' = home /\ sess' = sess
      BY <1>3, <2>1 DEF Dial, Ended
    <3>2. home.loop # l \/ home.phase # "run"
      BY <2>1 DEF Canceled, Draining
    <3> QED BY <1>0, <1>2, <3>1, <3>2, StatusMoved
  <2>2. CASE ~(Canceled(l) \/ Draining)
    <3> DEFINE n == [loops[l] EXCEPT !.pc = "dialing"]
               st == IF home.state = "incompatible" THEN home.state ELSE "connecting"
    <3>1. loops' = [loops EXCEPT ![l] = n] /\ home' = [home EXCEPT !.state = st] /\ sess' = sess
      BY <1>3, <2>2 DEF Dial
    <3>2. n.sess = None /\ n.pc # "conn"
      BY <1>0, <1>2 DEF Loop
    <3>3. st \in States \ {"connected"} /\ home.loop = l
      BY <1>0, <2>2 DEF Canceled
    <3> HIDE DEF n, st
    <3> QED BY ZenonT(60), <1>0, <1>2, <3>1, <3>2, <3>3, StatusMoved
  <2> QED BY <2>1, <2>2
<1>4. ASSUME Canceled(l) \/ Draining, GivenUp(l),
             \A s \in Sessions : Up(sess[s]) \/ Up(sess'[s]) => sess'[s] = sess[s]
      PROVE  StatusInv'
  <2>1. loops' = [loops EXCEPT ![l] = NoLoop]
    BY <1>4 DEF GivenUp, Ended
  <2>2. home' = IF home.loop # l THEN home ELSE [home EXCEPT !.state = "disconnected"]
    BY <1>4 DEF GivenUp, Updated, Canceled
  <2>3. home' = home \/ home' = [home EXCEPT !.state = "disconnected"]
    BY <2>2
  <2>4. home.loop = l => home.phase # "run"
    BY <1>4 DEF Canceled, Draining
  <2>5. \A s \in Sessions : Up(sess'[s]) => Up(sess[s]) /\ sess[s].loop # l
    BY <1>2, <1>4
  <2> QED BY <1>0, <1>2, <1>4, <2>1, <2>2, <2>3, <2>4, <2>5, StatusMoved
<1>5. CASE DialDone(l)
  <2>1. CASE Canceled(l) \/ Draining
    <3>1. PICK s \in FreeSessions : sess' = [sess EXCEPT ![s].hs = "gone"] /\ GivenUp(l)
      BY <1>5, <2>1 DEF DialDone
    <3>2. s \in Sessions /\ sess[s] = NoSession
      BY DEF FreeSessions
    <3>3. ~Up(sess[s]) /\ ~Up(sess'[s]) /\ \A q \in Sessions : q # s => sess'[q] = sess[q]
      BY <1>0, <3>1, <3>2, NoSessionFit DEF Up, Session
    <3> QED BY <1>4, <2>1, <3>1, <3>3
  <2>2. CASE ~(Canceled(l) \/ Draining)
    <3> DEFINE b == [NoSession EXCEPT !.hs = "control", !.loop = l, !.link = TRUE]
    <3>1. PICK s \in FreeSessions :
            /\ sess' = [sess EXCEPT ![s] = b]
            /\ loops' = [loops EXCEPT ![l] = [pc |-> "conn", sess |-> s]]
            /\ UNCHANGED home
      BY <1>5, <2>2 DEF DialDone
    <3>2. s \in Sessions /\ sess[s] = NoSession /\ ~Up(sess[s])
      BY NoSessionFit DEF FreeSessions, Up
    <3>3. b.hs = "control" /\ b.loop = l
      BY NoSessionFit DEF Fit, Session
    <3> HIDE DEF b
    <3>4. sess'[s] = b /\ \A q \in Sessions : q # s => sess'[q] = sess[q]
      BY <1>0, <3>1, <3>2
    <3>5. loops'[l] = [pc |-> "conn", sess |-> s] /\ \A k \in Loops : k # l => loops'[k] = loops[k]
      BY <1>0, <3>1
    <3>6. Paired'
      <4>1. ASSUME NEW q \in Sessions, Up(sess'[q])
            PROVE  sess'[q].loop \in Loops /\ loops'[sess'[q].loop] = [pc |-> "conn", sess |-> q]
        <5>1. CASE q = s
          BY <5>1, <3>3, <3>4, <3>5
        <5>2. CASE q # s
          BY <4>1, <5>2, <1>2, <3>4, <3>5 DEF StatusInv, Paired
        <5> QED BY <5>1, <5>2
      <4>2. ASSUME NEW k \in Loops
            PROVE  /\ loops'[k].pc # "conn" => loops'[k].sess = None
                   /\ loops'[k].pc = "conn" => /\ loops'[k].sess \in Sessions
                                               /\ Up(sess'[loops'[k].sess]) /\ sess'[loops'[k].sess].loop = k
        <5>1. CASE k = l
          BY <5>1, <3>2, <3>3, <3>4, <3>5 DEF Up
        <5>2. CASE k # l
          <6>1. loops'[k] = loops[k] /\ (loops[k].pc = "conn" => loops[k].sess # s)
            BY <5>2, <3>2, <3>5 DEF StatusInv, Paired
          <6> QED BY <6>1, <3>4 DEF StatusInv, Paired
        <5> QED BY <5>1, <5>2
      <4> QED BY <4>1, <4>2 DEF Paired
    <3>7. home.loop = l /\ home.phase = "run" /\ l # None
      BY <2>2, TunnelAssumption DEF Canceled, Draining
    <3>8. Current' = s
      BY <3>1, <3>5, <3>7 DEF Current
    <3>9. StatusIsOwn'
      BY <1>2, <3>1, <3>2, <3>3, <3>4, <3>7, <3>8, TunnelAssumption DEF StatusIsOwn
    <3> QED BY <3>1, <3>6, <3>7, <3>9 DEF StatusInv, LoopsEnd
  <2> QED BY <2>1, <2>2
<1>6. CASE DialFails(l)
  <2>1. CASE Canceled(l) \/ Draining
    <3>1. GivenUp(l) /\ sess' = sess
      BY <1>6, <2>1 DEF DialFails
    <3> QED BY <1>4, <2>1, <3>1
  <2>2. CASE ~(Canceled(l) \/ Draining)
    <3> DEFINE n == [loops[l] EXCEPT !.pc = "dial"]
    <3>1. loops' = [loops EXCEPT ![l] = n] /\ home' = [home EXCEPT !.state = "disconnected"] /\ sess' = sess
      BY <1>6, <2>2 DEF DialFails
    <3>2. n.sess = None /\ n.pc # "conn" /\ home.loop = l
      BY <1>0, <1>2, <2>2 DEF Loop, Canceled
    <3> HIDE DEF n
    <3> QED BY <1>0, <1>2, <3>1, <3>2, StatusMoved
  <2> QED BY <2>1, <2>2
<1> QED BY <1>3, <1>5, <1>6 DEF LoopStep

\* The home lets go of the sessions it closes, the gateway of none of the home's.
LEMMA ClosedUp ==
  ASSUME NEW r, Fit(r)
  PROVE  /\ ~Up(HomeClosed(r))
         /\ Up(GwClosed(r)) <=> Up(r)
         /\ Up(r) => GwClosed(r).hs = r.hs /\ GwClosed(r).loop = r.loop
<1>0. ~Up(NoSession)
  BY NoSessionFit DEF Up
<1>1. ~Up(HomeClosed(r))
  <2>1. CASE r.hs = "none"
    BY <2>1 DEF HomeClosed, Up
  <2>2. CASE r.hs # "none"
    <3> DEFINE c == [r EXCEPT !.hs = "gone", !.link = FALSE]
    <3>1. HomeClosed(r) \in {c, NoSession}
      BY <2>2 DEF HomeClosed, Tidied
    <3>2. c.hs = "gone"
      BY DEF Fit, Session
    <3> HIDE DEF c
    <3> QED BY <1>0, <3>1, <3>2 DEF Up
  <2> QED BY <2>1, <2>2
<1>2. (Up(GwClosed(r)) <=> Up(r)) /\ (Up(r) => GwClosed(r).hs = r.hs /\ GwClosed(r).loop = r.loop)
  <2> DEFINE c == [r EXCEPT !.gs = "gone", !.link = FALSE]
  <2>1. GwClosed(r) = IF c.hs = "gone" /\ c.gs = "gone" THEN NoSession ELSE c
    BY DEF GwClosed, Tidied
  <2>2. c.hs = r.hs /\ c.loop = r.loop
    BY DEF Fit, Session
  <2> HIDE DEF c
  <2> QED BY <1>0, <2>1, <2>2 DEF Up
<1> QED BY <1>1, <1>2

\* A connection ends, and its loop with it or goes on to dial.
LEMMA StatusConnOver ==
  ASSUME TunnelInv, StatusInv, NEW s \in Sessions, Up(sess[s]),
         NEW st \in States \ {"connected"}, ConnOver(s, st)
  PROVE  StatusInv'
<1> DEFINE l == sess[s].loop
           n == IF Canceled(l) THEN NoLoop ELSE [pc |-> "dial", sess |-> None]
<1>1. l \in Loops /\ loops[l].pc = "conn" /\ loops[l].sess = s
  <2>1. l \in Loops /\ loops[l] = [pc |-> "conn", sess |-> s]
    BY DEF StatusInv, Paired
  <2> QED BY <2>1
<1>2. loops' = [loops EXCEPT ![l] = n] /\ n.sess = None /\ n.pc # "conn"
  BY DEF ConnOver, Ended, NoLoop
<1>3. home.phase # "off"
  BY <1>1 DEF StatusInv, LoopsEnd, NoLoop
<1>4. home' = IF Canceled(l) THEN home ELSE [home EXCEPT !.state = st]
  BY DEF ConnOver, Updated
<1>5. home \in Home /\ sess \in [Sessions -> Session] /\ \A q \in Sessions : Fit(sess[q])
  BY InvFacts DEF Known
<1>6. home' = home => home.loop # l \/ home.state # "connected"
  BY <1>4, <1>5 DEF Canceled, Home
<1>7. ~Up(sess'[s]) /\ \A q \in Sessions : q # s => sess'[q] = sess[q]
  BY <1>5, ClosedUp DEF ConnOver
<1>8. \A q \in Sessions : Up(sess[q]) /\ q # s => sess[q].loop # l
  <2> SUFFICES ASSUME NEW q \in Sessions, Up(sess[q]), q # s PROVE sess[q].loop # l
    OBVIOUS
  <2>1. loops[sess[q].loop] = [pc |-> "conn", sess |-> q]
    BY DEF StatusInv, Paired
  <2> QED BY <1>1, <2>1
<1>9. \A q \in Sessions :
        /\ Up(sess[q]) /\ sess[q].loop # l =>
             Up(sess'[q]) /\ sess'[q].loop = sess[q].loop /\ sess'[q].hs = sess[q].hs
        /\ Up(sess'[q]) => Up(sess[q]) /\ sess[q].loop # l
  BY <1>7, <1>8
<1>10. home' = home \/ (home.loop = l /\ home' = [home EXCEPT !.state = st])
  BY <1>4 DEF Canceled
<1> HIDE DEF l, n
<1> QED BY <1>1, <1>2, <1>3, <1>6, <1>9, <1>10, StatusMoved

\* A hello ends the connection, or makes it the one that is up.
LEMMA StatusGetHello ==
  ASSUME TunnelInv, StatusInv, NEW s \in Sessions, GetHello(s)
  PROVE  StatusInv'
<1>1. Up(sess[s]) /\ sess[s].hs = "hello"
  BY DEF GetHello, Up
<1>2. "disconnected" \in States \ {"connected"} /\ "incompatible" \in States \ {"connected"}
  BY DEF States
<1>3. CASE ConnOver(s, "disconnected") \/ ConnOver(s, "incompatible")
  BY <1>1, <1>2, <1>3, StatusConnOver
<1>4. CASE ~(ConnOver(s, "disconnected") \/ ConnOver(s, "incompatible"))
  <2> DEFINE q == Tail(sess[s].toHome)
             n == [sess[s] EXCEPT !.hs = "live", !.kick = TRUE, !.toHome = q]
             l == sess[s].loop
  <2>1. sess' = [sess EXCEPT ![s] = n] /\ home' = Connected(home) /\ UNCHANGED loops /\ home.loop = l
    BY <1>4 DEF GetHello, Canceled
  <2>2. n.hs = "live" /\ n.loop = l
    BY InvFacts DEF Session
  <2> HIDE DEF n
  <2>3. /\ home'.state = "connected" /\ home'.loop = home.loop /\ home'.phase = home.phase
    BY <2>1, InvFacts DEF Connected, Known, Home
  <2>4. sess'[s] = n /\ \A p \in Sessions : p # s => sess'[p] = sess[p]
    BY <2>1, InvFacts
  <2>5. l \in Loops /\ loops[l] = [pc |-> "conn", sess |-> s] /\ l # None
    BY <1>1, TunnelAssumption DEF StatusInv, Paired
  <2>6. \A p \in Sessions : (Up(sess'[p]) <=> Up(sess[p])) /\ (Up(sess[p]) => sess'[p].loop = sess[p].loop)
    BY <1>1, <2>2, <2>4 DEF Up
  <2>7. Paired'
    BY <2>1, <2>6 DEF StatusInv, Paired
  <2>8. Current' = s /\ s # None
    BY <2>1, <2>3, <2>5, TunnelAssumption DEF Current
  <2> QED BY <2>1, <2>2, <2>3, <2>4, <2>5, <2>7, <2>8 DEF StatusInv, LoopsEnd, StatusIsOwn
<1> QED BY <1>3, <1>4

\* A process that ends has no session in hand, one that starts none yet.
LEMMA StatusEngine ==
  ASSUME TunnelInv, StatusInv, EngineStarts \/ EngineDies \/ Shutdown \/ Drained \/ Exited
  PROVE  StatusInv'
<1>0. home \in Home /\ \A s \in Sessions : Fit(sess[s])
  BY InvFacts DEF Known
<1>1. CASE EngineStarts
  <2> DEFINE f == Fresh(home)
             h == WithRoutes(f, home.def, home.table)
  <2>1. Known(f) /\ f.phase = "run"
    BY <1>0, FreshKnown
  <2>2. home.def \in AllDefs /\ home.table \in Tables \cup {None} /\ Started(h) /\ UNCHANGED sess
    BY <1>0, <1>1 DEF EngineStarts, Home
  <2> HIDE DEF f
  <2>3. Known(h) /\ h.phase = "run"
    BY <2>1, <2>2, WithRoutesKnown
  <2> HIDE DEF h
  <2> QED BY <2>2, <2>3, StatusStarted DEF StatusInv
<1>2. CASE EngineDies
  <2>1. home'.phase = "off" /\ home'.loop = None /\ loops' = [l \in Loops |-> NoLoop]
    BY <1>0, <1>2 DEF EngineDies, Home
  <2>2. \A s \in Sessions : ~Up(sess'[s])
    BY <1>0, <1>2, ClosedUp DEF EngineDies
  <2> QED BY <2>1, <2>2 DEF StatusInv, Paired, LoopsEnd, StatusIsOwn, NoLoop
<1>3. CASE Shutdown
  <2>1. /\ home'.phase = "drain" /\ home'.loop = home.loop /\ home'.state = home.state
        /\ home'.def = home.def /\ home'.table = home.table /\ UNCHANGED <<loops, sess>>
    BY <1>0, <1>3 DEF Shutdown, Home
  <2> QED BY <2>1, StatusKept
<1>4. CASE Drained
  <2>1. home'.phase = "close" /\ home'.loop = None /\ UNCHANGED <<loops, sess>>
    BY <1>0, <1>4 DEF Drained, Home
  <2>2. Paired'
    BY <2>1 DEF StatusInv, Paired
  <2> QED BY <2>1, <2>2 DEF StatusInv, LoopsEnd, StatusIsOwn
<1>5. CASE Exited
  <2>1. /\ home'.phase = "off" /\ home'.loop = home.loop /\ home.phase = "close"
        /\ UNCHANGED <<loops, sess>> /\ \A l \in Loops : loops[l] = NoLoop
    BY <1>0, <1>5 DEF Exited, Home
  <2>2. Paired'
    BY <2>1 DEF StatusInv, Paired
  <2> QED BY <2>1, <2>2 DEF StatusInv, LoopsEnd, StatusIsOwn
<1> QED BY <1>1, <1>2, <1>3, <1>4, <1>5

\* A reload starts a loop, stops one, or leaves it its connection.
LEMMA StatusReload ==
  ASSUME TunnelInv, StatusInv, NEW def \in Defs, NEW t \in Tables \cup {None}, NEW changed \in BOOLEAN,
         Reload(def, t, changed)
  PROVE  StatusInv'
<1> DEFINE h    == WithRoutes(home, def, t)
           kept == Want(def, t) = "connecting" /\ home.loop # None /\ ~changed
<1>1. Known(h) /\ h.phase = "run" /\ home.phase = "run"
  BY InvFacts, WithRoutesKnown, TunnelAssumption DEF Reload
<1>2. CASE ~kept
  <2>1. Started(h) /\ UNCHANGED sess
    BY <1>2 DEF Reload
  <2> HIDE DEF h
  <2> QED BY <1>1, <2>1, StatusStarted DEF StatusInv
<1>3. CASE kept
  <2>1. home' = h /\ UNCHANGED loops
    BY <1>3 DEF Reload
  <2>2. h.loop = home.loop /\ h.state = home.state
    BY InvFacts DEF WithRoutes, Known, Home
  <2>3. sess' = sess \/ \E s : sess' = [sess EXCEPT ![s].kick = TRUE]
    BY <1>3 DEF Reload
  <2>4. \A q \in Sessions : sess'[q].hs = sess[q].hs /\ sess'[q].loop = sess[q].loop
    <3>1. CASE sess' = sess
      BY <3>1
    <3>2. ASSUME NEW s, sess' = [sess EXCEPT ![s].kick = TRUE]
          PROVE  \A q \in Sessions : sess'[q].hs = sess[q].hs /\ sess'[q].loop = sess[q].loop
      BY <3>2, InvFacts DEF Session
    <3> QED BY <2>3, <3>1, <3>2
  <2> HIDE DEF h
  <2>5. home'.phase = home.phase /\ home'.loop = home.loop /\ home'.state = home.state /\ home.loop # None
    BY <1>1, <1>3, <2>1, <2>2
  <2> QED BY <2>1, <2>4, <2>5, StatusKept DEF Up
<1> QED BY <1>2, <1>3

\* What a session is sent changes neither side's progress.
LEMMA QueuedFields ==
  ASSUME NEW r \in Session, NEW m
  PROVE  /\ Told(r, m).hs = r.hs /\ Told(r, m).loop = r.loop
         /\ Answered(r, m).hs = r.hs /\ Answered(r, m).loop = r.loop
         /\ Superseded(r).hs = r.hs /\ Superseded(r).loop = r.loop
BY DEF Told, Answered, Superseded, Session

\* The home reads and writes while its connection is up.
LEMMA StatusHomeSteps ==
  ASSUME TunnelInv, StatusInv, NEW s \in Sessions, GetControl(s) \/ WriteRoutes(s) \/ GetAck(s)
  PROVE  StatusInv'
<1>0. home \in Home /\ sess \in [Sessions -> Session]
  BY InvFacts DEF Known
<1>1. CASE GetControl(s)
  <2> DEFINE t == Told(sess[s], Hello(TRUE))
             n == [t EXCEPT !.hs = "hello"]
  <2>1. sess' = [sess EXCEPT ![s] = n] /\ UNCHANGED <<home, loops>> /\ sess[s].hs = "control"
    BY <1>1 DEF GetControl
  <2>2. n.hs = "hello" /\ n.loop = sess[s].loop
    BY <1>0 DEF Told, Session
  <2> HIDE DEF n
  <2>3. \A q \in Sessions :
          /\ Up(sess'[q]) <=> Up(sess[q])
          /\ Up(sess[q]) => sess'[q].loop = sess[q].loop /\ (sess'[q].hs = "live" <=> sess[q].hs = "live")
    BY <1>0, <2>1, <2>2 DEF Up
  <2> QED BY <2>1, <2>3, StatusKept
<1>2. CASE WriteRoutes(s)
  <2> DEFINE m == [type |-> "routes", run |-> home.run, gen |-> home.tgen, table |-> home.table]
             t == Told(sess[s], m)
             n == IF home.table = None THEN [sess[s] EXCEPT !.kick = FALSE]
                  ELSE [t EXCEPT !.kick = FALSE, !.sent = home.tgen]
  <2>1. sess' = [sess EXCEPT ![s] = n] /\ UNCHANGED <<home, loops>>
    BY <1>0, <1>2 DEF WriteRoutes
  <2>2. n.hs = sess[s].hs /\ n.loop = sess[s].loop
    BY <1>0 DEF Told, Session
  <2> HIDE DEF n
  <2>3. \A q \in Sessions : sess'[q].hs = sess[q].hs /\ sess'[q].loop = sess[q].loop
    BY <1>0, <2>1, <2>2
  <2> QED BY <2>1, <2>3, StatusKept DEF Up
<1>3. CASE GetAck(s)
  <2> DEFINE q == Tail(sess[s].toHome)
             n == [sess[s] EXCEPT !.toHome = q]
  <2>1. sess' = [sess EXCEPT ![s] = n] /\ UNCHANGED loops
    BY <1>3 DEF GetAck
  <2>2. n.hs = sess[s].hs /\ n.loop = sess[s].loop
    BY <1>0 DEF Session
  <2> HIDE DEF n
  <2>3. \A p \in Sessions : sess'[p].hs = sess[p].hs /\ sess'[p].loop = sess[p].loop
    BY <1>0, <2>1, <2>2
  <2>4. home' = home \/ \E k, e : home' = [home EXCEPT !.acked = k, !.errors = e]
    BY <1>3 DEF GetAck, Updated
  <2>5. /\ home'.phase = home.phase /\ home'.loop = home.loop /\ home'.state = home.state
        /\ home'.def = home.def /\ home'.table = home.table
    BY <1>0, <2>4 DEF Home
  <2> QED BY <2>1, <2>3, <2>5, StatusKept DEF Up
<1> QED BY <1>1, <1>2, <1>3

\* What the gateway and the network do is the home's to find out.
LEMMA StatusGatewaySteps ==
  ASSUME TunnelInv, StatusInv, UNCHANGED <<home, loops>>,
         \/ \E s \in Sessions : Attach(s) \/ Establish(s) \/ ApplyRoutes(s) \/ GatewayEnds(s) \/ Breaks(s)
         \/ \E ok \in Versions : GatewayRestarts(ok)
  PROVE  StatusInv'
<1> DEFINE Same(r, n) == /\ Up(n) <=> Up(r)
                         /\ Up(r) => n.loop = r.loop /\ (n.hs = "live" <=> r.hs = "live")
<1>0. sess \in [Sessions -> Session] /\ \A s \in Sessions : Fit(sess[s])
  BY InvFacts
<1>1. ASSUME NEW s \in Sessions, NEW n, sess' = [sess EXCEPT ![s] = n], Same(sess[s], n)
      PROVE  \A q \in Sessions : Same(sess[q], sess'[q])
  BY <1>0, <1>1
<1>2. ASSUME NEW s \in Sessions, Lost(s)
      PROVE  \A q \in Sessions : Same(sess[q], sess'[q])
  <2>1. sess' = [sess EXCEPT ![s] = GwClosed(sess[s])]
    BY <1>2 DEF Lost
  <2>2. Same(sess[s], GwClosed(sess[s]))
    BY <1>0, ClosedUp
  <2> HIDE DEF Same
  <2> QED BY <1>1, <2>1, <2>2
<1>3. ASSUME NEW s \in Sessions, Attach(s)
      PROVE  \A q \in Sessions : Same(sess[q], sess'[q])
  <2> DEFINE a == Answered(sess[s], Hello(gw.compatible))
             n == [a EXCEPT !.gs = "hello"]
  <2>1. n.hs = sess[s].hs /\ n.loop = sess[s].loop
    BY <1>0 DEF Answered, Session
  <2>2. sess' = [q \in Sessions |-> IF q = s THEN n
                                    ELSE IF q = gw.session THEN Superseded(sess[q]) ELSE sess[q]]
    BY <1>3 DEF Attach
  <2> HIDE DEF n
  <2>3. \A q \in Sessions : sess'[q].hs = sess[q].hs /\ sess'[q].loop = sess[q].loop
    BY <1>0, <2>1, <2>2, QueuedFields
  <2> QED BY <2>3 DEF Up
<1>4. ASSUME NEW s \in Sessions, Establish(s)
      PROVE  \A q \in Sessions : Same(sess[q], sess'[q])
  <2>1. CASE Lost(s)
    BY <1>2, <2>1
  <2>2. CASE ~Lost(s)
    <3> DEFINE t == Tail(sess[s].toGw)
               n == [sess[s] EXCEPT !.gs = "live", !.toGw = t]
    <3>0. sess \in [Sessions -> Session]
      BY <1>0
    <3>1. sess' = [sess EXCEPT ![s] = n]
      BY ONLY ZenonT(60), <3>0, <1>4, <2>2 DEF Establish
    <3>2. n.hs = sess[s].hs /\ n.loop = sess[s].loop
      BY ONLY <3>0 DEF Session
    <3> HIDE DEF n
    <3>3. \A q \in Sessions : sess'[q].hs = sess[q].hs /\ sess'[q].loop = sess[q].loop
      BY <1>0, <3>1, <3>2
    <3> QED BY <3>3 DEF Up
  <2> QED BY <2>1, <2>2
<1>5. ASSUME NEW s \in Sessions, ApplyRoutes(s)
      PROVE  \A q \in Sessions : Same(sess[q], sess'[q])
  <2>1. CASE Lost(s)
    BY <1>2, <2>1
  <2>2. CASE ~Lost(s)
    <3> DEFINE w == Head(sess[s].toGw)
    <3>0. Takes(s)
      BY <1>5, <2>2 DEF ApplyRoutes
    <3>1. PICK failed \in SUBSET ((w.table \cap Ports) \ gw.ports) :
            sess' = [sess EXCEPT ![s] =
              [Answered(sess[s], [type |-> "ack", gen |-> w.gen, errors |-> failed])
                 EXCEPT !.toGw = Tail(@)]]
      BY <1>5, <3>0 DEF ApplyRoutes
    <3> DEFINE m == [type |-> "ack", gen |-> w.gen, errors |-> failed]
               a == Answered(sess[s], m)
               n == [a EXCEPT !.toGw = Tail(a.toGw)]
    <3>2. n.hs = sess[s].hs /\ n.loop = sess[s].loop
      BY <1>0 DEF Answered, Session
    <3>4. sess' = [sess EXCEPT ![s] = n]
      BY <3>1
    <3> HIDE DEF n
    <3>3. \A q \in Sessions : sess'[q].hs = sess[q].hs /\ sess'[q].loop = sess[q].loop
      BY <1>0, <3>2, <3>4
    <3> QED BY <3>3 DEF Up
  <2> QED BY <2>1, <2>2
<1>6. ASSUME NEW s \in Sessions, Breaks(s)
      PROVE  \A q \in Sessions : Same(sess[q], sess'[q])
  <2>1. \A q \in Sessions : sess'[q].hs = sess[q].hs /\ sess'[q].loop = sess[q].loop
    BY <1>0, <1>6 DEF Breaks, Session
  <2> QED BY <2>1 DEF Up
<1>7. ASSUME NEW ok \in Versions, GatewayRestarts(ok)
      PROVE  \A q \in Sessions : Same(sess[q], sess'[q])
  <2> SUFFICES ASSUME NEW q \in Sessions PROVE Same(sess[q], sess'[q])
    OBVIOUS
  <2>1. sess'[q] = IF sess[q] = NoSession THEN sess[q] ELSE GwClosed(sess[q])
    BY <1>7 DEF GatewayRestarts
  <2>2. Same(sess[q], sess[q]) /\ Same(sess[q], GwClosed(sess[q]))
    BY <1>0, ClosedUp
  <2> QED BY <2>1, <2>2
<1>8. \A q \in Sessions : Same(sess[q], sess'[q])
  <2>1. ASSUME NEW s \in Sessions, GatewayEnds(s)
        PROVE  \A q \in Sessions : Same(sess[q], sess'[q])
    BY <1>2, <2>1 DEF GatewayEnds
  <2> HIDE DEF Same
  <2> QED BY <1>3, <1>4, <1>5, <1>6, <1>7, <2>1
<1> QED BY <1>8, StatusKept

\* The engine has been started with a loop, or needs none.
LEMMA StatusInit == Init => StatusInv
<1> SUFFICES ASSUME Init PROVE StatusInv
  OBVIOUS
<1>1. PICK def \in Defs, t \in Tables \cup {None} :
        LET want == Want(def, t)
            runs == want = "connecting"
        IN  /\ home = [ phase |-> "run", late |-> FALSE, run |-> 1, def |-> def, table |-> t,
                        tgen |-> IF t = None THEN 0 ELSE 1, gen |-> IF t = None THEN 0 ELSE 1,
                        loop |-> IF runs THEN 1 ELSE None, state |-> want,
                        acked |-> 0, errors |-> {} ]
            /\ loops = [l \in Loops |-> IF runs /\ l = 1 THEN [pc |-> "dial", sess |-> None] ELSE NoLoop]
  BY DEF Init
<1>2. \A s \in Sessions : ~Up(sess[s])
  BY NoSessionFit DEF Init, Up
<1>3. \A l \in Loops : loops[l].pc # "conn" /\ loops[l].sess = None
  BY <1>1 DEF NoLoop
<1>4. home.phase = "run" /\ home.def = def /\ home.table = t /\ home.state = Want(def, t)
      /\ home.loop = IF Want(def, t) = "connecting" THEN 1 ELSE None
  BY <1>1
<1>5. 1 \in Loops /\ None \notin Loops
  BY TunnelAssumption DEF Loops
<1>6. StatusIsOwn
  <2>1. home.loop # None => Current = None /\ home.state # "connected"
    BY <1>3, <1>4, <1>5 DEF Current
  <2> QED BY <1>4, <1>5, <2>1 DEF StatusIsOwn
<1> QED BY <1>2, <1>3, <1>4, <1>6 DEF StatusInv, Paired, LoopsEnd

\* Each step keeps the status of the loop there is.
LEMMA StatusNext ==
  ASSUME TunnelInv, StatusInv, [Next]_vars
  PROVE  StatusInv'
<1>1. CASE UNCHANGED vars
  BY <1>1, StatusKept DEF vars
<1>2. ASSUME NEW s \in Sessions, SessionStep(s) \/ Breaks(s)
      PROVE  StatusInv'
  <2>1. CASE ConnEnds(s)
    <3>1. "disconnected" \in States \ {"connected"} /\ Up(sess[s]) /\ ConnOver(s, "disconnected")
      BY <2>1 DEF ConnEnds, Up, States
    <3> QED BY <3>1, StatusConnOver
  <2>2. CASE Attach(s) \/ Establish(s) \/ ApplyRoutes(s) \/ GatewayEnds(s) \/ Breaks(s)
    <3>1. UNCHANGED <<home, loops>>
      BY <2>2 DEF Attach, Establish, ApplyRoutes, GatewayEnds, Breaks, Lost
    <3>2. \E q \in Sessions : Attach(q) \/ Establish(q) \/ ApplyRoutes(q) \/ GatewayEnds(q) \/ Breaks(q)
      BY ONLY <2>2, <1>2
    <3> HIDE DEF StatusInv
    <3> QED BY SMTT(60), <3>1, <3>2, StatusGatewaySteps
  <2> QED BY <1>2, <2>1, <2>2, StatusHomeSteps, StatusGetHello DEF SessionStep, HomeReads, Control
<1>3. ASSUME NEW ok \in Versions, GatewayRestarts(ok)
      PROVE  StatusInv'
  BY <1>3, StatusGatewaySteps DEF GatewayRestarts
<1>4. ASSUME NEW c \in Clients, ConnStep(c)
      PROVE  StatusInv'
  <2>1. UNCHANGED <<home, loops, sess>>
    BY <1>4 DEF ConnStep, Accept, Open, Count, Handle, Finish
  <2> QED BY <2>1, StatusKept
<1> QED BY <1>1, <1>2, <1>3, <1>4, StatusReload, StatusEngine, StatusLoops DEF Next

\* Spec => []StatusIsOwn: whatever loops that were canceled still do, the status of a
\* gateway is that of the loop there is, and "connected" is said of a connection that
\* is up, in both directions.
THEOREM StatusStays == Spec => []StatusIsOwn
<1>1. TunnelInv /\ StatusInv /\ [Next]_vars => StatusInv'
  BY StatusNext
<1>2. StatusInv => StatusIsOwn
  BY DEF StatusInv
<1> QED BY <1>1, <1>2, StatusInit, Invariant, PTL DEF Spec

-----------------------------------------------------------------------------
(* What is confirmed is served *)

\* nothing pushed yet, and at most the gateway's hello to read
Early(r) ==
    /\ r.sent = 0 /\ Len(r.toHome) <= 1
    /\ \A i \in 1..Len(r.toGw) : ~IsRoutes(r.toGw[i])

\* A connection pushes a generation once, and a newer one each time; the acks
\* on the way are of older generations than the pushes on the way.
Ordered(r, h) ==
    /\ r.sent <= h.gen /\ (r.kick /\ h.table # None => r.sent < h.gen)
    /\ \A i \in 1..Len(r.toGw) : IsRoutes(r.toGw[i]) =>
         /\ r.toGw[i].run = h.run /\ 1 <= r.toGw[i].gen /\ r.toGw[i].gen <= r.sent
         /\ h.table # None /\ r.toGw[i].gen = h.gen => r.toGw[i].table = h.table
    /\ \A i, j \in 1..Len(r.toGw) :
         i < j /\ IsRoutes(r.toGw[i]) /\ IsRoutes(r.toGw[j]) => r.toGw[i].gen < r.toGw[j].gen
    /\ \A i \in 1..Len(r.toHome) :
         /\ r.toHome[i].gen <= r.sent
         /\ \A j \in 1..Len(r.toGw) : IsRoutes(r.toGw[j]) => r.toHome[i].gen < r.toGw[j].gen

Pushed(r, h) ==
    /\ r.hs \in {"control", "hello"} => Early(r)
    /\ r.hs = "live" => Ordered(r, h)

\* The gateway has generation n, with e what it could not listen on.
Serves(g, h, n, e) ==
    /\ g.run = h.run /\ g.gen = n
    /\ h.table # None /\ n = h.gen => g.table = h.table \ e /\ e = (h.table \cap Ports) \ g.ports

\* An ack of the last push says what the gateway has.
Answers(r, g, h) ==
    r.hs = "live" =>
      \A i \in 1..Len(r.toHome) : r.toHome[i].gen = r.sent => Serves(g, h, r.sent, r.toHome[i].errors)

\* What is on the way is newer than what was confirmed.
Confirmed(r, h) ==
    r.hs = "live" =>
      /\ h.acked <= r.sent
      /\ \A j \in 1..Len(r.toGw) : IsRoutes(r.toGw[j]) => h.acked < r.toGw[j].gen

AckInv ==
    /\ home.acked <= home.gen
    /\ home.table # None => 1 <= home.gen
    /\ \A s \in Sessions : Pushed(sess[s], home)
    /\ \A s \in Sessions : s = gw.session => Answers(sess[s], gw, home)
    /\ \A s \in Sessions : s = Current /\ sess[s].hs = "live" =>
         /\ Confirmed(sess[s], home)
         /\ s = gw.session /\ home.table # None /\ home.acked = home.gen =>
              Serves(gw, home, home.acked, home.errors)

\* the table of h2 is that of h, none or a newer one
Moves(h, h2) ==
    /\ h2.run = h.run /\ h.gen <= h2.gen
    /\ h2.gen = h.gen => h2.table \in {h.table, None}

\* p is q, or what is left of it
Behind(p, q) ==
    \E k \in {0, 1} : \A i \in 1..Len(p) : i + k \in 1..Len(q) /\ p[i] = q[i + k]

\* n is r, some of whose messages were read and which was kicked for a newer table
Lesser(r, n, h, h2) ==
    /\ n.hs \in {"control", "hello"} => Early(n)
    /\ n.hs = "live" =>
         /\ r.hs = "live" /\ n.sent = r.sent
         /\ Behind(n.toGw, r.toGw) /\ Behind(n.toHome, r.toHome)
         /\ n.kick => r.kick \/ h2.table = None \/ h.gen < h2.gen

\* The generations of what is in the queues are numbers.
LEMMA Numbers ==
  ASSUME NEW r, Fit(r)
  PROVE  /\ r.sent \in Nat
         /\ \A i \in 1..Len(r.toGw) : IsRoutes(r.toGw[i]) => r.toGw[i] \in RoutesMessage /\ r.toGw[i].gen \in Nat
         /\ r.hs = "live" => \A i \in 1..Len(r.toHome) : r.toHome[i].gen \in Nat
<1> DEFINE q == r.toGw
<1>1. q \in Seq(Message) /\ r.sent \in Nat
  BY DEF Fit, Session
<1>2. \A i \in 1..Len(q) : q[i] \in Message
  BY <1>1
<1> HIDE DEF q
<1>3. \A m \in Message : IsRoutes(m) => m \in RoutesMessage /\ m.gen \in Nat
  BY DEF Message, IsRoutes, RoutesMessage
<1>4. \A i \in 1..Len(q) : IsRoutes(q[i]) => q[i] \in RoutesMessage /\ q[i].gen \in Nat
  BY <1>2, <1>3
<1>5. r.hs = "live" => \A i \in 1..Len(r.toHome) : r.toHome[i].gen \in Nat
  BY DEF Fit, HelloFirst, AckMessage
<1> QED BY <1>1, <1>4, <1>5 DEF q

\* What is left is as it was.
LEMMA PushedLess ==
  ASSUME NEW r, Fit(r), NEW n, NEW h \in Home, NEW h2 \in Home,
         Pushed(r, h), Moves(h, h2), Lesser(r, n, h, h2)
  PROVE  Pushed(n, h2)
<1> SUFFICES ASSUME n.hs = "live" PROVE Ordered(n, h2)
  BY DEF Pushed, Lesser
<1>1. /\ r.hs = "live" /\ n.sent = r.sent /\ Ordered(r, h)
      /\ n.kick => r.kick \/ h2.table = None \/ h.gen < h2.gen
  BY DEF Pushed, Lesser
<1>2. PICK k \in {0, 1} : \A i \in 1..Len(n.toGw) : i + k \in 1..Len(r.toGw) /\ n.toGw[i] = r.toGw[i + k]
  BY DEF Lesser, Behind
<1>3. PICK k2 \in {0, 1} :
        \A i \in 1..Len(n.toHome) : i + k2 \in 1..Len(r.toHome) /\ n.toHome[i] = r.toHome[i + k2]
  BY DEF Lesser, Behind
<1>4. h.gen \in Nat /\ h2.gen \in Nat /\ r.sent \in Nat /\ h2.run = h.run /\ h.gen <= h2.gen
      /\ (h2.gen = h.gen => h2.table \in {h.table, None})
  BY Numbers DEF Home, Moves
<1>5. n.sent <= h2.gen /\ (n.kick /\ h2.table # None => n.sent < h2.gen)
  <2>1. r.sent <= h.gen /\ (r.kick /\ h.table # None => r.sent < h.gen)
    BY <1>1 DEF Ordered
  <2> QED BY <1>1, <1>4, <2>1
<1>6. ASSUME NEW i \in 1..Len(n.toGw), IsRoutes(n.toGw[i])
      PROVE  /\ n.toGw[i].run = h2.run /\ 1 <= n.toGw[i].gen /\ n.toGw[i].gen <= n.sent
             /\ h2.table # None /\ n.toGw[i].gen = h2.gen => n.toGw[i].table = h2.table
  <2> DEFINE m == n.toGw[i]
  <2>1. m.gen \in Nat
    BY <1>2, <1>6, Numbers
  <2>2. m.run = h.run /\ 1 <= m.gen /\ m.gen <= r.sent /\ (h.table # None /\ m.gen = h.gen => m.table = h.table)
    BY <1>1, <1>2, <1>6 DEF Ordered
  <2>3. r.sent <= h.gen
    BY <1>1 DEF Ordered
  <2> HIDE DEF m
  <2>4. m.gen = h2.gen => h2.gen = h.gen
    BY <1>4, <2>1, <2>2, <2>3
  <2>5. h2.table # None /\ m.gen = h2.gen => m.table = h2.table
    BY <1>4, <2>2, <2>4
  <2> QED BY <1>1, <1>4, <2>2, <2>5 DEF m
<1>7. ASSUME NEW i \in 1..Len(n.toGw), NEW j \in 1..Len(n.toGw), i < j,
             IsRoutes(n.toGw[i]), IsRoutes(n.toGw[j])
      PROVE  n.toGw[i].gen < n.toGw[j].gen
  <2>1. i + k < j + k
    BY <1>2, <1>7
  <2> QED BY <1>1, <1>2, <1>7, <2>1 DEF Ordered
<1>8. ASSUME NEW i \in 1..Len(n.toHome)
      PROVE  /\ n.toHome[i].gen <= n.sent
             /\ \A j \in 1..Len(n.toGw) : IsRoutes(n.toGw[j]) => n.toHome[i].gen < n.toGw[j].gen
  BY <1>1, <1>2, <1>3 DEF Ordered
<1> QED BY <1>5, <1>6, <1>7, <1>8 DEF Ordered

\* A newer table leaves what was said of an older one.
LEMMA ServesStill ==
  ASSUME NEW g, NEW g2, NEW h \in Home, NEW h2 \in Home, NEW n \in Nat, NEW e,
         Serves(g, h, n, e), Moves(h, h2), n <= h.gen,
         g2.run = g.run, g2.gen = g.gen, g2.table = g.table, g2.ports = g.ports
  PROVE  Serves(g2, h2, n, e)
<1>1. h.gen \in Nat /\ h2.gen \in Nat /\ h.gen <= h2.gen
  BY DEF Home, Moves
<1>2. n = h2.gen => h2.gen = h.gen
  BY <1>1
<1> QED BY <1>2 DEF Serves, Moves

\* Answers stay answers when the session and the home move on.
LEMMA AnswersLess ==
  ASSUME NEW r, Fit(r), NEW n, NEW h \in Home, NEW h2 \in Home, NEW g, NEW g2,
         Pushed(r, h), Answers(r, g, h), Moves(h, h2), Lesser(r, n, h, h2),
         g2.run = g.run, g2.gen = g.gen, g2.table = g.table, g2.ports = g.ports
  PROVE  Answers(n, g2, h2)
<1> SUFFICES ASSUME n.hs = "live", NEW i \in 1..Len(n.toHome), n.toHome[i].gen = n.sent
             PROVE  Serves(g2, h2, n.sent, n.toHome[i].errors)
  BY DEF Answers
<1>1. r.hs = "live" /\ n.sent = r.sent /\ r.sent \in Nat /\ r.sent <= h.gen
  BY Numbers DEF Pushed, Lesser, Ordered
<1>2. PICK j \in 1..Len(r.toHome) : n.toHome[i] = r.toHome[j]
  BY DEF Lesser, Behind
<1>3. Serves(g, h, r.sent, r.toHome[j].errors)
  BY <1>1, <1>2 DEF Answers
<1> QED BY <1>1, <1>2, <1>3, ServesStill

\* Steps that only take from the queues, and may bring a newer table
LEMMA AckKept ==
  ASSUME TunnelInv, AckInv, home' \in Home, Moves(home, home'),
         home'.acked = home.acked, home'.errors = home.errors,
         home'.table # None => 1 <= home'.gen,
         gw'.session \in {gw.session, None},
         gw'.session # None =>
           gw'.run = gw.run /\ gw'.gen = gw.gen /\ gw'.table = gw.table /\ gw'.ports = gw.ports,
         \A s \in Sessions :
           /\ Lesser(sess[s], sess'[s], home, home')
           /\ s = Current' /\ sess'[s].hs = "live" => s = Current
  PROVE  AckInv'
<1>0. /\ home \in Home /\ \A s \in Sessions : Fit(sess[s])
      /\ home.acked \in Nat /\ home.gen \in Nat /\ home'.gen \in Nat /\ home.acked <= home.gen
      /\ home.gen <= home'.gen
  BY InvFacts DEF Known, Home, AckInv, Moves
<1>1. home'.acked <= home'.gen
  BY <1>0
<1>2. ASSUME NEW s \in Sessions PROVE Pushed(sess'[s], home')
  BY <1>0, PushedLess DEF AckInv
<1>3. ASSUME NEW s \in Sessions, s = gw'.session PROVE Answers(sess'[s], gw', home')
  <2>1. s # None /\ s = gw.session
    BY <1>3, TunnelAssumption
  <2>2. Pushed(sess[s], home) /\ Answers(sess[s], gw, home)
    BY <2>1 DEF AckInv
  <2> QED BY <1>0, <1>3, <2>1, <2>2, AnswersLess
<1>4. ASSUME NEW s \in Sessions, s = Current', sess'[s].hs = "live"
      PROVE  /\ Confirmed(sess'[s], home')
             /\ s = gw'.session /\ home'.table # None /\ home'.acked = home'.gen =>
                  Serves(gw', home', home'.acked, home'.errors)
  <2>1. s = Current /\ sess[s].hs = "live"
    BY <1>4 DEF Lesser
  <2>2. /\ Confirmed(sess[s], home)
        /\ s = gw.session /\ home.table # None /\ home.acked = home.gen =>
             Serves(gw, home, home.acked, home.errors)
    BY <2>1 DEF AckInv
  <2>3. Confirmed(sess'[s], home')
    <3>1. sess'[s].sent = sess[s].sent /\ Behind(sess'[s].toGw, sess[s].toGw)
      BY <1>4 DEF Lesser
    <3>2. \A j \in 1..Len(sess'[s].toGw) : \E i \in 1..Len(sess[s].toGw) : sess'[s].toGw[j] = sess[s].toGw[i]
      BY <3>1 DEF Behind
    <3> QED BY SMTT(60), <2>1, <2>2, <3>1, <3>2 DEF Confirmed
  <2>4. ASSUME s = gw'.session, home'.table # None, home'.acked = home'.gen
        PROVE  Serves(gw', home', home'.acked, home'.errors)
    <3>1. s # None /\ s = gw.session
      BY <2>4, TunnelAssumption
    <3>2. home'.gen = home.gen /\ home.acked = home.gen
      BY <1>0, <2>4
    <3>3. home.table # None
      BY <2>4, <3>2 DEF Moves
    <3>4. Serves(gw, home, home.acked, home.errors)
      BY <2>2, <3>1, <3>2, <3>3
    <3> QED BY <1>0, <2>4, <3>1, <3>4, ServesStill
  <2> QED BY <2>3, <2>4
<1> QED BY <1>1, <1>2, <1>3, <1>4 DEF AckInv

\* r as it was, out of the home's hands, or new there
Stays(r, n) ==
    \/ /\ n.hs = r.hs /\ n.sent = r.sent /\ n.kick = r.kick
       /\ n.toGw = r.toGw /\ n.toHome = r.toHome
    \/ ~Up(n)
    \/ n.hs = "control" /\ Early(n)

\* What the session keeps, it keeps when the home moves on.
LEMMA StaysLess ==
  ASSUME NEW r, Fit(r), NEW n, NEW h, NEW h2, Pushed(r, h), Stays(r, n)
  PROVE  Lesser(r, n, h, h2)
<1>1. CASE ~Up(n) \/ (n.hs = "control" /\ Early(n))
  BY <1>1 DEF Up, Lesser
<1>2. CASE /\ n.hs = r.hs /\ n.sent = r.sent /\ n.kick = r.kick
           /\ n.toGw = r.toGw /\ n.toHome = r.toHome
  <2>1. \A i \in 1..Len(n.toGw) : i + 0 \in 1..Len(r.toGw) /\ n.toGw[i] = r.toGw[i + 0]
    BY <1>2
  <2>2. \A i \in 1..Len(n.toHome) : i + 0 \in 1..Len(r.toHome) /\ n.toHome[i] = r.toHome[i + 0]
    BY <1>2
  <2>3. Behind(n.toGw, r.toGw) /\ Behind(n.toHome, r.toHome)
    BY <2>1, <2>2 DEF Behind
  <2>4. Early(r) => Early(n)
    BY <1>2 DEF Early
  <2> QED BY <1>2, <2>3, <2>4 DEF Lesser, Pushed
<1> QED BY <1>1, <1>2 DEF Stays

\* Steps that change no queue and no table
LEMMA AckQuiet ==
  ASSUME TunnelInv, AckInv, home' \in Home,
         home'.run = home.run, home'.gen = home.gen, home'.table = home.table,
         home'.acked = home.acked, home'.errors = home.errors,
         home'.loop \in {home.loop, None},
         gw'.session \in {gw.session, None},
         gw'.session # None =>
           gw'.run = gw.run /\ gw'.gen = gw.gen /\ gw'.table = gw.table /\ gw'.ports = gw.ports,
         \A l \in Loops :
           loops'[l].sess \in {loops[l].sess, None} \/ sess'[loops'[l].sess].hs # "live",
         \A s \in Sessions : Stays(sess[s], sess'[s])
  PROVE  AckInv'
<1>1. home.gen \in Nat /\ home.loop \in Loops \cup {None} /\ \A s \in Sessions : Fit(sess[s])
  BY InvFacts DEF Known, Home
<1>2. Moves(home, home')
  BY <1>1 DEF Moves
<1>3. ASSUME NEW s \in Sessions PROVE Lesser(sess[s], sess'[s], home, home')
  BY <1>1, StaysLess DEF AckInv
<1>4. ASSUME NEW s \in Sessions, s = Current', sess'[s].hs = "live" PROVE s = Current
  <2>1. s # None
    BY TunnelAssumption
  <2>2. home'.loop # None /\ s = loops'[home'.loop].sess
    BY <1>4, <2>1 DEF Current
  <2>3. home'.loop = home.loop /\ home.loop \in Loops
    BY <1>1, <2>2
  <2> QED BY <1>4, <2>1, <2>2, <2>3 DEF Current
<1>5. home'.table # None => 1 <= home'.gen
  BY DEF AckInv
<1> QED BY <1>2, <1>3, <1>4, <1>5, AckKept

\* A step of one session s, which the gateway may have taken over or answered
LEMMA AckOne ==
  ASSUME TunnelInv, AckInv, NEW s \in Sessions, NEW n, sess' = [sess EXCEPT ![s] = n], UNCHANGED loops,
         home'.loop = home.loop,
         home'.run = home.run, home'.gen = home.gen, home'.table = home.table,
         s = Current \/ (home'.acked = home.acked /\ home'.errors = home.errors),
         home'.acked <= home.gen,
         gw'.session = s \/ UNCHANGED gw,
         Pushed(n, home), s = gw'.session => Answers(n, gw', home),
         s = Current /\ n.hs = "live" =>
           /\ Confirmed(n, home')
           /\ s = gw'.session /\ home.table # None /\ home'.acked = home.gen =>
                Serves(gw', home, home'.acked, home'.errors)
  PROVE  AckInv'
<1>1. sess'[s] = n /\ \A q \in Sessions : q # s => sess'[q] = sess[q]
  BY InvFacts
<1>2. Current' = Current
  BY DEF Current
<1>3. \A r : /\ Pushed(r, home) => Pushed(r, home')
             /\ \A g : Answers(r, g, home) => Answers(r, g, home')
  BY DEF Pushed, Ordered, Answers, Serves
<1>4. \A g, k, e : Serves(g, home, k, e) <=> Serves(g, home', k, e)
  BY DEF Serves
<1>5. \A q \in Sessions : Pushed(sess'[q], home')
  BY <1>1, <1>3 DEF AckInv
<1>6. \A q \in Sessions : q = gw'.session => Answers(sess'[q], gw', home')
  BY <1>1, <1>3 DEF AckInv
<1>7. ASSUME NEW q \in Sessions, q = Current', sess'[q].hs = "live"
      PROVE  /\ Confirmed(sess'[q], home')
             /\ q = gw'.session /\ home'.table # None /\ home'.acked = home'.gen =>
                  Serves(gw', home', home'.acked, home'.errors)
  <2>1. CASE q = s
    BY <1>1, <1>2, <1>4, <1>7, <2>1
  <2>2. CASE q # s
    <3>1. home'.acked = home.acked /\ home'.errors = home.errors /\ sess'[q] = sess[q] /\ q = Current
      BY <1>1, <1>2, <1>7, <2>2
    <3>2. Confirmed(sess[q], home')
      BY <1>7, <3>1 DEF AckInv, Confirmed
    <3>3. q = gw'.session => gw' = gw
      BY <2>2
    <3> QED BY <1>4, <1>7, <3>1, <3>2, <3>3 DEF AckInv
  <2> QED BY <2>1, <2>2
<1> QED BY <1>5, <1>6, <1>7 DEF AckInv

\* A dial, whatever comes of it
LEMMA AckLoops ==
  ASSUME TunnelInv, TunnelInv', AckInv, NEW l \in Loops, LoopStep(l) \/ DialFails(l)
  PROVE  AckInv'
<1>0. /\ home \in Home /\ home' \in Home /\ loops \in [Loops -> Loop] /\ sess \in [Sessions -> Session]
      /\ \A s \in Sessions : Fit(sess[s])
      /\ NoLoop.sess = None
  BY InvFacts DEF Known, NoLoop, TunnelInv, TypeOK
<1>1. /\ home'.run = home.run /\ home'.gen = home.gen /\ home'.table = home.table
      /\ home'.acked = home.acked /\ home'.errors = home.errors /\ home'.loop = home.loop
  <2>1. home' = home \/ \E st : home' = [home EXCEPT !.state = st]
    BY DEF LoopStep, Dial, DialDone, DialFails, GivenUp, Updated
  <2> QED BY <1>0, <2>1 DEF Home
<1>2. UNCHANGED gw
  BY DEF LoopStep, Dial, DialDone, DialFails
<1>3. /\ \A s \in Sessions : Stays(sess[s], sess'[s])
      /\ \A k \in Loops : loops'[k].sess \in {loops[k].sess, None} \/ sess'[loops'[k].sess].hs # "live"
  <2>1. CASE sess' = sess /\ \E n : loops' = [loops EXCEPT ![l] = n] /\ n.sess \in {loops[l].sess, None}
    BY <1>0, <2>1 DEF Stays
  <2>2. CASE Dial(l)
    <3> DEFINE d == [loops[l] EXCEPT !.pc = "dialing"]
    <3>1. d.sess = loops[l].sess
      BY <1>0 DEF Loop
    <3>2. sess' = sess /\ (loops' = [loops EXCEPT ![l] = d] \/ loops' = [loops EXCEPT ![l] = NoLoop])
      BY <2>2 DEF Dial, Ended
    <3> HIDE DEF d
    <3> QED BY <1>0, <2>1, <3>1, <3>2
  <2>3. CASE DialFails(l)
    <3> DEFINE d == [loops[l] EXCEPT !.pc = "dial"]
    <3>1. d.sess = loops[l].sess
      BY <1>0 DEF Loop
    <3>2. sess' = sess /\ (loops' = [loops EXCEPT ![l] = d] \/ loops' = [loops EXCEPT ![l] = NoLoop])
      BY <2>3 DEF DialFails, GivenUp, Ended
    <3> HIDE DEF d
    <3> QED BY <1>0, <2>1, <3>1, <3>2
  <2>4. CASE DialDone(l) /\ (Canceled(l) \/ Draining)
    <3>1. PICK s \in FreeSessions : sess' = [sess EXCEPT ![s].hs = "gone"] /\ loops' = [loops EXCEPT ![l] = NoLoop]
      BY <2>4 DEF DialDone, GivenUp, Ended
    <3>2. ~Up([sess[s] EXCEPT !.hs = "gone"]) /\ s \in Sessions
      BY <1>0 DEF Up, Session, FreeSessions
    <3>3. \A q \in Sessions : sess'[q] = sess[q] \/ ~Up(sess'[q])
      BY <1>0, <3>1, <3>2
    <3>4. \A k \in Loops : loops'[k].sess \in {loops[k].sess, None}
      BY <1>0, <3>1
    <3>5. \A q \in Sessions : Stays(sess[q], sess'[q])
      BY <3>3 DEF Stays
    <3> QED BY <3>4, <3>5
  <2>5. CASE DialDone(l) /\ ~(Canceled(l) \/ Draining)
    <3> DEFINE b == [NoSession EXCEPT !.hs = "control", !.loop = l, !.link = TRUE]
    <3>1. PICK s \in FreeSessions :
            sess' = [sess EXCEPT ![s] = b] /\ loops' = [loops EXCEPT ![l] = [pc |-> "conn", sess |-> s]]
      BY <2>5 DEF DialDone
    <3>2. b.hs = "control" /\ b.sent = 0 /\ b.toHome = <<>> /\ b.toGw = <<>>
      BY DEF NoSession
    <3> HIDE DEF b
    <3>3. b.hs = "control" /\ Early(b)
      BY <3>2 DEF Early
    <3>4. s \in Sessions
      BY DEF FreeSessions
    <3>5. sess'[s] = b /\ \A q \in Sessions : q # s => sess'[q] = sess[q]
      BY <1>0, <3>1, <3>4
    <3>6. loops'[l].sess = s /\ \A k \in Loops : k # l => loops'[k] = loops[k]
      BY <1>0, <3>1
    <3>7. \A q \in Sessions : Stays(sess[q], sess'[q])
      BY <3>3, <3>5 DEF Stays
    <3> QED BY <3>3, <3>5, <3>6, <3>7
  <2> QED BY <2>2, <2>3, <2>4, <2>5 DEF LoopStep
<1> QED BY <1>0, <1>1, <1>2, <1>3, AckQuiet

\* A connection that is over
LEMMA AckConnOver ==
  ASSUME TunnelInv, TunnelInv', AckInv, NEW s \in Sessions, NEW st, ConnOver(s, st), UNCHANGED gw
  PROVE  AckInv'
<1>0. /\ home \in Home /\ home' \in Home /\ loops \in [Loops -> Loop] /\ sess \in [Sessions -> Session]
      /\ \A q \in Sessions : Fit(sess[q])
  BY InvFacts DEF Known, TunnelInv, TypeOK
<1>1. /\ home'.run = home.run /\ home'.gen = home.gen /\ home'.table = home.table
      /\ home'.acked = home.acked /\ home'.errors = home.errors /\ home'.loop = home.loop
  <2>1. home' = home \/ home' = [home EXCEPT !.state = st]
    BY DEF ConnOver, Updated
  <2> QED BY <1>0, <2>1 DEF Home
<1>2. \A q \in Sessions : Stays(sess[q], sess'[q])
  <2>1. sess' = [sess EXCEPT ![s] = HomeClosed(sess[s])] /\ ~Up(HomeClosed(sess[s]))
    BY <1>0, ClosedUp DEF ConnOver
  <2> QED BY <1>0, <2>1 DEF Stays
<1>3. \A k \in Loops : loops'[k].sess \in {loops[k].sess, None}
  <2>1. PICK n : n.sess = None /\ loops' = [loops EXCEPT ![sess[s].loop] = n]
    <3>1. NoLoop.sess = None /\ [pc |-> "dial", sess |-> None].sess = None
      BY DEF NoLoop
    <3> QED BY <3>1 DEF ConnOver, Ended
  <2> QED BY <1>0, <2>1
<1> QED BY <1>0, <1>1, <1>2, <1>3, AckQuiet

\* The gateway closes a session, and takes nothing from it.
LEMMA GwClosedStays ==
  ASSUME NEW r, Fit(r)
  PROVE  Stays(r, GwClosed(r)) /\ Stays(r, [r EXCEPT !.link = FALSE])
<1> DEFINE c == [r EXCEPT !.gs = "gone", !.link = FALSE]
           u == [r EXCEPT !.link = FALSE]
<1>1. GwClosed(r) \in {c, NoSession}
  BY DEF GwClosed, Tidied
<1>2. /\ c.hs = r.hs /\ c.sent = r.sent /\ c.kick = r.kick /\ c.toGw = r.toGw /\ c.toHome = r.toHome
      /\ u.hs = r.hs /\ u.sent = r.sent /\ u.kick = r.kick /\ u.toGw = r.toGw /\ u.toHome = r.toHome
  BY DEF Fit, Session
<1>3. ~Up(NoSession)
  BY NoSessionFit DEF Up
<1> HIDE DEF c, u
<1>4. Stays(r, c) /\ Stays(r, u) /\ Stays(r, NoSession)
  BY <1>2, <1>3 DEF Stays
<1> QED BY <1>1, <1>4 DEF u

\* Sessions that are lost, replaced or forgotten
LEMMA AckLost ==
  ASSUME TunnelInv, AckInv, UNCHANGED <<home, loops>>,
         \/ \E s \in Sessions : Lost(s) \/ Breaks(s)
         \/ \E ok \in Versions : GatewayRestarts(ok)
  PROVE  AckInv'
<1>0. /\ home \in Home /\ sess \in [Sessions -> Session] /\ gw \in Gateway
      /\ \A q \in Sessions : Fit(sess[q]) /\ Stays(sess[q], sess[q])
  BY InvFacts DEF Known, TunnelInv, TypeOK, Stays
<1>1. /\ \A q \in Sessions : Stays(sess[q], sess'[q])
      /\ gw'.session \in {gw.session, None}
      /\ gw'.session # None =>
           gw'.run = gw.run /\ gw'.gen = gw.gen /\ gw'.table = gw.table /\ gw'.ports = gw.ports
  <2>1. ASSUME NEW s \in Sessions, Lost(s)
        PROVE  /\ \A q \in Sessions : Stays(sess[q], sess'[q])
               /\ gw'.session \in {gw.session, None} /\ gw'.run = gw.run /\ gw'.gen = gw.gen
               /\ gw'.table = gw.table /\ gw'.ports = gw.ports
    <3>1. sess' = [sess EXCEPT ![s] = GwClosed(sess[s])]
      BY <2>1 DEF Lost
    <3>2. \A q \in Sessions : Stays(sess[q], sess'[q])
      BY <1>0, <3>1, GwClosedStays
    <3>3. PICK a \in {gw.session, None}, b \in {gw.active, None} : gw' = [gw EXCEPT !.session = a, !.active = b]
      BY <2>1 DEF Lost
    <3> QED BY <1>0, <3>2, <3>3 DEF Gateway
  <2>2. ASSUME NEW s \in Sessions, Breaks(s)
        PROVE  (\A q \in Sessions : Stays(sess[q], sess'[q])) /\ gw' = gw
    <3>1. sess' = [sess EXCEPT ![s] = [sess[s] EXCEPT !.link = FALSE]] /\ gw' = gw
      BY <2>2 DEF Breaks
    <3> QED BY <1>0, <3>1, GwClosedStays
  <2>3. ASSUME NEW ok \in Versions, GatewayRestarts(ok)
        PROVE  (\A q \in Sessions : Stays(sess[q], sess'[q])) /\ gw'.session = None
    <3>1. gw'.session = None
      BY <2>3 DEF GatewayRestarts, NoGateway
    <3>2. \A q \in Sessions : sess'[q] \in {sess[q], GwClosed(sess[q])}
      BY <2>3 DEF GatewayRestarts
    <3> QED BY <1>0, <3>1, <3>2, GwClosedStays
  <2> QED BY <2>1, <2>2, <2>3
<1>2. \A l \in Loops : loops'[l].sess \in {loops[l].sess, None}
  OBVIOUS
<1>3. /\ home' \in Home /\ home'.run = home.run /\ home'.gen = home.gen /\ home'.table = home.table
      /\ home'.acked = home.acked /\ home'.errors = home.errors /\ home'.loop = home.loop
  BY <1>0
<1> QED BY <1>1, <1>2, <1>3, AckQuiet

\* A gateway that attaches a session has sent it nothing but a hello.
LEMMA AckAttach ==
  ASSUME TunnelInv, AckInv, NEW s \in Sessions, Attach(s)
  PROVE  AckInv'
<1> DEFINE a == Answered(sess[s], Hello(gw.compatible))
           n == [a EXCEPT !.gs = "hello"]
<1>0. /\ home \in Home /\ sess \in [Sessions -> Session] /\ gw \in Gateway
      /\ \A q \in Sessions : Fit(sess[q])
  BY InvFacts DEF Known, TunnelInv, TypeOK
<1>1. UNCHANGED <<home, loops>> /\ sess[s].gs = "none" /\ sess[s].hs # "none"
  BY DEF Attach
<1>2. /\ sess[s].toHome = <<>> /\ sess[s].toGw = <<>> /\ sess[s].hs \in {"control", "gone"}
      /\ Pushed(sess[s], home)
  BY <1>0, <1>1 DEF Fit, InStep, AckInv
<1>3. Hello(gw.compatible) \in Message
  BY <1>0 DEF Gateway, Message, Hello
<1>4. /\ n.hs = sess[s].hs /\ n.sent = sess[s].sent /\ n.toGw = <<>>
      /\ n.toHome = <<>> \/ n.toHome = Append(<<>>, Hello(gw.compatible))
  BY <1>0, <1>2 DEF Answered, Session
<1>5. Len(<<>>) = 0 /\ Len(Append(<<>>, Hello(gw.compatible))) = 1
  <2> DEFINE m == Hello(gw.compatible)
  <2> HIDE DEF m
  <2>1. Len(<<>>) = 0 /\ Len(Append(<<>>, m)) = 1
    BY <1>3 DEF m
  <2> QED BY <2>1 DEF m
<1> HIDE DEF n
<1>6. ~Up(n) \/ (n.hs = "control" /\ Early(n))
  <2>1. CASE sess[s].hs = "control"
    <3>1. n.sent = 0 /\ n.hs = "control"
      BY <1>2, <1>4, <2>1 DEF Pushed, Early
    <3>2. Len(n.toHome) <= 1
      <4>1. Len(n.toHome) = 0 \/ Len(n.toHome) = 1
        BY <1>4, <1>5
      <4>2. \A k : k = 0 \/ k = 1 => k <= 1
        OBVIOUS
      <4> HIDE DEF n
      <4> QED BY <4>1, <4>2
    <3>3. \A i \in 1..Len(n.toGw) : ~IsRoutes(n.toGw[i])
      <4>1. Len(n.toGw) = 0
        BY <1>4, <1>5
      <4> QED BY <4>1
    <3> QED BY <3>1, <3>2, <3>3 DEF Early
  <2>2. CASE sess[s].hs = "gone"
    BY <1>4, <2>2 DEF Up
  <2> QED BY <1>2, <2>1, <2>2
<1>7. sess' = [q \in Sessions |-> IF q = s THEN n ELSE IF q = gw.session THEN Superseded(sess[q]) ELSE sess[q]]
  BY DEF Attach, n
<1>8. \A q \in Sessions : Stays(sess[q], sess'[q])
  <2> SUFFICES ASSUME NEW q \in Sessions PROVE Stays(sess[q], sess'[q])
    OBVIOUS
  <2>1. CASE q = s
    <3>1. sess'[q] = n
      BY <1>7, <2>1
    <3> QED BY <1>6, <3>1 DEF Stays
  <2>2. CASE q # s
    <3>1. sess'[q] = sess[q] \/ sess'[q] = [sess[q] EXCEPT !.link = FALSE]
      BY <1>7, <2>2 DEF Superseded
    <3>2. Stays(sess[q], sess[q]) /\ Stays(sess[q], [sess[q] EXCEPT !.link = FALSE])
      BY <1>0, GwClosedStays DEF Stays
    <3> QED BY <3>1, <3>2
  <2> QED BY <2>1, <2>2
<1>9. /\ gw'.session = s /\ sess'[s].hs # "live"
      /\ \A q \in Sessions : q # s => q # gw'.session
  BY <1>0, <1>2, <1>4, <1>7 DEF Attach, Gateway
<1>10. home.gen \in Nat /\ Moves(home, home')
  BY <1>0, <1>1 DEF Home, Moves
<1>11. Current' = Current
  BY <1>1 DEF Current
<1>12. \A q \in Sessions : Lesser(sess[q], sess'[q], home, home') /\ Pushed(sess'[q], home')
  BY <1>0, <1>1, <1>8, <1>10, StaysLess, PushedLess DEF AckInv
<1>13. \A q \in Sessions : q = gw'.session => Answers(sess'[q], gw', home') /\ sess'[q].hs # "live"
  BY <1>9 DEF Answers
<1>14. ASSUME NEW q \in Sessions, q = Current', sess'[q].hs = "live" PROVE Confirmed(sess'[q], home')
  <2>1. sess[q].hs = "live" /\ sess'[q].sent = sess[q].sent /\ Behind(sess'[q].toGw, sess[q].toGw)
    BY <1>12, <1>14 DEF Lesser
  <2>2. Confirmed(sess[q], home)
    BY <1>11, <1>14, <2>1 DEF AckInv
  <2>3. \A j \in 1..Len(sess'[q].toGw) : \E i \in 1..Len(sess[q].toGw) : sess'[q].toGw[j] = sess[q].toGw[i]
    BY <2>1 DEF Behind
  <2> QED BY <1>1, <2>1, <2>2, <2>3 DEF Confirmed
<1> QED BY <1>1, <1>12, <1>13, <1>14 DEF AckInv

\* The message read is gone, the others are still there.
LEMMA TailBehind ==
  ASSUME NEW q \in Seq(Message), q # <<>>
  PROVE  Behind(Tail(q), q) /\ Behind(q, q)
<1>1. \A i \in 1..Len(Tail(q)) : i + 1 \in 1..Len(q) /\ Tail(q)[i] = q[i + 1]
  BY TailFacts
<1>2. \A i \in 1..Len(q) : i + 0 \in 1..Len(q) /\ q[i] = q[i + 0]
  OBVIOUS
<1> QED BY <1>1, <1>2 DEF Behind

\* The session there is after a step of the home's side
LEMMA OwnSession ==
  ASSUME TunnelInv, StatusInv, NEW s \in Sessions, Up(sess[s]), ~Canceled(sess[s].loop)
  PROVE  s = Current
<1>1. sess[s].loop \in Loops /\ loops[sess[s].loop] = [pc |-> "conn", sess |-> s]
  BY DEF StatusInv, Paired
<1>2. sess[s].loop # None
  BY <1>1, TunnelAssumption
<1> QED BY <1>1, <1>2 DEF Current, Canceled

\* The gateway reads the home's hello: routes may be behind it.
LEMMA AckEstablish ==
  ASSUME TunnelInv, AckInv, NEW s \in Sessions, Establish(s)
  PROVE  AckInv'
<1> DEFINE r == sess[s]
           n == [r EXCEPT !.gs = "live", !.toGw = Tail(r.toGw)]
<1>0. /\ home \in Home /\ gw \in Gateway /\ sess \in [Sessions -> Session] /\ \A q \in Sessions : Fit(sess[q])
      /\ r.toGw \in Seq(Message) /\ UNCHANGED <<home, loops>> /\ r.toGw # <<>>
  BY InvFacts DEF Known, TunnelInv, TypeOK, Fit, Session, Establish
<1>1. CASE Lost(s)
  BY <1>0, <1>1, AckLost
<1>2. CASE ~Lost(s)
  <2>1. sess' = [sess EXCEPT ![s] = n] /\ gw' = [gw EXCEPT !.active = s]
    BY <1>0, <1>2 DEF Establish
  <2>2. n.hs = r.hs /\ n.sent = r.sent /\ n.kick = r.kick /\ n.toHome = r.toHome /\ n.toGw = Tail(r.toGw)
    BY <1>0 DEF Session
  <2> HIDE DEF r, n
  <2>3. Behind(n.toGw, r.toGw)
    BY <1>0, <2>2, TailBehind
  <2>4. \A i \in 1..Len(n.toHome) : i + 0 \in 1..Len(r.toHome) /\ n.toHome[i] = r.toHome[i + 0]
    BY <2>2
  <2>5. Pushed(r, home) /\ \A q \in Sessions : Pushed(sess[q], home)
    BY DEF AckInv, r
  <2>6. Early(r) => Early(n)
    <3>1. \A i \in 1..Len(n.toGw) : \E j \in 1..Len(r.toGw) : n.toGw[i] = r.toGw[j]
      BY <2>3 DEF Behind
    <3> QED BY <2>2, <3>1 DEF Early
  <2>7. Lesser(r, n, home, home')
    <3>1. Behind(n.toHome, r.toHome)
      BY <2>4 DEF Behind
    <3> QED BY <2>2, <2>3, <2>5, <2>6, <3>1 DEF Lesser, Pushed
  <2>8. sess'[s] = n /\ \A q \in Sessions : q # s => sess'[q] = sess[q]
    BY <1>0, <2>1
  <2>9. \A q \in Sessions : Lesser(sess[q], sess'[q], home, home')
    <3> SUFFICES ASSUME NEW q \in Sessions PROVE Lesser(sess[q], sess'[q], home, home')
      OBVIOUS
    <3>1. CASE q = s
      BY <2>7, <2>8, <3>1 DEF r
    <3>2. CASE q # s
      <4>1. Stays(sess[q], sess'[q])
        BY <2>8, <3>2 DEF Stays
      <4> QED BY <1>0, <2>5, <4>1, StaysLess
    <3> QED BY <3>1, <3>2
  <2>10. /\ gw'.session = gw.session /\ gw'.run = gw.run /\ gw'.gen = gw.gen
         /\ gw'.table = gw.table /\ gw'.ports = gw.ports
    BY <1>0, <2>1 DEF Gateway
  <2>11. home' \in Home /\ Moves(home, home') /\ Current' = Current
         /\ home'.acked = home.acked /\ home'.errors = home.errors
         /\ (home'.table # None => 1 <= home'.gen)
    BY <1>0 DEF Home, Moves, Current, AckInv
  <2> QED BY <2>9, <2>10, <2>11, AckKept
<1> QED BY <1>1, <1>2

\* The home's hello is no push.
LEMMA AckGetControl ==
  ASSUME TunnelInv, AckInv, NEW s \in Sessions, GetControl(s)
  PROVE  AckInv'
<1> DEFINE r == sess[s]
           t == Told(r, Hello(TRUE))
           n == [t EXCEPT !.hs = "hello"]
<1>1. r.hs = "control" /\ UNCHANGED <<home, loops, gw>> /\ sess' = [sess EXCEPT ![s] = n]
  BY DEF GetControl
<1>2. Fit(r) /\ r \in Session /\ r.toGw = <<>> /\ Early(r)
  BY <1>1, InvFacts DEF Fit, InStep, AckInv, Pushed
<1> HIDE DEF r
<1>3. Hello(TRUE) \in Message /\ ~IsRoutes(Hello(TRUE))
  BY DEF Hello, Message, IsRoutes
<1>4. /\ n.hs = "hello" /\ n.sent = r.sent /\ n.toHome = r.toHome
      /\ n.toGw = <<>> \/ n.toGw = Append(<<>>, Hello(TRUE))
  BY <1>2 DEF Told, Session
<1> HIDE DEF n
<1>5. \A i \in 1..Len(n.toGw) : ~IsRoutes(n.toGw[i])
  <2>1. CASE n.toGw = <<>>
    BY <2>1
  <2>2. CASE n.toGw = Append(<<>>, Hello(TRUE))
    BY <1>3, <2>2, FirstMessage
  <2> QED BY <1>4, <2>1, <2>2
<1>6. Pushed(n, home) /\ Answers(n, gw', home) /\ n.hs # "live"
  BY <1>2, <1>4, <1>5 DEF Early, Pushed, Answers
<1>7. home'.acked <= home.gen
  BY <1>1 DEF AckInv
<1> QED BY <1>1, <1>6, <1>7, AckOne

\* Nothing is pushed before the gateway's hello, and nothing confirmed by it.
LEMMA AckGetHello ==
  ASSUME TunnelInv, TunnelInv', StatusInv, AckInv, NEW s \in Sessions, GetHello(s)
  PROVE  AckInv'
<1> DEFINE r == sess[s]
           n == [r EXCEPT !.hs = "live", !.kick = TRUE, !.toHome = Tail(r.toHome)]
<1>0. /\ home \in Home /\ sess \in [Sessions -> Session] /\ Fit(r) /\ r \in Session
      /\ r.toHome \in Seq(Message) /\ r.hs = "hello" /\ r.toHome # <<>> /\ UNCHANGED gw
  BY InvFacts DEF Known, Fit, Session, GetHello
<1>1. CASE \E st \in States : ConnOver(s, st)
  BY <1>0, <1>1, AckConnOver
<1>2. CASE ~\E st \in States : ConnOver(s, st)
  <2>1. /\ sess' = [sess EXCEPT ![s] = n] /\ home' = Connected(home) /\ UNCHANGED loops
        /\ ~Canceled(sess[s].loop)
    BY <1>2 DEF GetHello, States
  <2>2. s = Current
    BY <1>0, <2>1, OwnSession DEF Up
  <2>3. /\ home'.run = home.run /\ home'.gen = home.gen /\ home'.table = home.table
        /\ home'.acked = 0 /\ home'.loop = home.loop
    BY <1>0, <2>1 DEF Connected, Home
  <2>4. Early(r) /\ home.gen \in Nat /\ (home.table # None => 1 <= home.gen)
    BY <1>0 DEF AckInv, Pushed, Home
  <2> HIDE DEF r
  <2>5. /\ n.hs = "live" /\ n.sent = r.sent /\ n.toGw = r.toGw /\ n.toHome = Tail(r.toHome)
    BY <1>0 DEF Session
  <2>6. Len(Tail(r.toHome)) = 0
    <3>1. Len(r.toHome) \in Nat /\ Len(r.toHome) <= 1 /\ Len(r.toHome) # 0
      BY <1>0, <2>4 DEF Early
    <3>2. Len(Tail(r.toHome)) = Len(r.toHome) - 1
      BY <1>0
    <3>3. \A a, b : a \in Nat /\ a <= 1 /\ a # 0 /\ b = a - 1 => b = 0
      OBVIOUS
    <3> QED BY <3>1, <3>2, <3>3
  <2> HIDE DEF n
  <2>7. /\ n.sent = 0 /\ (\A i \in 1..Len(n.toGw) : ~IsRoutes(n.toGw[i]))
        /\ \A i \in 1..Len(n.toHome) : FALSE
    <3>1. n.sent = 0 /\ \A i \in 1..Len(n.toGw) : ~IsRoutes(n.toGw[i])
      BY <2>4, <2>5 DEF Early
    <3>2. Len(n.toHome) = 0
      BY <2>5, <2>6
    <3>3. \A i \in 1..Len(n.toHome) : FALSE
      BY <3>2
    <3> QED BY <3>1, <3>3
  <2>8. n.sent <= home.gen /\ (home.table # None => n.sent < home.gen) /\ home'.acked <= home.gen
    BY <2>3, <2>4, <2>7
  <2>9. Pushed(n, home) /\ Answers(n, gw', home)
    BY <2>5, <2>7, <2>8 DEF Pushed, Ordered, Answers
  <2>10. Confirmed(n, home')
    BY <2>3, <2>7 DEF Confirmed
  <2>11. home.table # None => home'.acked # home.gen
    BY <2>3, <2>4
  <2> QED BY <1>0, <2>1, <2>2, <2>3, <2>8, <2>9, <2>10, <2>11, AckOne
<1> QED BY <1>1, <1>2

\* An ack of the last push says what the gateway has, to the loop there is.
LEMMA AckGetAck ==
  ASSUME TunnelInv, StatusInv, AckInv, NEW s \in Sessions, GetAck(s)
  PROVE  AckInv'
<1> DEFINE r == sess[s]
           m == Head(r.toHome)
           n == [r EXCEPT !.toHome = Tail(r.toHome)]
<1>0. /\ home \in Home /\ Fit(r) /\ r \in Session /\ r.toHome \in Seq(Message) /\ r.hs = "live"
      /\ r.toHome # <<>> /\ UNCHANGED <<loops, gw>> /\ sess' = [sess EXCEPT ![s] = n]
  BY InvFacts DEF Known, Fit, Session, GetAck
<1>1. /\ Head(r.toHome) = r.toHome[1] /\ 1 \in 1..Len(r.toHome) /\ Behind(Tail(r.toHome), r.toHome)
  BY <1>0, TailFacts, TailBehind
<1>2. home' = IF m.gen = r.sent /\ ~Canceled(r.loop) THEN [home EXCEPT !.acked = m.gen, !.errors = m.errors]
              ELSE home
  BY DEF GetAck, Updated
<1>3. /\ home'.run = home.run /\ home'.gen = home.gen /\ home'.table = home.table /\ home'.loop = home.loop
      /\ IF m.gen = r.sent /\ ~Canceled(r.loop) THEN home'.acked = m.gen /\ home'.errors = m.errors
         ELSE home'.acked = home.acked /\ home'.errors = home.errors
  BY <1>0, <1>2 DEF Home
<1>4. ~Canceled(r.loop) => s = Current
  BY <1>0, OwnSession DEF Up
<1>5. Pushed(r, home) /\ Ordered(r, home) /\ home.gen \in Nat /\ home.acked \in Nat /\ home.acked <= home.gen
  BY <1>0 DEF AckInv, Pushed, Home
<1>6. s = gw.session => Answers(r, gw, home)
  BY DEF AckInv
<1>7. s = Current =>
        /\ Confirmed(r, home)
        /\ s = gw.session /\ home.table # None /\ home.acked = home.gen =>
             Serves(gw, home, home.acked, home.errors)
  BY <1>0 DEF AckInv
<1> HIDE DEF r
<1>8. n.hs = "live" /\ n.sent = r.sent /\ n.kick = r.kick /\ n.toGw = r.toGw /\ n.toHome = Tail(r.toHome)
  BY <1>0 DEF Session
<1> HIDE DEF n, m
<1>9. Lesser(r, n, home, home)
  <2>1. \A i \in 1..Len(n.toGw) : i + 0 \in 1..Len(r.toGw) /\ n.toGw[i] = r.toGw[i + 0]
    BY <1>8
  <2>2. Behind(n.toGw, r.toGw)
    BY <2>1 DEF Behind
  <2> QED BY <1>0, <1>1, <1>8, <2>2 DEF Lesser
<1>10. Moves(home, home)
  BY <1>5 DEF Moves
<1>11. Pushed(n, home) /\ (s = gw.session => Answers(n, gw, home))
  BY <1>0, <1>5, <1>6, <1>9, <1>10, PushedLess, AnswersLess
<1>12. /\ m.gen <= r.sent
       /\ \A j \in 1..Len(r.toGw) : IsRoutes(r.toGw[j]) => m.gen < r.toGw[j].gen
       /\ r.sent <= home.gen
  BY <1>1, <1>5 DEF Ordered, m
<1>13. m.gen = r.sent /\ s = gw.session => Serves(gw, home, m.gen, m.errors)
  BY <1>0, <1>1, <1>6 DEF Answers, m
<1>14. CASE m.gen = r.sent /\ ~Canceled(r.loop)
  <2>1. home'.acked = m.gen /\ home'.errors = m.errors /\ s = Current
    BY <1>3, <1>4, <1>14
  <2>2. Confirmed(n, home')
    BY <1>8, <1>12, <2>1 DEF Confirmed
  <2>3. home'.acked <= home.gen
    BY <1>12, <1>14, <2>1
  <2>4. s = gw'.session => Serves(gw', home, home'.acked, home'.errors)
    BY <1>0, <1>13, <1>14, <2>1
  <2> QED BY <1>0, <1>3, <1>11, <2>1, <2>2, <2>3, <2>4, AckOne
<1>15. CASE ~(m.gen = r.sent /\ ~Canceled(r.loop))
  <2>1. home'.acked = home.acked /\ home'.errors = home.errors
    BY <1>3, <1>15
  <2>2. s = Current => Confirmed(n, home')
    BY <1>0, <1>7, <1>8, <2>1 DEF Confirmed
  <2> QED BY <1>0, <1>3, <1>5, <1>7, <1>11, <2>1, <2>2, AckOne
<1> QED BY <1>14, <1>15

\* A push is newer than all before it, and than what is confirmed.
LEMMA AckWriteRoutes ==
  ASSUME TunnelInv, AckInv, NEW s \in Sessions, WriteRoutes(s)
  PROVE  AckInv'
<1> DEFINE r == sess[s]
           m == [type |-> "routes", run |-> home.run, gen |-> home.tgen, table |-> home.table]
<1>0. /\ home \in Home /\ Fit(r) /\ r \in Session /\ r.toGw \in Seq(Message) /\ r.hs = "live" /\ r.kick
      /\ UNCHANGED <<home, loops, gw>> /\ home.gen \in Nat /\ home.acked \in Nat /\ home.acked <= home.gen
  BY InvFacts DEF Known, Fit, Session, WriteRoutes, AckInv, Home
<1>1. /\ Pushed(r, home) /\ Ordered(r, home) /\ (s = gw.session => Answers(r, gw, home))
      /\ s = Current =>
           /\ Confirmed(r, home)
           /\ s = gw.session /\ home.table # None /\ home.acked = home.gen =>
                Serves(gw, home, home.acked, home.errors)
  BY <1>0 DEF AckInv, Pushed
<1>2. /\ r.sent \in Nat
      /\ \A i \in 1..Len(r.toGw) : IsRoutes(r.toGw[i]) => r.toGw[i].gen \in Nat
      /\ \A i \in 1..Len(r.toHome) : r.toHome[i].gen \in Nat
  BY <1>0, Numbers
<1>3. CASE home.table = None
  <2> DEFINE n == [r EXCEPT !.kick = FALSE]
  <2>1. sess' = [sess EXCEPT ![s] = n]
    BY <1>3 DEF WriteRoutes
  <2> HIDE DEF r
  <2>2. n.hs = r.hs /\ n.sent = r.sent /\ n.toGw = r.toGw /\ n.toHome = r.toHome /\ n.kick = FALSE
    BY <1>0 DEF Session
  <2> HIDE DEF n
  <2>3. Ordered(n, home)
    BY <1>1, <2>2 DEF Ordered
  <2>4. Pushed(n, home) /\ (s = gw.session => Answers(n, gw, home)) /\ (s = Current => Confirmed(n, home))
    BY <1>0, <1>1, <2>2, <2>3 DEF Pushed, Answers, Confirmed
  <2> QED BY <1>0, <1>1, <1>3, <2>1, <2>4, AckOne
<1>4. CASE home.table # None
  <2> DEFINE t == Told(r, m)
             n == [t EXCEPT !.kick = FALSE, !.sent = home.tgen]
  <2>1. sess' = [sess EXCEPT ![s] = n]
    BY <1>4 DEF WriteRoutes
  <2>2. home.run \in Nat /\ home.tgen = home.gen /\ home.table \in Tables /\ 1 <= home.gen
    BY <1>0, <1>4, InvFacts DEF Home, Known, AckInv
  <2>3. m \in Message /\ m.run = home.run /\ m.gen = home.gen /\ m.table = home.table
    BY <1>0, <2>2 DEF Message
  <2> HIDE DEF m, r
  <2>4. /\ Append(r.toGw, m) \in Seq(Message) /\ Len(r.toGw) \in Nat
        /\ \A i \in 1..Len(Append(r.toGw, m)) :
             \/ i \in 1..Len(r.toGw) /\ Append(r.toGw, m)[i] = r.toGw[i]
             \/ i = Len(r.toGw) + 1 /\ Append(r.toGw, m)[i] = m
    BY <1>0, <2>3, AppendFacts
  <2>5. /\ t \in Session /\ t.toHome = r.toHome /\ t.hs = "live"
        /\ t.toGw = IF r.link THEN Append(r.toGw, m) ELSE r.toGw
    BY <1>0, <2>4 DEF Told, Session
  <2> HIDE DEF t
  <2>6. n.hs = "live" /\ n.kick = FALSE /\ n.sent = home.gen /\ n.toHome = r.toHome /\ n.toGw = t.toGw
    BY <2>2, <2>5 DEF Session
  <2> HIDE DEF n
  <2> DEFINE q == n.toGw
  <2>7. \A i \in 1..Len(q) : \/ i \in 1..Len(r.toGw) /\ q[i] = r.toGw[i]
                             \/ i = Len(r.toGw) + 1 /\ q[i] = m
    <3>1. CASE r.link
      BY <2>4, <2>5, <2>6, <3>1
    <3>2. CASE ~r.link
      BY <2>5, <2>6, <3>2
    <3> QED BY <3>1, <3>2
  <2>8. Len(q) \in Nat
    <3>1. q = Append(r.toGw, m) \/ q = r.toGw
      BY <2>5, <2>6
    <3> QED BY <1>0, <2>4, <3>1
  <2> HIDE DEF q
  <2>9. r.sent < home.gen
    BY <1>0, <1>1, <1>4 DEF Ordered
  <2>10. \A i \in 1..Len(q) : IsRoutes(q[i]) =>
           /\ q[i].run = home.run /\ 1 <= q[i].gen /\ q[i].gen <= home.gen
           /\ home.table # None /\ q[i].gen = home.gen => q[i].table = home.table
    <3> SUFFICES ASSUME NEW i \in 1..Len(q), IsRoutes(q[i])
                 PROVE  /\ q[i].run = home.run /\ 1 <= q[i].gen /\ q[i].gen <= home.gen
                        /\ home.table # None /\ q[i].gen = home.gen => q[i].table = home.table
      OBVIOUS
    <3>1. CASE q[i] = m
      BY <1>0, <2>2, <2>3, <3>1
    <3>2. CASE i \in 1..Len(r.toGw) /\ q[i] = r.toGw[i]
      <4>1. /\ q[i].run = home.run /\ 1 <= q[i].gen /\ q[i].gen <= r.sent /\ q[i].gen \in Nat
            /\ home.table # None /\ q[i].gen = home.gen => q[i].table = home.table
        BY <1>1, <1>2, <3>2 DEF Ordered
      <4> DEFINE g == q[i].gen
      <4>2. g \in Nat /\ g <= r.sent
        BY <4>1
      <4> HIDE DEF g
      <4>3. g <= home.gen
        BY <1>0, <1>2, <2>9, <4>2
      <4> QED BY <4>1, <4>3 DEF g
    <3> QED BY <2>7, <3>1, <3>2
  <2>11. ASSUME NEW i \in 1..Len(q), NEW j \in 1..Len(q), i < j, IsRoutes(q[i]), IsRoutes(q[j])
         PROVE  q[i].gen < q[j].gen
    <3>1. i \in 1..Len(r.toGw) /\ q[i] = r.toGw[i]
      <4>1. j \in 1..Len(r.toGw) \/ j = Len(r.toGw) + 1
        BY <2>7
      <4>2. i # Len(r.toGw) + 1
        BY <2>4, <2>8, <2>11, <4>1
      <4> QED BY <2>7, <4>2
    <3>2. CASE j \in 1..Len(r.toGw) /\ q[j] = r.toGw[j]
      BY <1>1, <2>11, <3>1, <3>2 DEF Ordered
    <3>3. CASE q[j] = m
      <4> DEFINE g == q[i].gen
      <4>1. g \in Nat /\ g <= r.sent
        BY <1>1, <1>2, <2>11, <3>1 DEF Ordered
      <4> HIDE DEF g
      <4>2. g < home.gen
        BY <1>0, <1>2, <2>9, <4>1
      <4> QED BY <2>3, <3>3, <4>2 DEF g
    <3> QED BY <2>7, <3>2, <3>3
  <2>12. ASSUME NEW i \in 1..Len(r.toHome)
         PROVE  /\ r.toHome[i].gen <= home.gen /\ r.toHome[i].gen # home.gen
                /\ \A j \in 1..Len(q) : IsRoutes(q[j]) => r.toHome[i].gen < q[j].gen
    <3> DEFINE g == r.toHome[i].gen
    <3>1. g \in Nat /\ g <= r.sent /\ \A j \in 1..Len(r.toGw) : IsRoutes(r.toGw[j]) => g < r.toGw[j].gen
      BY <1>1, <1>2 DEF Ordered
    <3> HIDE DEF g
    <3>2. g < home.gen /\ g <= home.gen /\ g # home.gen
      BY <1>0, <1>2, <2>9, <3>1
    <3>3. \A j \in 1..Len(q) : IsRoutes(q[j]) => g < q[j].gen
      BY <2>3, <2>7, <3>1, <3>2
    <3> QED BY <3>2, <3>3 DEF g
  <2>13. Ordered(n, home)
    <3>1. n.sent <= home.gen /\ ~n.kick
      BY <1>0, <2>6
    <3> QED BY <2>6, <2>10, <2>11, <2>12, <3>1 DEF Ordered, q
  <2>14. Pushed(n, home) /\ Answers(n, gw, home)
    BY <2>6, <2>12, <2>13 DEF Pushed, Answers
  <2>15. s = Current => home.acked < home.gen /\ home.acked # home.gen
    <3>1. s = Current => home.acked <= r.sent
      BY <1>0, <1>1 DEF Confirmed
    <3> QED BY <1>0, <1>2, <2>9, <3>1
  <2>16. s = Current => Confirmed(n, home)
    <3>1. s = Current => \A j \in 1..Len(q) : IsRoutes(q[j]) => home.acked < q[j].gen
      <4>1. s = Current => \A j \in 1..Len(r.toGw) : IsRoutes(r.toGw[j]) => home.acked < r.toGw[j].gen
        BY SMTT(60), <1>0, <1>1 DEF Confirmed
      <4> QED BY <2>3, <2>7, <2>15, <4>1
    <3> QED BY <1>0, <2>6, <3>1 DEF Confirmed, q
  <2> QED BY <1>0, <2>1, <2>14, <2>15, <2>16, AckOne
<1> QED BY <1>3, <1>4

\* The ack of a push says what the gateway took of it, and is newer than the
\* acks before it.
LEMMA AckApplyRoutes ==
  ASSUME TunnelInv, AckInv, NEW s \in Sessions, ApplyRoutes(s)
  PROVE  AckInv'
<1> DEFINE r == sess[s]
           m == Head(r.toGw)
<1>0. /\ home \in Home /\ gw \in Gateway /\ Fit(r) /\ r \in Session /\ r.toGw \in Seq(Message)
      /\ r.toHome \in Seq(Message) /\ r.gs = "live" /\ r.toGw # <<>> /\ UNCHANGED <<home, loops>>
      /\ home.gen \in Nat /\ home.acked \in Nat /\ home.acked <= home.gen
  BY InvFacts DEF Known, Fit, Session, ApplyRoutes, TunnelInv, TypeOK, AckInv, Home
<1>1. CASE ~Takes(s)
  BY <1>0, <1>1, AckLost DEF ApplyRoutes
<1>2. CASE Takes(s)
  <2>1. PICK failed \in SUBSET ((m.table \cap Ports) \ gw.ports) :
          LET bound == (m.table \cap Ports) \ failed IN
          /\ gw' = [gw EXCEPT !.run = m.run, !.gen = m.gen, !.ports = bound,
                              !.table = (m.table \cap Names) \cup bound]
          /\ sess' = [sess EXCEPT ![s] =
               [Answered(sess[s], [type |-> "ack", gen |-> m.gen, errors |-> failed])
                  EXCEPT !.toGw = Tail(@)]]
    BY <1>2 DEF ApplyRoutes
  <2> DEFINE bound == (m.table \cap Ports) \ failed
             x == [type |-> "ack", gen |-> m.gen, errors |-> failed]
             t == Answered(r, x)
             n == [t EXCEPT !.toGw = Tail(t.toGw)]
  <2>2. m \in RoutesMessage /\ IsRoutes(m)
    BY SMTT(60), <1>0, TakenIsNewer
  <2>3. sess' = [sess EXCEPT ![s] = n] /\ gw.session = s
    BY <1>2, <2>1 DEF Takes
  <2>4. /\ Tail(r.toGw) \in Seq(Message) /\ m = r.toGw[1] /\ 1 \in 1..Len(r.toGw)
        /\ \A i \in 1..Len(Tail(r.toGw)) :
             Tail(r.toGw)[i] = r.toGw[i + 1] /\ i + 1 \in 1..Len(r.toGw)
        /\ \A i \in 1..Len(Tail(r.toGw)) : 1 < i + 1
    BY <1>0, TailFacts
  <2>5. /\ Pushed(r, home) /\ (r.hs = "live" => Ordered(r, home)) /\ Answers(r, gw, home)
        /\ s = Current /\ r.hs = "live" => Confirmed(r, home)
    BY <2>3 DEF AckInv, Pushed
  <2>6. /\ r.sent \in Nat
        /\ \A i \in 1..Len(r.toGw) : IsRoutes(r.toGw[i]) => r.toGw[i].gen \in Nat
        /\ r.hs = "live" => \A i \in 1..Len(r.toHome) : r.toHome[i].gen \in Nat
    BY <1>0, Numbers
  <2> HIDE DEF m
  <2>7. m.run \in Nat /\ m.gen \in Nat /\ m.table \in Tables /\ m.table \subseteq Things
    BY <2>2, TunnelAssumption DEF RoutesMessage
  <2>8. x \in Message /\ x.gen = m.gen /\ x.errors = failed
    BY <2>7 DEF Message
  <2>9. gw'.session = s /\ gw'.run = m.run /\ gw'.gen = m.gen /\ gw'.ports = bound
        /\ gw'.table = (m.table \cap Names) \cup bound
    <3> HIDE DEF bound
    <3>1. gw' = [gw EXCEPT !.run = m.run, !.gen = m.gen, !.ports = bound,
                           !.table = (m.table \cap Names) \cup bound]
      BY <2>1 DEF bound
    <3> QED BY <1>0, <2>3, <3>1 DEF Gateway
  <2> HIDE DEF x, r
  <2>10. /\ Append(r.toHome, x) \in Seq(Message)
         /\ \A i \in 1..Len(Append(r.toHome, x)) :
              \/ i \in 1..Len(r.toHome) /\ Append(r.toHome, x)[i] = r.toHome[i]
              \/ i = Len(r.toHome) + 1 /\ Append(r.toHome, x)[i] = x
    BY <1>0, <2>8, AppendFacts
  <2>11. /\ t \in Session /\ t.toGw = r.toGw /\ t.hs = r.hs /\ t.sent = r.sent /\ t.kick = r.kick
         /\ t.toHome = r.toHome \/ t.toHome = Append(r.toHome, x)
    BY <1>0, <2>10 DEF Answered, Session
  <2> HIDE DEF t
  <2>12. /\ n.hs = r.hs /\ n.sent = r.sent /\ n.kick = r.kick /\ n.toHome = t.toHome
         /\ n.toGw = Tail(r.toGw)
    BY <2>11 DEF Session
  <2> HIDE DEF n
  <2>13. \A i \in 1..Len(n.toHome) : (\E k \in 1..Len(r.toHome) : n.toHome[i] = r.toHome[k]) \/ n.toHome[i] = x
    <3>1. CASE n.toHome = r.toHome
      BY <3>1
    <3>2. CASE n.toHome = Append(r.toHome, x)
      BY <2>10, <3>2
    <3> QED BY <2>11, <2>12, <3>1, <3>2
  <2>14. \A i \in 1..Len(n.toGw) :
           n.toGw[i] = r.toGw[i + 1] /\ i + 1 \in 1..Len(r.toGw) /\ 1 < i + 1
    BY <2>4, <2>12
  <2>15. r.hs \notin {"control", "hello"}
    <3>1. r.hs \in {"control", "hello"} => ~IsRoutes(m)
      BY <2>4, <2>5 DEF Pushed, Early
    <3> QED BY <2>2, <3>1
  <2>16. ASSUME r.hs = "live"
         PROVE  /\ m.run = home.run /\ 1 <= m.gen /\ m.gen <= r.sent /\ r.sent <= home.gen
                /\ home.table # None /\ m.gen = home.gen => m.table = home.table
                /\ \A i \in 1..Len(r.toHome) : r.toHome[i].gen < m.gen
                /\ \A j \in 1..Len(n.toGw) : IsRoutes(n.toGw[j]) => m.gen < n.toGw[j].gen
    <3>1. Ordered(r, home)
      BY <2>5, <2>16
    <3>2. \A j \in 1..Len(n.toGw) : IsRoutes(n.toGw[j]) => m.gen < n.toGw[j].gen
      BY <2>2, <2>4, <2>14, <3>1 DEF Ordered
    <3> QED BY <2>2, <2>4, <3>1, <3>2 DEF Ordered
  <2>17. ASSUME r.hs = "live" PROVE Ordered(n, home)
    <3>1. Ordered(r, home)
      BY <2>5, <2>17
    <3>2. n.sent <= home.gen /\ (n.kick /\ home.table # None => n.sent < home.gen)
      BY <2>12, <3>1 DEF Ordered
    <3>3. \A i \in 1..Len(n.toGw) : IsRoutes(n.toGw[i]) =>
            /\ n.toGw[i].run = home.run /\ 1 <= n.toGw[i].gen /\ n.toGw[i].gen <= n.sent
            /\ home.table # None /\ n.toGw[i].gen = home.gen => n.toGw[i].table = home.table
      BY <2>12, <2>14, <3>1 DEF Ordered
    <3>4. ASSUME NEW i \in 1..Len(n.toGw), NEW j \in 1..Len(n.toGw), i < j,
                 IsRoutes(n.toGw[i]), IsRoutes(n.toGw[j])
          PROVE  n.toGw[i].gen < n.toGw[j].gen
      <4>1. i + 1 < j + 1
        BY <3>4
      <4> QED BY <2>14, <3>1, <3>4, <4>1 DEF Ordered
    <3>5. ASSUME NEW i \in 1..Len(n.toHome)
          PROVE  /\ n.toHome[i].gen <= n.sent
                 /\ \A j \in 1..Len(n.toGw) : IsRoutes(n.toGw[j]) => n.toHome[i].gen < n.toGw[j].gen
      <4>1. CASE n.toHome[i] = x
        BY <2>8, <2>12, <2>16, <2>17, <4>1
      <4>2. CASE \E k \in 1..Len(r.toHome) : n.toHome[i] = r.toHome[k]
        BY <2>12, <2>14, <3>1, <4>2 DEF Ordered
      <4> QED BY <2>13, <4>1, <4>2
    <3> QED BY <3>2, <3>3, <3>4, <3>5 DEF Ordered
  <2>18. Pushed(n, home)
    BY <2>12, <2>15, <2>17 DEF Pushed
  <2>19. r.hs = "live" => Serves(gw', home, m.gen, failed)
    <3> SUFFICES ASSUME r.hs = "live", home.table # None, m.gen = home.gen
                 PROVE  gw'.table = home.table \ failed /\ failed = (home.table \cap Ports) \ gw'.ports
      BY <2>9, <2>16 DEF Serves
    <3>1. m.table = home.table
      BY <2>16
    <3>2. failed \subseteq m.table \cap Ports /\ m.table \subseteq Names \cup Ports /\ Names \cap Ports = {}
      BY <2>7, TunnelAssumption DEF Things
    <3> HIDE DEF m
    <3>3. (m.table \cap Names) \cup bound = m.table \ failed
      BY <3>2
    <3>4. failed = (m.table \cap Ports) \ bound
      BY <3>2
    <3> QED BY <2>9, <3>1, <3>3, <3>4
  <2>20. Answers(n, gw', home)
    <3> SUFFICES ASSUME r.hs = "live", NEW i \in 1..Len(n.toHome), n.toHome[i].gen = r.sent
                 PROVE  Serves(gw', home, r.sent, n.toHome[i].errors)
      BY <2>12 DEF Answers
    <3>1. n.toHome[i] = x
      <4>1. ASSUME NEW k \in 1..Len(r.toHome) PROVE r.toHome[k].gen # r.sent
        <5> DEFINE g == r.toHome[k].gen
        <5>1. g \in Nat /\ g < m.gen /\ m.gen <= r.sent
          BY <2>6, <2>16
        <5> HIDE DEF g
        <5>2. g # r.sent
          BY <2>6, <2>7, <5>1
        <5> QED BY <5>2 DEF g
      <4> QED BY <2>13, <4>1
    <3> QED BY <2>8, <2>19, <3>1
  <2>21. s = Current /\ r.hs = "live" => Confirmed(n, home) /\ home.acked # home.gen
    <3> SUFFICES ASSUME s = Current, r.hs = "live" PROVE Confirmed(n, home) /\ home.acked # home.gen
      OBVIOUS
    <3>1. /\ home.acked <= r.sent
          /\ \A j \in 1..Len(r.toGw) : IsRoutes(r.toGw[j]) => home.acked < r.toGw[j].gen
      BY <2>5 DEF Confirmed
    <3>2. Confirmed(n, home)
      BY <2>12, <2>14, <3>1 DEF Confirmed
    <3>3. home.acked < m.gen
      BY <2>2, <2>4, <3>1
    <3>4. home.acked # home.gen
      BY <1>0, <2>6, <2>7, <2>16, <3>3
    <3> QED BY <3>2, <3>4
  <2> QED BY <1>0, <2>3, <2>9, <2>12, <2>18, <2>20, <2>21, AckOne
<1> QED BY <1>1, <1>2

\* A loop that starts has no connection.
LEMMA StartedAlone ==
  ASSUME TunnelInv, NEW h, Known(h), Started(h)
  PROVE  /\ Current' = None /\ home'.acked = h.acked /\ home'.errors = h.errors
         /\ home'.run = h.run /\ home'.gen = h.gen /\ home'.table = h.table
<1> DEFINE want == Want(h.def, h.table)
<1>1. h \in Home /\ loops \in [Loops -> Loop]
  BY InvFacts DEF Known
<1>2. CASE want # "connecting"
  <2>1. home' = [h EXCEPT !.loop = None, !.state = want]
    BY <1>2 DEF Started
  <2> HIDE DEF want
  <2> QED BY <1>1, <2>1 DEF Home, Current
<1>3. CASE want = "connecting"
  <2>1. PICK l \in FreeLoops :
          /\ home' = [h EXCEPT !.loop = l, !.state = want]
          /\ loops' = [loops EXCEPT ![l] = [pc |-> "dial", sess |-> None]]
    BY <1>3 DEF Started
  <2>2. l \in Loops
    BY DEF FreeLoops
  <2>3. loops'[l].sess = None
    BY <1>1, <2>1, <2>2
  <2> HIDE DEF want
  <2>4. /\ home'.loop = l /\ home'.acked = h.acked /\ home'.errors = h.errors
        /\ home'.run = h.run /\ home'.gen = h.gen /\ home'.table = h.table
    BY <1>1, <2>1 DEF Home
  <2> QED BY <2>3, <2>4 DEF Current
<1> QED BY <1>2, <1>3

\* Another table is of a newer generation.
LEMMA WithRoutesMoves ==
  ASSUME NEW h \in Home, NEW def, NEW t, h.table # None => 1 <= h.gen
  PROVE  /\ Moves(h, WithRoutes(h, def, t))
         /\ WithRoutes(h, def, t).acked = h.acked /\ WithRoutes(h, def, t).errors = h.errors
         /\ WithRoutes(h, def, t).loop = h.loop
         /\ WithRoutes(h, def, t).table # None => 1 <= WithRoutes(h, def, t).gen
         /\ WithRoutes(h, def, t).table # None /\ WithRoutes(h, def, t).tgen # h.tgen =>
              h.gen < WithRoutes(h, def, t).gen
<1> DEFINE w == WithRoutes(h, def, t)
<1>1. h.gen \in Nat
  BY DEF Home
<1>2. CASE t = None
  <2>1. w = [h EXCEPT !.def = def, !.table = None, !.tgen = 0]
    BY <1>2 DEF WithRoutes
  <2>2. /\ w.run = h.run /\ w.gen = h.gen /\ w.table = None /\ w.acked = h.acked /\ w.errors = h.errors
        /\ w.loop = h.loop
    BY <2>1 DEF Home
  <2> QED BY <1>1, <2>2 DEF Moves
<1>3. CASE t # None /\ h.table = t
  <2>1. w = [h EXCEPT !.def = def]
    BY <1>3 DEF WithRoutes
  <2>2. /\ w.run = h.run /\ w.gen = h.gen /\ w.tgen = h.tgen /\ w.table = h.table
        /\ w.acked = h.acked /\ w.errors = h.errors /\ w.loop = h.loop
    BY <2>1 DEF Home
  <2> QED BY <1>1, <2>2 DEF Moves
<1>4. CASE t # None /\ h.table # t
  <2>1. w = [h EXCEPT !.def = def, !.table = t, !.gen = h.gen + 1, !.tgen = h.gen + 1]
    BY <1>4 DEF WithRoutes
  <2>2. /\ w.run = h.run /\ w.gen = h.gen + 1 /\ w.acked = h.acked /\ w.errors = h.errors
        /\ w.loop = h.loop
    BY <2>1 DEF Home
  <2>3. 1 <= h.gen + 1 /\ h.gen < h.gen + 1 /\ h.gen <= h.gen + 1 /\ h.gen + 1 # h.gen
    BY <1>1
  <2> HIDE DEF w
  <2> QED BY <2>2, <2>3 DEF Moves, w
<1> QED BY <1>2, <1>3, <1>4

\* A reload kicks the connection there is only for a newer table.
LEMMA AckReload ==
  ASSUME TunnelInv, TunnelInv', AckInv, NEW def \in Defs, NEW t \in Tables \cup {None}, NEW changed \in BOOLEAN,
         Reload(def, t, changed)
  PROVE  AckInv'
<1> DEFINE h    == WithRoutes(home, def, t)
           kept == Want(def, t) = "connecting" /\ home.loop # None /\ ~changed
<1>0. /\ home \in Home /\ home' \in Home /\ sess \in [Sessions -> Session] /\ UNCHANGED gw
      /\ \A q \in Sessions : Fit(sess[q]) /\ Pushed(sess[q], home)
  BY InvFacts DEF Known, TunnelInv, TypeOK, Reload, AckInv
<1>1. /\ Moves(home, h) /\ h.acked = home.acked /\ h.errors = home.errors /\ h.loop = home.loop
      /\ (h.table # None => 1 <= h.gen)
      /\ (h.table # None /\ h.tgen # home.tgen => home.gen < h.gen)
  BY <1>0, WithRoutesMoves DEF AckInv
<1>2. Known(h)
  BY InvFacts, WithRoutesKnown, TunnelAssumption
<1>3. CASE ~kept
  <2>1. Started(h) /\ UNCHANGED sess
    BY <1>3 DEF Reload
  <2> HIDE DEF h
  <2>2. /\ Current' = None /\ home'.acked = h.acked /\ home'.errors = h.errors
        /\ home'.run = h.run /\ home'.gen = h.gen /\ home'.table = h.table
    BY <1>2, <2>1, StartedAlone
  <2>3. Moves(home, home')
    BY <1>1, <2>2 DEF Moves
  <2>4. \A q \in Sessions : Lesser(sess[q], sess'[q], home, home') /\ q # Current'
    BY <1>0, <2>1, <2>2, StaysLess, TunnelAssumption DEF Stays
  <2> QED BY <1>0, <1>1, <2>2, <2>3, <2>4, AckKept
<1>4. CASE kept
  <2> DEFINE s == loops[home.loop].sess
  <2>1. /\ home' = h /\ UNCHANGED loops
        /\ \/ UNCHANGED sess
           \/ h.tgen # home.tgen /\ sess' = [sess EXCEPT ![s].kick = TRUE]
    BY <1>4 DEF Reload
  <2> HIDE DEF h, s
  <2>2. Current' = Current
    BY <1>1, <2>1 DEF Current
  <2>3. ASSUME NEW q \in Sessions PROVE Lesser(sess[q], sess'[q], home, home')
    <3>1. Lesser(sess[q], sess[q], home, home')
      BY <1>0, StaysLess DEF Stays
    <3>2. CASE sess'[q] # sess[q]
      <4> DEFINE n == [sess[q] EXCEPT !.kick = TRUE]
      <4>1. h.tgen # home.tgen /\ sess'[q] = n
        BY <1>0, <2>1, <3>2
      <4>2. /\ n.hs = sess[q].hs /\ n.sent = sess[q].sent /\ n.toGw = sess[q].toGw
            /\ n.toHome = sess[q].toHome
        BY <1>0 DEF Session
      <4>3. home'.table = None \/ home.gen < home'.gen
        BY <1>1, <2>1, <4>1
      <4> HIDE DEF n
      <4>4. Lesser(sess[q], n, home, home')
        <5>1. Early(sess[q]) => Early(n)
          BY <4>2 DEF Early
        <5> QED BY <3>1, <4>2, <4>3, <5>1 DEF Lesser
      <4> QED BY <4>1, <4>4
    <3> QED BY <3>1, <3>2
  <2> QED BY <1>0, <1>1, <2>1, <2>2, <2>3, AckKept
<1> QED BY <1>3, <1>4

\* A process starts with nothing confirmed and no session in hand; one that
\* drains or dies confirms nothing more.
LEMMA AckEngine ==
  ASSUME TunnelInv, TunnelInv', StatusInv, AckInv,
         EngineStarts \/ EngineDies \/ Shutdown \/ Drained \/ Exited
  PROVE  AckInv'
<1>0. /\ home \in Home /\ home' \in Home /\ loops \in [Loops -> Loop]
      /\ \A s \in Sessions : Fit(sess[s]) /\ UNCHANGED gw
  BY InvFacts DEF Known, TunnelInv, TypeOK, EngineStarts, EngineDies, Shutdown, Drained, Exited
<1>1. CASE EngineStarts
  <2> DEFINE f == Fresh(home)
             h == WithRoutes(f, home.def, home.table)
  <2>1. Known(f) /\ f.table = None /\ f.gen = 0 /\ f.acked = 0
    BY <1>0, FreshKnown DEF Fresh, Home
  <2>2. home.def \in AllDefs /\ home.table \in Tables \cup {None} /\ Started(h) /\ UNCHANGED sess
    BY <1>0, <1>1 DEF EngineStarts, Home
  <2> HIDE DEF f
  <2>3. Known(h)
    BY <2>1, <2>2, WithRoutesKnown
  <2>4. h.acked = 0 /\ (h.table # None => 1 <= h.gen) /\ h.gen \in Nat
    BY <2>1, <2>3, WithRoutesMoves DEF Known, Home
  <2> HIDE DEF h
  <2>5. home'.acked = 0 /\ home'.gen = h.gen /\ home'.table = h.table
    BY <2>2, <2>3, <2>4, StartedAlone
  <2>6. \A s \in Sessions : ~Up(sess[s])
    <3>1. \A l \in Loops : loops[l] = NoLoop
      BY <1>1 DEF EngineStarts, StatusInv, LoopsEnd
    <3>2. \A s \in Sessions : Up(sess[s]) =>
            sess[s].loop \in Loops /\ loops[sess[s].loop] = [pc |-> "conn", sess |-> s]
      BY DEF StatusInv, Paired
    <3>3. NoLoop.pc = "none"
      BY DEF NoLoop
    <3> SUFFICES ASSUME NEW s \in Sessions, Up(sess[s]) PROVE FALSE
      OBVIOUS
    <3>4. loops[sess[s].loop] = [pc |-> "conn", sess |-> s] /\ sess[s].loop \in Loops
      BY <3>2
    <3>5. [pc |-> "conn", sess |-> s].pc = "conn"
      OBVIOUS
    <3> QED BY <3>1, <3>3, <3>4, <3>5
  <2>7. \A s \in Sessions : sess'[s].hs # "live" /\ Pushed(sess'[s], home') /\ Answers(sess'[s], gw', home')
    BY <2>2, <2>6 DEF Up, Pushed, Answers
  <2>8. home'.acked <= home'.gen /\ (home'.table # None => 1 <= home'.gen)
    BY <2>4, <2>5
  <2> QED BY <2>7, <2>8 DEF AckInv
<1>2. CASE ~EngineStarts
  <2>1. /\ home'.run = home.run /\ home'.gen = home.gen /\ home'.table = home.table
        /\ home'.acked = home.acked /\ home'.errors = home.errors
        /\ home'.loop \in {home.loop, None}
    <3>1. home \in Home /\ (EngineDies \/ Shutdown \/ Drained \/ Exited)
      BY <1>0, <1>2
    <3>2. \/ \E ph, st : home' = [home EXCEPT !.phase = ph, !.loop = None, !.state = st]
          \/ \E ph : home' = [home EXCEPT !.phase = ph]
          \/ \E ph, lt : home' = [home EXCEPT !.phase = ph, !.late = lt, !.loop = None]
      BY <3>1 DEF EngineDies, Shutdown, Drained, Exited
    <3> QED BY ONLY ZenonT(60), <3>1, <3>2 DEF Home
  <2>2. \A s \in Sessions : Stays(sess[s], sess'[s])
    <3>1. CASE EngineDies
      <4>1. \A s \in Sessions : ~Up(sess'[s])
        BY <1>0, <3>1, ClosedUp DEF EngineDies
      <4> QED BY <4>1 DEF Stays
    <3>2. CASE UNCHANGED sess
      BY <3>2 DEF Stays
    <3> QED BY <1>2, <3>1, <3>2 DEF Shutdown, Drained, Exited
  <2>3. \A l \in Loops : loops'[l].sess \in {loops[l].sess, None}
    BY <1>2 DEF EngineDies, Shutdown, Drained, Exited, NoLoop
  <2>4. UNCHANGED gw
    BY <1>2 DEF EngineDies, Shutdown, Drained, Exited
  <2> QED BY SMTT(60), <1>0, <2>1, <2>2, <2>3, <2>4, AckQuiet
<1> QED BY <1>1, <1>2

\* Nothing is confirmed to begin with.
LEMMA AckInit == Init => AckInv
<1> SUFFICES ASSUME Init PROVE AckInv
  OBVIOUS
<1>1. \A s \in Sessions : ~Up(sess[s])
  BY NoSessionFit DEF Init, Up
<1>2. \A s \in Sessions : sess[s].hs # "live" /\ Pushed(sess[s], home) /\ Answers(sess[s], gw, home)
  BY <1>1 DEF Up, Pushed, Answers
<1>3. home.acked = 0 /\ home.gen \in {0, 1} /\ (home.table # None => home.gen = 1)
  BY DEF Init
<1>4. home.acked <= home.gen /\ (home.table # None => 1 <= home.gen)
  BY <1>3
<1> QED BY <1>2, <1>4 DEF AckInv

\* Each step keeps acks and pushes in order.
LEMMA AckNext ==
  ASSUME TunnelInv, StatusInv, AckInv, [Next]_vars
  PROVE  AckInv'
<1>0. TunnelInv'
  BY StepInv
<1>1. CASE UNCHANGED <<home, loops, sess, gw>>
  <2>1. Current' = Current
    BY <1>1 DEF Current
  <2> QED BY <1>1, <2>1 DEF AckInv
<1>2. ASSUME NEW s \in Sessions, SessionStep(s) \/ Breaks(s)
      PROVE  AckInv'
  <2>1. CASE ConnEnds(s)
    BY <1>0, <2>1, AckConnOver DEF ConnEnds
  <2>2. CASE GatewayEnds(s) \/ Breaks(s)
    BY <2>2, AckLost DEF GatewayEnds, Breaks
  <2> QED BY <1>0, <1>2, <2>1, <2>2, AckGetControl, AckGetHello, AckGetAck, AckWriteRoutes, AckAttach,
             AckEstablish, AckApplyRoutes DEF SessionStep, HomeReads, Control
<1>3. ASSUME NEW ok \in Versions, GatewayRestarts(ok)
      PROVE  AckInv'
  BY <1>3, AckLost DEF GatewayRestarts
<1>4. ASSUME NEW c \in Clients, ConnStep(c)
      PROVE  AckInv'
  BY <1>1, <1>4 DEF ConnStep, Accept, Open, Count, Handle, Finish
<1>5. CASE UNCHANGED vars
  BY <1>1, <1>5 DEF vars
<1>6. CASE Next
  BY <1>0, <1>2, <1>3, <1>4, <1>6, AckReload, AckEngine, AckLoops DEF Next
<1> QED BY <1>5, <1>6

\* Spec => []AckedIsServed: a connection pushes a generation once and takes the ack of
\* its last push only, and the gateway answers what it read of the session it has:
\* what is said to be confirmed is what the gateway serves, and the port errors are
\* what it does not listen on.
THEOREM AcksAreServed == Spec => []AckedIsServed
<1>1. ASSUME TunnelInv, StatusInv, AckInv PROVE AckedIsServed
  <2> SUFFICES ASSUME Wanted, home.state = "connected", home.acked = home.tgen, gw.session = Current
               PROVE  /\ gw.run = home.run /\ gw.gen = home.tgen
                      /\ gw.table = home.table \ home.errors
                      /\ home.errors = (home.table \cap Ports) \ gw.ports
    BY DEF AckedIsServed
  <2>1. home.phase = "run" /\ Want(home.def, home.table) = "connecting"
    BY DEF Wanted
  <2>2. home.table # None
    <3>1. home.def = "enabled"
      <4>1. home.def \in AllDefs
        BY <1>1, InvFacts DEF Known, Home
      <4> QED BY <2>1, <4>1 DEF Want, AllDefs
    <3> QED BY <2>1, <3>1 DEF Want
  <2>3. home.loop # None /\ Current # None /\ sess[Current].hs = "live"
    BY <1>1, <2>1 DEF StatusInv, StatusIsOwn
  <2>4. Current \in Sessions
    BY <1>1, <2>3, CurrentPaired DEF StatusInv
  <2>5. home.tgen = home.gen
    BY <1>1, <2>2 DEF TunnelInv
  <2>6. Serves(gw, home, home.acked, home.errors)
    BY <1>1, <2>2, <2>3, <2>4, <2>5 DEF AckInv
  <2> QED BY <2>2, <2>5, <2>6 DEF Serves
<1>2. TunnelInv /\ StatusInv /\ [Next]_vars => StatusInv'
  BY StatusNext
<1>3. TunnelInv /\ StatusInv /\ AckInv /\ [Next]_vars => AckInv'
  BY AckNext
<1> QED BY <1>1, <1>2, <1>3, StatusInit, AckInit, Invariant, PTL DEF Spec

-----------------------------------------------------------------------------
(* A stream of the tunnel                                                  *)

\* n data frames, and nothing that is data after them
DataFirst(q, n) ==
    /\ n \in 0..Len(q)
    /\ \A i \in 1..Len(q) : q[i] = "data" <=> i <= n

Has(q, f) == \E i \in 1..Len(q) : q[i] = f

\* A fin comes before what ends the response,
FinFirst(q) == \A i, j \in 1..Len(q) : q[i] \in {"end", "rst"} /\ q[j] = "fin" => j < i

\* and the end of the request before its reset.
EndFirst(q) == \A i \in 1..Len(q) : q[i] = "rst" => \E j \in 1..(i - 1) : q[j] = "end"

Bit(x, v) == IF x = v THEN 1 ELSE 0

WayType == [wire : Seq(S!Frames), body : Seq({"data", "fin"}), over : {None, "eof", "reset"}]

EndType  == [ sent : Nat, eof : BOOLEAN, broken : BOOLEAN, got : Nat, told : {"open", "eof", "closed"} ]
CopyType == [ put : {"read", "write", "eof", "done"}, take : {"read", "write", "done"} ]

GateType == [ wclosed : BOOLEAN, closed : BOOLEAN, aborted : BOOLEAN,
              tx : {"idle", "chunk", "ended", "failed"} ]

ServeType == [ sawEOF : BOOLEAN, wclosed : BOOLEAN, readDone : BOOLEAN, reset : BOOLEAN,
               draining : BOOLEAN, aborted : BOOLEAN, gone : BOOLEAN ]

StreamTypes ==
    /\ ends \in [S!Sides -> EndType]
    /\ copy \in [S!Sides -> CopyType]
    /\ gate \in GateType
    /\ serve \in ServeType
    /\ way \in [S!Ways -> WayType]
    /\ link \in BOOLEAN /\ late \in BOOLEAN

\* What the client sent is at the engine, or on its way there in order.
UpAt(n, m) ==
    /\ DataFirst(way["up"].wire, n) /\ DataFirst(way["up"].body, m)
    /\ way["up"].over # None => n = 0
    /\ gate.tx # "failed" /\ copy["home"].take # "done" /\ (copy["gateway"].put # "done" \/ gate.wclosed)
         => ends["gateway"].sent = ends["home"].got + Bit(copy["home"].take, "write") + m + n
                                   + Bit(gate.tx, "chunk") + Bit(copy["gateway"].put, "write")

UpFlow == \E n, m \in Nat : UpAt(n, m)

\* What the engine sent is at the client, or on its way there in order.
DownAt(n, m) ==
    /\ DataFirst(way["down"].wire, n) /\ DataFirst(way["down"].body, m)
    /\ way["down"].over # None \/ Has(way["down"].body, "fin") => n = 0
    /\ copy["gateway"].take # "done" /\ (copy["home"].put # "done" \/ serve.wclosed)
         => ends["home"].sent = ends["gateway"].got + Bit(copy["gateway"].take, "write") + m + n
                                + Bit(copy["home"].put, "write")

DownFlow == \E n, m \in Nat : DownAt(n, m)

\* What is said of the request's body, and what was told of it
UpEnds ==
    /\ gate.tx = "ended" => gate.wclosed /\ (way["up"].over # None \/ Has(way["up"].wire, "end"))
    /\ gate.wclosed => copy["gateway"].put = "done" /\ ends["gateway"].eof
    /\ gate.aborted => gate.closed /\ gate.tx \in {"ended", "failed"}
    /\ way["up"].over = "eof" \/ Has(way["up"].wire, "end") => gate.tx = "ended"
    /\ way["up"].over = "reset" \/ Has(way["up"].wire, "rst") \/ serve.reset => gate.aborted
    /\ ~Has(way["up"].wire, "fin") /\ ~Has(way["up"].body, "fin")
    /\ gate.closed => ends["gateway"].told = "closed" \/ ~link

\* What is said of the response's
DownEnds ==
    /\ serve.wclosed => copy["home"].put = "done" /\ ends["home"].eof
    /\ Has(way["down"].wire, "fin") \/ Has(way["down"].body, "fin") => serve.wclosed
    /\ Has(way["down"].wire, "rst") \/ Has(way["down"].wire, "end") \/ way["down"].over # None => serve.gone
    /\ Has(way["down"].wire, "end") \/ way["down"].over = "eof" => serve.wclosed
    /\ serve.wclosed => \/ copy["gateway"].take = "done"
                        \/ Has(way["down"].body, "fin")
                        \/ Has(way["down"].wire, "fin")
    /\ way["down"].over # None => ~Has(way["down"].wire, "fin")
    /\ FinFirst(way["down"].wire)
    /\ serve.draining => serve.reset

\* What an end, of the two s, was told
EndOf(s, o) ==
    /\ copy[s].put = "eof" => ends[s].eof
    /\ ends[s].eof => copy[s].put \in {"eof", "done"}
    /\ copy[s].take = "done" => ends[s].told # "open"
    /\ ends[s].told = "eof" => copy[s].take = "done" /\ ends[o].eof /\ ends[s].got = ends[o].sent

Ending ==
    /\ EndOf("gateway", "home") /\ EndOf("home", "gateway")
    /\ serve.sawEOF => copy["home"].take = "done"
    /\ ends["home"].told = "eof" => serve.sawEOF
    /\ ends["gateway"].told = "eof" => serve.wclosed

\* Nothing failed: the stream ends by its two EOFs.
ClosedLast(s, o) ==
    ends[s].told = "closed" => /\ copy[s].put = "done" /\ copy[s].take = "done"
                               /\ ends[o].eof /\ ends[s].got = ends[o].sent

Orderly ==
    /\ ClosedLast("gateway", "home") /\ ClosedLast("home", "gateway")
    /\ ends["home"].told = "closed" => serve.sawEOF
    /\ ends["gateway"].told = "closed" => serve.wclosed
    /\ copy["gateway"].put = "done" => gate.wclosed
    /\ copy["home"].put = "done" => serve.wclosed
    /\ gate.tx # "failed"
    /\ serve.aborted \/ serve.gone => S!Finished
    /\ serve.readDone => serve.sawEOF
    /\ ~Has(way["down"].wire, "rst") /\ way["down"].over # "reset"
    /\ way["up"].over # "reset"
    /\ way["up"].over = "eof" \/ EndFirst(way["up"].wire)

StreamInv ==
    /\ StreamTypes /\ UpFlow /\ DownFlow /\ UpEnds /\ DownEnds /\ Ending
    /\ S!Hurt \/ Orderly

\* A frame sent after n data frames keeps them first.
LEMMA DataAppend ==
    ASSUME NEW X, NEW q \in Seq(X), NEW n, DataFirst(q, n), NEW f \in X
    PROVE  /\ f # "data" => n \in 0..Len(Append(q, f)) /\ DataFirst(Append(q, f), n)
           /\ f = "data" /\ n = Len(q) => n + 1 \in 0..Len(Append(q, f)) /\ DataFirst(Append(q, f), n + 1)
BY DEF DataFirst

\* The first frame is read: one of the n, when it is data.
LEMMA DataTail ==
    ASSUME NEW X, NEW q \in Seq(X), NEW n, DataFirst(q, n), q # <<>>
    PROVE  /\ Head(q) = "data" => n > 0 /\ n - 1 \in 0..Len(Tail(q)) /\ DataFirst(Tail(q), n - 1)
           /\ Head(q) # "data" => n = 0 /\ 0 \in 0..Len(Tail(q)) /\ DataFirst(Tail(q), 0)
BY DEF DataFirst

\* A queue has what it had, and what is put on it;
LEMMA HasAppend ==
    ASSUME NEW X, NEW q \in Seq(X), NEW f \in X, NEW g
    PROVE  Has(Append(q, f), g) <=> Has(q, g) \/ f = g
<1>1. /\ Len(Append(q, f)) = Len(q) + 1
      /\ \A i \in 1..Len(q) : Append(q, f)[i] = q[i]
      /\ Append(q, f)[Len(q) + 1] = f
      /\ Len(q) \in Nat
  OBVIOUS
<1> QED
  BY <1>1 DEF Has

\* and has what is read from it, and what it has then.
LEMMA HasTail ==
    ASSUME NEW X, NEW q \in Seq(X), NEW g, q # <<>>
    PROVE  Has(q, g) <=> Head(q) = g \/ Has(Tail(q), g)
<1>1. /\ Len(Tail(q)) = Len(q) - 1 /\ Head(q) = q[1] /\ Len(q) \in Nat /\ Len(q) > 0
      /\ \A i \in 1..Len(Tail(q)) : Tail(q)[i] = q[i + 1]
  OBVIOUS
<1>2. ASSUME NEW i \in 1..Len(q), q[i] = g, i # 1 PROVE Has(Tail(q), g)
  <2>1. i - 1 \in 1..Len(Tail(q)) /\ Tail(q)[i - 1] = q[i]
    BY <1>1, <1>2
  <2> QED
    BY <1>2 DEF Has
<1>3. Has(Tail(q), g) => Has(q, g)
  <2> SUFFICES ASSUME NEW i \in 1..Len(Tail(q)), Tail(q)[i] = g PROVE Has(q, g)
    BY DEF Has
  <2>1. i + 1 \in 1..Len(q) /\ q[i + 1] = g
    BY <1>1
  <2> QED
    BY <2>1 DEF Has
<1>4. Head(q) = g => Has(q, g)
  BY <1>1 DEF Has
<1> QED
  BY <1>3, <1>4 DEF Has

\* What a sequence of frames is with one more,
Grown(q, f, p) ==
    /\ \A g : Has(p, g) <=> Has(q, g) \/ f = g
    /\ \A n : DataFirst(q, n) =>
         /\ f # "data" => n \in 0..Len(p) /\ DataFirst(p, n)
         /\ f = "data" /\ n = Len(q) => n + 1 \in 0..Len(p) /\ DataFirst(p, n + 1)
    /\ Len(q) \in Nat /\ Len(p) = Len(q) + 1 /\ p[Len(q) + 1] = f
    /\ \A i \in 1..Len(q) : p[i] = q[i]

\* A queue grows by Append
LEMMA Appended ==
    ASSUME NEW X, NEW q \in Seq(X), NEW f \in X
    PROVE  Grown(q, f, Append(q, f))
<1> DEFINE p == Append(q, f)
<1>1. \A g : Has(p, g) <=> Has(q, g) \/ f = g
  BY HasAppend
<1>2. \A n : DataFirst(q, n) =>
        /\ f # "data" => n \in 0..Len(p) /\ DataFirst(p, n)
        /\ f = "data" /\ n = Len(q) => n + 1 \in 0..Len(p) /\ DataFirst(p, n + 1)
  BY DataAppend
<1>3. /\ Len(q) \in Nat /\ Len(p) = Len(q) + 1 /\ p[Len(q) + 1] = f
      /\ \A i \in 1..Len(q) : p[i] = q[i]
  OBVIOUS
<1> QED
  BY <1>1, <1>2, <1>3 DEF Grown

\* and without its first.
Shrunk(q, f, p) ==
    /\ \A g : Has(q, g) <=> f = g \/ Has(p, g)
    /\ \A n : DataFirst(q, n) =>
         /\ f = "data" => n > 0 /\ n - 1 \in 0..Len(p) /\ DataFirst(p, n - 1)
         /\ f # "data" => n = 0 /\ 0 \in 0..Len(p) /\ DataFirst(p, 0)
    /\ Len(q) \in Nat /\ Len(q) > 0 /\ Len(p) = Len(q) - 1 /\ q[1] = f
    /\ \A i \in 1..Len(p) : p[i] = q[i + 1]

\* and shrinks by Tail.
LEMMA Tailed ==
    ASSUME NEW X, NEW q \in Seq(X), q # <<>>
    PROVE  Shrunk(q, Head(q), Tail(q)) /\ Head(q) \in X
<1> DEFINE p == Tail(q)
<1>1. \A g : Has(q, g) <=> Head(q) = g \/ Has(p, g)
  BY HasTail
<1>2. \A n : DataFirst(q, n) =>
        /\ Head(q) = "data" => n > 0 /\ n - 1 \in 0..Len(p) /\ DataFirst(p, n - 1)
        /\ Head(q) # "data" => n = 0 /\ 0 \in 0..Len(p) /\ DataFirst(p, 0)
  BY DataTail
<1>3. /\ Len(q) \in Nat /\ Len(q) > 0 /\ Len(p) = Len(q) - 1 /\ q[1] = Head(q)
      /\ \A i \in 1..Len(p) : p[i] = q[i + 1]
      /\ Head(q) \in X
  OBVIOUS
<1> QED
  BY <1>1, <1>2, <1>3 DEF Shrunk

\* Without a frame that ends it, a direction carries data only.
LEMMA OnlyData ==
    ASSUME NEW X, NEW q \in Seq(X), X \subseteq S!Frames, NEW n, DataFirst(q, n),
           ~Has(q, "fin"), "end" \in X => ~Has(q, "end"), "rst" \in X => ~Has(q, "rst")
    PROVE  n = Len(q)
<1>1. \A i \in 1..Len(q) : q[i] \in X
  OBVIOUS
<1>2. \A i \in 1..Len(q) : q[i] = "data"
  BY <1>1 DEF Has, S!Frames
<1> QED
  BY <1>2 DEF DataFirst

\* A frame is sent,
LEMMA WireGrows ==
    ASSUME way \in [S!Ways -> WayType], NEW w \in S!Ways, NEW f \in S!Frames,
           way' = [way EXCEPT ![w].wire = Append(@, f)]
    PROVE  /\ way' \in [S!Ways -> WayType]
           /\ way'[w].wire = Append(way[w].wire, f) /\ way[w].wire \in Seq(S!Frames)
           /\ way'[w].body = way[w].body /\ way'[w].over = way[w].over
           /\ \A x \in S!Ways : x # w => way'[x] = way[x]
<1>1. way[w] \in WayType /\ way[w].wire \in Seq(S!Frames)
  BY DEF WayType
<1>2. Append(way[w].wire, f) \in Seq(S!Frames)
  BY <1>1
<1>3. [way[w] EXCEPT !.wire = Append(@, f)] \in WayType
  BY <1>1, <1>2 DEF WayType
<1>4. way'[w] = [way[w] EXCEPT !.wire = Append(@, f)]
  OBVIOUS
<1>5. way' \in [S!Ways -> WayType] /\ \A x \in S!Ways : x # w => way'[x] = way[x]
  BY <1>3
<1> QED
  BY <1>1, <1>5

\* or read.
LEMMA BodyShrinks ==
    ASSUME way \in [S!Ways -> WayType], NEW w \in S!Ways, way[w].body # <<>>,
           way' = [way EXCEPT ![w].body = Tail(@)]
    PROVE  /\ way' \in [S!Ways -> WayType]
           /\ way'[w].body = Tail(way[w].body) /\ way[w].body \in Seq({"data", "fin"})
           /\ way'[w].wire = way[w].wire /\ way'[w].over = way[w].over
           /\ \A x \in S!Ways : x # w => way'[x] = way[x]
<1>1. way[w] \in WayType /\ way[w].body \in Seq({"data", "fin"})
  BY DEF WayType
<1>2. Tail(way[w].body) \in Seq({"data", "fin"})
  BY <1>1
<1>3. [way[w] EXCEPT !.body = Tail(@)] \in WayType
  BY <1>1, <1>2 DEF WayType
<1>4. way'[w] = [way[w] EXCEPT !.body = Tail(@)]
  OBVIOUS
<1>5. way' \in [S!Ways -> WayType] /\ \A x \in S!Ways : x # w => way'[x] = way[x]
  BY <1>3
<1> QED
  BY <1>1, <1>5

\* A fin sent before the response ends is before its end, and a reset sent
\* after the request's end is after it;
LEMMA GrownInOrder ==
    ASSUME NEW q, NEW f, NEW p, Grown(q, f, p)
    PROVE  /\ FinFirst(q) /\ (f # "fin" \/ ~(Has(q, "end") \/ Has(q, "rst"))) => FinFirst(p)
           /\ EndFirst(q) /\ (f # "rst" \/ Has(q, "end")) => EndFirst(p)
<1>1. Len(q) \in Nat /\ Len(p) = Len(q) + 1 /\ p[Len(q) + 1] = f /\ \A i \in 1..Len(q) : p[i] = q[i]
  BY DEF Grown
<1>2. ASSUME FinFirst(q), f # "fin" \/ ~(Has(q, "end") \/ Has(q, "rst")) PROVE FinFirst(p)
  <2> SUFFICES ASSUME NEW i \in 1..Len(p), NEW j \in 1..Len(p), p[i] \in {"end", "rst"}, p[j] = "fin"
               PROVE  j < i
    BY DEF FinFirst
  <2>1. CASE i = Len(q) + 1
    BY <1>1, <2>1
  <2>2. CASE i # Len(q) + 1 /\ j # Len(q) + 1
    BY <1>1, <1>2, <2>2 DEF FinFirst
  <2>3. CASE i # Len(q) + 1 /\ j = Len(q) + 1
    BY <1>1, <1>2, <2>3 DEF Has
  <2> QED
    BY <2>1, <2>2, <2>3
<1>3. ASSUME EndFirst(q), f # "rst" \/ Has(q, "end") PROVE EndFirst(p)
  <2> SUFFICES ASSUME NEW i \in 1..Len(p), p[i] = "rst" PROVE \E j \in 1..(i - 1) : p[j] = "end"
    BY DEF EndFirst
  <2>1. PICK j \in 1..Len(q) : j < i /\ q[j] = "end"
    <3>1. CASE i = Len(q) + 1
      BY <1>1, <1>3, <3>1 DEF Has
    <3>2. CASE i # Len(q) + 1
      BY <1>1, <1>3, <3>2 DEF EndFirst
    <3> QED
      BY <3>1, <3>2
  <2> QED
    BY <1>1, <2>1
<1> QED
  BY <1>2, <1>3

\* reading the first frame leaves the fin and the reset where they were.
LEMMA ShrunkInOrder ==
    ASSUME NEW q, NEW f, NEW p, Shrunk(q, f, p)
    PROVE  /\ FinFirst(q) => FinFirst(p) /\ (f \in {"end", "rst"} => ~Has(p, "fin"))
           /\ EndFirst(q) => f # "rst" /\ (f # "end" => EndFirst(p))
<1>1. /\ Len(q) \in Nat /\ Len(q) > 0 /\ Len(p) = Len(q) - 1 /\ q[1] = f
      /\ \A i \in 1..Len(p) : p[i] = q[i + 1]
  BY DEF Shrunk
<1>2. \A i \in 1..Len(p) : i + 1 \in 1..Len(q)
  BY <1>1
<1>3. ASSUME FinFirst(q) PROVE FinFirst(p) /\ (f \in {"end", "rst"} => ~Has(p, "fin"))
  <2>1. ASSUME NEW i \in 1..Len(p), NEW j \in 1..Len(p), p[i] \in {"end", "rst"}, p[j] = "fin"
        PROVE  j < i
    BY SMTT(60), <1>1, <1>3, <2>1 DEF FinFirst
  <2>2. ASSUME f \in {"end", "rst"}, NEW j \in 1..Len(p), p[j] = "fin" PROVE FALSE
    <3>1. 1 \in 1..Len(q) /\ j + 1 \in 1..Len(q) /\ q[j + 1] = "fin"
      BY <1>1, <2>2
    <3> QED
      BY <1>1, <1>3, <2>2, <3>1 DEF FinFirst
  <2> QED
    BY <2>1, <2>2 DEF FinFirst, Has
<1>4. ASSUME EndFirst(q) PROVE f # "rst" /\ (f # "end" => EndFirst(p))
  <2>1. f # "rst"
    BY <1>1, <1>4 DEF EndFirst
  <2>2. ASSUME f # "end", NEW i \in 1..Len(p), p[i] = "rst" PROVE \E j \in 1..(i - 1) : p[j] = "end"
    <3>1. PICK j \in 1..i : q[j] = "end"
      BY <1>1, <1>4, <2>2 DEF EndFirst
    <3>2. j - 1 \in 1..(i - 1) /\ j - 1 \in 1..Len(p) /\ p[j - 1] = q[j]
      BY <1>1, <2>2, <3>1
    <3> QED
      BY <3>1, <3>2
  <2> QED
    BY <2>1, <2>2 DEF EndFirst
<1> QED
  BY <1>3, <1>4

\* A frame arrives.
LEMMA Arrives ==
    ASSUME StreamTypes, NEW w \in S!Ways, S!Arrive(w)
    PROVE  LET q == way[w]
               r == way'[w]
               f == Head(q.wire)
           IN  /\ f \in S!Frames /\ way' \in [S!Ways -> WayType]
               /\ \A x \in S!Ways : x # w => way'[x] = way[x]
               /\ Shrunk(q.wire, f, r.wire)
               /\ f \in {"data", "fin"} => Grown(q.body, f, r.body) /\ r.over = q.over
               /\ f \in {"end", "rst"} => r.body = q.body
               /\ f = "end" => r.over = IF q.over = None THEN "eof" ELSE q.over
               /\ f = "rst" => r.over = IF q.over = None THEN "reset" ELSE q.over
<1> DEFINE q == way[w]
           f == Head(q.wire)
           t == [q EXCEPT !.wire = Tail(@)]
<1>1. q \in WayType /\ q.wire # <<>> /\ q.wire \in Seq(S!Frames) /\ q.body \in Seq({"data", "fin"})
      /\ way \in [S!Ways -> WayType]
  BY DEF StreamTypes, WayType, S!Arrive
<1>2. Shrunk(q.wire, f, Tail(q.wire)) /\ f \in S!Frames /\ Tail(q.wire) \in Seq(S!Frames)
  BY <1>1, Tailed
<1>3. t \in WayType /\ t.wire = Tail(q.wire) /\ t.body = q.body /\ t.over = q.over
  BY <1>1, <1>2 DEF WayType
<1> DEFINE e == CASE f \in {"data", "fin"} -> [t EXCEPT !.body = Append(@, f)]
                  [] f = "end" -> [t EXCEPT !.over = IF @ = None THEN "eof" ELSE @]
                  [] f = "rst" -> [t EXCEPT !.over = IF @ = None THEN "reset" ELSE @]
<1>4. way' = [way EXCEPT ![w] = e]
  BY DEF S!Arrive
<1> HIDE DEF t, q
<1>5. CASE f \in {"data", "fin"}
  <2>1. e = [t EXCEPT !.body = Append(@, f)]
    BY <1>5
  <2>2. Grown(q.body, f, Append(q.body, f)) /\ Append(q.body, f) \in Seq({"data", "fin"})
    BY <1>1, <1>5, Appended
  <2>3. e \in WayType /\ e.wire = Tail(q.wire) /\ e.body = Append(q.body, f) /\ e.over = q.over
    BY ZenonT(60), <2>1, <2>2, <1>3 DEF WayType
  <2>4. way'[w] = e /\ way' \in [S!Ways -> WayType] /\ \A x \in S!Ways : x # w => way'[x] = way[x]
    BY <1>1, <1>4, <2>3
  <2> QED
    BY <1>2, <1>5, <2>2, <2>3, <2>4 DEF q
<1>6. CASE f = "end"
  <2>1. e = [t EXCEPT !.over = IF @ = None THEN "eof" ELSE @]
    BY <1>6
  <2>2. e \in WayType /\ e.wire = Tail(q.wire) /\ e.body = q.body /\ e.over = IF q.over = None THEN "eof" ELSE q.over
    <3> DEFINE v == IF q.over = None THEN "eof" ELSE q.over
    <3>1. v \in {None, "eof", "reset"}
      BY <1>1 DEF WayType
    <3>2. e = [t EXCEPT !.over = v]
      BY <2>1, <1>3
    <3> HIDE DEF v, e
    <3>3. e \in WayType /\ e.wire = t.wire /\ e.body = t.body /\ e.over = v
      BY <3>1, <3>2, <1>3 DEF WayType
    <3> QED
      BY <3>3, <1>3 DEF v
  <2>3. way'[w] = e /\ way' \in [S!Ways -> WayType] /\ \A x \in S!Ways : x # w => way'[x] = way[x]
    BY <1>1, <1>4, <2>2
  <2> QED
    BY <1>2, <1>6, <2>2, <2>3 DEF q
<1>7. CASE f = "rst"
  <2>1. e = [t EXCEPT !.over = IF @ = None THEN "reset" ELSE @]
    BY <1>7
  <2>2. e \in WayType /\ e.wire = Tail(q.wire) /\ e.body = q.body /\ e.over = IF q.over = None THEN "reset" ELSE q.over
    <3> DEFINE v == IF q.over = None THEN "reset" ELSE q.over
    <3>1. v \in {None, "eof", "reset"}
      BY <1>1 DEF WayType
    <3>2. e = [t EXCEPT !.over = v]
      BY <2>1, <1>3
    <3> HIDE DEF v, e
    <3>3. e \in WayType /\ e.wire = t.wire /\ e.body = t.body /\ e.over = v
      BY <3>1, <3>2, <1>3 DEF WayType
    <3> QED
      BY <3>3, <1>3 DEF v
  <2>3. way'[w] = e /\ way' \in [S!Ways -> WayType] /\ \A x \in S!Ways : x # w => way'[x] = way[x]
    BY <1>1, <1>4, <2>2
  <2> QED
    BY <1>2, <1>7, <2>2, <2>3 DEF q
<1> QED
  BY <1>2, <1>5, <1>6, <1>7 DEF S!Frames

\* An end sends a chunk: its copy into the stream has it to write,
LEMMA SendKeeps ==
    ASSUME StreamInv, NEW s \in S!Sides, S!Send(s)
    PROVE  StreamInv'
<1>1. /\ StreamTypes /\ UpFlow /\ DownFlow /\ UpEnds /\ DownEnds /\ Ending
      /\ S!Hurt \/ Orderly
  BY DEF StreamInv
<1> PICK n, m \in Nat : UpAt(n, m)
  BY <1>1 DEF UpFlow
<1> PICK k, l \in Nat : DownAt(k, l)
  BY <1>1 DEF DownFlow
<1>2. CASE s = "gateway"
  <2>1. [ends["gateway"] EXCEPT !.sent = @ + 1] \in EndType
    <3>1. ends["gateway"] \in EndType
      BY <1>1 DEF StreamTypes, S!Sides
    <3> QED
      BY <3>1 DEF EndType
  <2>2. /\ ends'["gateway"] = [ends["gateway"] EXCEPT !.sent = @ + 1]
        /\ ends'["home"] = ends["home"]
        /\ ends' \in [S!Sides -> EndType]
    BY <1>1, <1>2, <2>1 DEF S!Send, StreamTypes
  <2>3. [copy["gateway"] EXCEPT !.put = "write"] \in CopyType
    <3>1. copy["gateway"] \in CopyType
      BY <1>1 DEF StreamTypes, S!Sides
    <3> QED
      BY <3>1 DEF CopyType
  <2>4. /\ copy'["gateway"] = [copy["gateway"] EXCEPT !.put = "write"]
        /\ copy'["home"] = copy["home"]
        /\ copy' \in [S!Sides -> CopyType]
    BY <1>1, <1>2, <2>3 DEF S!Send, StreamTypes
  <2>5. /\ copy["gateway"].put = "read"
        /\ UNCHANGED <<gate, serve, way, link, late>>
    BY <1>2 DEF S!Send
  <2>6. StreamTypes'
    <3>1. gate' \in GateType
      BY <1>1, <2>2, <2>4, <2>5 DEF StreamTypes, GateType
    <3>2. serve' \in ServeType
      BY <1>1, <2>2, <2>4, <2>5 DEF StreamTypes, ServeType
    <3> QED
      BY <1>1, <2>2, <2>4, <2>5, <3>1, <3>2 DEF StreamTypes
  <2>7. UpEnds'
    BY <1>1, <2>2, <2>4, <2>5 DEF UpEnds
  <2>8. DownEnds'
    BY <1>1, <2>2, <2>4, <2>5 DEF DownEnds
  <2>9. Ending'
    BY <1>1, <2>2, <2>4, <2>5 DEF Ending, EndOf
  <2>10. n \in Nat /\ m \in Nat /\ UpAt(n, m)'
    BY SMTT(60), <1>1, <2>2, <2>4, <2>5 DEF StreamTypes, EndType, CopyType, WayType, S!Sides, S!Ways, UpAt,
       UpEnds, DownEnds, Ending, EndOf, Bit
  <2>11. k \in Nat /\ l \in Nat /\ DownAt(k, l)'
    BY <1>1, <2>2, <2>4, <2>5 DEF DownAt, DownEnds
  <2>12. S!Hurt' \/ Orderly'
    BY SMTT(60), <1>1, <2>2, <2>4, <2>5 DEF StreamTypes, EndType, CopyType, WayType, S!Sides, S!Ways,
       Orderly, ClosedLast, UpEnds, DownEnds, Ending, EndOf, S!Hurt, S!Finished
  <2> QED
    BY <2>6, <2>7, <2>8, <2>9, <2>10, <2>11, <2>12 DEF StreamInv, UpFlow, DownFlow
<1>3. CASE s = "home"
  <2>1. [ends["home"] EXCEPT !.sent = @ + 1] \in EndType
    <3>1. ends["home"] \in EndType
      BY <1>1 DEF StreamTypes, S!Sides
    <3> QED
      BY <3>1 DEF EndType
  <2>2. /\ ends'["home"] = [ends["home"] EXCEPT !.sent = @ + 1]
        /\ ends'["gateway"] = ends["gateway"]
        /\ ends' \in [S!Sides -> EndType]
    BY <1>1, <1>3, <2>1 DEF S!Send, StreamTypes
  <2>3. [copy["home"] EXCEPT !.put = "write"] \in CopyType
    <3>1. copy["home"] \in CopyType
      BY <1>1 DEF StreamTypes, S!Sides
    <3> QED
      BY <3>1 DEF CopyType
  <2>4. /\ copy'["home"] = [copy["home"] EXCEPT !.put = "write"]
        /\ copy'["gateway"] = copy["gateway"]
        /\ copy' \in [S!Sides -> CopyType]
    BY <1>1, <1>3, <2>3 DEF S!Send, StreamTypes
  <2>5. /\ copy["home"].put = "read"
        /\ UNCHANGED <<gate, serve, way, link, late>>
    BY <1>3 DEF S!Send
  <2>6. StreamTypes'
    <3>1. gate' \in GateType
      BY <1>1, <2>2, <2>4, <2>5 DEF StreamTypes, GateType
    <3>2. serve' \in ServeType
      BY <1>1, <2>2, <2>4, <2>5 DEF StreamTypes, ServeType
    <3> QED
      BY <1>1, <2>2, <2>4, <2>5, <3>1, <3>2 DEF StreamTypes
  <2>7. UpEnds'
    BY <1>1, <2>2, <2>4, <2>5 DEF UpEnds
  <2>8. DownEnds'
    BY <1>1, <2>2, <2>4, <2>5 DEF DownEnds
  <2>9. Ending'
    BY <1>1, <2>2, <2>4, <2>5 DEF Ending, EndOf
  <2>10. n \in Nat /\ m \in Nat /\ UpAt(n, m)'
    BY <1>1, <2>2, <2>4, <2>5 DEF UpAt, UpEnds
  <2>11. k \in Nat /\ l \in Nat /\ DownAt(k, l)'
    BY SMTT(60), <1>1, <2>2, <2>4, <2>5 DEF StreamTypes, EndType, CopyType, WayType, S!Sides, S!Ways,
       DownAt, DownEnds, UpEnds, Ending, EndOf, Bit
  <2>12. S!Hurt' \/ Orderly'
    BY SMTT(60), <1>1, <2>2, <2>4, <2>5 DEF StreamTypes, EndType, CopyType, WayType, S!Sides, S!Ways,
       Orderly, ClosedLast, UpEnds, DownEnds, Ending, EndOf, S!Hurt, S!Finished
  <2> QED
    BY <2>6, <2>7, <2>8, <2>9, <2>10, <2>11, <2>12 DEF StreamInv, UpFlow, DownFlow
<1> QED
  BY <1>2, <1>3 DEF S!Sides

\* sends an EOF: what it sent is all there is,
LEMMA HalfCloseKeeps ==
    ASSUME StreamInv, NEW s \in S!Sides, S!HalfClose(s)
    PROVE  StreamInv'
<1>1. /\ StreamTypes /\ UpFlow /\ DownFlow /\ UpEnds /\ DownEnds /\ Ending
      /\ S!Hurt \/ Orderly
  BY DEF StreamInv
<1> PICK n, m \in Nat : UpAt(n, m)
  BY <1>1 DEF UpFlow
<1> PICK k, l \in Nat : DownAt(k, l)
  BY <1>1 DEF DownFlow
<1>2. CASE s = "gateway"
  <2>1. [ends["gateway"] EXCEPT !.eof = TRUE] \in EndType
    <3>1. ends["gateway"] \in EndType
      BY <1>1 DEF StreamTypes, S!Sides
    <3> QED
      BY <3>1 DEF EndType
  <2>2. /\ ends'["gateway"] = [ends["gateway"] EXCEPT !.eof = TRUE]
        /\ ends'["home"] = ends["home"]
        /\ ends' \in [S!Sides -> EndType]
    BY <1>1, <1>2, <2>1 DEF S!HalfClose, StreamTypes
  <2>3. [copy["gateway"] EXCEPT !.put = "eof"] \in CopyType
    <3>1. copy["gateway"] \in CopyType
      BY <1>1 DEF StreamTypes, S!Sides
    <3> QED
      BY <3>1 DEF CopyType
  <2>4. /\ copy'["gateway"] = [copy["gateway"] EXCEPT !.put = "eof"]
        /\ copy'["home"] = copy["home"]
        /\ copy' \in [S!Sides -> CopyType]
    BY <1>1, <1>2, <2>3 DEF S!HalfClose, StreamTypes
  <2>5. /\ copy["gateway"].put = "read"
        /\ UNCHANGED <<gate, serve, way, link, late>>
    BY <1>2 DEF S!HalfClose
  <2>6. StreamTypes'
    <3>1. gate' \in GateType
      BY <1>1, <2>2, <2>4, <2>5 DEF StreamTypes, GateType
    <3>2. serve' \in ServeType
      BY <1>1, <2>2, <2>4, <2>5 DEF StreamTypes, ServeType
    <3> QED
      BY <1>1, <2>2, <2>4, <2>5, <3>1, <3>2 DEF StreamTypes
  <2>7. UpEnds'
    BY <1>1, <2>2, <2>4, <2>5 DEF UpEnds
  <2>8. DownEnds'
    BY <1>1, <2>2, <2>4, <2>5 DEF DownEnds
  <2>9. Ending'
    BY <1>1, <2>2, <2>4, <2>5 DEF Ending, EndOf
  <2>10. n \in Nat /\ m \in Nat /\ UpAt(n, m)'
    BY <1>1, <2>2, <2>4, <2>5 DEF UpAt, UpEnds, DownEnds, Bit
  <2>11. k \in Nat /\ l \in Nat /\ DownAt(k, l)'
    BY <1>1, <2>2, <2>4, <2>5 DEF DownAt, DownEnds
  <2>12. S!Hurt' \/ Orderly'
    BY SMTT(60), <1>1, <2>2, <2>4, <2>5 DEF StreamTypes, EndType, CopyType, WayType, S!Sides, S!Ways,
       Orderly, ClosedLast, UpEnds, DownEnds, Ending, EndOf, S!Hurt, S!Finished
  <2> QED
    BY <2>6, <2>7, <2>8, <2>9, <2>10, <2>11, <2>12 DEF StreamInv, UpFlow, DownFlow
<1>3. CASE s = "home"
  <2>1. [ends["home"] EXCEPT !.eof = TRUE] \in EndType
    <3>1. ends["home"] \in EndType
      BY <1>1 DEF StreamTypes, S!Sides
    <3> QED
      BY <3>1 DEF EndType
  <2>2. /\ ends'["home"] = [ends["home"] EXCEPT !.eof = TRUE]
        /\ ends'["gateway"] = ends["gateway"]
        /\ ends' \in [S!Sides -> EndType]
    BY <1>1, <1>3, <2>1 DEF S!HalfClose, StreamTypes
  <2>3. [copy["home"] EXCEPT !.put = "eof"] \in CopyType
    <3>1. copy["home"] \in CopyType
      BY <1>1 DEF StreamTypes, S!Sides
    <3> QED
      BY <3>1 DEF CopyType
  <2>4. /\ copy'["home"] = [copy["home"] EXCEPT !.put = "eof"]
        /\ copy'["gateway"] = copy["gateway"]
        /\ copy' \in [S!Sides -> CopyType]
    BY <1>1, <1>3, <2>3 DEF S!HalfClose, StreamTypes
  <2>5. /\ copy["home"].put = "read"
        /\ UNCHANGED <<gate, serve, way, link, late>>
    BY <1>3 DEF S!HalfClose
  <2>6. StreamTypes'
    <3>1. gate' \in GateType
      BY <1>1, <2>2, <2>4, <2>5 DEF StreamTypes, GateType
    <3>2. serve' \in ServeType
      BY <1>1, <2>2, <2>4, <2>5 DEF StreamTypes, ServeType
    <3> QED
      BY <1>1, <2>2, <2>4, <2>5, <3>1, <3>2 DEF StreamTypes
  <2>7. UpEnds'
    BY <1>1, <2>2, <2>4, <2>5 DEF UpEnds
  <2>8. DownEnds'
    BY <1>1, <2>2, <2>4, <2>5 DEF DownEnds
  <2>9. Ending'
    BY <1>1, <2>2, <2>4, <2>5 DEF Ending, EndOf
  <2>10. n \in Nat /\ m \in Nat /\ UpAt(n, m)'
    BY <1>1, <2>2, <2>4, <2>5 DEF UpAt, UpEnds
  <2>11. k \in Nat /\ l \in Nat /\ DownAt(k, l)'
    BY <1>1, <2>2, <2>4, <2>5 DEF DownAt, DownEnds, UpEnds, Bit
  <2>12. S!Hurt' \/ Orderly'
    BY SMTT(60), <1>1, <2>2, <2>4, <2>5 DEF StreamTypes, EndType, CopyType, WayType, S!Sides, S!Ways,
       Orderly, ClosedLast, UpEnds, DownEnds, Ending, EndOf, S!Hurt, S!Finished
  <2> QED
    BY <2>6, <2>7, <2>8, <2>9, <2>10, <2>11, <2>12 DEF StreamInv, UpFlow, DownFlow
<1> QED
  BY <1>2, <1>3 DEF S!Sides

\* or breaks, and from then on something has failed.
LEMMA BreakKeeps ==
    ASSUME StreamInv, NEW s \in S!Sides, S!Break(s)
    PROVE  StreamInv'
<1>1. /\ StreamTypes /\ UpFlow /\ DownFlow /\ UpEnds /\ DownEnds /\ Ending
      /\ S!Hurt \/ Orderly
  BY DEF StreamInv
<1> PICK n, m \in Nat : UpAt(n, m)
  BY <1>1 DEF UpFlow
<1> PICK k, l \in Nat : DownAt(k, l)
  BY <1>1 DEF DownFlow
<1>2. CASE s = "gateway"
  <2>1. [ends["gateway"] EXCEPT !.broken = TRUE] \in EndType
    <3>1. ends["gateway"] \in EndType
      BY <1>1 DEF StreamTypes, S!Sides
    <3> QED
      BY <3>1 DEF EndType
  <2>2. /\ ends'["gateway"] = [ends["gateway"] EXCEPT !.broken = TRUE]
        /\ ends'["home"] = ends["home"]
        /\ ends' \in [S!Sides -> EndType]
    BY <1>1, <1>2, <2>1 DEF S!Break, StreamTypes
  <2>3. UNCHANGED <<copy, gate, serve, way, link, late>>
    BY <1>2 DEF S!Break
  <2>4. StreamTypes'
    <3>1. gate' \in GateType
      BY <1>1, <2>2, <2>3 DEF StreamTypes, GateType
    <3>2. serve' \in ServeType
      BY <1>1, <2>2, <2>3 DEF StreamTypes, ServeType
    <3> QED
      BY <1>1, <2>2, <2>3, <3>1, <3>2 DEF StreamTypes
  <2>5. UpEnds'
    BY <1>1, <2>2, <2>3 DEF UpEnds
  <2>6. DownEnds'
    BY <1>1, <2>2, <2>3 DEF DownEnds
  <2>7. Ending'
    BY <1>1, <2>2, <2>3 DEF Ending, EndOf
  <2>8. n \in Nat /\ m \in Nat /\ UpAt(n, m)'
    BY <1>1, <2>2, <2>3 DEF UpAt, UpEnds
  <2>9. k \in Nat /\ l \in Nat /\ DownAt(k, l)'
    BY <1>1, <2>2, <2>3 DEF DownAt, DownEnds
  <2>10. S!Hurt' \/ Orderly'
    BY <1>1, <2>2, <2>3 DEF StreamTypes, EndType, CopyType, WayType, S!Sides, S!Ways, Orderly,
       ClosedLast, UpEnds, DownEnds, Ending, EndOf, S!Hurt
  <2> QED
    BY <2>4, <2>5, <2>6, <2>7, <2>8, <2>9, <2>10 DEF StreamInv, UpFlow, DownFlow
<1>3. CASE s = "home"
  <2>1. [ends["home"] EXCEPT !.broken = TRUE] \in EndType
    <3>1. ends["home"] \in EndType
      BY <1>1 DEF StreamTypes, S!Sides
    <3> QED
      BY <3>1 DEF EndType
  <2>2. /\ ends'["home"] = [ends["home"] EXCEPT !.broken = TRUE]
        /\ ends'["gateway"] = ends["gateway"]
        /\ ends' \in [S!Sides -> EndType]
    BY <1>1, <1>3, <2>1 DEF S!Break, StreamTypes
  <2>3. UNCHANGED <<copy, gate, serve, way, link, late>>
    BY <1>3 DEF S!Break
  <2>4. StreamTypes'
    <3>1. gate' \in GateType
      BY <1>1, <2>2, <2>3 DEF StreamTypes, GateType
    <3>2. serve' \in ServeType
      BY <1>1, <2>2, <2>3 DEF StreamTypes, ServeType
    <3> QED
      BY <1>1, <2>2, <2>3, <3>1, <3>2 DEF StreamTypes
  <2>5. UpEnds'
    BY <1>1, <2>2, <2>3 DEF UpEnds
  <2>6. DownEnds'
    BY <1>1, <2>2, <2>3 DEF DownEnds
  <2>7. Ending'
    BY <1>1, <2>2, <2>3 DEF Ending, EndOf
  <2>8. n \in Nat /\ m \in Nat /\ UpAt(n, m)'
    BY <1>1, <2>2, <2>3 DEF UpAt, UpEnds
  <2>9. k \in Nat /\ l \in Nat /\ DownAt(k, l)'
    BY <1>1, <2>2, <2>3 DEF DownAt, DownEnds
  <2>10. S!Hurt' \/ Orderly'
    BY <1>1, <2>2, <2>3 DEF StreamTypes, EndType, CopyType, WayType, S!Sides, S!Ways, Orderly,
       ClosedLast, UpEnds, DownEnds, Ending, EndOf, S!Hurt
  <2> QED
    BY <2>4, <2>5, <2>6, <2>7, <2>8, <2>9, <2>10 DEF StreamInv, UpFlow, DownFlow
<1> QED
  BY <1>2, <1>3 DEF S!Sides

\* A chunk read from the stream is written to the end it was for.
LEMMA TakeWriteKeeps ==
    ASSUME StreamInv, NEW s \in S!Sides, S!TakeWrite(s), S!Usable(s)
    PROVE  StreamInv'
<1>1. /\ StreamTypes /\ UpFlow /\ DownFlow /\ UpEnds /\ DownEnds /\ Ending
      /\ S!Hurt \/ Orderly
  BY DEF StreamInv
<1> PICK n, m \in Nat : UpAt(n, m)
  BY <1>1 DEF UpFlow
<1> PICK k, l \in Nat : DownAt(k, l)
  BY <1>1 DEF DownFlow
<1>2. CASE s = "gateway"
  <2>1. [ends["gateway"] EXCEPT !.got = @ + 1] \in EndType
    <3>1. ends["gateway"] \in EndType
      BY <1>1 DEF StreamTypes, S!Sides
    <3> QED
      BY <3>1 DEF EndType
  <2>2. /\ ends'["gateway"] = [ends["gateway"] EXCEPT !.got = @ + 1]
        /\ ends'["home"] = ends["home"]
        /\ ends' \in [S!Sides -> EndType]
    BY <1>1, <1>2, <2>1 DEF S!TakeWrite, S!Fail, StreamTypes, S!Sides
  <2>3. [copy["gateway"] EXCEPT !.take = "read"] \in CopyType
    <3>1. copy["gateway"] \in CopyType
      BY <1>1 DEF StreamTypes, S!Sides
    <3> QED
      BY <3>1 DEF CopyType
  <2>4. /\ copy'["gateway"] = [copy["gateway"] EXCEPT !.take = "read"]
        /\ copy'["home"] = copy["home"]
        /\ copy' \in [S!Sides -> CopyType]
    BY <1>1, <1>2, <2>3 DEF S!TakeWrite, S!Fail, StreamTypes, S!Sides
  <2>5. /\ copy["gateway"].take = "write"
        /\ UNCHANGED <<gate, serve, way, link, late>>
    BY <1>2 DEF S!TakeWrite
  <2>6. StreamTypes'
    <3>1. gate' \in GateType
      BY <1>1, <2>2, <2>4, <2>5 DEF StreamTypes, GateType
    <3>2. serve' \in ServeType
      BY <1>1, <2>2, <2>4, <2>5 DEF StreamTypes, ServeType
    <3> QED
      BY <1>1, <2>2, <2>4, <2>5, <3>1, <3>2 DEF StreamTypes
  <2>7. UpEnds'
    BY <1>1, <2>2, <2>4, <2>5 DEF UpEnds
  <2>8. DownEnds'
    BY <1>1, <2>2, <2>4, <2>5 DEF DownEnds
  <2>9. Ending'
    BY <1>1, <2>2, <2>4, <2>5 DEF Ending, EndOf
  <2>10. n \in Nat /\ m \in Nat /\ UpAt(n, m)'
    BY <1>1, <2>2, <2>4, <2>5 DEF UpAt, UpEnds
  <2>11. k \in Nat /\ l \in Nat /\ DownAt(k, l)'
    BY SMTT(60), <1>1, <2>2, <2>4, <2>5 DEF StreamTypes, EndType, CopyType, WayType, S!Sides, S!Ways,
       DownAt, DownEnds, UpEnds, Ending, EndOf, Bit
  <2>12. S!Hurt' \/ Orderly'
    BY SMTT(60), <1>1, <2>2, <2>4, <2>5 DEF StreamTypes, EndType, CopyType, WayType, S!Sides, S!Ways,
       Orderly, ClosedLast, UpEnds, DownEnds, Ending, EndOf, S!Hurt, S!Finished
  <2> QED
    BY <2>6, <2>7, <2>8, <2>9, <2>10, <2>11, <2>12 DEF StreamInv, UpFlow, DownFlow
<1>3. CASE s = "home"
  <2>1. [ends["home"] EXCEPT !.got = @ + 1] \in EndType
    <3>1. ends["home"] \in EndType
      BY <1>1 DEF StreamTypes, S!Sides
    <3> QED
      BY <3>1 DEF EndType
  <2>2. /\ ends'["home"] = [ends["home"] EXCEPT !.got = @ + 1]
        /\ ends'["gateway"] = ends["gateway"]
        /\ ends' \in [S!Sides -> EndType]
    BY <1>1, <1>3, <2>1 DEF S!TakeWrite, S!Fail, StreamTypes, S!Sides
  <2>3. [copy["home"] EXCEPT !.take = "read"] \in CopyType
    <3>1. copy["home"] \in CopyType
      BY <1>1 DEF StreamTypes, S!Sides
    <3> QED
      BY <3>1 DEF CopyType
  <2>4. /\ copy'["home"] = [copy["home"] EXCEPT !.take = "read"]
        /\ copy'["gateway"] = copy["gateway"]
        /\ copy' \in [S!Sides -> CopyType]
    BY <1>1, <1>3, <2>3 DEF S!TakeWrite, S!Fail, StreamTypes, S!Sides
  <2>5. /\ copy["home"].take = "write"
        /\ UNCHANGED <<gate, serve, way, link, late>>
    BY <1>3 DEF S!TakeWrite
  <2>6. StreamTypes'
    <3>1. gate' \in GateType
      BY <1>1, <2>2, <2>4, <2>5 DEF StreamTypes, GateType
    <3>2. serve' \in ServeType
      BY <1>1, <2>2, <2>4, <2>5 DEF StreamTypes, ServeType
    <3> QED
      BY <1>1, <2>2, <2>4, <2>5, <3>1, <3>2 DEF StreamTypes
  <2>7. UpEnds'
    BY <1>1, <2>2, <2>4, <2>5 DEF UpEnds
  <2>8. DownEnds'
    BY <1>1, <2>2, <2>4, <2>5 DEF DownEnds
  <2>9. Ending'
    BY <1>1, <2>2, <2>4, <2>5 DEF Ending, EndOf
  <2>10. n \in Nat /\ m \in Nat /\ UpAt(n, m)'
    BY SMTT(60), <1>1, <2>2, <2>4, <2>5 DEF StreamTypes, EndType, CopyType, WayType, S!Sides, S!Ways, UpAt,
       UpEnds, DownEnds, Ending, EndOf, Bit
  <2>11. k \in Nat /\ l \in Nat /\ DownAt(k, l)'
    BY <1>1, <2>2, <2>4, <2>5 DEF DownAt, DownEnds
  <2>12. S!Hurt' \/ Orderly'
    BY SMTT(60), <1>1, <2>2, <2>4, <2>5 DEF StreamTypes, EndType, CopyType, WayType, S!Sides, S!Ways,
       Orderly, ClosedLast, UpEnds, DownEnds, Ending, EndOf, S!Hurt, S!Finished
  <2> QED
    BY <2>6, <2>7, <2>8, <2>9, <2>10, <2>11, <2>12 DEF StreamInv, UpFlow, DownFlow
<1> QED
  BY <1>2, <1>3 DEF S!Sides

\* The copy read an EOF: CloseWrite is what ends that direction.
LEMMA PutEOFKeeps ==
    ASSUME StreamInv, NEW s \in S!Sides, S!PutEOF(s)
    PROVE  StreamInv'
<1>1. /\ StreamTypes /\ UpFlow /\ DownFlow /\ UpEnds /\ DownEnds /\ Ending
      /\ S!Hurt \/ Orderly
  BY DEF StreamInv
<1> PICK n, m \in Nat : UpAt(n, m)
  BY <1>1 DEF UpFlow
<1> PICK k, l \in Nat : DownAt(k, l)
  BY <1>1 DEF DownFlow
<1>2. CASE s = "gateway"
  <2>1. /\ copy["gateway"].put = "eof"
        /\ gate' = [gate EXCEPT !.wclosed = TRUE]
        /\ UNCHANGED <<ends, serve, way, link, late>>
    BY <1>2 DEF S!PutEOF
  <2>2. [copy["gateway"] EXCEPT !.put = "done"] \in CopyType
    <3>1. copy["gateway"] \in CopyType
      BY <1>1 DEF StreamTypes, S!Sides
    <3> QED
      BY <3>1 DEF CopyType
  <2>3. /\ copy'["gateway"] = [copy["gateway"] EXCEPT !.put = "done"]
        /\ copy'["home"] = copy["home"]
        /\ copy' \in [S!Sides -> CopyType]
    BY <1>1, <1>2, <2>2 DEF S!PutEOF, StreamTypes
  <2>4. StreamTypes'
    <3>1. gate' \in GateType
      BY <1>1, <2>1, <2>3 DEF StreamTypes, GateType
    <3>2. serve' \in ServeType
      BY <1>1, <2>1, <2>3 DEF StreamTypes, ServeType
    <3> QED
      BY <1>1, <2>1, <2>3, <3>1, <3>2 DEF StreamTypes, EndType, CopyType, WayType, S!Sides, S!Ways, S!Frames
  <2>5. UpEnds'
    BY <1>1, <2>1, <2>3 DEF UpEnds, Ending, EndOf
  <2>6. DownEnds'
    BY <1>1, <2>1, <2>3 DEF DownEnds
  <2>7. Ending'
    BY <1>1, <2>1, <2>3 DEF Ending, EndOf
  <2>8. n \in Nat /\ m \in Nat /\ UpAt(n, m)'
    BY <1>1, <2>1, <2>3 DEF UpAt, UpEnds, DownEnds, Bit
  <2>9. k \in Nat /\ l \in Nat /\ DownAt(k, l)'
    BY <1>1, <2>1, <2>3 DEF DownAt, DownEnds
  <2>10. S!Hurt' \/ Orderly'
    BY <1>1, <2>1, <2>3 DEF Orderly, ClosedLast, UpEnds, DownEnds, Ending, S!Hurt, S!Finished
  <2> QED
    BY <2>4, <2>5, <2>6, <2>7, <2>8, <2>9, <2>10 DEF StreamInv, UpFlow, DownFlow
<1>3. CASE s = "home" /\ S!WriteFails(s)
  <2>1. /\ copy["home"].put = "eof"
        /\ serve.aborted \/ serve.gone \/ serve.reset
        /\ UNCHANGED <<ends, gate, serve, way, link, late>>
    BY <1>3 DEF S!PutEOF, S!WriteFails
  <2>2. [copy["home"] EXCEPT !.put = "done"] \in CopyType
    <3>1. copy["home"] \in CopyType
      BY <1>1 DEF StreamTypes, S!Sides
    <3> QED
      BY <3>1 DEF CopyType
  <2>3. /\ copy'["home"] = [copy["home"] EXCEPT !.put = "done"]
        /\ copy'["gateway"] = copy["gateway"]
        /\ copy' \in [S!Sides -> CopyType]
    BY <1>1, <1>3, <2>2 DEF S!PutEOF, StreamTypes
  <2>4. StreamTypes'
    <3>1. gate' \in GateType
      BY <1>1, <2>1, <2>3 DEF StreamTypes, GateType
    <3>2. serve' \in ServeType
      BY <1>1, <2>1, <2>3 DEF StreamTypes, ServeType
    <3> QED
      BY <1>1, <2>1, <2>3, <3>1, <3>2 DEF StreamTypes
  <2>5. UpEnds'
    BY <1>1, <2>1, <2>3 DEF UpEnds
  <2>6. DownEnds'
    BY <1>1, <2>1, <2>3 DEF DownEnds
  <2>7. Ending'
    BY <1>1, <2>1, <2>3 DEF Ending, EndOf
  <2>8. n \in Nat /\ m \in Nat /\ UpAt(n, m)'
    BY <1>1, <2>1, <2>3 DEF UpAt, UpEnds
  <2>9. k \in Nat /\ l \in Nat /\ DownAt(k, l)'
    BY <1>1, <2>1, <2>3 DEF DownAt, DownEnds
  <2>10. S!Hurt' \/ Orderly'
    BY <1>1, <2>1, <2>3 DEF Orderly, ClosedLast, UpEnds, DownEnds, Ending, S!Hurt, S!Finished
  <2> QED
    BY <2>4, <2>5, <2>6, <2>7, <2>8, <2>9, <2>10 DEF StreamInv, UpFlow, DownFlow
<1>4. CASE s = "home" /\ ~S!WriteFails(s)
  <2>1. /\ copy["home"].put = "eof"
        /\ ~serve.gone
        /\ serve' = [serve EXCEPT !.wclosed = TRUE]
        /\ UNCHANGED <<ends, gate, link, late>>
    BY <1>4 DEF S!PutEOF, S!WriteFails
  <2>2. [copy["home"] EXCEPT !.put = "done"] \in CopyType
    <3>1. copy["home"] \in CopyType
      BY <1>1 DEF StreamTypes, S!Sides
    <3> QED
      BY <3>1 DEF CopyType
  <2>3. /\ copy'["home"] = [copy["home"] EXCEPT !.put = "done"]
        /\ copy'["gateway"] = copy["gateway"]
        /\ copy' \in [S!Sides -> CopyType]
    BY <1>1, <1>4, <2>2 DEF S!PutEOF, StreamTypes
  <2>4. way' = [way EXCEPT !["down"].wire = Append(@, "fin")]
    BY <1>4 DEF S!PutEOF
  <2>5. way \in [S!Ways -> WayType]
    BY <1>1 DEF StreamTypes
  <2>6. /\ way' \in [S!Ways -> WayType]
        /\ way'["down"].wire = Append(way["down"].wire, "fin") /\ way["down"].wire \in Seq(S!Frames)
        /\ way'["down"].body = way["down"].body /\ way'["down"].over = way["down"].over
        /\ way'["up"] = way["up"]
    BY <2>4, <2>5, WireGrows DEF S!Ways, S!Frames
  <2>7. Grown(way["down"].wire, "fin", way'["down"].wire)
    BY <2>6, Appended DEF S!Frames
  <2>8. FinFirst(way'["down"].wire)
    BY <1>1, <1>1, <2>1, <2>3, <2>6, <2>7, GrownInOrder DEF DownEnds
  <2>9. StreamTypes'
    <3>1. gate' \in GateType
      BY <1>1, <2>1, <2>3, <2>6, <2>7, <2>8 DEF StreamTypes, GateType
    <3>2. serve' \in ServeType
      BY <1>1, <2>1, <2>3, <2>6, <2>7, <2>8 DEF StreamTypes, ServeType
    <3> QED
      BY <1>1, <2>1, <2>3, <2>6, <2>7, <2>8, <3>1, <3>2 DEF StreamTypes, EndType, CopyType, WayType, S!Sides, S!Ways, S!Frames
  <2>10. UpEnds'
    BY <1>1, <2>1, <2>3, <2>6, <2>7, <2>8 DEF UpEnds
  <2>11. DownEnds'
    BY <1>1, <2>1, <2>3, <2>6, <2>7, <2>8 DEF DownEnds, UpEnds, Ending, EndOf, Grown
  <2>12. Ending'
    BY <1>1, <2>1, <2>3, <2>6, <2>7, <2>8 DEF Ending, EndOf
  <2>13. n \in Nat /\ m \in Nat /\ UpAt(n, m)'
    BY <1>1, <2>1, <2>3, <2>6, <2>7, <2>8 DEF UpAt, UpEnds, DownEnds
  <2>14. k \in Nat /\ l \in Nat /\ DownAt(k, l)'
    BY <1>1, <2>1, <2>3, <2>6, <2>7, <2>8 DEF DownAt, DownEnds, UpEnds, Ending, Bit, Grown
  <2>15. S!Hurt' \/ Orderly'
    BY <1>1, <2>1, <2>3, <2>6, <2>7, <2>8 DEF Orderly, ClosedLast, UpEnds, DownEnds, Ending,
       EndOf, S!Hurt, S!Finished, Grown
  <2> QED
    BY <2>9, <2>10, <2>11, <2>12, <2>13, <2>14, <2>15 DEF StreamInv, UpFlow, DownFlow
<1> QED
  BY <1>2, <1>3, <1>4 DEF S!Sides

\* The handler's copy writes the engine's chunk to the response.
LEMMA PutWriteKeeps ==
    ASSUME StreamInv, S!PutWrite("home"), ~S!WriteFails("home")
    PROVE  StreamInv'
<1>1. /\ StreamTypes /\ UpFlow /\ DownFlow /\ UpEnds /\ DownEnds /\ Ending
      /\ S!Hurt \/ Orderly
  BY DEF StreamInv
<1> PICK n, m \in Nat : UpAt(n, m)
  BY <1>1 DEF UpFlow
<1> PICK k, l \in Nat : DownAt(k, l)
  BY <1>1 DEF DownFlow
<1>2. /\ copy["home"].put = "write"
      /\ ~serve.gone
      /\ UNCHANGED <<ends, gate, serve, link, late>>
  BY <1>1 DEF S!PutWrite, S!WriteFails
<1>3. [copy["home"] EXCEPT !.put = "read"] \in CopyType
  <2>1. copy["home"] \in CopyType
    BY <1>1 DEF StreamTypes, S!Sides
  <2> QED
    BY <2>1 DEF CopyType
<1>4. /\ copy'["home"] = [copy["home"] EXCEPT !.put = "read"]
      /\ copy'["gateway"] = copy["gateway"]
      /\ copy' \in [S!Sides -> CopyType]
  BY <1>1, <1>3 DEF S!PutWrite, S!Fail, StreamTypes, S!Sides
<1>5. /\ ~Has(way["down"].wire, "fin")
      /\ ~Has(way["down"].wire, "end")
      /\ ~Has(way["down"].wire, "rst")
  BY <1>1, <1>2, <1>4 DEF DownEnds
<1>6. DataFirst(way["down"].wire, k) /\ way["down"].wire \in Seq(S!Frames)
  BY <1>1 DEF UpAt, DownAt, StreamTypes, WayType, S!Ways
<1>7. k = Len(way["down"].wire)
  BY <1>5, <1>6, OnlyData
<1>8. way' = [way EXCEPT !["down"].wire = Append(@, "data")]
  BY <1>1 DEF S!PutWrite
<1>9. way \in [S!Ways -> WayType]
  BY <1>1 DEF StreamTypes
<1>10. /\ way' \in [S!Ways -> WayType]
       /\ way'["down"].wire = Append(way["down"].wire, "data") /\ way["down"].wire \in Seq(S!Frames)
       /\ way'["down"].body = way["down"].body /\ way'["down"].over = way["down"].over
       /\ way'["up"] = way["up"]
  BY SMTT(60), <1>8, <1>9, WireGrows DEF S!Ways, S!Frames
<1>11. Grown(way["down"].wire, "data", way'["down"].wire)
  BY <1>10, Appended DEF S!Frames
<1>12. FinFirst(way["down"].wire) => FinFirst(way'["down"].wire)
  BY <1>11, GrownInOrder
<1>13. k + 1 \in 0..Len(way'["down"].wire) /\ DataFirst(way'["down"].wire, k + 1)
  BY <1>1, <1>2, <1>4, <1>5, <1>7, <1>10, <1>11, <1>12 DEF Grown, DownAt
<1>14. /\ Bit(copy["home"].put, "write") = 1 /\ Bit(copy'["home"].put, "write") = 0
       /\ Bit(copy["gateway"].take, "write") \in Nat /\ Bit(copy["gateway"].put, "write") \in Nat
       /\ ends["home"].sent \in Nat /\ ends["gateway"].got \in Nat
       /\ ends["gateway"].sent \in Nat /\ ends["home"].got \in Nat
  BY <1>1, <1>2, <1>4, <1>5, <1>7, <1>10, <1>11, <1>12, <1>13 DEF StreamTypes, EndType, CopyType,
     S!Sides, Bit
<1>15. DataFirst(way'["down"].body, l) /\ way'["down"].over = None /\ ~Has(way'["down"].body, "fin")
  BY <1>1, <1>2, <1>4, <1>5, <1>7, <1>10, <1>11, <1>12, <1>13 DEF DownAt, DownEnds
<1>16. copy["gateway"].take # "done" => ends["home"].sent = ends["gateway"].got + Bit(copy["gateway"].take, "write") + l + k + Bit(copy["home"].put, "write")
  BY <1>2, <1>4, <1>5, <1>7, <1>10, <1>11, <1>12, <1>13 DEF DownAt
<1>17. copy["gateway"].take # "done" => ends["home"].sent = ends["gateway"].got + Bit(copy["gateway"].take, "write") + l + (k + 1) + 0
  BY <1>16, <1>14
<1>18. copy'["gateway"].take # "done" => ends'["home"].sent = ends'["gateway"].got + Bit(copy'["gateway"].take, "write") + l + (k + 1) + Bit(copy'["home"].put, "write")
  BY <1>2, <1>4, <1>7, <1>10, <1>11, <1>12, <1>13, <1>17, <1>14
<1>19. k + 1 \in Nat /\ l \in Nat /\ DownAt(k + 1, l)'
  BY <1>4, <1>5, <1>7, <1>10, <1>11, <1>12, <1>13, <1>18, <1>15 DEF DownAt
<1>20. StreamTypes'
  <2>1. gate' \in GateType
    BY <1>1, <1>2, <1>4, <1>5, <1>7, <1>10, <1>11, <1>12, <1>13 DEF StreamTypes, GateType
  <2>2. serve' \in ServeType
    BY <1>1, <1>2, <1>4, <1>5, <1>7, <1>10, <1>11, <1>12, <1>13 DEF StreamTypes, ServeType
  <2> QED
    BY <1>1, <1>2, <1>4, <1>5, <1>7, <1>10, <1>11, <1>12, <1>13, <2>1, <2>2 DEF StreamTypes
<1>21. UpEnds'
  BY <1>1, <1>2, <1>4, <1>5, <1>7, <1>10, <1>11, <1>12, <1>13 DEF UpEnds
<1>22. DownEnds'
  BY <1>1, <1>2, <1>4, <1>5, <1>7, <1>10, <1>11, <1>12, <1>13 DEF DownEnds, UpEnds, Grown
<1>23. Ending'
  BY <1>1, <1>2, <1>4, <1>5, <1>7, <1>10, <1>11, <1>12, <1>13 DEF Ending, EndOf
<1>24. n \in Nat /\ m \in Nat /\ UpAt(n, m)'
  BY SMTT(60), <1>1, <1>2, <1>4, <1>5, <1>7, <1>10, <1>11, <1>12, <1>13 DEF UpAt, UpEnds
<1>25. S!Hurt' \/ Orderly'
  BY <1>1, <1>2, <1>4, <1>5, <1>7, <1>10, <1>11, <1>12, <1>13 DEF Orderly, ClosedLast, UpEnds,
     DownEnds, Ending, EndOf, S!Hurt, S!Finished, Grown
<1> QED
  BY <1>20, <1>21, <1>22, <1>23, <1>24, <1>19, <1>25 DEF StreamInv, UpFlow, DownFlow

\* The transport sends the request's body: a chunk, its end, or the reset.
LEMMA TransmitKeeps ==
    ASSUME StreamInv, S!Transmit
    PROVE  StreamInv'
<1>1. /\ StreamTypes /\ UpFlow /\ DownFlow /\ UpEnds /\ DownEnds /\ Ending
      /\ S!Hurt \/ Orderly
  BY DEF StreamInv
<1> PICK n, m \in Nat : UpAt(n, m)
  BY <1>1 DEF UpFlow
<1> PICK k, l \in Nat : DownAt(k, l)
  BY <1>1 DEF DownFlow
<1>2. CASE gate.tx = "idle" /\ gate'.tx = "chunk"
  <2>1. /\ gate' = [gate EXCEPT !.tx = "chunk"]
        /\ gate.tx = "idle"
        /\ copy["gateway"].put = "write"
        /\ UNCHANGED <<ends, serve, way, link, late>>
    BY <1>1, <1>2 DEF S!Transmit, StreamTypes, GateType, ServeType
  <2>2. [copy["gateway"] EXCEPT !.put = "read"] \in CopyType
    <3>1. copy["gateway"] \in CopyType
      BY <1>1 DEF StreamTypes, S!Sides
    <3> QED
      BY <3>1 DEF CopyType
  <2>3. /\ copy'["gateway"] = [copy["gateway"] EXCEPT !.put = "read"]
        /\ copy'["home"] = copy["home"]
        /\ copy' \in [S!Sides -> CopyType]
    BY <1>1, <1>2, <2>2 DEF S!Transmit, StreamTypes, GateType, ServeType, S!Sides
  <2>4. StreamTypes'
    <3>1. gate' \in GateType
      BY <1>1, <2>1, <2>3 DEF StreamTypes, GateType
    <3>2. serve' \in ServeType
      BY <1>1, <2>1, <2>3 DEF StreamTypes, ServeType
    <3> QED
      BY <1>1, <2>1, <2>3, <3>1, <3>2 DEF StreamTypes
  <2>5. UpEnds'
    BY <1>1, <2>1, <2>3 DEF UpEnds
  <2>6. DownEnds'
    BY <1>1, <2>1, <2>3 DEF DownEnds
  <2>7. Ending'
    BY <1>1, <2>1, <2>3 DEF Ending, EndOf
  <2>8. n \in Nat /\ m \in Nat /\ UpAt(n, m)'
    BY SMTT(60), <1>1, <2>1, <2>3 DEF StreamTypes, EndType, CopyType, WayType, S!Sides, S!Ways, UpAt,
       UpEnds, DownEnds, Ending, EndOf, Bit
  <2>9. k \in Nat /\ l \in Nat /\ DownAt(k, l)'
    BY <1>1, <2>1, <2>3 DEF DownAt, DownEnds
  <2>10. S!Hurt' \/ Orderly'
    BY <1>1, <2>1, <2>3 DEF Orderly, ClosedLast, UpEnds, DownEnds, Ending, S!Hurt, S!Finished
  <2> QED
    BY <2>4, <2>5, <2>6, <2>7, <2>8, <2>9, <2>10 DEF StreamInv, UpFlow, DownFlow
<1>3. CASE gate.tx = "chunk"
  <2>1. /\ gate' = [gate EXCEPT !.tx = "idle"]
        /\ gate.tx = "chunk"
        /\ ~gate.aborted
        /\ UNCHANGED <<ends, copy, serve, link, late>>
    BY <1>3 DEF S!Transmit
  <2>2. /\ ~Has(way["up"].wire, "fin")
        /\ ~Has(way["up"].wire, "end")
        /\ ~Has(way["up"].wire, "rst")
    BY <1>1, <2>1 DEF UpEnds
  <2>3. DataFirst(way["up"].wire, n) /\ way["up"].wire \in Seq(S!Frames)
    BY <1>1 DEF UpAt, DownAt, StreamTypes, WayType, S!Ways
  <2>4. n = Len(way["up"].wire)
    BY <2>2, <2>3, OnlyData
  <2>5. way' = [way EXCEPT !["up"].wire = Append(@, "data")]
    BY <1>3 DEF S!Transmit
  <2>6. way \in [S!Ways -> WayType]
    BY <1>1 DEF StreamTypes
  <2>7. /\ way' \in [S!Ways -> WayType]
        /\ way'["up"].wire = Append(way["up"].wire, "data") /\ way["up"].wire \in Seq(S!Frames)
        /\ way'["up"].body = way["up"].body /\ way'["up"].over = way["up"].over
        /\ way'["down"] = way["down"]
    BY <2>5, <2>6, WireGrows DEF S!Ways, S!Frames
  <2>8. Grown(way["up"].wire, "data", way'["up"].wire)
    BY <2>7, Appended DEF S!Frames
  <2>9. EndFirst(way["up"].wire) => EndFirst(way'["up"].wire)
    BY <2>8, GrownInOrder
  <2>10. n + 1 \in 0..Len(way'["up"].wire) /\ DataFirst(way'["up"].wire, n + 1)
    BY <2>1, <2>2, <2>4, <2>7, <2>8, <2>9 DEF Grown, UpAt
  <2>11. /\ Bit(gate.tx, "chunk") = 1 /\ Bit(gate'.tx, "chunk") = 0
         /\ Bit(copy["home"].take, "write") \in Nat /\ Bit(copy["gateway"].put, "write") \in Nat
         /\ ends["home"].sent \in Nat /\ ends["gateway"].got \in Nat
         /\ ends["gateway"].sent \in Nat /\ ends["home"].got \in Nat
    BY SMTT(60), <1>1, <2>1, <2>2, <2>4, <2>7, <2>8, <2>9, <2>10 DEF StreamTypes, EndType, CopyType,
       S!Sides, Bit
  <2>12. DataFirst(way'["up"].body, m) /\ way'["up"].over = None
    BY <1>1, <2>1, <2>2, <2>4, <2>7, <2>8, <2>9, <2>10 DEF UpAt, UpEnds, StreamTypes, WayType,
       S!Ways
  <2>13. copy["home"].take # "done" /\ (copy["gateway"].put # "done" \/ gate.wclosed) => ends["gateway"].sent = ends["home"].got + Bit(copy["home"].take, "write") + m + n + Bit(gate.tx, "chunk") + Bit(copy["gateway"].put, "write")
    BY <2>1, <2>2, <2>4, <2>7, <2>8, <2>9, <2>10 DEF UpAt
  <2>14. copy["home"].take # "done" /\ (copy["gateway"].put # "done" \/ gate.wclosed) => ends["gateway"].sent = ends["home"].got + Bit(copy["home"].take, "write") + m + (n + 1) + 0 + Bit(copy["gateway"].put, "write")
    BY <2>13, <2>11
  <2>15. copy'["home"].take # "done" /\ (copy'["gateway"].put # "done" \/ gate'.wclosed) => ends'["gateway"].sent = ends'["home"].got + Bit(copy'["home"].take, "write") + m + (n + 1) + Bit(gate'.tx, "chunk") + Bit(copy'["gateway"].put, "write")
    BY <2>1, <2>7, <2>8, <2>9, <2>10, <2>14, <2>11
  <2>16. n + 1 \in Nat /\ m \in Nat /\ UpAt(n + 1, m)'
    BY <2>2, <2>4, <2>7, <2>8, <2>9, <2>10, <2>15, <2>12 DEF UpAt
  <2>17. StreamTypes'
    <3>1. gate' \in GateType
      BY <1>1, <2>1, <2>2, <2>4, <2>7, <2>8, <2>9, <2>10 DEF StreamTypes, GateType
    <3>2. serve' \in ServeType
      BY <1>1, <2>1, <2>2, <2>4, <2>7, <2>8, <2>9, <2>10 DEF StreamTypes, ServeType
    <3> QED
      BY <1>1, <2>1, <2>2, <2>4, <2>7, <2>8, <2>9, <2>10, <3>1, <3>2 DEF StreamTypes
  <2>18. UpEnds'
    BY <1>1, <2>1, <2>2, <2>4, <2>7, <2>8, <2>9, <2>10 DEF UpEnds, Grown
  <2>19. DownEnds'
    BY <1>1, <2>1, <2>2, <2>4, <2>7, <2>8, <2>9, <2>10 DEF DownEnds
  <2>20. Ending'
    BY <1>1, <2>1, <2>2, <2>4, <2>7, <2>8, <2>9, <2>10 DEF Ending, EndOf
  <2>21. k \in Nat /\ l \in Nat /\ DownAt(k, l)'
    BY <1>1, <2>1, <2>2, <2>4, <2>7, <2>8, <2>9, <2>10 DEF DownAt, DownEnds
  <2>22. S!Hurt' \/ Orderly'
    BY <1>1, <2>1, <2>2, <2>4, <2>7, <2>8, <2>9, <2>10 DEF Orderly, ClosedLast, UpEnds, DownEnds,
       Ending, S!Hurt, S!Finished
  <2> QED
    BY <2>17, <2>18, <2>19, <2>20, <2>21, <2>16, <2>22 DEF StreamInv, UpFlow, DownFlow
<1>4. CASE gate.tx = "idle" /\ gate'.tx = "ended"
  <2>1. /\ gate' = [gate EXCEPT !.tx = "ended"]
        /\ gate.tx = "idle"
        /\ gate.wclosed
        /\ ~gate.aborted
        /\ UNCHANGED <<ends, copy, serve, link, late>>
    BY <1>1, <1>4 DEF S!Transmit, StreamTypes, GateType, ServeType
  <2>2. way' = [way EXCEPT !["up"].wire = Append(@, "end")]
    BY <1>1, <1>4 DEF S!Transmit, StreamTypes, GateType, ServeType
  <2>3. way \in [S!Ways -> WayType]
    BY <1>1 DEF StreamTypes
  <2>4. /\ way' \in [S!Ways -> WayType]
        /\ way'["up"].wire = Append(way["up"].wire, "end") /\ way["up"].wire \in Seq(S!Frames)
        /\ way'["up"].body = way["up"].body /\ way'["up"].over = way["up"].over
        /\ way'["down"] = way["down"]
    BY <2>2, <2>3, WireGrows DEF S!Ways, S!Frames
  <2>5. Grown(way["up"].wire, "end", way'["up"].wire)
    BY <2>4, Appended DEF S!Frames
  <2>6. EndFirst(way["up"].wire) => EndFirst(way'["up"].wire)
    BY <2>5, GrownInOrder
  <2>7. StreamTypes'
    <3>1. gate' \in GateType
      BY <1>1, <2>1, <2>4, <2>5, <2>6 DEF StreamTypes, GateType
    <3>2. serve' \in ServeType
      BY <1>1, <2>1, <2>4, <2>5, <2>6 DEF StreamTypes, ServeType
    <3> QED
      BY <1>1, <2>1, <2>4, <2>5, <2>6, <3>1, <3>2 DEF StreamTypes
  <2>8. UpEnds'
    BY <1>1, <2>1, <2>4, <2>5, <2>6 DEF UpEnds, Grown
  <2>9. DownEnds'
    BY <1>1, <2>1, <2>4, <2>5, <2>6 DEF DownEnds
  <2>10. Ending'
    BY <1>1, <2>1, <2>4, <2>5, <2>6 DEF Ending, EndOf
  <2>11. n \in Nat /\ m \in Nat /\ UpAt(n, m)'
    BY <1>1, <2>1, <2>4, <2>5, <2>6 DEF UpAt, UpEnds, DownEnds, Ending, Bit, Grown
  <2>12. k \in Nat /\ l \in Nat /\ DownAt(k, l)'
    BY <1>1, <2>1, <2>4, <2>5, <2>6 DEF DownAt, DownEnds, UpEnds
  <2>13. S!Hurt' \/ Orderly'
    BY <1>1, <2>1, <2>4, <2>5, <2>6 DEF Orderly, ClosedLast, UpEnds, DownEnds, Ending, S!Hurt,
       S!Finished
  <2> QED
    BY <2>7, <2>8, <2>9, <2>10, <2>11, <2>12, <2>13 DEF StreamInv, UpFlow, DownFlow
<1> QED
  BY <1>1, <1>2, <1>3, <1>4 DEF S!Sides, S!Transmit, StreamTypes, GateType, ServeType

\* Closing the gateway's stream ends its transmission, and sends a reset
\* if the body was not ended.
LEMMA AbortGatewayDoes ==
    ASSUME StreamInv, S!AbortGateway
    PROVE  /\ gate' = [gate EXCEPT !.closed = TRUE, !.aborted = TRUE,
                                   !.tx = IF gate.tx = "ended" THEN "ended" ELSE "failed"]
           /\ way' \in [S!Ways -> WayType]
           /\ way'["down"] = way["down"]
           /\ way'["up"].body = way["up"].body /\ way'["up"].over = way["up"].over
           /\ \/ way'["up"].wire = way["up"].wire
              \/ Grown(way["up"].wire, "rst", way'["up"].wire)
<1> DEFINE q == way["up"].wire
<1>1. q \in Seq(S!Frames) /\ "rst" \in S!Frames /\ way \in [S!Ways -> WayType] /\ "up" \in S!Ways /\ "down" \in S!Ways
  BY DEF StreamInv, StreamTypes, WayType, S!Frames, S!Ways
<1> DEFINE e == IF gate.aborted THEN <<>> ELSE S!ResetFrame
<1>0. way' = [way EXCEPT !["up"] = [@ EXCEPT !.wire = q \o e]]
  BY DEF S!AbortGateway
<1>a. e = <<>> \/ e = <<"rst">>
  BY DEF S!ResetFrame
<1>b. q \o <<>> = q /\ q \o <<"rst">> = Append(q, "rst")
  BY <1>1
<1>c. way'["up"].wire = q \o e
  <2> HIDE DEF e, q
  <2> QED
    BY <1>0, <1>1
<1>2. way'["up"].wire = q \/ way'["up"].wire = Append(q, "rst")
  BY <1>a, <1>b, <1>c
<1>3. /\ way' = [way EXCEPT !["up"].wire = way'["up"].wire]
      /\ gate' = [gate EXCEPT !.closed = TRUE, !.aborted = TRUE,
                              !.tx = IF gate.tx = "ended" THEN "ended" ELSE "failed"]
  <2>1. way' = [way EXCEPT !["up"].wire = way'["up"].wire]
    BY <1>0, <1>c
  <2>2. gate \in [ wclosed : BOOLEAN, closed : BOOLEAN, aborted : BOOLEAN,
                   tx : {"idle", "chunk", "ended", "failed"} ]
    BY DEF StreamInv, StreamTypes, GateType
  <2>3. gate' = [gate EXCEPT !.closed = TRUE, !.aborted = TRUE,
                             !.tx = IF gate.tx = "ended" THEN "ended" ELSE "failed"]
    BY <2>2 DEF S!AbortGateway
  <2> QED
    BY <2>1, <2>3
<1>4. way'["up"].wire \in Seq(S!Frames)
  BY SMTT(60), <1>1, <1>2
<1>5. Grown(q, "rst", Append(q, "rst"))
  BY <1>1, Appended
<1>7. way' \in [S!Ways -> WayType]
  BY ZenonT(60), <1>1, <1>3, <1>4 DEF WayType
<1>8. way'["down"] = way["down"] /\ way'["up"].body = way["up"].body /\ way'["up"].over = way["up"].over
  BY <1>1, <1>3 DEF WayType
<1> QED
  BY <1>2, <1>3, <1>5, <1>7, <1>8

\* A stream is closed by one side: with nothing failed, only when both copies
\* of that side are over.
LEMMA ClosingKeeps ==
    ASSUME StreamInv, NEW s \in S!Sides, S!CloseStream(s),
           ends' = [ends EXCEPT ![s].told = "closed"], copy' \in [S!Sides -> CopyType],
           \A x \in S!Sides : /\ x # s => copy'[x] = copy[x]
                              /\ copy'[x].put = copy[x].put \/ copy'[x].put = "done"
                              /\ copy'[x].take = copy[x].take \/ copy'[x].take = "done",
           S!Hurt \/ (copy' = copy /\ copy[s].put = "done" /\ copy[s].take = "done" /\ ends[s].told # "closed"),
           UNCHANGED <<link, late>>
    PROVE  StreamInv'
<1>1. /\ StreamTypes /\ UpFlow /\ DownFlow /\ UpEnds /\ DownEnds /\ Ending
      /\ S!Hurt \/ Orderly
  BY DEF StreamInv
<1> PICK n, m \in Nat : UpAt(n, m)
  BY <1>1 DEF UpFlow
<1> PICK k, l \in Nat : DownAt(k, l)
  BY <1>1 DEF DownFlow
<1>2. CASE s = "home"
  <2>1. [ends["home"] EXCEPT !.told = "closed"] \in EndType
    <3>1. ends["home"] \in EndType
      BY <1>1 DEF StreamTypes, S!Sides
    <3> QED
      BY <3>1 DEF EndType
  <2>2. /\ ends'["home"] = [ends["home"] EXCEPT !.told = "closed"]
        /\ ends'["gateway"] = ends["gateway"]
        /\ ends' \in [S!Sides -> EndType]
    BY <1>1, <1>2, <2>1 DEF S!CloseStream, S!AbortHome, S!CloseGateway, StreamTypes
  <2>3. /\ copy' \in [S!Sides -> CopyType]
        /\ copy'["gateway"] = copy["gateway"]
        /\ copy'["home"].put = copy["home"].put \/ copy'["home"].put = "done"
        /\ copy'["home"].take = copy["home"].take \/ copy'["home"].take = "done"
    BY <1>1, <1>2 DEF S!CloseStream, S!AbortHome, S!CloseGateway, StreamTypes, S!Sides
  <2>4. /\ UNCHANGED <<link, late>>
        /\ S!Hurt \/ (copy' = copy /\ copy["home"].put = "done" /\ copy["home"].take = "done" /\ ends["home"].told # "closed")
    BY <1>1, <1>2
  <2>5. /\ serve' = [serve EXCEPT !.aborted = TRUE]
        /\ UNCHANGED <<gate, way>>
    BY <1>2 DEF S!CloseStream, S!AbortHome
  <2>6. StreamTypes'
    <3>1. gate' \in GateType
      BY <1>1, <2>2, <2>3, <2>4, <2>5 DEF StreamTypes, GateType
    <3>2. serve' \in ServeType
      BY <1>1, <2>2, <2>3, <2>4, <2>5 DEF StreamTypes, ServeType
    <3> QED
      BY ZenonT(60), <1>1, <2>2, <2>3, <2>4, <2>5, <3>1, <3>2 DEF StreamTypes, EndType, CopyType, WayType, S!Sides, S!Ways, S!Frames
  <2>7. UpEnds'
    BY <1>1, <2>2, <2>3, <2>4, <2>5 DEF UpEnds
  <2>8. DownEnds'
    BY <1>1, <2>2, <2>3, <2>4, <2>5 DEF DownEnds
  <2>9. Ending'
    BY SMTT(60), <1>1, <2>2, <2>3, <2>4, <2>5 DEF StreamTypes, EndType, CopyType, WayType, S!Sides, S!Ways,
       Ending, EndOf, DownEnds
  <2>10. n \in Nat /\ m \in Nat /\ UpAt(n, m)'
    BY <1>1, <2>2, <2>3, <2>4, <2>5 DEF UpAt, UpEnds
  <2>11. k \in Nat /\ l \in Nat /\ DownAt(k, l)'
    BY <1>1, <2>2, <2>3, <2>4, <2>5 DEF DownAt, DownEnds
  <2>12. S!Hurt' \/ Orderly'
    BY SMTT(60), <1>1, <2>2, <2>3, <2>4, <2>5 DEF StreamTypes, EndType, CopyType, WayType, S!Sides, S!Ways,
       Orderly, ClosedLast, UpEnds, DownEnds, Ending, EndOf, S!Hurt, S!Finished
  <2> QED
    BY <2>6, <2>7, <2>8, <2>9, <2>10, <2>11, <2>12 DEF StreamInv, UpFlow, DownFlow
<1>3. CASE s = "gateway" /\ gate' = [gate EXCEPT !.closed = TRUE] /\ way' = way
  <2>1. [ends["gateway"] EXCEPT !.told = "closed"] \in EndType
    <3>1. ends["gateway"] \in EndType
      BY <1>1 DEF StreamTypes, S!Sides
    <3> QED
      BY <3>1 DEF EndType
  <2>2. /\ ends'["gateway"] = [ends["gateway"] EXCEPT !.told = "closed"]
        /\ ends'["home"] = ends["home"]
        /\ ends' \in [S!Sides -> EndType]
    BY <1>1, <1>3, <2>1 DEF S!CloseStream, S!AbortHome, S!CloseGateway, StreamTypes
  <2>3. /\ copy' \in [S!Sides -> CopyType]
        /\ copy'["home"] = copy["home"]
        /\ copy'["gateway"].put = copy["gateway"].put \/ copy'["gateway"].put = "done"
        /\ copy'["gateway"].take = copy["gateway"].take \/ copy'["gateway"].take = "done"
    BY <1>1, <1>3 DEF S!CloseStream, S!AbortHome, S!CloseGateway, StreamTypes, S!Sides
  <2>4. /\ UNCHANGED <<link, late>>
        /\ S!Hurt \/ (copy' = copy /\ copy["gateway"].put = "done" /\ copy["gateway"].take = "done" /\ ends["gateway"].told # "closed")
    BY <1>1, <1>3
  <2>5. /\ gate' = [gate EXCEPT !.closed = TRUE]
        /\ UNCHANGED <<serve, way>>
    BY <1>3 DEF S!CloseStream
  <2>6. StreamTypes'
    <3>1. gate' \in GateType
      BY <1>1, <2>2, <2>3, <2>4, <2>5 DEF StreamTypes, GateType
    <3>2. serve' \in ServeType
      BY <1>1, <2>2, <2>3, <2>4, <2>5 DEF StreamTypes, ServeType
    <3> QED
      BY ZenonT(60), <1>1, <2>2, <2>3, <2>4, <2>5, <3>1, <3>2 DEF StreamTypes, EndType, CopyType, WayType, S!Sides, S!Ways, S!Frames
  <2>7. UpEnds'
    BY SMTT(60), <1>1, <2>2, <2>3, <2>4, <2>5 DEF StreamTypes, EndType, CopyType, WayType, S!Sides, S!Ways,
       UpEnds, Ending
  <2>8. DownEnds'
    BY <1>1, <2>2, <2>3, <2>4, <2>5 DEF DownEnds
  <2>9. Ending'
    BY SMTT(60), <1>1, <2>2, <2>3, <2>4, <2>5 DEF StreamTypes, EndType, CopyType, WayType, S!Sides, S!Ways,
       Ending, EndOf, DownEnds
  <2>10. n \in Nat /\ m \in Nat /\ UpAt(n, m)'
    BY <1>1, <2>2, <2>3, <2>4, <2>5 DEF UpAt, UpEnds
  <2>11. k \in Nat /\ l \in Nat /\ DownAt(k, l)'
    BY <1>1, <2>2, <2>3, <2>4, <2>5 DEF DownAt, DownEnds
  <2>12. S!Hurt' \/ Orderly'
    BY SMTT(60), <1>1, <2>2, <2>3, <2>4, <2>5 DEF StreamTypes, EndType, CopyType, WayType, S!Sides, S!Ways,
       Orderly, ClosedLast, UpEnds, DownEnds, Ending, EndOf, S!Hurt, S!Finished
  <2> QED
    BY <2>6, <2>7, <2>8, <2>9, <2>10, <2>11, <2>12 DEF StreamInv, UpFlow, DownFlow
<1>4. CASE s = "gateway" /\ (~gate.wclosed \/ S!Wrote) /\ S!AbortGateway
            /\ way'["up"].wire = way["up"].wire
  <2>1. [ends["gateway"] EXCEPT !.told = "closed"] \in EndType
    <3>1. ends["gateway"] \in EndType
      BY <1>1 DEF StreamTypes, S!Sides
    <3> QED
      BY <3>1 DEF EndType
  <2>2. /\ ends'["gateway"] = [ends["gateway"] EXCEPT !.told = "closed"]
        /\ ends'["home"] = ends["home"]
        /\ ends' \in [S!Sides -> EndType]
    BY <1>1, <1>4, <2>1 DEF S!CloseStream, S!AbortHome, S!CloseGateway, StreamTypes
  <2>3. /\ copy' \in [S!Sides -> CopyType]
        /\ copy'["home"] = copy["home"]
        /\ copy'["gateway"].put = copy["gateway"].put \/ copy'["gateway"].put = "done"
        /\ copy'["gateway"].take = copy["gateway"].take \/ copy'["gateway"].take = "done"
    BY <1>1, <1>4 DEF S!CloseStream, S!AbortHome, S!CloseGateway, StreamTypes, S!Sides
  <2>4. /\ UNCHANGED <<link, late>>
        /\ S!Hurt \/ (copy' = copy /\ copy["gateway"].put = "done" /\ copy["gateway"].take = "done" /\ ends["gateway"].told # "closed")
    BY <1>1, <1>4
  <2>5. /\ gate' = [gate EXCEPT !.closed = TRUE, !.aborted = TRUE,
                          !.tx = IF gate.tx = "ended" THEN "ended" ELSE "failed"]
        /\ way' \in [S!Ways -> WayType]
        /\ way'["down"] = way["down"]
        /\ way'["up"].body = way["up"].body /\ way'["up"].over = way["up"].over
    BY <1>4, AbortGatewayDoes
  <2>6. UNCHANGED serve
    BY <1>4 DEF S!CloseStream
  <2>7. S!Hurt \/ gate.tx = "ended"
    BY <1>1, <2>2, <2>3, <2>4, <2>5, <2>6, <1>4 DEF Orderly, S!Wrote
  <2>8. way'["up"].wire = way["up"].wire
    BY <1>4
  <2>9. StreamTypes'
    <3>1. gate' \in GateType
      BY <1>1, <2>2, <2>3, <2>4, <2>5, <2>6, <2>7, <2>8 DEF StreamTypes, GateType
    <3>2. serve' \in ServeType
      BY <1>1, <2>2, <2>3, <2>4, <2>5, <2>6, <2>7, <2>8 DEF StreamTypes, ServeType
    <3> QED
      BY ZenonT(60), <1>1, <2>2, <2>3, <2>4, <2>5, <2>6, <2>7, <2>8, <3>1, <3>2 DEF StreamTypes, EndType, CopyType, WayType, S!Sides, S!Ways, S!Frames
  <2>10. UpEnds'
    BY SMTT(60), <1>1, <2>2, <2>3, <2>4, <2>5, <2>6, <2>7, <2>8 DEF StreamTypes, EndType, CopyType, WayType,
       S!Sides, S!Ways, UpEnds, Ending
  <2>11. DownEnds'
    BY <1>1, <2>2, <2>3, <2>4, <2>5, <2>6, <2>7, <2>8 DEF DownEnds
  <2>12. Ending'
    BY SMTT(60), <1>1, <2>2, <2>3, <2>4, <2>5, <2>6, <2>7, <2>8 DEF StreamTypes, EndType, CopyType, WayType,
       S!Sides, S!Ways, Ending, EndOf, DownEnds
  <2>13. n \in Nat /\ m \in Nat /\ UpAt(n, m)'
    BY <1>1, <2>2, <2>3, <2>4, <2>5, <2>6, <2>7, <2>8 DEF UpAt, UpEnds
  <2>14. k \in Nat /\ l \in Nat /\ DownAt(k, l)'
    BY SMTT(60), <1>1, <2>2, <2>3, <2>4, <2>5, <2>6, <2>7, <2>8 DEF DownAt, DownEnds
  <2>15. S!Hurt' \/ Orderly'
    BY SMTT(60), <1>1, <2>2, <2>3, <2>4, <2>5, <2>6, <2>7, <2>8 DEF StreamTypes, EndType, CopyType, WayType,
       S!Sides, S!Ways, Orderly, ClosedLast, UpEnds, DownEnds, Ending, EndOf, S!Hurt, S!Finished
  <2> QED
    BY <2>9, <2>10, <2>11, <2>12, <2>13, <2>14, <2>15 DEF StreamInv, UpFlow, DownFlow
<1>5. CASE s = "gateway" /\ (~gate.wclosed \/ S!Wrote) /\ S!AbortGateway
            /\ Grown(way["up"].wire, "rst", way'["up"].wire)
  <2>1. [ends["gateway"] EXCEPT !.told = "closed"] \in EndType
    <3>1. ends["gateway"] \in EndType
      BY <1>1 DEF StreamTypes, S!Sides
    <3> QED
      BY <3>1 DEF EndType
  <2>2. /\ ends'["gateway"] = [ends["gateway"] EXCEPT !.told = "closed"]
        /\ ends'["home"] = ends["home"]
        /\ ends' \in [S!Sides -> EndType]
    BY <1>1, <1>5, <2>1 DEF S!CloseStream, S!AbortHome, S!CloseGateway, StreamTypes
  <2>3. /\ copy' \in [S!Sides -> CopyType]
        /\ copy'["home"] = copy["home"]
        /\ copy'["gateway"].put = copy["gateway"].put \/ copy'["gateway"].put = "done"
        /\ copy'["gateway"].take = copy["gateway"].take \/ copy'["gateway"].take = "done"
    BY <1>1, <1>5 DEF S!CloseStream, S!AbortHome, S!CloseGateway, StreamTypes, S!Sides
  <2>4. /\ UNCHANGED <<link, late>>
        /\ S!Hurt \/ (copy' = copy /\ copy["gateway"].put = "done" /\ copy["gateway"].take = "done" /\ ends["gateway"].told # "closed")
    BY <1>1, <1>5
  <2>5. /\ gate' = [gate EXCEPT !.closed = TRUE, !.aborted = TRUE,
                          !.tx = IF gate.tx = "ended" THEN "ended" ELSE "failed"]
        /\ way' \in [S!Ways -> WayType]
        /\ way'["down"] = way["down"]
        /\ way'["up"].body = way["up"].body /\ way'["up"].over = way["up"].over
    BY <1>5, AbortGatewayDoes
  <2>6. UNCHANGED serve
    BY <1>5 DEF S!CloseStream
  <2>7. S!Hurt \/ gate.tx = "ended"
    BY <1>1, <2>2, <2>3, <2>4, <2>5, <2>6, <1>5 DEF Orderly, S!Wrote
  <2>8. Grown(way["up"].wire, "rst", way'["up"].wire)
    BY <1>5
  <2>9. DataFirst(way'["up"].wire, n)
    BY <1>5 DEF UpAt, Grown
  <2>10. S!Hurt \/ way["up"].over = "eof" \/ (Has(way["up"].wire, "end") /\ EndFirst(way["up"].wire))
    BY <1>1, <2>7 DEF UpEnds, Orderly, StreamTypes, WayType, S!Ways
  <2>11. S!Hurt \/ way["up"].over = "eof" \/ EndFirst(way'["up"].wire)
    BY <1>5, <2>10, GrownInOrder
  <2>12. StreamTypes'
    <3>1. gate' \in GateType
      BY <1>1, <2>2, <2>3, <2>4, <2>5, <2>6, <2>7, <2>8, <2>9, <2>11 DEF StreamTypes, GateType
    <3>2. serve' \in ServeType
      BY SMTT(60), <1>1, <2>2, <2>3, <2>4, <2>5, <2>6, <2>7, <2>8, <2>9, <2>11 DEF StreamTypes, ServeType
    <3> QED
      BY ZenonT(60), <1>1, <2>2, <2>3, <2>4, <2>5, <2>6, <2>7, <2>8, <2>9, <2>11, <3>1, <3>2 DEF StreamTypes, EndType, CopyType, WayType, S!Sides, S!Ways, S!Frames
  <2>13. UpEnds'
    BY SMTT(60), <1>1, <2>2, <2>3, <2>4, <2>5, <2>6, <2>7, <2>8, <2>9, <2>11 DEF StreamTypes, EndType,
       CopyType, WayType, S!Sides, S!Ways, UpEnds, Ending, EndOf, Grown
  <2>14. DownEnds'
    BY <1>1, <2>2, <2>3, <2>4, <2>5, <2>6, <2>7, <2>8, <2>9, <2>11 DEF DownEnds
  <2>15. Ending'
    BY SMTT(60), <1>1, <2>2, <2>3, <2>4, <2>5, <2>6, <2>7, <2>8, <2>9, <2>11 DEF StreamTypes, EndType,
       CopyType, WayType, S!Sides, S!Ways, Ending, EndOf, DownEnds
  <2>16. n \in Nat /\ m \in Nat /\ UpAt(n, m)'
    BY <1>1, <2>2, <2>3, <2>4, <2>5, <2>6, <2>7, <2>8, <2>9, <2>11 DEF UpAt, UpEnds
  <2>17. k \in Nat /\ l \in Nat /\ DownAt(k, l)'
    BY SMTT(60), <1>1, <2>2, <2>3, <2>4, <2>5, <2>6, <2>7, <2>8, <2>9, <2>11 DEF DownAt, DownEnds
  <2>18. S!Hurt' \/ Orderly'
    BY SMTT(60), <1>1, <2>2, <2>3, <2>4, <2>5, <2>6, <2>7, <2>8, <2>9, <2>11 DEF StreamTypes, EndType,
       CopyType, WayType, S!Sides, S!Ways, Orderly, ClosedLast, UpEnds, DownEnds, Ending, EndOf,
       S!Hurt, S!Finished
  <2> QED
    BY <2>12, <2>13, <2>14, <2>15, <2>16, <2>17, <2>18 DEF StreamInv, UpFlow, DownFlow
<1> QED
  BY AbortGatewayDoes, <1>2, <1>3, <1>4, <1>5 DEF S!Sides, S!CloseStream, S!CloseGateway

\* FinishClose closes the gateway's stream when both directions are over.
LEMMA FinishCloseKeeps ==
    ASSUME StreamInv, S!FinishClose
    PROVE  StreamInv'
<1>1. /\ StreamTypes /\ UpFlow /\ DownFlow /\ UpEnds /\ DownEnds /\ Ending
      /\ S!Hurt \/ Orderly
  BY DEF StreamInv
<1> PICK n, m \in Nat : UpAt(n, m)
  BY <1>1 DEF UpFlow
<1> PICK k, l \in Nat : DownAt(k, l)
  BY <1>1 DEF DownFlow
<1>2. CASE way'["up"].wire = way["up"].wire
  <2>1. /\ UNCHANGED <<ends, copy, serve, link>>
        /\ link => (late' = late /\ S!Wrote) \/ late'
        /\ link => gate.closed
        /\ late => late'
        /\ late' \in BOOLEAN
    BY <1>1, <1>2 DEF S!FinishClose, StreamTypes, S!Sides, S!Ways
  <2>2. /\ gate' = [gate EXCEPT !.closed = TRUE, !.aborted = TRUE,
                          !.tx = IF gate.tx = "ended" THEN "ended" ELSE "failed"]
        /\ way' \in [S!Ways -> WayType]
        /\ way'["down"] = way["down"]
        /\ way'["up"].body = way["up"].body /\ way'["up"].over = way["up"].over
    BY AbortGatewayDoes DEF S!FinishClose
  <2>3. S!Hurt \/ late' \/ gate.tx = "ended"
    BY <1>1, <2>1, <2>2 DEF Orderly, S!Wrote, S!Hurt
  <2>4. way'["up"].wire = way["up"].wire
    BY <1>2
  <2>5. StreamTypes'
    <3>1. gate' \in GateType
      BY <1>1, <2>1, <2>2, <2>3, <2>4 DEF StreamTypes, GateType
    <3>2. serve' \in ServeType
      BY <1>1, <2>1, <2>2, <2>3, <2>4 DEF StreamTypes, ServeType
    <3> QED
      BY <1>1, <2>1, <2>2, <2>3, <2>4, <3>1, <3>2 DEF StreamTypes, EndType, CopyType, WayType, S!Sides, S!Ways, S!Frames
  <2>6. UpEnds'
    BY <1>1, <2>1, <2>2, <2>3, <2>4 DEF UpEnds
  <2>7. DownEnds'
    BY <1>1, <2>1, <2>2, <2>3, <2>4 DEF DownEnds
  <2>8. Ending'
    BY <1>1, <2>1, <2>2, <2>3, <2>4 DEF Ending, EndOf
  <2>9. n \in Nat /\ m \in Nat /\ UpAt(n, m)'
    BY <1>1, <2>1, <2>2, <2>3, <2>4 DEF UpAt, UpEnds
  <2>10. k \in Nat /\ l \in Nat /\ DownAt(k, l)'
    BY <1>1, <2>1, <2>2, <2>3, <2>4 DEF DownAt, DownEnds
  <2>11. S!Hurt' \/ Orderly'
    BY <1>1, <2>1, <2>2, <2>3, <2>4 DEF Orderly, ClosedLast, UpEnds, DownEnds, Ending, S!Hurt,
       S!Finished
  <2> QED
    BY <2>5, <2>6, <2>7, <2>8, <2>9, <2>10, <2>11 DEF StreamInv, UpFlow, DownFlow
<1>3. CASE Grown(way["up"].wire, "rst", way'["up"].wire)
  <2>1. /\ UNCHANGED <<ends, copy, serve, link>>
        /\ link => (late' = late /\ S!Wrote) \/ late'
        /\ link => gate.closed
        /\ late => late'
        /\ late' \in BOOLEAN
    BY <1>1, <1>3 DEF S!FinishClose, StreamTypes, S!Sides, S!Ways
  <2>2. /\ gate' = [gate EXCEPT !.closed = TRUE, !.aborted = TRUE,
                          !.tx = IF gate.tx = "ended" THEN "ended" ELSE "failed"]
        /\ way' \in [S!Ways -> WayType]
        /\ way'["down"] = way["down"]
        /\ way'["up"].body = way["up"].body /\ way'["up"].over = way["up"].over
    BY AbortGatewayDoes DEF S!FinishClose
  <2>3. S!Hurt \/ late' \/ gate.tx = "ended"
    BY <1>1, <2>1, <2>2 DEF Orderly, S!Wrote, S!Hurt
  <2>4. Grown(way["up"].wire, "rst", way'["up"].wire)
    BY <1>3
  <2>5. DataFirst(way'["up"].wire, n)
    BY <1>3 DEF UpAt, Grown
  <2>6. S!Hurt \/ late' \/ way["up"].over = "eof" \/ (Has(way["up"].wire, "end") /\ EndFirst(way["up"].wire))
    BY <1>1, <2>3 DEF UpEnds, Orderly, StreamTypes, WayType, S!Ways
  <2>7. S!Hurt \/ late' \/ way["up"].over = "eof" \/ EndFirst(way'["up"].wire)
    BY <1>3, <2>6, GrownInOrder
  <2>8. StreamTypes'
    <3>1. gate' \in GateType
      BY <1>1, <2>1, <2>2, <2>3, <2>4, <2>5, <2>7 DEF StreamTypes, GateType
    <3>2. serve' \in ServeType
      BY <1>1, <2>1, <2>2, <2>3, <2>4, <2>5, <2>7 DEF StreamTypes, ServeType
    <3> QED
      BY <1>1, <2>1, <2>2, <2>3, <2>4, <2>5, <2>7, <3>1, <3>2 DEF StreamTypes, EndType, CopyType, WayType, S!Sides, S!Ways, S!Frames
  <2>9. UpEnds'
    BY <1>1, <2>1, <2>2, <2>3, <2>4, <2>5, <2>7 DEF UpEnds, Grown
  <2>10. DownEnds'
    BY <1>1, <2>1, <2>2, <2>3, <2>4, <2>5, <2>7 DEF DownEnds
  <2>11. Ending'
    BY <1>1, <2>1, <2>2, <2>3, <2>4, <2>5, <2>7 DEF Ending, EndOf
  <2>12. n \in Nat /\ m \in Nat /\ UpAt(n, m)'
    BY <1>1, <2>1, <2>2, <2>3, <2>4, <2>5, <2>7 DEF UpAt, UpEnds
  <2>13. k \in Nat /\ l \in Nat /\ DownAt(k, l)'
    BY <1>1, <2>1, <2>2, <2>3, <2>4, <2>5, <2>7 DEF DownAt, DownEnds
  <2>14. S!Hurt' \/ Orderly'
    BY <1>1, <2>1, <2>2, <2>3, <2>4, <2>5, <2>7 DEF Orderly, ClosedLast, UpEnds, DownEnds, Ending,
       S!Hurt, S!Finished
  <2> QED
    BY <2>8, <2>9, <2>10, <2>11, <2>12, <2>13, <2>14 DEF StreamInv, UpFlow, DownFlow
<1> QED
  BY AbortGatewayDoes, <1>2, <1>3 DEF S!FinishClose

\* A copy that fails ends alone,
LEMMA FailKeeps ==
    ASSUME StreamInv, NEW s \in S!Sides, NEW which \in {"put", "take"}, S!Fail(s, which), S!Hurt
    PROVE  StreamInv'
<1>1. copy \in [S!Sides -> CopyType]
  BY DEF StreamInv, StreamTypes
<1>2. copy' = [copy EXCEPT ![s][which] = "done"]
  BY DEF S!Fail
<1>3. /\ copy' \in [S!Sides -> CopyType]
      /\ \A x \in S!Sides : /\ x # s => copy'[x] = copy[x]
                            /\ copy'[x].put = copy[x].put \/ copy'[x].put = "done"
                            /\ copy'[x].take = copy[x].take \/ copy'[x].take = "done"
  <2>1. copy[s] \in CopyType
    BY <1>1
  <2>2. CASE which = "put"
    <3>1. [copy[s] EXCEPT !.put = "done"] \in CopyType
      BY <2>1 DEF CopyType
    <3>2. copy' = [copy EXCEPT ![s] = [copy[s] EXCEPT !.put = "done"]]
      BY <1>2, <2>2
    <3> QED
      BY <1>1, <3>1, <3>2, <2>1
  <2>3. CASE which = "take"
    <3>1. [copy[s] EXCEPT !.take = "done"] \in CopyType
      BY <2>1 DEF CopyType
    <3>2. copy' = [copy EXCEPT ![s] = [copy[s] EXCEPT !.take = "done"]]
      BY <1>2, <2>3
    <3> QED
      BY <1>1, <3>1, <3>2, <2>1
  <2> QED
    BY <2>2, <2>3
<1>4. S!CloseStream(s) /\ ends' = [ends EXCEPT ![s].told = "closed"] /\ UNCHANGED <<link, late>>
  BY DEF S!Fail
<1> QED
  BY <1>3, <1>4, ClosingKeeps

\* one pair of copies that are over closes its side,
LEMMA OverKeeps ==
    ASSUME StreamInv, NEW s \in S!Sides, S!Over(s)
    PROVE  StreamInv'
<1>1. copy' = copy /\ copy \in [S!Sides -> CopyType] /\ UNCHANGED <<link, late>>
  BY DEF StreamInv, StreamTypes, S!Over
<1>2. /\ S!CloseStream(s) /\ ends' = [ends EXCEPT ![s].told = "closed"]
      /\ copy[s].put = "done" /\ copy[s].take = "done" /\ ends[s].told # "closed"
  BY DEF S!Over
<1> QED
  BY <1>1, <1>2, ClosingKeeps

\* and a session that is over closes the engine's connection.
LEMMA SessionOverKeeps ==
    ASSUME StreamInv, S!SessionOver
    PROVE  StreamInv'
<1>1. copy' = copy /\ copy \in [S!Sides -> CopyType] /\ UNCHANGED <<link, late>> /\ "home" \in S!Sides
  BY DEF StreamInv, StreamTypes, S!SessionOver, S!Sides
<1>2. S!CloseStream("home") /\ ends' = [ends EXCEPT !["home"].told = "closed"] /\ S!Hurt
  BY DEF S!SessionOver, S!CloseStream, S!Hurt
<1> QED
  BY <1>1, <1>2, ClosingKeeps

\* While nothing failed no copy into the stream does,
LEMMA PutsHurt ==
    ASSUME StreamInv, NEW s \in S!Sides,
           \/ copy[s].put = "read" /\ ~S!Usable(s)
           \/ copy[s].put = "write" /\ S!WriteFails(s)
    PROVE  S!Hurt
<1> SUFFICES ASSUME ~S!Hurt PROVE FALSE
  OBVIOUS
<1>1. StreamTypes /\ UpEnds /\ DownEnds /\ Ending /\ Orderly
  BY DEF StreamInv
<1>2. link /\ ~ends["gateway"].broken /\ ~ends["home"].broken
  BY DEF S!Hurt, S!Sides
<1>3. CASE s = "gateway"
  BY <1>1, <1>2, <1>3 DEF UpEnds, DownEnds, Ending, EndOf, Orderly, ClosedLast, S!Usable,
     S!WriteFails
<1>4. CASE s = "home"
  BY <1>1, <1>2, <1>4 DEF UpEnds, DownEnds, Ending, EndOf, Orderly, ClosedLast, S!Usable,
     S!WriteFails, S!Finished
<1> QED
  BY <1>3, <1>4 DEF S!Sides

\* and none out of it.
LEMMA TakesHurt ==
    ASSUME StreamInv, NEW s \in S!Sides,
           \/ copy[s].take = "write" /\ ~S!Usable(s)
           \/ copy[s].take = "read" /\ S!ReadFails(s)
           \/ copy[s].take = "read" /\ s = "gateway" /\ way["down"].body = <<>> /\ way["down"].over # None
           \/ copy[s].take = "read" /\ s = "home" /\ way["up"].over = "reset"
    PROVE  S!Hurt
<1> SUFFICES ASSUME ~S!Hurt PROVE FALSE
  OBVIOUS
<1>1. StreamTypes /\ UpEnds /\ DownEnds /\ Ending /\ Orderly
  BY DEF StreamInv
<1>2. link /\ ~ends["gateway"].broken /\ ~ends["home"].broken
  BY DEF S!Hurt, S!Sides
<1>3. ~Has(<<>>, "fin")
  BY DEF Has
<1>4. way["down"].over \in {None, "eof", "reset"}
  BY <1>1 DEF StreamTypes, WayType, S!Ways
<1>5. CASE s = "gateway"
  BY <1>1, <1>2, <1>3, <1>4, <1>5 DEF UpEnds, DownEnds, Ending, EndOf, Orderly, ClosedLast,
     S!Usable, S!ReadFails
<1>6. CASE s = "home"
  BY <1>1, <1>2, <1>6 DEF UpEnds, DownEnds, Ending, EndOf, Orderly, ClosedLast, S!Usable,
     S!ReadFails, S!Finished
<1> QED
  BY <1>5, <1>6 DEF S!Sides

\* The engine's side reads a chunk of the request's body,
LEMMA TakeDataUpKeeps ==
    ASSUME StreamInv, copy["home"].take = "read", way["up"].body # <<>>, Head(way["up"].body) = "data",
           way' = [way EXCEPT !["up"].body = Tail(@)],
           copy' = [copy EXCEPT !["home"].take = "write"], UNCHANGED <<ends, gate, serve, link, late>>
    PROVE  StreamInv'
<1>1. /\ StreamTypes /\ UpFlow /\ DownFlow /\ UpEnds /\ DownEnds /\ Ending
      /\ S!Hurt \/ Orderly
  BY DEF StreamInv
<1> PICK n, m \in Nat : UpAt(n, m)
  BY <1>1 DEF UpFlow
<1> PICK k, l \in Nat : DownAt(k, l)
  BY <1>1 DEF DownFlow
<1>2. /\ copy["home"].take = "read"
      /\ way["up"].body # <<>> /\ Head(way["up"].body) = "data"
      /\ way' = [way EXCEPT !["up"].body = Tail(@)]
      /\ UNCHANGED <<ends, gate, serve, link, late>>
  BY <1>1
<1>3. /\ UNCHANGED <<ends, gate, serve, link, late>>
      /\ copy["home"].take = "read"
  BY <1>2
<1>4. [copy["home"] EXCEPT !.take = "write"] \in CopyType
  <2>1. copy["home"] \in CopyType
    BY <1>1 DEF StreamTypes, S!Sides
  <2> QED
    BY <2>1 DEF CopyType
<1>5. /\ copy'["home"] = [copy["home"] EXCEPT !.take = "write"]
      /\ copy'["gateway"] = copy["gateway"]
      /\ copy' \in [S!Sides -> CopyType]
  BY <1>1, <1>4 DEF StreamTypes, S!Sides
<1>6. way \in [S!Ways -> WayType]
  BY <1>1 DEF StreamTypes
<1>7. /\ way' \in [S!Ways -> WayType]
      /\ way'["up"].wire = way["up"].wire /\ way'["up"].over = way["up"].over
      /\ way'["down"] = way["down"]
      /\ way'["up"].body = Tail(way["up"].body) /\ way["up"].body \in Seq({"data", "fin"})
  BY <1>6, BodyShrinks DEF S!Ways
<1>8. Shrunk(way["up"].body, "data", way'["up"].body)
  BY <1>7, Tailed
<1>9. m > 0 /\ m - 1 \in Nat /\ DataFirst(way'["up"].body, m - 1)
  BY <1>8 DEF UpAt, Shrunk
<1>10. /\ Bit(copy["home"].take, "write") = 0 /\ Bit(copy'["home"].take, "write") = 1
       /\ ends["gateway"].sent \in Nat /\ ends["home"].got \in Nat
       /\ Bit(gate.tx, "chunk") \in Nat /\ Bit(copy["gateway"].put, "write") \in Nat
  BY <1>1, <1>3, <1>5, <1>7, <1>8, <1>9 DEF StreamTypes, EndType, CopyType, S!Sides, Bit
<1>11. gate.tx # "failed" /\ (copy["gateway"].put # "done" \/ gate.wclosed) => ends["gateway"].sent = ends["home"].got + Bit(copy["home"].take, "write") + m + n + Bit(gate.tx, "chunk") + Bit(copy["gateway"].put, "write")
  BY <1>5, <1>7, <1>8, <1>9 DEF UpAt
<1>12. gate.tx # "failed" /\ (copy["gateway"].put # "done" \/ gate.wclosed) => ends["gateway"].sent = ends["home"].got + 1 + (m - 1) + n + Bit(gate.tx, "chunk") + Bit(copy["gateway"].put, "write")
  BY <1>9, <1>11, <1>10
<1>13. n \in Nat /\ m - 1 \in Nat /\ UpAt(n, m - 1)'
  BY <1>5, <1>7, <1>8, <1>9, <1>12, <1>10 DEF UpAt
<1>14. StreamTypes'
  <2>1. gate' \in GateType
    BY <1>1, <1>3, <1>5, <1>7, <1>8, <1>9 DEF StreamTypes, GateType
  <2>2. serve' \in ServeType
    BY <1>1, <1>3, <1>5, <1>7, <1>8, <1>9 DEF StreamTypes, ServeType
  <2> QED
    BY <1>1, <1>3, <1>5, <1>7, <1>8, <1>9, <2>1, <2>2 DEF StreamTypes
<1>15. UpEnds'
  BY <1>1, <1>3, <1>5, <1>7, <1>8, <1>9 DEF UpEnds, Shrunk
<1>16. DownEnds'
  BY <1>1, <1>3, <1>5, <1>7, <1>8, <1>9 DEF DownEnds
<1>17. Ending'
  BY <1>1, <1>3, <1>5, <1>7, <1>8, <1>9 DEF Ending, EndOf
<1>18. k \in Nat /\ l \in Nat /\ DownAt(k, l)'
  BY <1>1, <1>3, <1>5, <1>7, <1>8, <1>9 DEF DownAt, DownEnds
<1>19. S!Hurt' \/ Orderly'
  BY <1>1, <1>3, <1>5, <1>7, <1>8, <1>9 DEF Orderly, ClosedLast, UpEnds, DownEnds, Ending, S!Hurt,
     S!Finished
<1> QED
  BY <1>14, <1>15, <1>16, <1>17, <1>18, <1>13, <1>19 DEF StreamInv, UpFlow, DownFlow

\* and the gateway's one of the response's.
LEMMA TakeDataDownKeeps ==
    ASSUME StreamInv, copy["gateway"].take = "read", way["down"].body # <<>>, Head(way["down"].body) = "data",
           way' = [way EXCEPT !["down"].body = Tail(@)],
           copy' = [copy EXCEPT !["gateway"].take = "write"], UNCHANGED <<ends, gate, serve, link, late>>
    PROVE  StreamInv'
<1>1. /\ StreamTypes /\ UpFlow /\ DownFlow /\ UpEnds /\ DownEnds /\ Ending
      /\ S!Hurt \/ Orderly
  BY DEF StreamInv
<1> PICK n, m \in Nat : UpAt(n, m)
  BY <1>1 DEF UpFlow
<1> PICK k, l \in Nat : DownAt(k, l)
  BY <1>1 DEF DownFlow
<1>2. /\ copy["gateway"].take = "read"
      /\ way["down"].body # <<>> /\ Head(way["down"].body) = "data"
      /\ way' = [way EXCEPT !["down"].body = Tail(@)]
      /\ UNCHANGED <<ends, gate, serve, link, late>>
  BY <1>1
<1>3. /\ UNCHANGED <<ends, gate, serve, link, late>>
      /\ copy["gateway"].take = "read"
  BY <1>2
<1>4. [copy["gateway"] EXCEPT !.take = "write"] \in CopyType
  <2>1. copy["gateway"] \in CopyType
    BY <1>1 DEF StreamTypes, S!Sides
  <2> QED
    BY <2>1 DEF CopyType
<1>5. /\ copy'["gateway"] = [copy["gateway"] EXCEPT !.take = "write"]
      /\ copy'["home"] = copy["home"]
      /\ copy' \in [S!Sides -> CopyType]
  BY <1>1, <1>4 DEF StreamTypes, S!Sides
<1>6. way \in [S!Ways -> WayType]
  BY <1>1 DEF StreamTypes
<1>7. /\ way' \in [S!Ways -> WayType]
      /\ way'["down"].wire = way["down"].wire /\ way'["down"].over = way["down"].over
      /\ way'["up"] = way["up"]
      /\ way'["down"].body = Tail(way["down"].body) /\ way["down"].body \in Seq({"data", "fin"})
  BY <1>6, BodyShrinks DEF S!Ways
<1>8. Shrunk(way["down"].body, "data", way'["down"].body)
  BY <1>7, Tailed
<1>9. l > 0 /\ l - 1 \in Nat /\ DataFirst(way'["down"].body, l - 1)
  BY <1>8 DEF DownAt, Shrunk
<1>10. /\ Bit(copy["gateway"].take, "write") = 0 /\ Bit(copy'["gateway"].take, "write") = 1
       /\ ends["home"].sent \in Nat /\ ends["gateway"].got \in Nat
       /\ Bit(copy["home"].put, "write") \in Nat
  BY <1>1, <1>3, <1>5, <1>7, <1>8, <1>9 DEF StreamTypes, EndType, CopyType, S!Sides, Bit
<1>11. (copy["home"].put # "done" \/ serve.wclosed) => ends["home"].sent = ends["gateway"].got + Bit(copy["gateway"].take, "write") + l + k + Bit(copy["home"].put, "write")
  BY <1>5, <1>7, <1>8, <1>9 DEF DownAt
<1>12. (copy["home"].put # "done" \/ serve.wclosed) => ends["home"].sent = ends["gateway"].got + 1 + (l - 1) + k + Bit(copy["home"].put, "write")
  BY <1>9, <1>11, <1>10
<1>13. k \in Nat /\ l - 1 \in Nat /\ DownAt(k, l - 1)'
  BY <1>3, <1>5, <1>7, <1>8, <1>9, <1>12, <1>10 DEF DownAt, Shrunk
<1>14. StreamTypes'
  <2>1. gate' \in GateType
    BY <1>1, <1>3, <1>5, <1>7, <1>8, <1>9 DEF StreamTypes, GateType
  <2>2. serve' \in ServeType
    BY <1>1, <1>3, <1>5, <1>7, <1>8, <1>9 DEF StreamTypes, ServeType
  <2> QED
    BY <1>1, <1>3, <1>5, <1>7, <1>8, <1>9, <2>1, <2>2 DEF StreamTypes
<1>15. UpEnds'
  BY <1>1, <1>3, <1>5, <1>7, <1>8, <1>9 DEF UpEnds
<1>16. DownEnds'
  BY <1>1, <1>3, <1>5, <1>7, <1>8, <1>9 DEF DownEnds, UpEnds, Shrunk
<1>17. Ending'
  BY <1>1, <1>3, <1>5, <1>7, <1>8, <1>9 DEF Ending, EndOf
<1>18. n \in Nat /\ m \in Nat /\ UpAt(n, m)'
  BY <1>1, <1>3, <1>5, <1>7, <1>8, <1>9 DEF UpAt, UpEnds
<1>19. S!Hurt' \/ Orderly'
  BY <1>1, <1>3, <1>5, <1>7, <1>8, <1>9 DEF Orderly, ClosedLast, UpEnds, DownEnds, Ending, S!Hurt,
     S!Finished
<1> QED
  BY <1>14, <1>15, <1>16, <1>17, <1>18, <1>13, <1>19 DEF StreamInv, UpFlow, DownFlow

\* The engine is told that the request's body ended, having all of it;
LEMMA TakeEndUpKeeps ==
    ASSUME StreamInv, None \notin {"eof", "reset"}, copy["home"].take = "read", way["up"].body = <<>>, way["up"].over = "eof",
           serve' = [serve EXCEPT !.sawEOF = TRUE, !.readDone = TRUE],
           ends' = [ends EXCEPT !["home"].told = IF @ = "open" THEN "eof" ELSE @],
           copy' = [copy EXCEPT !["home"].take = "done"], UNCHANGED <<gate, way, link, late>>
    PROVE  StreamInv'
<1>1. /\ StreamTypes /\ UpFlow /\ DownFlow /\ UpEnds /\ DownEnds /\ Ending
      /\ S!Hurt \/ Orderly
  BY DEF StreamInv
<1> PICK n, m \in Nat : UpAt(n, m)
  BY <1>1 DEF UpFlow
<1> PICK k, l \in Nat : DownAt(k, l)
  BY <1>1 DEF DownFlow
<1>2. /\ copy["home"].take = "read"
      /\ way["up"].body = <<>> /\ way["up"].over = "eof"
      /\ serve' = [serve EXCEPT !.sawEOF = TRUE, !.readDone = TRUE]
      /\ UNCHANGED <<gate, way, link, late>>
  BY <1>1
<1>3. [ends["home"] EXCEPT !.told = IF @ = "open" THEN "eof" ELSE @] \in EndType
  <2>1. ends["home"] \in EndType
    BY <1>1 DEF StreamTypes, S!Sides
  <2> QED
    BY <2>1 DEF EndType
<1>4. /\ ends'["home"] = [ends["home"] EXCEPT !.told = IF @ = "open" THEN "eof" ELSE @]
      /\ ends'["gateway"] = ends["gateway"]
      /\ ends' \in [S!Sides -> EndType]
  BY <1>1, <1>3 DEF StreamTypes, S!Sides
<1>5. [copy["home"] EXCEPT !.take = "done"] \in CopyType
  <2>1. copy["home"] \in CopyType
    BY <1>1 DEF StreamTypes, S!Sides
  <2> QED
    BY <2>1 DEF CopyType
<1>6. /\ copy'["home"] = [copy["home"] EXCEPT !.take = "done"]
      /\ copy'["gateway"] = copy["gateway"]
      /\ copy' \in [S!Sides -> CopyType]
  BY <1>1, <1>5 DEF StreamTypes, S!Sides
<1>7. n = 0 /\ m = 0
  BY None \notin {"eof", "reset"} DEF UpAt, DataFirst
<1>8. ends["gateway"].eof /\ ends["home"].got = ends["gateway"].sent
  BY <1>1, <1>2, <1>7 DEF StreamTypes, EndType, CopyType, WayType, S!Sides, S!Ways, UpAt, UpEnds,
     Bit
<1>9. StreamTypes'
  <2>1. serve' \in ServeType
    BY <1>1, <1>2 DEF StreamTypes, ServeType
  <2> QED
    BY <1>1, <1>2, <1>4, <1>6, <2>1 DEF StreamTypes
<1>10. UpEnds'
  BY <1>1, <1>2, <1>4, <1>6, <1>8 DEF UpEnds
<1>11. DownEnds'
  BY <1>1, <1>2, <1>4, <1>6, <1>8 DEF DownEnds
<1>12. Ending'
  BY <1>1, <1>2, <1>4, <1>6, <1>8 DEF Ending, EndOf
<1>13. n \in Nat /\ m \in Nat /\ UpAt(n, m)'
  BY <1>1, <1>2, <1>4, <1>6, <1>8 DEF UpAt, UpEnds
<1>14. k \in Nat /\ l \in Nat /\ DownAt(k, l)'
  BY <1>1, <1>2, <1>4, <1>6, <1>8 DEF DownAt, DownEnds
<1>15. S!Hurt' \/ Orderly'
  BY <1>1, <1>2, <1>4, <1>6, <1>8 DEF Orderly, ClosedLast, UpEnds, DownEnds, Ending, S!Hurt,
     S!Finished
<1> QED
  BY <1>9, <1>10, <1>11, <1>12, <1>13, <1>14, <1>15 DEF StreamInv, UpFlow, DownFlow

\* the client that the response's did, by its fin.
LEMMA TakeEndDownKeeps ==
    ASSUME StreamInv, copy["gateway"].take = "read", way["down"].body # <<>>, Head(way["down"].body) = "fin",
           ends' = [ends EXCEPT !["gateway"].told = IF @ = "open" THEN "eof" ELSE @],
           copy' = [copy EXCEPT !["gateway"].take = "done"], UNCHANGED <<gate, serve, way, link, late>>
    PROVE  StreamInv'
<1>1. /\ StreamTypes /\ UpFlow /\ DownFlow /\ UpEnds /\ DownEnds /\ Ending
      /\ S!Hurt \/ Orderly
  BY DEF StreamInv
<1> PICK n, m \in Nat : UpAt(n, m)
  BY <1>1 DEF UpFlow
<1> PICK k, l \in Nat : DownAt(k, l)
  BY <1>1 DEF DownFlow
<1>2. /\ copy["gateway"].take = "read"
      /\ way["down"].body # <<>> /\ Head(way["down"].body) = "fin"
      /\ UNCHANGED <<gate, serve, way, link, late>>
  BY <1>1
<1>3. [ends["gateway"] EXCEPT !.told = IF @ = "open" THEN "eof" ELSE @] \in EndType
  <2>1. ends["gateway"] \in EndType
    BY <1>1 DEF StreamTypes, S!Sides
  <2> QED
    BY <2>1 DEF EndType
<1>4. /\ ends'["gateway"] = [ends["gateway"] EXCEPT !.told = IF @ = "open" THEN "eof" ELSE @]
      /\ ends'["home"] = ends["home"]
      /\ ends' \in [S!Sides -> EndType]
  BY <1>1, <1>3 DEF StreamTypes, S!Sides
<1>5. [copy["gateway"] EXCEPT !.take = "done"] \in CopyType
  <2>1. copy["gateway"] \in CopyType
    BY <1>1 DEF StreamTypes, S!Sides
  <2> QED
    BY <2>1 DEF CopyType
<1>6. /\ copy'["gateway"] = [copy["gateway"] EXCEPT !.take = "done"]
      /\ copy'["home"] = copy["home"]
      /\ copy' \in [S!Sides -> CopyType]
  BY <1>1, <1>5 DEF StreamTypes, S!Sides
<1>7. Shrunk(way["down"].body, "fin", Tail(way["down"].body))
  BY <1>1, <1>2, Tailed DEF StreamTypes, WayType, S!Ways
<1>8. k = 0 /\ l = 0 /\ serve.wclosed
  BY <1>1, <1>7 DEF DownAt, Shrunk, DownEnds
<1>9. serve.wclosed /\ ends["home"].eof /\ ends["gateway"].got = ends["home"].sent
  BY <1>1, <1>2, <1>8 DEF StreamTypes, EndType, CopyType, WayType, S!Sides, S!Ways, DownAt,
     DownEnds, Bit
<1>10. StreamTypes'
  <2>1. gate' \in GateType
    BY <1>1, <1>2, <1>4, <1>6, <1>9 DEF StreamTypes, GateType
  <2>2. serve' \in ServeType
    BY <1>1, <1>2, <1>4, <1>6, <1>9 DEF StreamTypes, ServeType
  <2> QED
    BY <1>1, <1>2, <1>4, <1>6, <1>9, <2>1, <2>2 DEF StreamTypes
<1>11. UpEnds'
  BY <1>1, <1>2, <1>4, <1>6, <1>9 DEF UpEnds
<1>12. DownEnds'
  BY <1>1, <1>2, <1>4, <1>6, <1>9 DEF DownEnds
<1>13. Ending'
  BY <1>1, <1>2, <1>4, <1>6, <1>9 DEF Ending, EndOf
<1>14. n \in Nat /\ m \in Nat /\ UpAt(n, m)'
  BY <1>1, <1>2, <1>4, <1>6, <1>9 DEF UpAt, UpEnds
<1>15. k \in Nat /\ l \in Nat /\ DownAt(k, l)'
  BY <1>1, <1>2, <1>4, <1>6, <1>9 DEF DownAt, DownEnds
<1>16. S!Hurt' \/ Orderly'
  BY <1>1, <1>2, <1>4, <1>6, <1>9 DEF Orderly, ClosedLast, UpEnds, DownEnds, Ending, S!Hurt,
     S!Finished
<1> QED
  BY <1>10, <1>11, <1>12, <1>13, <1>14, <1>15, <1>16 DEF StreamInv, UpFlow, DownFlow

\* A reset tells the engine that its connection is closed.
LEMMA TakeResetKeeps ==
    ASSUME StreamInv, copy["home"].take = "read", way["up"].over = "reset",
           serve' = [serve EXCEPT !.readDone = TRUE, !.aborted = TRUE],
           ends' = [ends EXCEPT !["home"].told = "closed"],
           copy' = [copy EXCEPT !["home"].take = "done"], UNCHANGED <<gate, way, link, late>>
    PROVE  StreamInv'
<1>1. /\ StreamTypes /\ UpFlow /\ DownFlow /\ UpEnds /\ DownEnds /\ Ending
      /\ S!Hurt \/ Orderly
  BY DEF StreamInv
<1> PICK n, m \in Nat : UpAt(n, m)
  BY <1>1 DEF UpFlow
<1> PICK k, l \in Nat : DownAt(k, l)
  BY <1>1 DEF DownFlow
<1>2. /\ copy["home"].take = "read"
      /\ serve' = [serve EXCEPT !.readDone = TRUE, !.aborted = TRUE]
      /\ UNCHANGED <<gate, way, link, late>>
  BY <1>1
<1>3. [ends["home"] EXCEPT !.told = "closed"] \in EndType
  <2>1. ends["home"] \in EndType
    BY <1>1 DEF StreamTypes, S!Sides
  <2> QED
    BY <2>1 DEF EndType
<1>4. /\ ends'["home"] = [ends["home"] EXCEPT !.told = "closed"]
      /\ ends'["gateway"] = ends["gateway"]
      /\ ends' \in [S!Sides -> EndType]
  BY <1>1, <1>3 DEF StreamTypes, S!Sides
<1>5. [copy["home"] EXCEPT !.take = "done"] \in CopyType
  <2>1. copy["home"] \in CopyType
    BY <1>1 DEF StreamTypes, S!Sides
  <2> QED
    BY <2>1 DEF CopyType
<1>6. /\ copy'["home"] = [copy["home"] EXCEPT !.take = "done"]
      /\ copy'["gateway"] = copy["gateway"]
      /\ copy' \in [S!Sides -> CopyType]
  BY <1>1, <1>5 DEF StreamTypes, S!Sides
<1>7. way["up"].over = "reset"
  BY <1>1
<1>8. S!Hurt
  BY TakesHurt DEF S!Sides
<1>9. StreamTypes'
  <2>1. gate' \in GateType
    BY <1>1, <1>2, <1>4, <1>6, <1>7, <1>8 DEF StreamTypes, GateType
  <2>2. serve' \in ServeType
    BY <1>1, <1>2, <1>4, <1>6, <1>7, <1>8 DEF StreamTypes, ServeType
  <2> QED
    BY <1>1, <1>2, <1>4, <1>6, <1>7, <1>8, <2>1, <2>2 DEF StreamTypes, EndType, CopyType, WayType, S!Sides, S!Ways, S!Frames
<1>10. UpEnds'
  BY <1>1, <1>2, <1>4, <1>6, <1>7, <1>8 DEF UpEnds
<1>11. DownEnds'
  BY <1>1, <1>2, <1>4, <1>6, <1>7, <1>8 DEF DownEnds
<1>12. Ending'
  BY <1>1, <1>2, <1>4, <1>6, <1>7, <1>8 DEF Ending, EndOf
<1>13. n \in Nat /\ m \in Nat /\ UpAt(n, m)'
  BY <1>1, <1>2, <1>4, <1>6, <1>7, <1>8 DEF UpAt, UpEnds
<1>14. k \in Nat /\ l \in Nat /\ DownAt(k, l)'
  BY <1>1, <1>2, <1>4, <1>6, <1>7, <1>8 DEF DownAt, DownEnds
<1>15. S!Hurt' \/ Orderly'
  BY <1>1, <1>2, <1>4, <1>6, <1>7, <1>8 DEF Orderly, ClosedLast, UpEnds, DownEnds, S!Hurt
<1> QED
  BY <1>9, <1>10, <1>11, <1>12, <1>13, <1>14, <1>15 DEF StreamInv, UpFlow, DownFlow

\* A frame of the request arrives: a chunk, its end or its reset.
LEMMA ArriveUpKeeps ==
    ASSUME StreamInv, None \notin {"eof", "reset"}, S!Arrive("up")
    PROVE  StreamInv'
<1>1. /\ StreamTypes /\ UpFlow /\ DownFlow /\ UpEnds /\ DownEnds /\ Ending
      /\ S!Hurt \/ Orderly
  BY DEF StreamInv
<1> PICK n, m \in Nat : UpAt(n, m)
  BY <1>1 DEF UpFlow
<1> PICK k, l \in Nat : DownAt(k, l)
  BY <1>1 DEF DownFlow
<1>2. CASE Head(way["up"].wire) = "data"
  <2>1. /\ way' \in [S!Ways -> WayType]
        /\ way'["down"] = way["down"]
        /\ Shrunk(way["up"].wire, "data", way'["up"].wire)
        /\ Grown(way["up"].body, "data", way'["up"].body) /\ way'["up"].over = way["up"].over
    BY <1>1, <1>2, Arrives DEF S!Ways
  <2>2. /\ UNCHANGED <<ends, copy, link, late>>
        /\ serve' = [serve EXCEPT !.reset = serve.reset]
        /\ gate' = [gate EXCEPT !.tx = gate.tx]
    BY <1>1, <1>2 DEF S!Arrive, StreamTypes, GateType, ServeType
  <2>3. EndFirst(way["up"].wire) => "data" # "rst" /\ ("data" # "end" => EndFirst(way'["up"].wire))
    BY <2>1, ShrunkInOrder
  <2>4. DataFirst(way["up"].wire, n) /\ DataFirst(way["up"].body, m) /\ way["up"].body \in Seq({"data", "fin"})
    BY <1>1 DEF UpAt, StreamTypes, WayType, S!Ways
  <2>5. n > 0 /\ n - 1 \in Nat /\ DataFirst(way'["up"].wire, n - 1)
    BY <2>1, <2>4 DEF Shrunk
  <2>6. ~Has(way["up"].body, "fin")
    BY <1>1 DEF UpEnds
  <2>7. m = Len(way["up"].body)
    BY <2>4, <2>6, OnlyData DEF S!Frames
  <2>8. m + 1 \in Nat /\ DataFirst(way'["up"].body, m + 1)
    BY <2>1, <2>4, <2>7 DEF Grown
  <2>9. way'["up"].over = None
    BY <2>1, <2>5, <2>6 DEF UpAt
  <2>10. /\ ends["gateway"].sent \in Nat /\ ends["home"].got \in Nat /\ Bit(copy["home"].take, "write") \in Nat
         /\ Bit(gate.tx, "chunk") \in Nat /\ Bit(copy["gateway"].put, "write") \in Nat
    BY <1>1, <2>1, <2>2, <2>3, <2>5, <2>6, <2>8, <2>9 DEF StreamTypes, EndType, CopyType, S!Sides,
       Bit
  <2>11. gate.tx # "failed" /\ copy["home"].take # "done"
        /\ (copy["gateway"].put # "done" \/ gate.wclosed)
        => ends["gateway"].sent = ends["home"].got + Bit(copy["home"].take, "write") + m + n + Bit(gate.tx, "chunk") + Bit(copy["gateway"].put, "write")
    BY <1>1 DEF UpAt
  <2>12. gate.tx # "failed" /\ copy["home"].take # "done"
        /\ (copy["gateway"].put # "done" \/ gate.wclosed)
        => ends["gateway"].sent = ends["home"].got + Bit(copy["home"].take, "write") + (m + 1) + (n - 1) + Bit(gate.tx, "chunk") + Bit(copy["gateway"].put, "write")
    BY <2>6, <2>8, <2>9, <2>11, <2>10
  <2>13. gate'.tx = gate.tx /\ gate'.wclosed = gate.wclosed /\ serve'.wclosed = serve.wclosed
    BY <2>2, <2>5, <2>6, <2>8, <2>9
  <2>14. n - 1 \in Nat /\ m + 1 \in Nat /\ UpAt(n - 1, m + 1)'
    BY <2>2, <2>3, <2>5, <2>6, <2>8, <2>9, <2>13, <2>12 DEF UpAt
  <2>15. StreamTypes'
    <3>1. gate' \in GateType
      BY <1>1, <2>1, <2>2, <2>3, <2>5, <2>6, <2>8, <2>9 DEF StreamTypes, GateType
    <3>2. serve' \in ServeType
      BY <1>1, <2>1, <2>2, <2>3, <2>5, <2>6, <2>8, <2>9 DEF StreamTypes, ServeType
    <3> QED
      BY <1>1, <2>1, <2>2, <2>3, <2>5, <2>6, <2>8, <2>9, <3>1, <3>2 DEF StreamTypes
  <2>16. UpEnds'
    BY SMTT(60), <1>1, <2>1, <2>2, <2>3, <2>5, <2>6, <2>8, <2>9 DEF UpEnds, Ending, Shrunk, Grown
  <2>17. DownEnds'
    BY <1>1, <2>1, <2>2, <2>3, <2>5, <2>6, <2>8, <2>9 DEF DownEnds, UpEnds
  <2>18. Ending'
    BY <1>1, <2>1, <2>2, <2>3, <2>5, <2>6, <2>8, <2>9 DEF Ending, EndOf
  <2>19. k \in Nat /\ l \in Nat /\ DownAt(k, l)'
    BY <1>1, <2>1, <2>2, <2>3, <2>5, <2>6, <2>8, <2>9 DEF DownAt, DownEnds
  <2>20. S!Hurt' \/ Orderly'
    BY <1>1, <2>1, <2>2, <2>3, <2>5, <2>6, <2>8, <2>9 DEF Orderly, ClosedLast, UpEnds, DownEnds,
       Ending, S!Hurt, S!Finished
  <2> QED
    BY <2>15, <2>16, <2>17, <2>18, <2>19, <2>14, <2>20 DEF StreamInv, UpFlow, DownFlow
<1>3. CASE Head(way["up"].wire) = "end"
  <2>1. /\ way' \in [S!Ways -> WayType]
        /\ way'["down"] = way["down"]
        /\ Shrunk(way["up"].wire, "end", way'["up"].wire)
        /\ way'["up"].body = way["up"].body
        /\ way'["up"].over = IF way["up"].over = None THEN "eof" ELSE way["up"].over
    BY <1>1, <1>3, Arrives DEF S!Ways
  <2>2. /\ UNCHANGED <<ends, copy, link, late>>
        /\ serve' = [serve EXCEPT !.reset = serve.reset]
        /\ gate' = [gate EXCEPT !.tx = gate.tx]
    BY <1>1, <1>3 DEF S!Arrive, StreamTypes, GateType, ServeType
  <2>3. EndFirst(way["up"].wire) => "end" # "rst" /\ ("end" # "end" => EndFirst(way'["up"].wire))
    BY <2>1, ShrunkInOrder
  <2>4. n = 0 /\ DataFirst(way'["up"].wire, 0)
    BY <2>1 DEF UpAt, Shrunk
  <2>5. StreamTypes'
    <3>1. gate' \in GateType
      BY <1>1, <2>1, <2>2, <2>3, <2>4 DEF StreamTypes, GateType
    <3>2. serve' \in ServeType
      BY <1>1, <2>1, <2>2, <2>3, <2>4 DEF StreamTypes, ServeType
    <3> QED
      BY <1>1, <2>1, <2>2, <2>3, <2>4, <3>1, <3>2 DEF StreamTypes
  <2>6. UpEnds'
    BY <1>1, <2>1, <2>2, <2>3, <2>4 DEF UpEnds, Shrunk
  <2>7. DownEnds'
    BY <1>1, <2>1, <2>2, <2>3, <2>4 DEF DownEnds
  <2>8. Ending'
    BY <1>1, <2>1, <2>2, <2>3, <2>4 DEF Ending, EndOf
  <2>9. 0 \in Nat /\ m \in Nat /\ UpAt(0, m)'
    BY <1>1, <2>1, <2>2, <2>3, <2>4 DEF UpAt, UpEnds
  <2>10. k \in Nat /\ l \in Nat /\ DownAt(k, l)'
    BY <1>1, <2>1, <2>2, <2>3, <2>4 DEF DownAt, DownEnds
  <2>11. S!Hurt' \/ Orderly'
    BY <1>1, <2>1, <2>2, <2>3, <2>4 DEF StreamTypes, EndType, CopyType, WayType, S!Sides, S!Ways,
       Orderly, ClosedLast, UpEnds, DownEnds, Ending, EndOf, S!Hurt, S!Finished
  <2> QED
    BY <2>5, <2>6, <2>7, <2>8, <2>9, <2>10, <2>11 DEF StreamInv, UpFlow, DownFlow
<1>4. CASE Head(way["up"].wire) = "rst"
  <2>1. /\ way' \in [S!Ways -> WayType]
        /\ way'["down"] = way["down"]
        /\ Shrunk(way["up"].wire, "rst", way'["up"].wire)
        /\ way'["up"].body = way["up"].body
        /\ way'["up"].over = IF way["up"].over = None THEN "reset" ELSE way["up"].over
    BY <1>1, <1>4, Arrives DEF S!Ways
  <2>2. /\ UNCHANGED <<ends, copy, link, late>>
        /\ serve' = [serve EXCEPT !.reset = TRUE]
        /\ gate' = [gate EXCEPT !.tx = gate.tx]
    BY <1>1, <1>4 DEF S!Arrive, StreamTypes, S!Sides, S!Ways
  <2>3. EndFirst(way["up"].wire) => "rst" # "rst" /\ ("rst" # "end" => EndFirst(way'["up"].wire))
    BY <2>1, ShrunkInOrder
  <2>4. n = 0 /\ DataFirst(way'["up"].wire, 0)
    BY <2>1 DEF UpAt, Shrunk
  <2>5. StreamTypes'
    <3>1. gate' \in GateType
      BY <1>1, <2>1, <2>2, <2>3, <2>4 DEF StreamTypes, GateType
    <3>2. serve' \in ServeType
      BY <1>1, <2>1, <2>2, <2>3, <2>4 DEF StreamTypes, ServeType
    <3> QED
      BY <1>1, <2>1, <2>2, <2>3, <2>4, <3>1, <3>2 DEF StreamTypes, EndType, CopyType, WayType, S!Sides, S!Ways, S!Frames
  <2>6. UpEnds'
    BY <1>1, <2>1, <2>2, <2>3, <2>4 DEF UpEnds, Shrunk
  <2>7. DownEnds'
    BY <1>1, <2>1, <2>2, <2>3, <2>4 DEF DownEnds
  <2>8. Ending'
    BY <1>1, <2>1, <2>2, <2>3, <2>4 DEF Ending, EndOf
  <2>9. 0 \in Nat /\ m \in Nat /\ UpAt(0, m)'
    BY <1>1, <2>1, <2>2, <2>3, <2>4 DEF UpAt, UpEnds
  <2>10. k \in Nat /\ l \in Nat /\ DownAt(k, l)'
    BY <1>1, <2>1, <2>2, <2>3, <2>4 DEF DownAt, DownEnds
  <2>11. S!Hurt' \/ Orderly'
    BY <1>1, <2>1, <2>2, <2>3, <2>4 DEF Orderly, ClosedLast, UpEnds, DownEnds, Ending, S!Hurt,
       S!Finished
  <2> QED
    BY <2>5, <2>6, <2>7, <2>8, <2>9, <2>10, <2>11 DEF StreamInv, UpFlow, DownFlow
<1>5. Head(way["up"].wire) \in {"data", "end", "rst"}
  BY <1>1, Arrives DEF UpEnds, Shrunk, S!Frames, S!Ways
<1> QED
  BY <1>2, <1>3, <1>4, <1>5

\* A frame of the response arrives: a chunk, the fin, the end or a reset.
LEMMA ArriveDownKeeps ==
    ASSUME StreamInv, None \notin {"eof", "reset"}, S!Arrive("down")
    PROVE  StreamInv'
<1>1. /\ StreamTypes /\ UpFlow /\ DownFlow /\ UpEnds /\ DownEnds /\ Ending
      /\ S!Hurt \/ Orderly
  BY DEF StreamInv
<1> PICK n, m \in Nat : UpAt(n, m)
  BY <1>1 DEF UpFlow
<1> PICK k, l \in Nat : DownAt(k, l)
  BY <1>1 DEF DownFlow
<1>2. CASE Head(way["down"].wire) = "data"
  <2>1. /\ way' \in [S!Ways -> WayType]
        /\ way'["up"] = way["up"]
        /\ Shrunk(way["down"].wire, "data", way'["down"].wire)
        /\ Grown(way["down"].body, "data", way'["down"].body) /\ way'["down"].over = way["down"].over
    BY <1>1, <1>2, Arrives DEF S!Ways
  <2>2. /\ UNCHANGED <<ends, copy, link, late>>
        /\ serve' = [serve EXCEPT !.reset = serve.reset]
        /\ gate' = [gate EXCEPT !.tx = gate.tx]
    BY <1>1, <1>2 DEF S!Arrive, StreamTypes, GateType, ServeType
  <2>3. FinFirst(way'["down"].wire)
    BY <1>1, <2>1, ShrunkInOrder DEF DownEnds
  <2>4. DataFirst(way["down"].wire, k) /\ DataFirst(way["down"].body, l) /\ way["down"].body \in Seq({"data", "fin"})
    BY <1>1 DEF DownAt, StreamTypes, WayType, S!Ways
  <2>5. k > 0 /\ k - 1 \in Nat /\ DataFirst(way'["down"].wire, k - 1)
    BY <2>1, <2>4 DEF Shrunk
  <2>6. ~Has(way["down"].body, "fin")
    BY <2>5 DEF DownAt
  <2>7. l = Len(way["down"].body)
    BY <2>4, <2>6, OnlyData DEF S!Frames
  <2>8. l + 1 \in Nat /\ DataFirst(way'["down"].body, l + 1)
    BY <2>1, <2>4, <2>7 DEF Grown
  <2>9. way'["down"].over = None /\ ~Has(way'["down"].body, "fin")
    BY <2>1, <2>5, <2>6 DEF DownAt, Grown
  <2>10. /\ ends["home"].sent \in Nat /\ ends["gateway"].got \in Nat /\ Bit(copy["gateway"].take, "write") \in Nat
         /\ Bit(copy["home"].put, "write") \in Nat
    BY <1>1, <2>1, <2>2, <2>3, <2>5, <2>6, <2>8, <2>9 DEF StreamTypes, EndType, CopyType, S!Sides,
       Bit
  <2>11. copy["gateway"].take # "done" /\ (copy["home"].put # "done" \/ serve.wclosed)
        => ends["home"].sent = ends["gateway"].got + Bit(copy["gateway"].take, "write") + l + k + Bit(copy["home"].put, "write")
    BY <1>1 DEF DownAt
  <2>12. copy["gateway"].take # "done" /\ (copy["home"].put # "done" \/ serve.wclosed)
        => ends["home"].sent = ends["gateway"].got + Bit(copy["gateway"].take, "write") + (l + 1) + (k - 1) + Bit(copy["home"].put, "write")
    BY <2>6, <2>8, <2>9, <2>11, <2>10
  <2>13. gate'.tx = gate.tx /\ gate'.wclosed = gate.wclosed /\ serve'.wclosed = serve.wclosed
    BY <2>2, <2>5, <2>6, <2>8, <2>9
  <2>14. k - 1 \in Nat /\ l + 1 \in Nat /\ DownAt(k - 1, l + 1)'
    BY <2>2, <2>3, <2>5, <2>6, <2>8, <2>9, <2>13, <2>12 DEF DownAt
  <2>15. StreamTypes'
    <3>1. gate' \in GateType
      BY <1>1, <2>1, <2>2, <2>3, <2>5, <2>6, <2>8, <2>9 DEF StreamTypes, GateType
    <3>2. serve' \in ServeType
      BY <1>1, <2>1, <2>2, <2>3, <2>5, <2>6, <2>8, <2>9 DEF StreamTypes, ServeType
    <3> QED
      BY <1>1, <2>1, <2>2, <2>3, <2>5, <2>6, <2>8, <2>9, <3>1, <3>2 DEF StreamTypes
  <2>16. UpEnds'
    BY <1>1, <2>1, <2>2, <2>3, <2>5, <2>6, <2>8, <2>9 DEF UpEnds
  <2>17. DownEnds'
    BY SMTT(60), <1>1, <2>1, <2>2, <2>3, <2>5, <2>6, <2>8, <2>9 DEF DownEnds, UpEnds, Shrunk
  <2>18. Ending'
    BY <1>1, <2>1, <2>2, <2>3, <2>5, <2>6, <2>8, <2>9 DEF Ending, EndOf
  <2>19. n \in Nat /\ m \in Nat /\ UpAt(n, m)'
    BY SMTT(60), <1>1, <2>1, <2>2, <2>3, <2>5, <2>6, <2>8, <2>9 DEF UpAt, UpEnds
  <2>20. S!Hurt' \/ Orderly'
    BY <1>1, <2>1, <2>2, <2>3, <2>5, <2>6, <2>8, <2>9 DEF Orderly, ClosedLast, UpEnds, DownEnds,
       Ending, EndOf, S!Hurt, S!Finished, Shrunk
  <2> QED
    BY <2>15, <2>16, <2>17, <2>18, <2>19, <2>14, <2>20 DEF StreamInv, UpFlow, DownFlow
<1>3. CASE Head(way["down"].wire) = "fin"
  <2>1. /\ way' \in [S!Ways -> WayType]
        /\ way'["up"] = way["up"]
        /\ Shrunk(way["down"].wire, "fin", way'["down"].wire)
        /\ Grown(way["down"].body, "fin", way'["down"].body) /\ way'["down"].over = way["down"].over
    BY <1>1, <1>3, Arrives DEF S!Ways
  <2>2. /\ UNCHANGED <<ends, copy, link, late>>
        /\ serve' = [serve EXCEPT !.reset = serve.reset]
        /\ gate' = [gate EXCEPT !.tx = gate.tx]
    BY <1>1, <1>3 DEF S!Arrive, StreamTypes, GateType, ServeType
  <2>3. FinFirst(way'["down"].wire)
    BY <1>1, <2>1, ShrunkInOrder DEF DownEnds
  <2>4. k = 0 /\ DataFirst(way'["down"].wire, 0)
    BY <2>1 DEF DownAt, Shrunk
  <2>5. DataFirst(way'["down"].body, l)
    BY <2>1 DEF DownAt, Grown
  <2>6. StreamTypes'
    <3>1. gate' \in GateType
      BY <1>1, <2>1, <2>2, <2>3, <2>4, <2>5 DEF StreamTypes, GateType
    <3>2. serve' \in ServeType
      BY <1>1, <2>1, <2>2, <2>3, <2>4, <2>5 DEF StreamTypes, ServeType
    <3> QED
      BY <1>1, <2>1, <2>2, <2>3, <2>4, <2>5, <3>1, <3>2 DEF StreamTypes
  <2>7. UpEnds'
    BY <1>1, <2>1, <2>2, <2>3, <2>4, <2>5 DEF UpEnds
  <2>8. DownEnds'
    BY <1>1, <2>1, <2>2, <2>3, <2>4, <2>5 DEF DownEnds, UpEnds, Ending, Shrunk, Grown
  <2>9. Ending'
    BY <1>1, <2>1, <2>2, <2>3, <2>4, <2>5 DEF Ending, EndOf
  <2>10. n \in Nat /\ m \in Nat /\ UpAt(n, m)'
    BY <1>1, <2>1, <2>2, <2>3, <2>4, <2>5 DEF UpAt, UpEnds
  <2>11. 0 \in Nat /\ l \in Nat /\ DownAt(0, l)'
    BY <1>1, <2>1, <2>2, <2>3, <2>4, <2>5 DEF DownAt, DownEnds
  <2>12. S!Hurt' \/ Orderly'
    BY <1>1, <2>1, <2>2, <2>3, <2>4, <2>5 DEF Orderly, ClosedLast, UpEnds, DownEnds, Ending,
       EndOf, S!Hurt, S!Finished, Shrunk
  <2> QED
    BY <2>6, <2>7, <2>8, <2>9, <2>10, <2>11, <2>12 DEF StreamInv, UpFlow, DownFlow
<1>4. CASE Head(way["down"].wire) = "end"
  <2>1. /\ way' \in [S!Ways -> WayType]
        /\ way'["up"] = way["up"]
        /\ Shrunk(way["down"].wire, "end", way'["down"].wire)
        /\ way'["down"].body = way["down"].body
        /\ way'["down"].over = IF way["down"].over = None THEN "eof" ELSE way["down"].over
    BY <1>1, <1>4, Arrives DEF S!Ways
  <2>2. /\ UNCHANGED <<ends, copy, link, late>>
        /\ serve' = [serve EXCEPT !.reset = serve.reset]
        /\ gate' = [gate EXCEPT !.tx = gate.tx]
    BY <1>1, <1>4 DEF S!Arrive, StreamTypes, GateType, ServeType
  <2>3. /\ FinFirst(way'["down"].wire)
        /\ ~Has(way'["down"].wire, "fin")
    BY <1>1, <2>1, ShrunkInOrder DEF DownEnds
  <2>4. k = 0 /\ DataFirst(way'["down"].wire, 0)
    BY <2>1 DEF DownAt, Shrunk
  <2>5. StreamTypes'
    <3>1. gate' \in GateType
      BY <1>1, <2>1, <2>2, <2>3, <2>4 DEF StreamTypes, GateType
    <3>2. serve' \in ServeType
      BY <1>1, <2>1, <2>2, <2>3, <2>4 DEF StreamTypes, ServeType
    <3> QED
      BY <1>1, <2>1, <2>2, <2>3, <2>4, <3>1, <3>2 DEF StreamTypes
  <2>6. UpEnds'
    BY <1>1, <2>1, <2>2, <2>3, <2>4 DEF UpEnds
  <2>7. DownEnds'
    BY <1>1, <2>1, <2>2, <2>3, <2>4 DEF DownEnds, UpEnds, Shrunk
  <2>8. Ending'
    BY <1>1, <2>1, <2>2, <2>3, <2>4 DEF Ending, EndOf
  <2>9. n \in Nat /\ m \in Nat /\ UpAt(n, m)'
    BY <1>1, <2>1, <2>2, <2>3, <2>4 DEF UpAt, UpEnds
  <2>10. 0 \in Nat /\ l \in Nat /\ DownAt(0, l)'
    BY <1>1, <2>1, <2>2, <2>3, <2>4 DEF DownAt, DownEnds
  <2>11. S!Hurt' \/ Orderly'
    BY <1>1, <2>1, <2>2, <2>3, <2>4 DEF Orderly, ClosedLast, UpEnds, DownEnds, Ending, EndOf,
       S!Hurt, S!Finished, Shrunk
  <2> QED
    BY <2>5, <2>6, <2>7, <2>8, <2>9, <2>10, <2>11 DEF StreamInv, UpFlow, DownFlow
<1>5. CASE Head(way["down"].wire) = "rst"
  <2>1. /\ way' \in [S!Ways -> WayType]
        /\ way'["up"] = way["up"]
        /\ Shrunk(way["down"].wire, "rst", way'["down"].wire)
        /\ way'["down"].body = way["down"].body
        /\ way'["down"].over = IF way["down"].over = None THEN "reset" ELSE way["down"].over
    BY <1>1, <1>5, Arrives DEF S!Ways
  <2>2. /\ UNCHANGED <<ends, copy, link, late>>
        /\ serve' = [serve EXCEPT !.reset = serve.reset]
        /\ gate' = [gate EXCEPT !.tx = IF gate.tx # "ended" THEN "failed" ELSE gate.tx]
    BY <1>1, <1>5 DEF S!Arrive, StreamTypes, GateType, ServeType
  <2>3. /\ FinFirst(way'["down"].wire)
        /\ ~Has(way'["down"].wire, "fin")
    BY <1>1, <2>1, ShrunkInOrder DEF DownEnds
  <2>4. k = 0 /\ DataFirst(way'["down"].wire, 0)
    BY <2>1 DEF DownAt, Shrunk
  <2>5. S!Hurt \/ ~Orderly
    BY <2>1 DEF Orderly, Shrunk
  <2>6. StreamTypes'
    <3>1. gate' \in GateType
      BY <1>1, <2>1, <2>2, <2>3, <2>4, <2>5 DEF StreamTypes, GateType
    <3>2. serve' \in ServeType
      BY <1>1, <2>1, <2>2, <2>3, <2>4, <2>5 DEF StreamTypes, ServeType
    <3> QED
      BY <1>1, <2>1, <2>2, <2>3, <2>4, <2>5, <3>1, <3>2 DEF StreamTypes
  <2>7. UpEnds'
    BY <1>1, <2>1, <2>2, <2>3, <2>4, <2>5 DEF UpEnds
  <2>8. DownEnds'
    BY <1>1, <2>1, <2>2, <2>3, <2>4, <2>5 DEF DownEnds, UpEnds, Shrunk
  <2>9. Ending'
    BY <1>1, <2>1, <2>2, <2>3, <2>4, <2>5 DEF Ending, EndOf
  <2>10. n \in Nat /\ m \in Nat /\ UpAt(n, m)'
    BY <1>1, <2>1, <2>2, <2>3, <2>4, <2>5 DEF UpAt, UpEnds
  <2>11. 0 \in Nat /\ l \in Nat /\ DownAt(0, l)'
    BY <1>1, <2>1, <2>2, <2>3, <2>4, <2>5 DEF DownAt, DownEnds
  <2>12. S!Hurt' \/ Orderly'
    BY <1>1, <2>1, <2>2, <2>3, <2>4, <2>5 DEF Orderly, ClosedLast, UpEnds, DownEnds, Ending, S!Hurt
  <2> QED
    BY <2>6, <2>7, <2>8, <2>9, <2>10, <2>11, <2>12 DEF StreamInv, UpFlow, DownFlow
<1>6. Head(way["down"].wire) \in {"data", "fin", "end", "rst"}
  BY <1>1, Arrives DEF S!Frames, S!Ways
<1> QED
  BY <1>2, <1>3, <1>4, <1>5, <1>6

\* The handler goes on when its copies are over or its request failed;
LEMMA HandlerKeeps ==
    ASSUME StreamInv, S!Handler
    PROVE  StreamInv'
<1>1. /\ StreamTypes /\ UpFlow /\ DownFlow /\ UpEnds /\ DownEnds /\ Ending
      /\ S!Hurt \/ Orderly
  BY DEF StreamInv
<1> PICK n, m \in Nat : UpAt(n, m)
  BY <1>1 DEF UpFlow
<1> PICK k, l \in Nat : DownAt(k, l)
  BY <1>1 DEF DownFlow
<1>2. CASE ~link /\ serve' = [serve EXCEPT !.aborted = TRUE]
  <2>1. /\ ~link
        /\ serve' = [serve EXCEPT !.aborted = TRUE]
        /\ UNCHANGED <<ends, copy, gate, way, link, late>>
    BY <1>2 DEF S!Handler
  <2>2. StreamTypes'
    <3>1. gate' \in GateType
      BY <1>1, <2>1 DEF StreamTypes, GateType
    <3>2. serve' \in ServeType
      BY <1>1, <2>1 DEF StreamTypes, ServeType
    <3> QED
      BY <1>1, <2>1, <3>1, <3>2 DEF StreamTypes, EndType, CopyType, WayType, S!Sides, S!Ways, S!Frames
  <2>3. UpEnds'
    BY <1>1, <2>1 DEF UpEnds
  <2>4. DownEnds'
    BY <1>1, <2>1 DEF DownEnds
  <2>5. Ending'
    BY <1>1, <2>1 DEF Ending, EndOf
  <2>6. n \in Nat /\ m \in Nat /\ UpAt(n, m)'
    BY <1>1, <2>1 DEF UpAt, UpEnds
  <2>7. k \in Nat /\ l \in Nat /\ DownAt(k, l)'
    BY <1>1, <2>1 DEF DownAt, DownEnds
  <2>8. S!Hurt' \/ Orderly'
    BY <1>1, <2>1 DEF Orderly, ClosedLast, UpEnds, DownEnds, S!Hurt
  <2> QED
    BY <2>2, <2>3, <2>4, <2>5, <2>6, <2>7, <2>8 DEF StreamInv, UpFlow, DownFlow
<1>3. CASE serve.reset /\ serve' = [serve EXCEPT !.draining = TRUE]
  <2>1. /\ serve.reset
        /\ serve' = [serve EXCEPT !.draining = TRUE]
        /\ UNCHANGED <<ends, copy, gate, way, link, late>>
    BY <1>3 DEF S!Handler
  <2>2. StreamTypes'
    <3>1. gate' \in GateType
      BY <1>1, <2>1 DEF StreamTypes, GateType
    <3>2. serve' \in ServeType
      BY <1>1, <2>1 DEF StreamTypes, ServeType
    <3> QED
      BY <1>1, <2>1, <3>1, <3>2 DEF StreamTypes, EndType, CopyType, WayType, S!Sides, S!Ways, S!Frames
  <2>3. UpEnds'
    BY <1>1, <2>1 DEF UpEnds
  <2>4. DownEnds'
    BY <1>1, <2>1 DEF DownEnds
  <2>5. Ending'
    BY <1>1, <2>1 DEF Ending, EndOf
  <2>6. n \in Nat /\ m \in Nat /\ UpAt(n, m)'
    BY <1>1, <2>1 DEF UpAt, UpEnds
  <2>7. k \in Nat /\ l \in Nat /\ DownAt(k, l)'
    BY <1>1, <2>1 DEF DownAt, DownEnds
  <2>8. S!Hurt' \/ Orderly'
    BY <1>1, <2>1 DEF Orderly, ClosedLast, UpEnds, DownEnds, Ending, S!Hurt, S!Finished
  <2> QED
    BY <2>2, <2>3, <2>4, <2>5, <2>6, <2>7, <2>8 DEF StreamInv, UpFlow, DownFlow
<1>4. CASE S!Drained /\ serve' = [serve EXCEPT !.aborted = TRUE]
  <2>1. /\ serve.draining /\ serve.readDone
        /\ serve' = [serve EXCEPT !.aborted = TRUE]
        /\ UNCHANGED <<ends, copy, gate, way, link, late>>
    BY <1>4 DEF S!Handler, S!Drained
  <2>2. StreamTypes'
    <3>1. gate' \in GateType
      BY <1>1, <2>1 DEF StreamTypes, GateType
    <3>2. serve' \in ServeType
      BY <1>1, <2>1 DEF StreamTypes, ServeType
    <3> QED
      BY <1>1, <2>1, <3>1, <3>2 DEF StreamTypes, EndType, CopyType, WayType, S!Sides, S!Ways, S!Frames
  <2>3. UpEnds'
    BY <1>1, <2>1 DEF UpEnds
  <2>4. DownEnds'
    BY <1>1, <2>1 DEF DownEnds
  <2>5. Ending'
    BY <1>1, <2>1 DEF Ending, EndOf
  <2>6. n \in Nat /\ m \in Nat /\ UpAt(n, m)'
    BY <1>1, <2>1 DEF UpAt, UpEnds
  <2>7. k \in Nat /\ l \in Nat /\ DownAt(k, l)'
    BY <1>1, <2>1 DEF DownAt, DownEnds
  <2>8. S!Hurt' \/ Orderly'
    BY <1>1, <2>1 DEF Orderly, ClosedLast, UpEnds, DownEnds, Ending, S!Hurt, S!Finished
  <2> QED
    BY <2>2, <2>3, <2>4, <2>5, <2>6, <2>7, <2>8 DEF StreamInv, UpFlow, DownFlow
<1> QED
  BY <1>2, <1>3, <1>4 DEF S!Handler

\* it returns, and the transport ends the response.
LEMMA HandlerReturnsKeeps ==
    ASSUME StreamInv, S!HandlerReturns
    PROVE  StreamInv'
<1>1. /\ StreamTypes /\ UpFlow /\ DownFlow /\ UpEnds /\ DownEnds /\ Ending
      /\ S!Hurt \/ Orderly
  BY DEF StreamInv
<1> PICK n, m \in Nat : UpAt(n, m)
  BY <1>1 DEF UpFlow
<1> PICK k, l \in Nat : DownAt(k, l)
  BY <1>1 DEF DownFlow
<1>2. CASE S!Finished
  <2>1. /\ serve' = [serve EXCEPT !.gone = TRUE, !.aborted = serve.aborted]
        /\ serve.sawEOF /\ serve.wclosed
        /\ ~serve.gone
        /\ UNCHANGED <<ends, copy, gate, link, late>>
    BY <1>1, <1>2 DEF S!HandlerReturns, StreamTypes, GateType, ServeType, S!Sides, S!Ways, S!Finished
  <2>2. way' = [way EXCEPT !["down"].wire = Append(@, "end")]
    BY <1>2 DEF S!HandlerReturns
  <2>3. way \in [S!Ways -> WayType]
    BY <1>1 DEF StreamTypes
  <2>4. /\ way' \in [S!Ways -> WayType]
        /\ way'["down"].wire = Append(way["down"].wire, "end") /\ way["down"].wire \in Seq(S!Frames)
        /\ way'["down"].body = way["down"].body /\ way'["down"].over = way["down"].over
        /\ way'["up"] = way["up"]
    BY <2>2, <2>3, WireGrows DEF S!Ways, S!Frames
  <2>5. Grown(way["down"].wire, "end", way'["down"].wire)
    BY <2>4, Appended DEF S!Frames
  <2>6. FinFirst(way["down"].wire) => FinFirst(way'["down"].wire)
    BY <2>5, GrownInOrder
  <2>7. StreamTypes'
    <3>1. gate' \in GateType
      BY <1>1, <2>1, <2>4, <2>5, <2>6 DEF StreamTypes, GateType
    <3>2. serve' \in ServeType
      BY <1>1, <2>1, <2>4, <2>5, <2>6 DEF StreamTypes, ServeType
    <3> QED
      BY <1>1, <2>1, <2>4, <2>5, <2>6, <3>1, <3>2 DEF StreamTypes, EndType, CopyType, WayType, S!Sides, S!Ways, S!Frames
  <2>8. UpEnds'
    BY <1>1, <2>1, <2>4, <2>5, <2>6 DEF UpEnds
  <2>9. DownEnds'
    BY <1>1, <2>1, <2>4, <2>5, <2>6 DEF DownEnds, UpEnds, Grown
  <2>10. Ending'
    BY <1>1, <2>1, <2>4, <2>5, <2>6 DEF Ending, EndOf
  <2>11. n \in Nat /\ m \in Nat /\ UpAt(n, m)'
    BY <1>1, <2>1, <2>4, <2>5, <2>6 DEF UpAt, UpEnds, DownEnds
  <2>12. k \in Nat /\ l \in Nat /\ DownAt(k, l)'
    BY SMTT(60), <1>1, <2>1, <2>4, <2>5, <2>6 DEF DownAt, DownEnds, UpEnds, Ending, Grown
  <2>13. S!Hurt' \/ Orderly'
    BY <1>1, <2>1, <2>4, <2>5, <2>6 DEF Orderly, ClosedLast, UpEnds, DownEnds, Ending, EndOf,
       S!Hurt, S!Finished, Grown
  <2> QED
    BY <2>7, <2>8, <2>9, <2>10, <2>11, <2>12, <2>13 DEF StreamInv, UpFlow, DownFlow
<1>3. CASE ~S!Finished
  <2>1. /\ serve' = [serve EXCEPT !.gone = TRUE, !.aborted = TRUE]
        /\ ~(serve.sawEOF /\ serve.wclosed) /\ serve.aborted
        /\ ~serve.gone
        /\ UNCHANGED <<ends, copy, gate, link, late>>
    BY <1>1, <1>3 DEF S!HandlerReturns, StreamTypes, S!Sides, S!Ways, S!Finished
  <2>2. way' = [way EXCEPT !["down"].wire = Append(@, "rst")]
    BY <1>3 DEF S!HandlerReturns
  <2>3. way \in [S!Ways -> WayType]
    BY <1>1 DEF StreamTypes
  <2>4. /\ way' \in [S!Ways -> WayType]
        /\ way'["down"].wire = Append(way["down"].wire, "rst") /\ way["down"].wire \in Seq(S!Frames)
        /\ way'["down"].body = way["down"].body /\ way'["down"].over = way["down"].over
        /\ way'["up"] = way["up"]
    BY <2>2, <2>3, WireGrows DEF S!Ways, S!Frames
  <2>5. Grown(way["down"].wire, "rst", way'["down"].wire)
    BY <2>4, Appended DEF S!Frames
  <2>6. FinFirst(way["down"].wire) => FinFirst(way'["down"].wire)
    BY <2>5, GrownInOrder
  <2>7. StreamTypes'
    <3>1. gate' \in GateType
      BY <1>1, <2>1, <2>4, <2>5, <2>6 DEF StreamTypes, GateType
    <3>2. serve' \in ServeType
      BY <1>1, <2>1, <2>4, <2>5, <2>6 DEF StreamTypes, ServeType
    <3> QED
      BY <1>1, <2>1, <2>4, <2>5, <2>6, <3>1, <3>2 DEF StreamTypes, EndType, CopyType, WayType, S!Sides, S!Ways, S!Frames
  <2>8. UpEnds'
    BY <1>1, <2>1, <2>4, <2>5, <2>6 DEF UpEnds
  <2>9. DownEnds'
    BY <1>1, <2>1, <2>4, <2>5, <2>6 DEF DownEnds, UpEnds, Grown
  <2>10. Ending'
    BY <1>1, <2>1, <2>4, <2>5, <2>6 DEF Ending, EndOf
  <2>11. n \in Nat /\ m \in Nat /\ UpAt(n, m)'
    BY <1>1, <2>1, <2>4, <2>5, <2>6 DEF UpAt, UpEnds, DownEnds
  <2>12. k \in Nat /\ l \in Nat /\ DownAt(k, l)'
    BY <1>1, <2>1, <2>4, <2>5, <2>6 DEF DownAt, DownEnds, UpEnds, Ending, Grown
  <2>13. S!Hurt' \/ Orderly'
    BY <1>1, <2>1, <2>4, <2>5, <2>6 DEF Orderly, ClosedLast, UpEnds, DownEnds, Ending, S!Hurt,
       S!Finished
  <2> QED
    BY <2>7, <2>8, <2>9, <2>10, <2>11, <2>12, <2>13 DEF StreamInv, UpFlow, DownFlow
<1> QED
  BY <1>2, <1>3

\* The session dies, and whatever was on its way with it.
LEMMA SessionDiesKeeps ==
    ASSUME StreamInv, S!SessionDies
    PROVE  StreamInv'
<1>1. /\ StreamTypes /\ UpFlow /\ DownFlow /\ UpEnds /\ DownEnds /\ Ending
      /\ S!Hurt \/ Orderly
  BY DEF StreamInv
<1> PICK n, m \in Nat : UpAt(n, m)
  BY <1>1 DEF UpFlow
<1> PICK k, l \in Nat : DownAt(k, l)
  BY <1>1 DEF DownFlow
<1>2. /\ link' = FALSE
      /\ UNCHANGED <<ends, copy, gate, serve, way, late>>
  BY <1>1 DEF S!SessionDies
<1>3. StreamTypes'
  <2>1. gate' \in GateType
    BY <1>1, <1>2 DEF StreamTypes, GateType
  <2>2. serve' \in ServeType
    BY <1>1, <1>2 DEF StreamTypes, ServeType
  <2> QED
    BY <1>1, <1>2, <2>1, <2>2 DEF StreamTypes
<1>4. UpEnds'
  BY <1>1, <1>2 DEF UpEnds
<1>5. DownEnds'
  BY <1>1, <1>2 DEF DownEnds
<1>6. Ending'
  BY <1>1, <1>2 DEF Ending, EndOf
<1>7. n \in Nat /\ m \in Nat /\ UpAt(n, m)'
  BY <1>1, <1>2 DEF UpAt, UpEnds
<1>8. k \in Nat /\ l \in Nat /\ DownAt(k, l)'
  BY <1>1, <1>2 DEF DownAt, DownEnds
<1>9. S!Hurt' \/ Orderly'
  BY <1>1, <1>2 DEF Orderly, ClosedLast, UpEnds, DownEnds, S!Hurt
<1> QED
  BY <1>3, <1>4, <1>5, <1>6, <1>7, <1>8, <1>9 DEF StreamInv, UpFlow, DownFlow

\* A stream begins empty.
LEMMA StreamBegins ==
    ASSUME S!Init, None \notin {"eof", "reset"}
    PROVE  StreamInv
<1>1. /\ ends = [s \in {"gateway", "home"} |-> [sent |-> 0, eof |-> FALSE, broken |-> FALSE, got |-> 0, told |-> "open"]]
      /\ copy = [s \in {"gateway", "home"} |-> [put |-> "read", take |-> "read"]]
      /\ gate = [wclosed |-> FALSE, closed |-> FALSE, aborted |-> FALSE, tx |-> "idle"]
      /\ serve = [sawEOF |-> FALSE, wclosed |-> FALSE, readDone |-> FALSE, reset |-> FALSE,
                  draining |-> FALSE, aborted |-> FALSE, gone |-> FALSE]
      /\ link = TRUE /\ late = FALSE
  BY DEF S!Init, S!Sides
<1>2. way = [w \in {"up", "down"} |-> [wire |-> <<>>, body |-> <<>>, over |-> None]]
  BY DEF S!Init, S!Ways
<1>3. /\ way["up"].wire = <<>> /\ way["up"].body = <<>> /\ way["up"].over = None
      /\ way["down"].wire = <<>> /\ way["down"].body = <<>> /\ way["down"].over = None
  BY <1>2
<1>4. /\ \A s \in {"gateway", "home"} : /\ ends[s].sent = 0 /\ ends[s].got = 0 /\ ends[s].told = "open"
                                        /\ ends[s].eof = FALSE /\ copy[s].put = "read" /\ copy[s].take = "read"
      /\ gate.wclosed = FALSE /\ gate.closed = FALSE /\ gate.aborted = FALSE /\ gate.tx = "idle"
      /\ serve.sawEOF = FALSE /\ serve.wclosed = FALSE /\ serve.readDone = FALSE /\ serve.reset = FALSE
      /\ serve.draining = FALSE /\ serve.aborted = FALSE /\ serve.gone = FALSE
  BY <1>1
<1>5. DataFirst(<<>>, 0) /\ (\A f : ~Has(<<>>, f)) /\ FinFirst(<<>>) /\ EndFirst(<<>>)
  BY DEF DataFirst, Has, FinFirst, EndFirst
<1>6. StreamTypes
  <2>1. ends \in [S!Sides -> EndType] /\ copy \in [S!Sides -> CopyType]
    BY <1>1 DEF S!Sides, EndType, CopyType
  <2>2. [wire |-> <<>>, body |-> <<>>, over |-> None] \in WayType
    BY DEF WayType
  <2>3. way \in [S!Ways -> WayType]
    BY <1>2, <2>2 DEF S!Ways
  <2> QED
    BY <1>1, <2>1, <2>3 DEF StreamTypes, GateType, ServeType
<1>7. UpAt(0, 0)
  BY <1>4, <1>3, <1>5 DEF UpAt, Bit
<1>8. DownAt(0, 0)
  BY <1>4, <1>3, <1>5 DEF DownAt, Bit
<1>9. UpEnds /\ DownEnds /\ Ending
  <2>1. UpEnds
    BY <1>4, <1>3, <1>5 DEF UpEnds
  <2>2. DownEnds
    BY <1>4, <1>3, <1>5 DEF DownEnds
  <2>3. Ending
    BY <1>4 DEF Ending, EndOf
  <2> QED
    BY <2>1, <2>2, <2>3
<1>10. Orderly
  BY <1>4, <1>3, <1>5 DEF Orderly, ClosedLast
<1> QED
  BY <1>6, <1>7, <1>8, <1>9, <1>10 DEF StreamInv, UpFlow, DownFlow

\* The copy into the stream, of either side
LEMMA PutKeeps ==
    ASSUME StreamInv, NEW s \in S!Sides, S!Put(s)
    PROVE  StreamInv'
<1>1. CASE S!PutFails(s)
  <2>1. copy[s].put = "read" /\ ~S!Usable(s) /\ S!Fail(s, "put")
    BY <1>1 DEF S!PutFails
  <2>2. S!Hurt
    BY <2>1, PutsHurt
  <2> QED
    BY <2>1, <2>2, FailKeeps
<1>2. CASE S!PutWrite(s)
  <2>1. CASE S!WriteFails(s)
    <3>1. copy[s].put = "write" /\ S!Fail(s, "put")
      BY <1>2, <2>1 DEF S!PutWrite
    <3> QED
      BY <2>1, <3>1, PutsHurt, FailKeeps
  <2>2. CASE ~S!WriteFails(s)
    <3>1. s = "home"
      BY <1>2, <2>2 DEF S!PutWrite
    <3> QED
      BY <1>2, <2>2, <3>1, PutWriteKeeps
  <2> QED
    BY <2>1, <2>2
<1>3. CASE S!PutEOF(s)
  BY <1>3, PutEOFKeeps
<1> QED
  BY <1>1, <1>2, <1>3 DEF S!Put

\* and the copy out of it.
LEMMA TakeKeeps ==
    ASSUME StreamInv, None \notin {"eof", "reset"}, NEW s \in S!Sides, S!Take(s)
    PROVE  StreamInv'
<1>1. CASE S!TakeRead(s)
  <2>1. copy[s].take = "read"
    BY <1>1 DEF S!TakeRead
  <2>2. CASE S!ReadFails(s)
    <3>1. S!Fail(s, "take")
      BY <1>1, <2>2 DEF S!TakeRead
    <3> QED
      BY <2>1, <2>2, <3>1, TakesHurt, FailKeeps
  <2>3. CASE ~S!ReadFails(s) /\ s = "gateway"
    <3>1. S!TakeEnd("gateway", "down")
      BY <1>1, <2>3 DEF S!TakeRead, S!Way, S!Other
    <3>2. \/ /\ way["down"].body # <<>> /\ Head(way["down"].body) = "data"
             /\ way' = [way EXCEPT !["down"].body = Tail(@)]
             /\ copy' = [copy EXCEPT !["gateway"].take = "write"]
             /\ UNCHANGED <<ends, gate, serve, link, late>>
          \/ /\ way["down"].body # <<>> /\ Head(way["down"].body) = "fin"
             /\ ends' = [ends EXCEPT !["gateway"].told = IF @ = "open" THEN "eof" ELSE @]
             /\ copy' = [copy EXCEPT !["gateway"].take = "done"]
             /\ UNCHANGED <<gate, serve, way, link, late>>
          \/ way["down"].body = <<>> /\ way["down"].over # None /\ S!Fail("gateway", "take")
      BY <3>1 DEF S!TakeEnd
    <3> QED
      BY <2>1, <2>3, <3>2, TakeDataDownKeeps, TakeEndDownKeeps, TakesHurt, FailKeeps
  <2>4. CASE ~S!ReadFails(s) /\ s = "home"
    <3>1. S!TakeEnd("home", "up")
      BY <1>1, <2>4 DEF S!TakeRead, S!Way, S!Other
    <3>2. \/ /\ way["up"].body # <<>> /\ Head(way["up"].body) = "data"
             /\ way' = [way EXCEPT !["up"].body = Tail(@)]
             /\ copy' = [copy EXCEPT !["home"].take = "write"]
             /\ UNCHANGED <<ends, gate, serve, link, late>>
          \/ /\ way["up"].body = <<>> /\ way["up"].over = "eof"
             /\ serve' = [serve EXCEPT !.sawEOF = TRUE, !.readDone = TRUE]
             /\ ends' = [ends EXCEPT !["home"].told = IF @ = "open" THEN "eof" ELSE @]
             /\ copy' = [copy EXCEPT !["home"].take = "done"]
             /\ UNCHANGED <<gate, way, link, late>>
          \/ /\ way["up"].body = <<>> /\ way["up"].over = "reset"
             /\ serve' = [serve EXCEPT !.readDone = TRUE, !.aborted = TRUE]
             /\ ends' = [ends EXCEPT !["home"].told = "closed"]
             /\ copy' = [copy EXCEPT !["home"].take = "done"]
             /\ UNCHANGED <<gate, way, link, late>>
      BY <3>1 DEF S!TakeEnd
    <3> QED
      BY <2>1, <2>4, <3>2, TakeDataUpKeeps, TakeEndUpKeeps, TakeResetKeeps
  <2> QED
    BY <2>2, <2>3, <2>4 DEF S!Sides
<1>2. CASE S!TakeWrite(s)
  <2>1. CASE S!Usable(s)
    BY <1>2, <2>1, TakeWriteKeeps
  <2>2. CASE ~S!Usable(s)
    BY <1>2, <2>2, TakesHurt, FailKeeps DEF S!TakeWrite
  <2> QED
    BY <2>1, <2>2
<1> QED
  BY <1>1, <1>2 DEF S!Take

\* Every step of a stream keeps the invariant,
LEMMA StreamKeeps ==
    ASSUME StreamInv, None \notin {"eof", "reset"}, S!Next
    PROVE  StreamInv'
<1>1. ASSUME NEW s \in S!Sides, S!Send(s) \/ S!HalfClose(s) \/ S!Break(s) PROVE StreamInv'
  BY <1>1, SendKeeps, HalfCloseKeeps, BreakKeeps
<1>2. ASSUME NEW s \in S!Sides, S!Put(s) \/ S!Take(s) \/ S!Over(s) PROVE StreamInv'
  BY <1>2, PutKeeps, TakeKeeps, OverKeeps
<1>3. ASSUME NEW w \in S!Ways, S!Arrive(w) PROVE StreamInv'
  <2>1. w = "up" \/ w = "down"
    BY DEF S!Ways
  <2> QED
    BY <1>3, <2>1, ArriveUpKeeps, ArriveDownKeeps
<1>4. CASE S!FinishClose \/ S!Transmit \/ S!Handler \/ S!HandlerReturns \/ S!SessionOver
  BY <1>4, FinishCloseKeeps, TransmitKeeps, HandlerKeeps, HandlerReturnsKeeps, SessionOverKeeps
<1>5. CASE S!SessionDies
  BY <1>5, SessionDiesKeeps
<1> QED
  BY <1>1, <1>2, <1>3, <1>4, <1>5 DEF S!Next, S!Step

\* a step that is not the stream's does,
LEMMA StreamRests ==
    ASSUME StreamInv, UNCHANGED streamVars
    PROVE  StreamInv'
<1>1. /\ ends' = ends /\ copy' = copy /\ gate' = gate /\ serve' = serve
      /\ way' = way /\ link' = link /\ late' = late
  BY DEF streamVars
<1>2. StreamTypes' <=> StreamTypes
  BY <1>1 DEF StreamTypes
<1>3. \A n, m : (UpAt(n, m)' <=> UpAt(n, m)) /\ (DownAt(n, m)' <=> DownAt(n, m))
  BY <1>1 DEF UpAt, DownAt
<1>4. (UpEnds' <=> UpEnds) /\ (DownEnds' <=> DownEnds)
  BY <1>1 DEF UpEnds, DownEnds
<1>5. (Ending' <=> Ending) /\ (Orderly' <=> Orderly) /\ (S!Hurt' <=> S!Hurt)
  BY <1>1 DEF Ending, EndOf, Orderly, ClosedLast, S!Finished, S!Hurt
<1> QED
  BY <1>2, <1>3, <1>4, <1>5 DEF StreamInv, UpFlow, DownFlow

\* and with it nothing is cut.
LEMMA StreamIsWhole ==
    ASSUME StreamInv
    PROVE  NothingIsCut
<1>1. Ending /\ (S!Hurt \/ Orderly)
  BY DEF StreamInv
<1>2. S!Complete("gateway") <=> ends["home"].eof /\ ends["gateway"].got = ends["home"].sent
  BY DEF S!Complete, S!Other
<1>3. S!Complete("home") <=> ends["gateway"].eof /\ ends["home"].got = ends["gateway"].sent
  BY DEF S!Complete, S!Other
<1>4. \A s \in {"gateway", "home"} : ends[s].told = "eof" => S!Complete(s)
  BY <1>1, <1>2, <1>3 DEF Ending, EndOf
<1>5. \A s \in {"gateway", "home"} : ends[s].told = "closed" /\ ~S!Hurt => S!Complete(s)
  BY <1>1, <1>2, <1>3 DEF Orderly, ClosedLast
<1> QED
  BY <1>4, <1>5 DEF NothingIsCut, S!NothingIsCut, S!Sides

\* What forward, pipe and the two streams of mux do to a connection, for any
\* amount of data and any window: an end is told of the other's EOF only when
\* it has all that the other sent, whatever fails and whichever goroutine
\* notices first; and while nothing fails no connection is closed before that.
THEOREM NothingIsCutHolds ==
    ASSUME None \notin {"eof", "reset"}
    PROVE  MCInit /\ [][MCNext]_<<focus, vars, streamVars>> => []NothingIsCut
<1>1. MCInit => StreamInv
  BY StreamBegins DEF MCInit
<1>2. StreamInv /\ [MCNext]_<<focus, vars, streamVars>> => StreamInv'
  <2> SUFFICES ASSUME StreamInv, [MCNext]_<<focus, vars, streamVars>> PROVE StreamInv'
    OBVIOUS
  <2>1. CASE UNCHANGED streamVars
    BY <2>1, StreamRests
  <2>2. CASE S!Next
    BY <2>2, StreamKeeps
  <2>3. S!Next \/ UNCHANGED streamVars
    BY DEF MCNext
  <2> QED
    BY <2>1, <2>2, <2>3
<1>3. StreamInv => NothingIsCut
  BY StreamIsWhole
<1> QED
  BY <1>1, <1>2, <1>3, PTL

=============================================================================
