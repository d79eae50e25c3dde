------------------------------- MODULE Tunnel -------------------------------
(***************************************************************************)
(* One gateway of the tunnel: the engine at home (src/internal/tunnel)     *)
(* dials the gateway server (src/internal/gateway), tells it what to       *)
(* publish over the control stream of the session, and gets the clients'   *)
(* connections as streams of it.                                           *)
(*                                                                         *)
(* The home's connection loop, the reader and the writer of a connection,  *)
(* the gateway's control goroutine of a session, a reload and a shutdown   *)
(* run side by side.  A loop that was canceled and a session that was      *)
(* replaced go on until they notice, so several may be there at once.      *)
(*                                                                         *)
(* The gateway is paired, and what is pinned does not change.              *)
(***************************************************************************)
EXTENDS Naturals, Sequences, FiniteSets

CONSTANTS
    Names,        \* host names, and
    Ports,        \* TCP ports that can be published
    Tables,       \* the route tables a configuration can have
    Defs,         \* what the gateway list says of it,
    Versions,     \* whether a gateway process and the home understand each other
    Clients,      \* client connections at a time
    None,         \* no table, no session, no loop
    MaxSessions,  \* bound: sessions at a time
    MaxLoops,     \* bound: connection loops at a time
    MaxEdits,     \* bound: reloads and shutdowns
    MaxFaults     \* bound: faults

Things   == Names \cup Ports
Sessions == 1..MaxSessions
Loops    == 1..MaxLoops

AllDefs == {"enabled", "disabled", "unpaired"}

ASSUME TunnelAssumption ==
    /\ Names \cap Ports = {} /\ Tables \subseteq SUBSET Things
    /\ Defs \subseteq AllDefs /\ Versions \subseteq BOOLEAN
    /\ MaxSessions \in Nat /\ MaxLoops \in Nat \ {0}
    /\ MaxEdits \in Nat /\ MaxFaults \in Nat
    /\ None \notin Tables /\ None \notin Sessions /\ None \notin Loops /\ None \notin Things

VARIABLES
    home,    \* the engine, and its gateway entry
    loops,   \* loops[l]: its connection loops, home.loop and canceled ones
    sess,    \* sess[s]: the sessions, both sides of them
    gw,      \* the gateway server
    conns,   \* conns[c]: the clients' connections
    edits,   \* reloads and shutdowns so far
    faults   \* faults so far

vars == <<home, loops, sess, gw, conns, edits, faults>>

States == {"disabled", "unpaired", "idle", "connecting", "connected",
           "disconnected", "incompatible"}

\* run: the process that made the generation (generations start again with it)
Home == [ phase : {"run", "drain", "close", "off"},
          late  : BOOLEAN,                    \* the drain timeout passed
          run   : Nat,
          def   : AllDefs,
          table : Tables \cup {None},         \* g.routes, and its generation
          tgen  : Nat,
          gen   : Nat,                        \* last generation assigned
          loop  : Loops \cup {None},
          state : States,                     \* g.st.State,
          acked : Nat,                        \* .AckedGeneration
          errors : SUBSET Ports ]             \* and .PortErrors

Loop == [pc : {"none", "dial", "dialing", "conn"}, sess : Sessions \cup {None}]

NoLoop == [pc |-> "none", sess |-> None]

Message ==
    [type : {"hello"}, ok : BOOLEAN] \cup
    [type : {"routes"}, run : Nat, gen : Nat, table : Tables] \cup
    [type : {"ack"}, gen : Nat, errors : SUBSET Ports]

\* ok: the versions both sides speak overlap (wire.Negotiate)
Hello(ok) == [type |-> "hello", ok |-> ok]

\* What is in a queue when the session closes may still be read, or not.
Session == [ hs : {"none", "control", "hello", "live", "gone"},  \* conn at home
             gs : {"none", "hello", "live", "gone"},             \* control at the gateway
             loop : Loops \cup {None},
             link : BOOLEAN,                                     \* neither side closed it
             toGw : Seq(Message), toHome : Seq(Message),
             kick : BOOLEAN,                           \* c.kickCh
             sent : Nat ]                              \* c.sentGen

NoSession == [ hs |-> "none", gs |-> "none", loop |-> None, link |-> FALSE,
               toGw |-> <<>>, toHome |-> <<>>, kick |-> FALSE, sent |-> 0 ]

Gateway == [ session : Sessions \cup {None},   \* newest session
             active : Sessions \cup {None},    \* past its hello
             compatible : BOOLEAN,             \* with the home's version
             run : Nat, gen : Nat, table : SUBSET Things,   \* s.routes
             ports : SUBSET Ports ]            \* listeners

Conn == [ at : {"none", "picked", "opened", "counted", "served"},
          sess : Sessions \cup {None}, want : Things \cup {None} ]

NoConn == [at |-> "none", sess |-> None, want |-> None]

TypeOK ==
    /\ home \in Home
    /\ loops \in [Loops -> Loop]
    /\ sess \in [Sessions -> Session]
    /\ gw \in Gateway
    /\ conns \in [Clients -> Conn]
    /\ edits \in 0..MaxEdits
    /\ faults \in 0..MaxFaults

-----------------------------------------------------------------------------
(* Helpers                                                                 *)

Canceled(l) == home.loop # l

Draining == home.phase # "run"

\* the number for a new loop or session, if there is one left
FreeLoops    == {l \in Loops : loops[l] = NoLoop /\ \A k \in 1..(l - 1) : loops[k] # NoLoop}
FreeSessions == {s \in Sessions : sess[s] = NoSession /\ \A q \in 1..(s - 1) : sess[q] # NoSession}

\* A session both sides are done with is forgotten.
Tidied(r) == IF r.hs = "gone" /\ r.gs = "gone" THEN NoSession ELSE r

\* r after the home closed it, or the gateway
HomeClosed(r) == IF r.hs = "none" THEN r ELSE Tidied([r EXCEPT !.hs = "gone", !.link = FALSE])
GwClosed(r)   == Tidied([r EXCEPT !.gs = "gone", !.link = FALSE])

\* A message goes nowhere once the session is closed.
Told(r, m)     == IF r.link THEN [r EXCEPT !.toGw = Append(@, m)] ELSE r
Answered(r, m) == IF r.link THEN [r EXCEPT !.toHome = Append(@, m)] ELSE r

\* the connections without those that are on s at one of the places
Cut(s, places) ==
    [c \in Clients |-> IF conns[c].sess = s /\ conns[c].at \in places THEN NoConn ELSE conns[c]]

AtGateway == {"picked"}
AtHome    == {"opened", "counted", "served"}

\* e.inflight
InFlight == {c \in Clients : conns[c].at \in {"counted", "served"}}

Fault ==
    /\ faults < MaxFaults
    /\ faults' = faults + 1

Edited ==
    /\ edits < MaxEdits
    /\ edits' = edits + 1

-----------------------------------------------------------------------------
(* The engine: start, reload, shutdown                                     *)

\* What state a gateway without a connection loop is in; "connecting" is to
\* have one.
Want(def, t) ==
    CASE def # "enabled" -> def
      [] t = None        -> "idle"
      [] OTHER           -> "connecting"

\* newRouteTable and sameRoutes: an equal table keeps its generation.
WithRoutes(h, def, t) ==
    IF t = None
    THEN [h EXCEPT !.def = def, !.table = None, !.tgen = 0]
    ELSE IF h.table = t
    THEN [h EXCEPT !.def = def]
    ELSE [h EXCEPT !.def = def, !.table = t, !.gen = @ + 1, !.tgen = h.gen + 1]

\* configure of a gateway that has no loop, or has to lose it
Started(h) ==
    LET want == Want(h.def, h.table) IN
    IF want # "connecting"
    THEN /\ home' = [h EXCEPT !.loop = None, !.state = want]
         /\ UNCHANGED loops
    ELSE \E l \in FreeLoops :
           /\ home' = [h EXCEPT !.loop = l, !.state = want]
           /\ loops' = [loops EXCEPT ![l] = [pc |-> "dial", sess |-> None]]

\* A new configuration or gateway list; changed: the gateway is to be dialed
\* another way (address, transport, pin, key).
Reload(def, t, changed) ==
    /\ home.phase = "run"
    /\ Edited
    /\ LET h    == WithRoutes(home, def, t)
           kept == Want(def, t) = "connecting" /\ home.loop # None /\ ~changed
       IN  \/ /\ ~kept
              /\ Started(h)
              /\ UNCHANGED sess
           \/ /\ kept
              /\ home' = h
              /\ LET s == loops[home.loop].sess
                 IN  IF h.tgen # home.tgen /\ s # None /\ sess[s].hs = "live"
                     THEN sess' = [sess EXCEPT ![s].kick = TRUE]
                     ELSE UNCHANGED sess
              /\ UNCHANGED loops
    /\ UNCHANGED <<gw, conns, faults>>

Fresh(h) == [ h EXCEPT !.phase = "run", !.late = FALSE, !.run = @ + 1, !.loop = None,
                       !.table = None, !.tgen = 0, !.gen = 0, !.acked = 0, !.errors = {} ]

\* The process is started on the configuration it had.
EngineStarts ==
    /\ home.phase = "off"
    /\ Started(WithRoutes(Fresh(home), home.def, home.table))
    /\ UNCHANGED <<sess, gw, conns, edits, faults>>

\* The process dies, and with it its loops, sessions and streams.
EngineDies ==
    /\ home.phase # "off"
    /\ Fault
    /\ home' = [home EXCEPT !.phase = "off", !.loop = None, !.state = "disconnected"]
    /\ loops' = [l \in Loops |-> NoLoop]
    /\ sess' = [s \in Sessions |-> HomeClosed(sess[s])]
    /\ conns' = [c \in Clients |-> IF conns[c].at \in AtHome THEN NoConn ELSE conns[c]]
    /\ UNCHANGED <<gw, edits>>

Shutdown ==
    /\ home.phase = "run"
    /\ Edited
    /\ home' = [home EXCEPT !.phase = "drain"]
    /\ UNCHANGED <<loops, sess, gw, conns, faults>>

\* Streams in flight are over, or the drain timeout passed.
Drained ==
    /\ home.phase = "drain"
    /\ home' = [home EXCEPT !.phase = "close", !.late = InFlight # {}, !.loop = None]
    /\ UNCHANGED <<loops, sess, gw, conns, edits, faults>>

Exited ==
    /\ home.phase = "close"
    /\ \A l \in Loops : loops[l] = NoLoop
    /\ home' = [home EXCEPT !.phase = "off"]
    /\ UNCHANGED <<loops, sess, gw, conns, edits, faults>>

-----------------------------------------------------------------------------
(* The connection loop                                                     *)

\* As Updated, for any loop.
UpdatedAlways(l, h) == h

\* update: the status as a loop that was replaced leaves it
Updated(l, h) == IF Canceled(l) THEN home ELSE h

Ended(l) == loops' = [loops EXCEPT ![l] = NoLoop]

Dial(l) ==
    /\ loops[l].pc = "dial"
    /\ IF Canceled(l) \/ Draining
       THEN /\ Ended(l)
            /\ UNCHANGED home
       ELSE /\ loops' = [loops EXCEPT ![l].pc = "dialing"]
            /\ home' = [home EXCEPT !.state = IF @ = "incompatible" THEN @ ELSE "connecting"]
    /\ UNCHANGED <<sess, gw, conns, edits, faults>>

\* The dial of a loop that is not to go on
GivenUp(l) ==
    /\ Ended(l)
    /\ home' = Updated(l, [home EXCEPT !.state = "disconnected"])

\* The handshake is done.  A loop that was canceled meanwhile closes the
\* session the gateway may only now attach.
DialDone(l) ==
    /\ loops[l].pc = "dialing"
    /\ \E s \in FreeSessions :
         IF Canceled(l) \/ Draining
         THEN /\ sess' = [sess EXCEPT ![s].hs = "gone"]
              /\ GivenUp(l)
         ELSE /\ sess' = [sess EXCEPT ![s] = [NoSession EXCEPT !.hs = "control", !.loop = l, !.link = TRUE]]
              /\ loops' = [loops EXCEPT ![l] = [pc |-> "conn", sess |-> s]]
              /\ UNCHANGED home
    /\ UNCHANGED <<gw, conns, edits, faults>>

\* The gateway is not reached; a canceled dial always may fail.
DialFails(l) ==
    /\ loops[l].pc = "dialing"
    /\ IF Canceled(l) \/ Draining
       THEN /\ GivenUp(l)
            /\ UNCHANGED faults
       ELSE /\ Fault
            /\ loops' = [loops EXCEPT ![l].pc = "dial"]
            /\ home' = [home EXCEPT !.state = "disconnected"]
    /\ UNCHANGED <<sess, gw, conns, edits>>

-----------------------------------------------------------------------------
(* A connection at home                                                    *)

\* conn.serve returns: what it was doing is over, and the loop goes on.
ConnOver(s, state) ==
    LET l == sess[s].loop IN
    /\ sess' = [sess EXCEPT ![s] = HomeClosed(@)]
    /\ conns' = Cut(s, AtHome)
    /\ home' = Updated(l, [home EXCEPT !.state = state])
    /\ IF Canceled(l) THEN Ended(l) ELSE loops' = [loops EXCEPT ![l] = [pc |-> "dial", sess |-> None]]

\* The session was closed or lost, or the loop was canceled.
ConnEnds(s) ==
    /\ sess[s].hs \in {"control", "hello", "live"}
    /\ ~sess[s].link \/ Canceled(sess[s].loop)
    /\ ConnOver(s, "disconnected")
    /\ UNCHANGED <<gw, edits, faults>>

\* As Connected, keeping what the last connection was told.
ConnectedAgain(h) == [h EXCEPT !.state = "connected"]

\* The status of a gateway with a new connection
Connected(h) == [h EXCEPT !.state = "connected", !.acked = 0, !.errors = {}]

\* The gateway opened the control stream, and is sent a hello.
GetControl(s) ==
    /\ sess[s].hs = "control"
    /\ sess[s].toHome # <<>>
    /\ sess' = [sess EXCEPT ![s] = [Told(@, Hello(TRUE)) EXCEPT !.hs = "hello"]]
    /\ UNCHANGED <<home, loops, gw, conns, edits, faults>>

\* The gateway's hello
GetHello(s) ==
    /\ sess[s].hs = "hello"
    /\ sess[s].toHome # <<>>
    /\ LET ok == Head(sess[s].toHome).ok IN
       \/ /\ ~ok \/ Canceled(sess[s].loop)
          /\ ConnOver(s, IF ok THEN "disconnected" ELSE "incompatible")
       \/ /\ ok /\ ~Canceled(sess[s].loop)
          /\ sess' = [sess EXCEPT ![s] = [sess[s] EXCEPT !.hs = "live", !.kick = TRUE, !.toHome = Tail(@)]]
          /\ home' = Connected(home)
          /\ UNCHANGED <<loops, conns>>
    /\ UNCHANGED <<gw, edits, faults>>

\* writeLoop: a kick pushes the routes there are now.
WriteRoutes(s) ==
    /\ sess[s].hs = "live" /\ sess[s].kick
    /\ sess' = [sess EXCEPT ![s] =
         IF home.table = None
         THEN [@ EXCEPT !.kick = FALSE]
         ELSE [Told(@, [type |-> "routes", run |-> home.run, gen |-> home.tgen, table |-> home.table])
                 EXCEPT !.kick = FALSE, !.sent = home.tgen]]
    /\ UNCHANGED <<home, loops, gw, conns, edits, faults>>

\* readLoop: an ack of what was pushed last
GetAck(s) ==
    /\ sess[s].hs = "live"
    /\ sess[s].toHome # <<>>
    /\ LET m == Head(sess[s].toHome) IN
       home' = IF m.gen = sess[s].sent
               THEN Updated(sess[s].loop, [home EXCEPT !.acked = m.gen, !.errors = m.errors])
               ELSE home
    /\ sess' = [sess EXCEPT ![s].toHome = Tail(@)]
    /\ UNCHANGED <<loops, gw, conns, edits, faults>>

-----------------------------------------------------------------------------
(* The gateway                                                             *)

\* control returned: the session is closed, and forgotten if it is current.
Lost(s) ==
    /\ sess' = [sess EXCEPT ![s] = GwClosed(@)]
    /\ conns' = Cut(s, AtGateway)
    /\ gw' = [gw EXCEPT !.session = IF @ = s THEN None ELSE @,
                        !.active  = IF @ = s THEN None ELSE @]

\* As Superseded, leaving the session to itself.
SupersededOpen(r) == r

\* The session another one replaced
Superseded(r) == [r EXCEPT !.link = FALSE]

\* attachSession replaces the session there was, whichever was dialed first,
\* and control opens the control stream with a hello.
Attach(s) ==
    /\ sess[s].gs = "none" /\ sess[s].hs # "none"
    /\ gw' = [gw EXCEPT !.session = s, !.active = None]
    /\ sess' = [q \in Sessions |->
         IF q = s THEN [Answered(sess[s], Hello(gw.compatible)) EXCEPT !.gs = "hello"]
         ELSE IF q = gw.session THEN Superseded(sess[q])
         ELSE sess[q]]
    /\ UNCHANGED <<home, loops, conns, edits, faults>>

\* The home's hello
Establish(s) ==
    /\ sess[s].gs = "hello"
    /\ sess[s].toGw # <<>>
    /\ IF gw.compatible /\ gw.session = s
       THEN /\ gw' = [gw EXCEPT !.active = s]
            /\ sess' = [sess EXCEPT ![s].gs = "live", ![s].toGw = Tail(@)]
            /\ UNCHANGED conns
       ELSE Lost(s)
    /\ UNCHANGED <<home, loops, edits, faults>>

\* As Takes, for any session.
TakesAny(s) == TRUE

\* whose routes applyRoutes takes
Takes(s) == gw.session = s

\* applyRoutes: the ports that can be bound are, what is no longer published
\* is closed, and the home is told which could not.
ApplyRoutes(s) ==
    /\ sess[s].gs = "live"
    /\ sess[s].toGw # <<>>
    /\ LET m == Head(sess[s].toGw) IN
       IF ~Takes(s)
       THEN Lost(s)
       ELSE \E failed \in SUBSET ((m.table \cap Ports) \ gw.ports) :
              LET bound == (m.table \cap Ports) \ failed IN
              /\ gw' = [gw EXCEPT !.run = m.run, !.gen = m.gen, !.ports = bound,
                                  !.table = (m.table \cap Names) \cup bound]
              /\ sess' = [sess EXCEPT ![s] =
                   [Answered(sess[s], [type |-> "ack", gen |-> m.gen, errors |-> failed])
                      EXCEPT !.toGw = Tail(@)]]
              /\ UNCHANGED conns
    /\ UNCHANGED <<home, loops, edits, faults>>

\* The session was closed, or its handshake with the gateway came to nothing.
GatewayEnds(s) ==
    /\ sess[s] # NoSession /\ sess[s].gs # "gone"
    /\ ~sess[s].link
    /\ Lost(s)
    /\ UNCHANGED <<home, loops, edits, faults>>

NoGateway(ok) == [ session |-> None, active |-> None, compatible |-> ok,
                   run |-> 0, gen |-> 0, table |-> {}, ports |-> {} ]

\* The gateway restarts, as another version perhaps.
GatewayRestarts(ok) ==
    /\ Fault
    /\ gw' = NoGateway(ok)
    /\ sess' = [s \in Sessions |-> IF sess[s] = NoSession THEN NoSession ELSE GwClosed(sess[s])]
    /\ conns' = [c \in Clients |-> IF conns[c].at \in AtGateway THEN NoConn ELSE conns[c]]
    /\ UNCHANGED <<home, loops, edits>>

\* The network loses the session, or a side is too late with its hello.
Breaks(s) ==
    /\ sess[s].link
    /\ Fault
    /\ sess' = [sess EXCEPT ![s].link = FALSE]
    /\ UNCHANGED <<home, loops, gw, conns, edits>>

-----------------------------------------------------------------------------
(* A client's connection                                                   *)

\* serveNamed and serveTCPPort; forward takes the session that is active.
Accept(c) ==
    /\ conns[c].at = "none"
    /\ gw.active # None
    /\ \E w \in gw.table :
         conns' = [conns EXCEPT ![c] = [at |-> "picked", sess |-> gw.active, want |-> w]]
    /\ UNCHANGED <<home, loops, sess, gw, edits, faults>>

\* OpenStream
Open(c) ==
    /\ conns[c].at = "picked"
    /\ conns' = [conns EXCEPT ![c] = IF sess[@.sess].link THEN [@ EXCEPT !.at = "opened"] ELSE NoConn]
    /\ UNCHANGED <<home, loops, sess, gw, edits, faults>>

\* acceptLoop counts the stream
Count(c) ==
    /\ conns[c].at = "opened"
    /\ sess[conns[c].sess].hs = "live"
    /\ conns' = [conns EXCEPT ![c].at = "counted"]
    /\ UNCHANGED <<home, loops, sess, gw, edits, faults>>

\* As Served, for an engine that may be draining.
ServedAnyway(w) == home.table # None /\ w \in home.table

\* whether a stream for w is served
Served(w) == ~Draining /\ home.table # None /\ w \in home.table

\* before handleStream looks whether the engine is draining and whether the
\* routes there are now have it.
Handle(c) ==
    /\ conns[c].at = "counted"
    /\ conns' = [conns EXCEPT ![c] =
         IF Served(@.want) THEN [@ EXCEPT !.at = "served"] ELSE NoConn]
    /\ UNCHANGED <<home, loops, sess, gw, edits, faults>>

Finish(c) ==
    /\ conns[c].at = "served"
    /\ conns' = [conns EXCEPT ![c] = NoConn]
    /\ UNCHANGED <<home, loops, sess, gw, edits, faults>>

-----------------------------------------------------------------------------
(* The specification                                                       *)

\* The engine has been started; the gateway has no session.
Init ==
    /\ \E def \in Defs, t \in Tables \cup {None} :
         LET want == Want(def, t)
             runs == want = "connecting"
         IN  /\ home = [ phase |-> "run", late |-> FALSE, run |-> 1, def |-> def, table |-> t,
                         tgen |-> IF t = None THEN 0 ELSE 1, gen |-> IF t = None THEN 0 ELSE 1,
                         loop |-> IF runs THEN 1 ELSE None, state |-> want,
                         acked |-> 0, errors |-> {} ]
             /\ loops = [l \in Loops |-> IF runs /\ l = 1 THEN [pc |-> "dial", sess |-> None] ELSE NoLoop]
    /\ sess = [s \in Sessions |-> NoSession]
    /\ gw = NoGateway(TRUE)
    /\ conns = [c \in Clients |-> NoConn]
    /\ edits = 0
    /\ faults = 0

LoopStep(l) == Dial(l) \/ DialDone(l)

HomeReads(s) == GetControl(s) \/ GetHello(s) \/ GetAck(s)

Control(s) == Establish(s) \/ ApplyRoutes(s)

SessionStep(s) ==
    \/ HomeReads(s) \/ WriteRoutes(s) \/ ConnEnds(s)
    \/ Attach(s) \/ Control(s) \/ GatewayEnds(s)

ConnStep(c) == Accept(c) \/ Open(c) \/ Count(c) \/ Handle(c) \/ Finish(c)

Next ==
    \/ \E def \in Defs, t \in Tables \cup {None}, changed \in BOOLEAN : Reload(def, t, changed)
    \/ Shutdown \/ Drained \/ Exited \/ EngineStarts \/ EngineDies
    \/ \E l \in Loops : LoopStep(l) \/ DialFails(l)
    \/ \E s \in Sessions : SessionStep(s) \/ Breaks(s)
    \/ \E ok \in Versions : GatewayRestarts(ok)
    \/ \E c \in Clients : ConnStep(c)

Spec == Init /\ [][Next]_vars

\* Goroutines go on while they have something to do; what is lost, edited and
\* connected by clients is up to others.
Fairness ==
    /\ \A l \in Loops : WF_vars(LoopStep(l))
    /\ \A s \in Sessions :
         /\ WF_vars(HomeReads(s)) /\ WF_vars(WriteRoutes(s)) /\ WF_vars(ConnEnds(s))
         /\ WF_vars(Attach(s)) /\ WF_vars(Control(s)) /\ WF_vars(GatewayEnds(s))

FairSpec == Spec /\ Fairness

-----------------------------------------------------------------------------
(* Properties                                                              *)

Wanted == home.phase = "run" /\ Want(home.def, home.table) = "connecting"

\* the session of the current loop
Current == IF home.loop = None THEN None ELSE loops[home.loop].sess

\* What the status says is confirmed is what the gateway serves, and the port
\* errors it shows are the published ports the gateway does not listen on, for
\* as long as the gateway has this session: neither survives a reconnect, a
\* restart of either side or a reload (conn.serve resets them, readLoop takes
\* the ack of the last push only, update drops what an old loop reports).
AckedIsServed ==
    Wanted /\ home.state = "connected" /\ home.acked = home.tgen /\ gw.session = Current
      => /\ gw.run = home.run /\ gw.gen = home.tgen
         /\ gw.table = home.table \ home.errors
         /\ home.errors = (home.table \cap Ports) \ gw.ports

\* A gateway's routes only move forward: a replaced session, with pushes of it
\* still on the way, never puts back what a newer one replaced (the check for
\* the session in applyRoutes).
RoutesMoveForward ==
    [][ <<gw.run, gw.gen>>' # <<gw.run, gw.gen>> /\ gw'.run # 0
          => gw'.run > gw.run \/ (gw'.run = gw.run /\ gw'.gen > gw.gen) ]_vars

\* The status is of the loop there is: a gateway that is disabled, unpaired or
\* has nothing published is said to be so whatever loops that were canceled
\* still do, and only a connection that is up is called connected.
StatusIsOwn ==
    home.phase = "run" =>
      IF home.loop = None
      THEN home.state = Want(home.def, home.table)
      ELSE home.state = "connected" <=> Current # None /\ sess[Current].hs = "live"

\* A shutdown cuts off no stream the proxy engine is serving unless the drain
\* timeout passed: none slips between the count of the streams in flight and
\* the draining flag (acceptLoop counts before handleStream looks).
DrainSparesStreams ==
    home.phase \in {"close", "off"} /\ ~home.late => \A c \in Clients : conns[c].at # "served"

\* After the last fault and the last edit the gateway serves the routes the
\* home has, on its current session, and the home knows: no push, ack or
\* session that was replaced leaves it with older ones.
Published ==
    /\ home.state = "connected" /\ home.acked = home.tgen
    /\ gw.active = Current /\ gw.run = home.run /\ gw.gen = home.tgen

EventuallyPublished == <>[](Wanted /\ gw.compatible => Published)

=============================================================================
