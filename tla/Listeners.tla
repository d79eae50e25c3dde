----------------------------- MODULE Listeners -----------------------------
(***************************************************************************)
(* The listeners of Relay Balancer and their clients                       *)
(* (src/internal/balancer/listener.go, and apply and Shutdown of           *)
(* server.go): accept loops that share the global limit, HTTP servers that *)
(* are replaced when the client timeout changes, reloads that keep, open   *)
(* and drain listeners, and shutdown.                                      *)
(*                                                                         *)
(* A reload is one step, as it holds Server.mu; the stats listener, the    *)
(* runtime socket and what a session does are left out.  Serve, Close and  *)
(* Shutdown are those of net/http: a connection that Accept returned is    *)
(* counted before Serve returns, and Close and Shutdown wait for Serve.    *)
(***************************************************************************)
EXTENDS Naturals, Sequences, FiniteSets

CONSTANTS
    Ids,           \* bound listeners there are at a time, draining ones included
    Conns,         \* connections there are at a time
    Configs,       \* configurations: listener keys, client timeout and maxConn
    None,
    MaxReloads     \* bound: configurations loaded after the first

Key == [mode : {"http", "tcp"}, addr : {1, 2}]

Draining == {"closing", "closed", "shutting", "waiting"}

VARIABLES
    lis,       \* lis[l]: a boundListener
    conn,      \* conn[c]: a feConn, and where it is
    limiter,
    reloads,   \* bounded by MaxReloads
    stopping

vars == <<lis, conn, limiter, reloads, stopping>>

TypeOK ==
    /\ \A l \in Ids :
         /\ lis[l].key \in Key \cup {None}
         /\ lis[l].phase \in {"none", "served", "gone"} \cup Draining
         /\ lis[l].sock \in BOOLEAN /\ lis[l].deadline \in BOOLEAN
         /\ lis[l].loop \in {"waiting", "holding", "done"}
         /\ lis[l].timeout \in {1, 2}
         /\ lis[l].servers \in Seq({"serving", "retired", "dropped", "stopping", "closed"})
    /\ conn \in [Conns -> [at : {"free", "handshake", "taken", "open", "ended", "session"},
                           on : Ids \cup {None}, by : 0..MaxReloads + 1, late : BOOLEAN, cut : BOOLEAN]]
    /\ limiter \in [max : 1..2, cur : Nat]
    /\ reloads \in 0..MaxReloads /\ stopping \in BOOLEAN

-----------------------------------------------------------------------------
(* Connections                                                             *)

\* bl.conns: those that are not closed hold a slot of the limiter.
HoldsSlot(c) == conn[c].at \in {"handshake", "taken", "open", "session"}

Held(l) == {c \in Conns : conn[c].on = l /\ HoldsSlot(c)}

\* connections of a server: counted until StateClosed or StateHijacked
Counted(l, v) == {c \in Conns : conn[c].on = l /\ conn[c].by = v /\ conn[c].at \in {"open", "ended"}}

Taken(l, v) == {c \in Conns : conn[c].on = l /\ conn[c].by = v /\ conn[c].at = "taken"}

Closed == [at |-> "free", on |-> None, by |-> 0, late |-> FALSE, cut |-> FALSE]

\* An HTTP server closes the connections it has counted.
ClosedBy(l, vs, cut) ==
    [c \in Conns |->
        IF conn[c].on = l /\ conn[c].by \in vs /\ conn[c].at = "open"
        THEN [conn[c] EXCEPT !.at = "ended", !.cut = cut] ELSE conn[c]]

Released(n) == limiter' = [limiter EXCEPT !.cur = @ - n]

-----------------------------------------------------------------------------
(* acceptLoop                                                              *)

Acquire(l) ==
    /\ lis[l].loop = "waiting" /\ limiter.cur < limiter.max
    /\ limiter' = [limiter EXCEPT !.cur = @ + 1]
    /\ lis' = [lis EXCEPT ![l].loop = "holding"]
    /\ UNCHANGED <<conn, reloads, stopping>>

\* acquire gives up when the listener is closing.
GiveUp(l) ==
    /\ lis[l].loop = "waiting" /\ lis[l].phase # "served"
    /\ lis' = [lis EXCEPT ![l].loop = "done"]
    /\ UNCHANGED <<conn, limiter, reloads, stopping>>

\* A client: its connection has the slot from here on.
Accept(l, c) ==
    /\ lis[l].loop = "holding" /\ lis[l].sock
    /\ conn[c].at = "free"
    /\ c = CHOOSE d \in Conns : conn[d].at = "free"   \* they are alike
    /\ lis' = [lis EXCEPT ![l].loop = "waiting"]
    /\ conn' = [conn EXCEPT ![c] = [Closed EXCEPT !.at = "handshake", !.on = l]]
    /\ UNCHANGED <<limiter, reloads, stopping>>

\* Accept fails: the deadline of a saturated listener, too many open files, or
\* the socket is closed.
AcceptFails(l) ==
    /\ lis[l].loop = "holding"
    /\ Released(1)
    /\ lis' = [lis EXCEPT ![l].loop = IF lis[l].phase = "served" THEN "waiting" ELSE "done"]
    /\ UNCHANGED <<conn, reloads, stopping>>

-----------------------------------------------------------------------------
(* A connection                                                            *)

\* no PROXY header, or the listener is closing
Refuse(c) ==
    /\ conn[c].at = "handshake"
    /\ conn' = [conn EXCEPT ![c] = Closed]
    /\ Released(1)
    /\ UNCHANGED <<lis, reloads, stopping>>

\* handshake: a TCP session begins, or the HTTP server takes the connection.
Hand(c) ==
    /\ conn[c].at = "handshake"
    /\ LET l == conn[c].on IN
       \/ /\ lis[l].key.mode = "tcp"
          /\ conn' = [conn EXCEPT ![c].at = "session"]
       \/ \E v \in DOMAIN lis[l].servers :
            /\ lis[l].servers[v] = "serving"
            /\ conn' = [conn EXCEPT ![c].at = "taken", ![c].by = v]
    /\ UNCHANGED <<lis, limiter, reloads, stopping>>

\* ConnState of a new connection
StateNew(c) ==
    /\ conn[c].at = "taken"
    /\ conn' = [conn EXCEPT ![c].at = "open"]
    /\ UNCHANGED <<lis, limiter, reloads, stopping>>

\* ConnState of a connection that is gone, or that became a session of its own
\* (a WebSocket), and dropRetired
Gone(c, r) ==
    LET l == conn[c].on
        v == conn[c].by
        last == Counted(l, v) = {c} /\ lis[l].servers[v] = "retired" IN
    /\ conn' = [d \in Conns |-> IF d = c THEN r
                                ELSE [conn[d] EXCEPT !.late = @ \/ (last /\ d \in Taken(l, v))]]
    /\ lis' = IF last THEN [lis EXCEPT ![l].servers[v] = "dropped"] ELSE lis

StateHijacked(c) ==
    /\ conn[c].at = "open"
    /\ Gone(c, [conn[c] EXCEPT !.at = "session", !.by = 0])
    /\ UNCHANGED <<limiter, reloads, stopping>>

\* The connection is closed: by the client, after a response, or as idle.
End(c) ==
    /\ conn[c].at = "open"
    /\ conn' = [conn EXCEPT ![c].at = "ended"]
    /\ Released(1)
    /\ UNCHANGED <<lis, reloads, stopping>>

StateClosed(c) ==
    /\ conn[c].at = "ended"
    /\ Gone(c, Closed)
    /\ UNCHANGED <<limiter, reloads, stopping>>

EndSession(c) ==
    /\ conn[c].at = "session"
    /\ conn' = [conn EXCEPT ![c] = Closed]
    /\ Released(1)
    /\ UNCHANGED <<lis, reloads, stopping>>

\* go old.Close()
CloseServer(l, v) ==
    /\ lis[l].servers[v] = "dropped" /\ Taken(l, v) = {}
    /\ lis' = [lis EXCEPT ![l].servers[v] = "closed"]
    /\ conn' = ClosedBy(l, {v}, TRUE)
    /\ Released(Cardinality({c \in Counted(l, v) : conn[c].at = "open"}))
    /\ UNCHANGED <<reloads, stopping>>

-----------------------------------------------------------------------------
(* Reloads                                                                 *)

Unbound == [key |-> None, phase |-> "none", sock |-> FALSE, loop |-> "done", timeout |-> 1,
            servers |-> <<>>, deadline |-> FALSE]

Opened(k, timeout) ==
    [key |-> k, phase |-> "served", sock |-> TRUE, loop |-> "waiting", timeout |-> timeout,
     servers |-> IF k.mode = "http" THEN <<"serving">> ELSE <<>>, deadline |-> FALSE]

\* As Emptied, whatever the server is doing.
EmptiedBlindly(l, v) == TRUE

\* open.Load() == 0
Emptied(l, v) == Counted(l, v) = {}

\* update with another client timeout: the old server is retired, or closed
\* when it has no connections.
Updated(l, timeout) ==
    LET r == lis[l]
        n == Len(r.servers) IN
    IF r.key.mode = "tcp" \/ r.timeout = timeout THEN r
    ELSE [r EXCEPT !.timeout = timeout,
                   !.servers = Append([@ EXCEPT ![n] = IF Emptied(l, n) THEN "dropped" ELSE "retired"],
                                      "serving")]

\* shutdown takes over the servers that were retired.
Closing(r) ==
    [r EXCEPT !.phase = "closing",
              !.servers = [v \in DOMAIN @ |-> IF @[v] = "retired" THEN "stopping" ELSE @[v]]]

Served == {l \in Ids : lis[l].phase = "served"}

Bound == {lis[l].key : l \in Served}

\* one of the ways to give keys listeners, which are alike
Placed(keys, ids) ==
    LET ways == {w \in [keys -> ids] : \A j, k \in keys : w[j] = w[k] => j = k} IN
    IF ways = {} THEN {} ELSE {CHOOSE w \in ways : TRUE}

\* apply: an address that is still bound fails the reload, and nothing changes;
\* as long as its listener is served, or before a draining one closes it.
Reload(conf) ==
    LET fresh == {l \in Ids : lis[l].phase \in {"none", "gone"} /\ \A c \in Conns : conn[c].on # l}
        new   == conf.keys \ Bound IN
    /\ ~stopping /\ reloads < MaxReloads
    /\ \A k \in new, l \in Ids : ~(lis[l].sock /\ lis[l].key.addr = k.addr)
    /\ \E ids \in Placed(new, fresh) :
         lis' = [l \in Ids |->
              IF l \in Served
              THEN IF lis[l].key \in conf.keys THEN Updated(l, conf.timeout) ELSE Closing(lis[l])
              ELSE IF \E k \in new : ids[k] = l
                   THEN Opened(CHOOSE k \in new : ids[k] = l, conf.timeout) ELSE lis[l]]
    /\ conn' = [c \in Conns |->
         [conn[c] EXCEPT !.late = @ \/ (/\ conn[c].at = "taken"
                                        /\ lis'[conn[c].on].servers[conn[c].by] = "dropped")]]
    /\ limiter' = [limiter EXCEPT !.max = conf.max]
    /\ reloads' = reloads + 1
    /\ UNCHANGED stopping

\* Shutdown
Stop ==
    /\ ~stopping
    /\ stopping' = TRUE
    /\ lis' = [l \in Ids |-> IF l \in Served THEN Closing(lis[l]) ELSE lis[l]]
    /\ UNCHANGED <<conn, limiter, reloads>>

-----------------------------------------------------------------------------
(* shutdown of a listener                                                  *)

CloseSocket(l) ==
    /\ lis[l].phase = "closing"
    /\ lis' = [lis EXCEPT ![l].phase = "closed", ![l].sock = FALSE]
    /\ UNCHANGED <<conn, limiter, reloads, stopping>>

\* <-acceptDone, then the servers shut down, which take no more connections;
ShutServers(l) ==
    /\ lis[l].phase = "closed" /\ lis[l].loop = "done"
    /\ lis' = [lis EXCEPT ![l].phase = "shutting",
                          ![l].servers = [v \in DOMAIN @ |-> IF @[v] = "serving" THEN "stopping" ELSE @[v]]]
    /\ UNCHANGED <<conn, limiter, reloads, stopping>>

\* the context they are given ends
Deadline(l) ==
    /\ lis[l].phase \in Draining /\ ~lis[l].deadline
    /\ lis' = [lis EXCEPT ![l].deadline = TRUE]
    /\ UNCHANGED <<conn, limiter, reloads, stopping>>

Stopping(l) == {v \in DOMAIN lis[l].servers : lis[l].servers[v] = "stopping"}

\* they return once they have no connections, or close them at the deadline;
ServersShut(l) ==
    LET open == {c \in Conns : conn[c].on = l /\ conn[c].by \in Stopping(l) /\ conn[c].at = "open"} IN
    /\ lis[l].phase = "shutting"
    /\ \A v \in Stopping(l) : Taken(l, v) = {}
    /\ lis[l].deadline \/ open = {}
    /\ conn' = ClosedBy(l, Stopping(l), FALSE)
    /\ Released(Cardinality(open))
    /\ lis' = [lis EXCEPT ![l].phase = "waiting",
                          ![l].servers = [v \in DOMAIN @ |-> IF @[v] = "stopping" THEN "closed" ELSE @[v]]]
    /\ UNCHANGED <<reloads, stopping>>

\* and the connections that no server knows are waited for, and closed then.
Drained(l) ==
    /\ lis[l].phase = "waiting"
    /\ lis[l].deadline \/ Held(l) = {}
    /\ lis' = [lis EXCEPT ![l].phase = "gone"]
    /\ conn' = [c \in Conns |-> IF c \notin Held(l) THEN conn[c]
                                ELSE IF conn[c].at = "open" THEN [conn[c] EXCEPT !.at = "ended"]
                                ELSE Closed]
    /\ Released(Cardinality(Held(l)))
    /\ UNCHANGED <<reloads, stopping>>

-----------------------------------------------------------------------------
Init ==
    /\ \E conf \in Configs : \E ids \in Placed(conf.keys, Ids) :
         /\ lis = [l \in Ids |-> IF \E k \in conf.keys : ids[k] = l
                                 THEN Opened(CHOOSE k \in conf.keys : ids[k] = l, conf.timeout)
                                 ELSE Unbound]
         /\ limiter = [max |-> conf.max, cur |-> 0]
    /\ conn = [c \in Conns |-> Closed]
    /\ reloads = 0 /\ stopping = FALSE

Drain(l) == CloseSocket(l) \/ ShutServers(l) \/ Deadline(l) \/ ServersShut(l) \/ Drained(l)

Next ==
    \/ \E conf \in Configs : Reload(conf)
    \/ Stop
    \/ \E l \in Ids : Acquire(l) \/ GiveUp(l) \/ AcceptFails(l) \/ Drain(l)
    \/ \E l \in Ids, c \in Conns : Accept(l, c)
    \/ \E c \in Conns : Refuse(c) \/ Hand(c) \/ StateNew(c) \/ StateHijacked(c) \/ End(c)
                        \/ StateClosed(c) \/ EndSession(c)
    \/ \E l \in Ids : \E v \in DOMAIN lis[l].servers : CloseServer(l, v)

Spec == Init /\ [][Next]_vars

-----------------------------------------------------------------------------
(* Properties                                                              *)

\* The limit counts the connections there are and the accept loops that hold a
\* slot for the next one, whichever way each of them ended.  (limiter)
SlotsAreReal ==
    limiter.cur = Cardinality({l \in Ids : lis[l].loop = "holding"}) + Cardinality({c \in Conns : HoldsSlot(c)})

\* A listener that has shut down has left nothing behind: no accept loop, and no
\* connection, with the HTTP servers it replaced.  (shutdown)
GoneIsEmpty ==
    \A l \in Ids : lis[l].phase = "gone" => lis[l].loop = "done" /\ ~lis[l].sock /\ Held(l) = {}

\* A reload disconnects no client, but one that a server had taken and not yet
\* counted when it was found to have no connections.
OnlyLateIsCut == \A c \in Conns : conn[c].cut => conn[c].late

ConnectionsAreKept == SlotsAreReal /\ GoneIsEmpty /\ OnlyLateIsCut

\* What update says: the old server keeps its connections until they close,
\* "so the reload disconnects nobody".  (listener.go:251-253)
NobodyIsCut == \A c \in Conns : ~conn[c].cut

=============================================================================
