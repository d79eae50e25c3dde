------------------------------ MODULE MCTunnel ------------------------------
(***************************************************************************)
(* Tunnel with two tables: one publishes a host, the other a port as well; *)
(* and one of its streams, once it is served.  In a behaviour one of the   *)
(* two moves, and the other rests as it begins.                            *)
(***************************************************************************)
EXTENDS Tunnel

CONSTANTS
    host, port, client, none,
    Most, Window               \* bounds of Streams

VARIABLES focus, ends, copy, gate, serve, way, link, late

streamVars == <<ends, copy, gate, serve, way, link, late>>

HostOrBoth == {{host}, {host, port}}

\* chunks sent by the client, and by the engine
TwoAndOne == [s \in {"gateway", "home"} |-> IF s = "gateway" THEN 2 ELSE 1]

S == INSTANCE Streams

MCInit ==
    /\ focus \in {"gateway", "stream"}
    /\ Init /\ S!Init
    /\ focus = "stream" => home.def = "disabled" /\ home.table = None

MCNext ==
    \/ focus = "gateway" /\ Next /\ UNCHANGED <<focus, streamVars>>
    \/ focus = "stream" /\ S!Next /\ UNCHANGED <<focus, vars>>

\* As FairSpec of each: at rest, nothing that is fair is enabled.
MCFairSpec ==
    /\ MCInit /\ [][MCNext]_<<focus, vars, streamVars>>
    /\ Fairness /\ S!Fairness

NothingIsCut == S!NothingIsCut
StreamsEnd   == S!StreamsEnd
=============================================================================
