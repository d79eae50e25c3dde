------------------------------ MODULE MCEngine ------------------------------
(***************************************************************************)
(* The agent of an engine; Relay Edge as it takes new configurations and   *)
(* certificates; and what the two proxy engines, and the two balancers, do *)
(* under one snapshot.  In a behaviour one of them moves, and the others   *)
(* rest as they begin.                                                     *)
(***************************************************************************)
EXTENDS MCAgent, Naturals, SequencesExt

CONSTANTS
    http, stream, moved,
    Listener, Addr, Configs, MaxVersion,  \* of Edge
    Settings, Questions,                  \* of Serving
    Plans, Sessions, Addresses            \* of Balancing

VARIABLES focus, files, table, entry, bound, closing, held, load, poll, snap, plan, servers

edgeVars == <<files, table, entry, bound, closing, held, load, poll>>

Loads ==
    { [listen |-> {http, stream}, cert |-> TRUE, staples |-> TRUE],
      [listen |-> {http, moved}, cert |-> TRUE, staples |-> TRUE],
      [listen |-> {http}, cert |-> TRUE, staples |-> FALSE],
      [listen |-> {http}, cert |-> FALSE, staples |-> FALSE] }

\* The stream listener and the HTTP listener that moved share an address.
Shared == [l \in {http, stream, moved} |-> IF l = http THEN 1 ELSE 2]

E == INSTANCE Edge WITH None <- none

\* A host with and without locations of its own, under every setting of TLS, of
\* access and of maintenance; and with the other settings, next to a redirect
\* group and each default server.
App   == <<"/", "app">>
Apps  == <<"/", "app", "/">>
Old   == <<"/", "old">>
Challenge == <<"/", ".well-known", "/", "acme-challenge", "/", "t">>

Location(path, kind, noAuth) == [path |-> path, kind |-> kind, noAuth |-> noAuth]

LocationSets ==
    { {}, {Location(Apps, "proxy", TRUE), Location(Challenge \o <<"/">>, "proxy", FALSE)},
      {Location(Apps, "proxy", FALSE), Location(Apps \o <<"x">>, "deny", FALSE)} }

Rules ==
    [ tls : {"none", "both", "forced"}, auth : {"open", "list", "gone", "sso", "login", "both"},
      maint : {"off", "on", "bypass"}, locs : LocationSets,
      published : {TRUE}, cache : {TRUE}, skipWell : {TRUE}, moved : {{[path |-> Old]}},
      whole : {TRUE}, groupTls : {"none"}, default : {"host"} ]

Others ==
    [ tls : {"none", "both"}, auth : {"sso"}, maint : {"off"}, locs : {{}},
      published : BOOLEAN, cache : {FALSE}, skipWell : {FALSE},
      moved : {{}, {[path |-> Old], [path |-> App]}},
      whole : BOOLEAN, groupTls : {"none", "forced"}, default : {"close", "404", "redirect"} ]

AllSettings == Rules \cup Others

Paths ==
    { <<>>, <<"/">>, App, Apps, Apps \o <<"x">>, Apps \o <<".png">>, Old, Old \o <<"/", ".png">>,
      <<"/", "older">>, Challenge, Challenge \o <<"/">>,
      <<"/", ".well-known", "/", "t">>, <<"/", ".relay", "/">>, <<"/", ".relay", "/", "auth">>,
      <<"/", ".relay-errors", "/">> }

Asked ==
    { r \in [ scheme : {"http", "https"}, tunnel : BOOLEAN, name : {"host", "group", "other"},
              path : Paths, client : {"plain", "blocked", "abroad", "trusted"},
              over : BOOLEAN, large : BOOLEAN, password : BOOLEAN, verdict : {200, 401, 403, 500} ] :
        /\ ~(r.over /\ r.large) /\ (r.over \/ r.large => r.scheme = "http")
        /\ r.tunnel => r.name # "group"
        /\ r.tunnel \/ r.name = "group" => ~r.over /\ ~r.password /\ r.verdict < 403 }

V == INSTANCE Serving WITH Snapshots <- Settings, Requests <- Questions

\* A host's locations as model/validate_host.go admits them: their paths begin
\* with "/" and are all different.
Proper(s) ==
    /\ s \in V!Snapshot
    /\ \A l \in s.locs : l.path # <<>> /\ l.path[1] = "/"
    /\ \A k, l \in s.locs : k.path = l.path => k = l

\* The path of a request begins with "/" too, unless it is rejected.
Asking(r) == r \in V!Request /\ (r.path = V!Bad \/ r.path[1] = "/")

ASSUME SettingsAreProper == (\A s \in Settings : Proper(s)) /\ (\A r \in Questions : Asking(r))

\* Frontends with a rule of one or two conditions and with two rules; access lists
\* of up to three rules; and backends, for clients of every origin and history.
Condition(type, value, wild, negate) ==
    [type |-> type, value |-> value, wild |-> wild, from |-> {"a"}, negate |-> negate]

Conditions(mode) ==
    { Condition("src", <<>>, FALSE, FALSE), Condition("src", <<>>, FALSE, TRUE),
      Condition("new", <<>>, FALSE, FALSE), Condition("new", <<>>, FALSE, TRUE) }
    \cup IF mode = "tcp"
           THEN { Condition("sni", <<"x">>, w, n) : w \in BOOLEAN, n \in BOOLEAN }
           ELSE { Condition("host", <<"x">>, FALSE, FALSE), Condition("host", <<"x">>, TRUE, FALSE),
                  Condition("host", <<"x">>, TRUE, TRUE),
                  Condition("path", <<"p">>, FALSE, TRUE), Condition("path_beg", <<"p">>, FALSE, FALSE),
                  Condition("header", <<"h">>, FALSE, FALSE), Condition("header", <<>>, TRUE, TRUE) }

RuleLists(mode) ==
    LET rule(conds, be) == [conds |-> conds, backend |-> be]
    IN  {<<>>, <<rule(<<>>, 1)>>} \cup { <<rule(<<x>>, 1)>> : x \in Conditions(mode) }
        \cup { <<rule(<<x, y>>, 1)>> : x \in Conditions(mode), y \in Conditions(mode) }
        \cup { <<rule(<<x>>, 1), rule(<<y>>, 2)>> : x \in Conditions(mode), y \in Conditions(mode) }

IPRules ==
    { r \in [cidr : {{}, {"a"}, {"a", "b"}}, all : BOOLEAN, action : {"allow", "deny", "other"}] :
        r.all => r.cidr = {} }

AccessLists ==
    LET plain == { r \in IPRules : r.action # "other" /\ (r.all \/ r.cidr # {}) }
    IN  {<<>>} \cup { <<x>> : x \in IPRules } \cup { <<x, y>> : x \in IPRules, y \in IPRules }
        \cup { <<x, y, z>> : x \in plain, y \in plain, z \in plain }

Plain == [ mode |-> "http", fed |-> FALSE, rules |-> <<>>, default |-> 1, algo |-> "none",
           sticky |-> "off", forward |-> FALSE, backup |-> {}, access |-> <<>> ]

AllPlans ==
    UNION { { [Plain EXCEPT !.mode = m, !.rules = l, !.default = d] : l \in RuleLists(m), d \in {0, 1} } :
              m \in {"http", "tcp"} }
    \cup { [Plain EXCEPT !.access = l] : l \in AccessLists }
    \cup [ mode : {"http", "tcp"}, fed : BOOLEAN, rules : {<<>>}, default : {1},
           algo : {"none", "uri", "first"}, sticky : {"off", "source", "prefix", "insert", "other"},
           forward : BOOLEAN, backup : SUBSET {1, 2}, access : {<<>>} ]

AllSessions ==
    [ host : {<<>>, <<"x">>, <<"y", "x">>}, sni : {<<>>, <<"x">>, <<"y", "x">>},
      path : {<<"p">>, <<"p", "q">>, <<"q">>}, header : {<<>>, <<"h">>, <<"g">>},
      client : {"a", "b"}, local : {FALSE}, cookie : {0}, stuck : {0} ]
    \cup [ host : {<<"x">>}, sni : {<<>>}, path : {<<"p">>}, header : {<<>>},
           client : {"a"}, local : BOOLEAN, cookie : 0..3, stuck : 0..2 ]

B == INSTANCE Balancing WITH
        snap <- plan, srv <- servers, Snapshots <- Plans, Requests <- Sessions,
        Clients <- Addresses, States <- {"up", "drain", "maint", "down"}

Abc == {"a", "b", "c"}

ASSUME PlansAreTyped == Plans \subseteq B!Snapshot /\ Sessions \subseteq B!Request

-----------------------------------------------------------------------------

lbVars == <<plan, servers>>

EngineInit ==
    /\ focus \in {"agent", "edge", "serving", "balancing"}
    /\ Init /\ E!Init /\ V!Init /\ B!Init
    /\ focus # "serving" => snap.locs = {} /\ snap.auth = "open"
    /\ focus # "balancing" => plan = Plain

EngineNext ==
    \/ focus = "agent" /\ Next /\ UNCHANGED <<focus, edgeVars, snap, lbVars>>
    \/ focus = "edge" /\ E!Next /\ UNCHANGED <<focus, vars, snap, lbVars>>
    \/ focus = "serving" /\ V!Next /\ UNCHANGED <<focus, vars, edgeVars, lbVars>>
    \/ focus = "balancing" /\ B!Next /\ UNCHANGED <<focus, vars, edgeVars, snap>>

EngineSpec == EngineInit /\ [][EngineNext]_<<focus, vars, edgeVars, snap, lbVars>>

SocketsAreAccounted == E!SocketsAreAccounted
NoRenewalIsMissed   == E!NoRenewalIsMissed
EnginesAgree        == focus = "serving" => V!EnginesAgree
BalancersAgree      == focus = "balancing" => B!BalancersAgree
=============================================================================
