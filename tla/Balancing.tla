----------------------------- MODULE Balancing -----------------------------
(***************************************************************************)
(* What the two load balancers do with a request or a session under one    *)
(* snapshot: HAProxy, by the haproxy.cfg that internal/render/haproxy      *)
(* writes, and Relay Balancer, by the configuration that                   *)
(* internal/render/balancer writes and the data plane compiles and runs.   *)
(* The renderer promises that the two behave exactly alike.                *)
(*                                                                         *)
(* The snapshot holds one frontend, two backends of two servers and the    *)
(* access list of the stats listener; the servers' states change.  A name  *)
(* is a sequence of labels and a path a sequence of segments.              *)
(***************************************************************************)
EXTENDS Naturals, FiniteSets, SequencesExt

CONSTANTS
    Snapshots,   \* the configurations
    Requests,    \* the requests and sessions
    Clients,     \* client addresses
    States       \* the states a server may be in

VARIABLES snap, srv

vars == <<snap, srv>>

Mode     == {"http", "tcp"}
Backends == {1, 2}
Nobody   == 0

\* A condition.  type is "host", "sni", "path", "path_beg", "header", "src" or one
\* that only a later version knows; wild is a leading "*." or, of a header, no value.
Condition == [type: STRING, value: Seq(STRING), wild: BOOLEAN, from: SUBSET Clients, negate: BOOLEAN]

\* A rule of an access list: a set of addresses, all, or none (an empty CIDR).
IPRule == [cidr: SUBSET Clients, all: BOOLEAN, action: {"allow", "deny", "other"}]

Snapshot ==
    [ mode: Mode, fed: BOOLEAN, rules: Seq([conds: Seq(Condition), backend: Backends]), default: Backends \cup {Nobody},
      algo: {"uri", "first", "none"}, sticky: {"off", "source", "prefix", "insert", "other"},
      forward: BOOLEAN, backup: SUBSET {1, 2}, access: Seq(IPRule) ]

\* host, sni and header may be missing; cookie is the server the client's cookie
\* names, stuck the one its address is stuck to; local: it comes from 127.0.0.0/8.
Request ==
    [ host: Seq(STRING), sni: Seq(STRING), path: Seq(STRING), header: Seq(STRING),
      client: Clients, local: BOOLEAN, cookie: 0..3, stuck: 0..2 ]

-----------------------------------------------------------------------------
(* Rules both renderers apply *)

\* What a fetch finds, where the mode of the frontend has it.
Available(type) == IF snap.mode = "http" THEN type \in {"host", "path", "path_beg", "header", "src"}
                                         ELSE type \in {"sni", "src"}

Matches(c, r) ==
    LET named(v) == IF c.wild THEN IsSuffix(c.value, v) /\ v # c.value ELSE v = c.value
    IN  CASE c.type = "host"     -> named(r.host)
          [] c.type = "sni"      -> r.sni # <<>> /\ named(r.sni)
          [] c.type = "path"     -> r.path = c.value
          [] c.type = "path_beg" -> IsPrefix(c.value, r.path)
          [] c.type = "header"   -> IF c.wild THEN r.header # <<>> ELSE r.header = c.value
          [] c.type = "src"      -> r.client \in c.from

Known == {"host", "sni", "path", "path_beg", "header", "src"}

Sticky == IF snap.sticky = "off" THEN "off"
          ELSE IF snap.mode # "http" THEN "source"
          ELSE IF snap.sticky = "other" THEN "insert" ELSE snap.sticky

Algorithm == IF snap.algo = "none" \/ (snap.algo = "uri" /\ snap.mode # "http")
             THEN "roundrobin" ELSE snap.algo

\* What is left of the servers a session may get: the first only, or any.
Choice(S) == IF Algorithm = "first" /\ S # {} THEN {CHOOSE s \in S : \A k \in S : s <= k} ELSE S

-----------------------------------------------------------------------------
(* HAProxy *)

\* conditionExpr: an unknown condition is always_false.
AclHolds(c, r) == c.type \in Known /\ Available(c.type) /\ Matches(c, r)

\* use_backend <name> if <acls>: a rule without conditions is left out.
UseBackend(r) ==
    { i \in DOMAIN snap.rules :
        /\ snap.rules[i].conds # <<>>
        /\ \A j \in DOMAIN snap.rules[i].conds :
             AclHolds(snap.rules[i].conds[j], r) # snap.rules[i].conds[j].negate }

First(S) == CHOOSE i \in S : \A k \in S : i <= k

HaproxyBackend(r) == IF UseBackend(r) = {} THEN snap.default ELSE snap.rules[First(UseBackend(r))].backend

\* The rules AccessRules comes to: those with addresses, up to an "all" that allows
\* or denies.
Reads(rules) ==
    { i \in DOMAIN rules :
        /\ rules[i].all \/ rules[i].cidr # {}
        /\ ~\E j \in 1..(i - 1) : rules[j].all /\ rules[j].action # "other" }

\* The addresses that a rule before i allows, as negations repeats them.
Allows(rules, i) ==
    { rules[j].cidr : j \in { k \in Reads(rules) : k < i /\ rules[k].action = "allow" /\ ~rules[k].all } }

\* AccessRules: the deny lines, each unless one of the allow rules before it
\* holds; a list that "all" does not end ends with one if it allows anybody.
AccessRules(rules) ==
    LET denials == { i \in Reads(rules) : rules[i].action = "deny" }
        line(S, i) == [src |-> S, unless |-> Allows(rules, i)]
        past  == Len(rules) + 1
        ended == \E i \in Reads(rules) : rules[i].all /\ rules[i].action # "other"
    IN  { line(IF rules[i].all THEN Clients ELSE rules[i].cidr, i) : i \in denials }
        \cup IF ended \/ Allows(rules, past) = {} THEN {} ELSE {line(Clients, past)}

\* http-request deny: a line that applies.
HaproxyDenies(client) ==
    \E line \in AccessRules(snap.access) :
        client \in line.src /\ \A S \in line.unless : client \notin S

\* HAProxy's own choice: persistence to a server that runs and is not in
\* maintenance, else the balance algorithm over the active servers, else the
\* first backup server.
HaproxyServers(r) ==
    LET usable == { s \in {1, 2} : srv[s] = "up" }
        active == usable \ snap.backup
        spare  == usable \cap snap.backup
        kept   == { s \in {1, 2} : srv[s] \in {"up", "drain"} /\
                      CASE Sticky = "source" -> s = r.stuck
                        [] Sticky \in {"insert", "prefix"} -> s = r.cookie
                        [] OTHER -> FALSE }
    IN  IF kept # {} THEN kept ELSE IF active # {} THEN Choice(active)
        ELSE IF spare # {} THEN {First(spare)} ELSE {}

\* option forwardfor [except 127.0.0.0/8] of the frontend, option forwardfor of
\* the backend.
HaproxyForwards(r) ==
    /\ snap.mode = "http"
    /\ IF snap.fed THEN ~r.local ELSE snap.forward

\* cookie insert indirect nocache: set unless the client's was used.
HaproxySetsCookie(r) ==
    /\ Sticky = "insert"
    /\ ~\E s \in HaproxyServers(r) : s = r.cookie /\ srv[s] \in {"up", "drain"}

Haproxy(r) ==
    IF HaproxyBackend(r) = Nobody THEN <<"none">>
    ELSE IF HaproxyServers(r) = {} THEN <<"unavailable", HaproxyBackend(r)>>
    ELSE <<"served", HaproxyBackend(r), HaproxyServers(r), HaproxyForwards(r), HaproxySetsCookie(r)>>

-----------------------------------------------------------------------------
(* Relay Balancer *)

\* frontend: a rule with an unknown condition never matches, and one that is
\* negated always holds; a rule of only such conditions gets one on any source.
RenderedRule(rule) ==
    [ conds |-> { j \in DOMAIN rule.conds : rule.conds[j].type \in Known },
      skip  |-> \/ rule.conds = <<>>
                \/ \E j \in DOMAIN rule.conds :
                     rule.conds[j].type \notin Known /\ ~rule.conds[j].negate ]

\* As Ended, where those that no rule names are let in.
EndedOpen(rules, past) == rules

\* What a list that allows anybody ends with.
Ended(rules, past) ==
    [i \in DOMAIN rules \cup {past} |-> IF i = past THEN [allow |-> FALSE, src |-> Clients] ELSE rules[i]]

\* accessRules: the rules it keeps, at their places; "all" ends them.
SpecRules(rules) ==
    LET kept(i) == rules[i].action \in {"allow", "deny"} /\ (rules[i].all \/ rules[i].cidr # {})
        taken == { i \in DOMAIN rules : kept(i) /\ \A j \in 1..(i - 1) : kept(j) => ~rules[j].all }
        spec  == [i \in taken |-> [ allow |-> rules[i].action = "allow",
                                    src |-> IF rules[i].all THEN Clients ELSE rules[i].cidr ]]
    IN  IF (\E i \in taken : rules[i].all) \/ ~(\E i \in taken : spec[i].allow) THEN spec
        ELSE Ended(spec, Len(rules) + 1)

\* accessAllowed: the first match wins, a client that no rule matches is let in.
BalancerDenies(client) ==
    LET rules == SpecRules(snap.access)
        hits  == { i \in DOMAIN rules : client \in rules[i].src }
    IN  hits # {} /\ ~rules[First(hits)].allow

\* compileCond, routeHTTP and routeTCP.
CondHolds(c, r) == Available(c.type) /\ Matches(c, r)

Route(r) ==
    LET holds(i) == \A j \in RenderedRule(snap.rules[i]).conds :
                      CondHolds(snap.rules[i].conds[j], r) # snap.rules[i].conds[j].negate
        hits == { i \in DOMAIN snap.rules : ~RenderedRule(snap.rules[i]).skip /\ holds(i) }
    IN  IF hits = {} THEN snap.default ELSE snap.rules[First(hits)].backend

UsableLB(s)      == srv[s] = "up"
UsablePersist(s) == srv[s] \in {"up", "drain"}

\* The server a session sticks to.
Persist(r) ==
    CASE Sticky \in {"insert", "prefix"} /\ r.cookie \in {1, 2} ->
           IF UsablePersist(r.cookie) THEN r.cookie ELSE Nobody
      [] Sticky = "source" /\ r.stuck # Nobody -> IF UsablePersist(r.stuck) THEN r.stuck ELSE Nobody
      [] OTHER -> Nobody

\* pick: any server stands for what the algorithm and its weights choose.
Picks ==
    LET actives == { s \in {1, 2} \ snap.backup : UsableLB(s) }
        backups == { s \in snap.backup : UsableLB(s) }
    IN  IF actives # {} THEN Choice(actives) ELSE Choice(IF backups = {} THEN {} ELSE {First(backups)})

\* proxy: X-Forwarded-For; and the cookie of the server, unless it was the
\* client's.
Forwards(r) ==
    snap.mode = "http" /\ (snap.fed \/ snap.forward) /\ ~(snap.fed /\ r.local)

SetsCookie(r) == Sticky = "insert" /\ Persist(r) = Nobody

Balancer(r) ==
    LET be == Route(r)
        servers == IF Persist(r) # Nobody THEN {Persist(r)} ELSE Picks
    IN  IF be = Nobody THEN <<"none">>
        ELSE IF servers = {} THEN <<"unavailable", be>>
        ELSE <<"served", be, servers, Forwards(r), SetsCookie(r)>>

-----------------------------------------------------------------------------
(* The servers come, go, and are drained and put into maintenance *)

TypeOK == snap \in Snapshots /\ srv \in [{1, 2} -> States]

Init == snap \in Snapshots /\ srv = [s \in {1, 2} |-> "up"]

Change(s, state) ==
    /\ srv[s] # state
    /\ srv' = [srv EXCEPT ![s] = state]
    /\ UNCHANGED snap

Next == \E s \in {1, 2}, state \in States : Change(s, state)

Spec == Init /\ [][Next]_vars

-----------------------------------------------------------------------------
(* Properties *)

\* Relay Balancer routes, balances, keeps clients on their server, tells servers
\* who the client is, and guards its statistics as the haproxy.cfg of the same
\* snapshot makes HAProxy do.  (docs/BALANCER.md, parity rules)
BalancersAgree ==
    /\ \A r \in Requests : Haproxy(r) = Balancer(r)
    /\ \A c \in Clients : HaproxyDenies(c) <=> BalancerDenies(c)
=============================================================================
