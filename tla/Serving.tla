------------------------------ MODULE Serving ------------------------------
(***************************************************************************)
(* What the two proxy engines answer to a request under one snapshot:      *)
(* nginx, by the server blocks and locations internal/render/nginx writes  *)
(* and the phases nginx runs a request through, and Relay Edge, by the     *)
(* configuration internal/render/edge writes and the handler that serves   *)
(* it.  internal/render/edge promises that the two behave alike.           *)
(*                                                                         *)
(* The snapshot holds one proxy host, one redirected domain and the        *)
(* default server.  A path is a sequence of tokens, so that prefixes of    *)
(* paths are prefixes of sequences.  Geo-blocking, exploit blocking and a  *)
(* rate limit are on; that a request meets one of them is its own field.   *)
(***************************************************************************)
EXTENDS Naturals, FiniteSets, SequencesExt

CONSTANTS
    Snapshots,   \* the configurations
    Requests     \* the requests

VARIABLES snap

vars == <<snap>>

Root   == <<"/">>
Acme   == <<"/", ".well-known", "/", "acme-challenge", "/">>
Well   == <<"/", ".well-known", "/">>
Portal == <<"/", ".relay", "/">>
Verify == <<"/", ".relay", "/", "auth">>
Errors == <<"/", ".relay-errors", "/">>

\* A path that is rejected: a bad escape, or ".." above the root.
Bad == <<>>

\* The extensions of the asset cache.
Asset(path) == path # Bad /\ Last(path) = ".png"

Longest(S) == CHOOSE l \in S : \A k \in S : Len(k.path) <= Len(l.path)

\* tls is "none", "both" or "forced": no usable certificate, one, and one with
\* ForceHTTPS.  auth is "open", "list", "gone" (a list that was deleted), "sso"
\* (forward auth), "login" (Relay login) or "both" (forward auth and a list of
\* which one check is enough).
Snapshot ==
    [ tls: {"none", "both", "forced"}, published: BOOLEAN,
      auth: {"open", "list", "gone", "sso", "login", "both"},
      maint: {"off", "on", "bypass"}, cache: BOOLEAN, skipWell: BOOLEAN,
      locs: SUBSET [path: Seq(STRING), kind: {"same", "proxy", "deny"}, noAuth: BOOLEAN],
      moved: SUBSET [path: Seq(STRING)], whole: BOOLEAN, groupTls: {"none", "forced"},
      default: {"close", "404", "redirect", "host"} ]

\* client: on the blocklist; from a blocked country, or an exploit; or one that
\* the rate limit exempts, the access list allows and maintenance lets in.
\* over: the client is over the rate limit; large: a declared body larger than
\* any limit; verdict: what forward auth answers.
Request ==
    [ scheme: {"http", "https"}, tunnel: BOOLEAN, name: {"host", "group", "other"},
      path: Seq(STRING), client: {"plain", "blocked", "abroad", "trusted"},
      over: BOOLEAN, large: BOOLEAN, password: BOOLEAN,
      verdict: {200, 401, 403, 500} ]

-----------------------------------------------------------------------------
(* The rules both renderers apply to the snapshot *)

ForwardAuth == snap.auth \in {"sso", "login", "both"}
Cert == snap.tls # "none"

\* PrepareHost: with Relay login the host has a location of Relay's own.
OwnLocations ==
    IF snap.auth = "login"
      THEN { l \in snap.locs : l.path \notin {Portal, SubSeq(Portal, 1, 2)} }
           \cup {[path |-> Portal, kind |-> "proxy", noAuth |-> TRUE]}
      ELSE snap.locs

\* hostLocations: "/" is always there, and "/.well-known/" without forward auth
\* where it is to be skipped; a location for the ACME path is dropped.
HostLocations ==
    LET own == { l \in OwnLocations : l.path # Acme }
        has(p) == \E l \in own : l.path = p
        same(p) == [path |-> p, kind |-> "same", noAuth |-> FALSE]
        mark(l, skip) == [ path |-> l.path, kind |-> l.kind, noAuth |-> l.noAuth,
                           forward |-> ForwardAuth /\ ~l.noAuth /\ ~skip,
                           portal |-> snap.auth = "login" /\ l.path = Portal ]
    IN  { mark(l, FALSE) : l \in own }
        \cup (IF has(Root) THEN {} ELSE {mark(same(Root), FALSE)})
        \cup (IF ForwardAuth /\ snap.skipWell /\ ~has(Well) THEN {mark(same(Well), TRUE)} ELSE {})

\* pathRedirect: "^<from>(/.*)?$"; the longest comes first.
Redirects(path) == { m \in snap.moved : path = m.path \/ IsPrefix(m.path \o Root, path) }

\* The access list of a location, if it has one.
Listed(l) == ~l.noAuth /\ snap.auth \in {"list", "both", "gone"}

\* The maintenance page is shown to a client.
Closed(r, l) ==
    /\ snap.maint # "off" /\ ~l.portal
    /\ ~(snap.maint = "bypass" /\ r.client = "trusted")

Exempt(r) == r.client = "trusted"
Limited(r) == r.over /\ ~Exempt(r)

-----------------------------------------------------------------------------
(* nginx *)

\* The server block that answers: the listeners a block has, by hostFile,
\* redirectFile and defaultConf.
NginxServer(r) ==
    IF r.tunnel
      THEN IF r.name = "host" /\ snap.published /\ (r.scheme = "https" => Cert)
             THEN IF r.scheme = "http" /\ snap.tls = "forced" THEN "toHTTPS" ELSE "host"
             ELSE "refuse"
    ELSE IF r.name = "host" /\ (r.scheme = "https" => Cert)
      THEN IF r.scheme = "http" /\ snap.tls = "forced" THEN "toHTTPS" ELSE "host"
    ELSE IF r.name = "group" /\ (r.scheme = "https" => snap.groupTls = "forced")
      THEN IF r.scheme = "http" /\ snap.groupTls = "forced" THEN "toHTTPS" ELSE "group"
    ELSE IF snap.default = "host" THEN "defaultHost" ELSE "default"

\* The locations of a host's block.  Those of the error pages and of the auth
\* check are internal.
HostBlock(acme) ==
    LET plain(mod, path, kind) == [mod |-> mod, path |-> path, kind |-> kind]
        block(l) == [ mod |-> "plain", path |-> l.path, kind |-> l.kind, noAuth |-> l.noAuth,
                      forward |-> l.forward, portal |-> l.portal ]
    IN  { block(l) : l \in HostLocations }
        \cup (IF acme THEN {plain("^~", Acme, "acme")} ELSE {})
        \cup {plain("^~", Errors, "internal")}
        \cup (IF ForwardAuth THEN {plain("=", Verify, "internal")} ELSE {})

Proxies(l) == l.kind \in {"same", "proxy"}

\* ngx_http_core_find_location: an exact match, a redirect to the location with
\* the slash, a nested location of the longest prefix, a regular expression of
\* the server, that prefix.
FindLocation(locs, path) ==
    LET prefixes == { l \in locs : IsPrefix(l.path, path) /\ (l.mod = "=" => l.path = path) }
        here     == { l \in prefixes : l.path = path }
        best     == Longest(prefixes)
        asset    == Proxies(best) /\ snap.cache /\ Asset(path)
    IN  IF \E l \in here : l.mod = "=" THEN <<"location", CHOOSE l \in here : l.mod = "=", FALSE>>
        ELSE IF here = {} /\ \E l \in locs : Proxies(l) /\ l.path = Append(path, "/")
          THEN <<"slash", path, FALSE>>
        ELSE IF asset THEN <<"location", best, TRUE>>
        ELSE IF best.mod # "^~" /\ Redirects(path) # {}
          THEN <<"moved", Longest(Redirects(path)), FALSE>>
        ELSE <<"location", best, FALSE>>

\* The access phase: allow and deny, auth_basic, auth_request, each declining
\* or passing, or failing with a status; satisfy any ends at the first that
\* passes, and a 401 is never replaced.
Check(kind, r) ==
    CASE kind = "rules"   -> IF snap.auth = "gone" \/ r.client # "trusted" THEN 403 ELSE 0
      [] kind = "basic"   -> IF r.password THEN 0 ELSE 401
      [] kind = "request" -> IF r.verdict = 200 THEN 0 ELSE r.verdict

AccessPhase(r, l) ==
    LET checks == (IF Listed(l) THEN <<"rules">> ELSE <<>>)
                  \o (IF Listed(l) /\ snap.auth # "gone" THEN <<"basic">> ELSE <<>>)
                  \o (IF l.forward THEN <<"request">> ELSE <<>>)
        codes  == [i \in DOMAIN checks |-> Check(checks[i], r)]
        any    == Listed(l) /\ snap.auth = "both"
        Bads   == { i \in DOMAIN codes : codes[i] # 0 }
        Goods  == DOMAIN codes \ Bads
        first(S) == CHOOSE i \in S : \A k \in S : i <= k
        fatal  == { i \in Bads : codes[i] = 500 }
    IN  IF ~any THEN IF Bads = {} THEN 0 ELSE codes[first(Bads)]
        ELSE IF fatal # {} /\ \A i \in Goods : first(fatal) < i THEN 500
        ELSE IF Goods # {} \/ Bads = {} THEN 0
        ELSE IF \E i \in Bads : codes[i] = 401 THEN 401 ELSE 403

\* error_page 401 = @relay_signin, where forward auth is active.
Refusal(code, l) == IF code = 401 /\ l.forward THEN <<"signIn">> ELSE <<"status", code>>

\* A host's block, after the server's rewrite phase: find the location (404 for
\* an internal one, 413, the slash), its rewrite phase (return), limit_req, the
\* access phase, the content.
NginxHost(r, acme) ==
    LET found == FindLocation(HostBlock(acme), r.path)
        loc   == found[2]
    IN  IF r.client = "abroad" THEN <<"status", 403>>
        ELSE IF found[1] = "location" /\ loc.kind = "internal" THEN <<"status", 404>>
        ELSE IF r.large THEN <<"status", 413>>
        ELSE IF found[1] = "slash" THEN <<"slash", found[2]>>
        ELSE IF found[1] = "moved" THEN <<"moved", loc.path>>
        ELSE IF loc.kind = "acme" THEN IF Limited(r) THEN <<"status", 429>> ELSE <<"challenge">>
        ELSE IF Closed(r, loc) THEN <<"status", 503>>
        ELSE IF loc.kind = "deny" THEN <<"status", 403>>
        ELSE IF Limited(r) THEN <<"status", 429>>
        ELSE IF AccessPhase(r, loc) # 0 THEN Refusal(AccessPhase(r, loc), loc)
        ELSE <<"proxy", loc.path, loc.kind, found[3]>>

\* The other blocks have the ACME location and "/", and no rate limit; a group
\* has its path redirects, and no ACME location on HTTPS when HTTP redirects.
NginxOther(r, server) ==
    IF r.large THEN <<"status", 413>>
    ELSE IF IsPrefix(Acme, r.path) /\ ~(server = "group" /\ r.scheme = "https") THEN <<"challenge">>
    ELSE CASE server = "toHTTPS" -> <<"toHTTPS">>
           [] server = "group" /\ Redirects(r.path) # {} -> <<"moved", Longest(Redirects(r.path)).path>>
           [] server = "group" /\ snap.whole -> <<"moved", Root>>
           [] server = "default" /\ snap.default = "close" -> <<"closed">>
           [] server = "default" /\ snap.default = "redirect" -> <<"redirected">>
           [] OTHER -> <<"status", 404>>

Nginx(r) ==
    LET server == NginxServer(r)
    IN  IF server = "refuse" /\ r.scheme = "https" THEN <<"noHandshake">>
        ELSE IF r.path = Bad THEN <<"status", 400>>
        ELSE IF server = "refuse" THEN IF r.large THEN <<"status", 413>> ELSE <<"closed">>
        ELSE IF r.client = "blocked" THEN <<"status", 403>>
        ELSE IF server \in {"host", "defaultHost"}
          THEN NginxHost(r, server = "defaultHost" \/ ~(snap.tls = "forced" /\ r.scheme = "https"))
        ELSE NginxOther(r, server)

-----------------------------------------------------------------------------
(* Relay Edge *)

\* servers: what answers a name on each listener; acme is off for the block of
\* a host or group that forces HTTPS.
EdgeServer(r) ==
    LET hosts  == r.name = "host" /\ (r.scheme = "https" => Cert) /\ (r.tunnel => snap.published)
        groups == r.name = "group" /\ (r.scheme = "https" => snap.groupTls = "forced") /\ ~r.tunnel
        forced == (hosts /\ snap.tls = "forced") \/ (groups /\ snap.groupTls = "forced")
    IN  CASE (hosts \/ groups) /\ forced /\ r.scheme = "http" -> [kind |-> "toHTTPS", acme |-> TRUE]
          [] hosts /\ ~(forced /\ r.scheme = "http")  -> [kind |-> "host", acme |-> ~forced]
          [] groups /\ ~(forced /\ r.scheme = "http") -> [kind |-> "group", acme |-> ~forced]
          [] OTHER -> [kind |-> IF r.tunnel THEN "refuse"
                               ELSE IF snap.default = "host" THEN "host" ELSE "default",
                       acme |-> ~r.tunnel]

\* match: the longest prefix, or the proxy location the path lacks a slash of.
Match(path) ==
    LET prefixes == { l \in HostLocations : IsPrefix(l.path, path) }
        slash    == { l \in HostLocations : l.kind # "deny" /\ l.path = Append(path, "/") }
    IN  IF slash # {} /\ \A l \in prefixes : Len(l.path) < Len(path) THEN <<"slash", path>>
        ELSE IF prefixes = {} THEN <<"none">>
        ELSE <<"location", Longest(prefixes)>>

\* As DenyAll, with a deleted list taken for none.
DenyNone(l) == FALSE

\* Location.DenyAll: the list was deleted.
DenyAll(l) == Listed(l) /\ snap.auth = "gone"

\* authorize: the rules, the password and forward auth.
Authorize(r, l) ==
    LET rules  == Listed(l) /\ snap.auth # "gone"
        any    == rules /\ snap.auth = "both"
        denied == rules /\ r.client # "trusted"
        nopass == rules /\ ~r.password
    IN  IF DenyAll(l) THEN 403
        ELSE IF any /\ (~denied \/ ~nopass) THEN 0
        ELSE IF ~any /\ denied THEN 403
        ELSE IF ~any /\ nopass THEN 401
        ELSE IF l.forward /\ r.verdict = 200 THEN 0
        ELSE IF l.forward /\ r.verdict = 500 THEN 500
        ELSE IF any THEN 401
        ELSE IF l.forward THEN r.verdict
        ELSE 0

\* serveHost
EdgeHost(r, acme) ==
    LET found == Match(r.path)
        loc   == found[2]
    IN  IF r.client = "abroad" THEN <<"status", 403>>
        ELSE IF Limited(r) THEN <<"status", 429>>
        ELSE IF r.large THEN <<"status", 413>>
        ELSE IF acme /\ IsPrefix(Acme, r.path) THEN <<"challenge">>
        ELSE IF Redirects(r.path) # {} THEN <<"moved", Longest(Redirects(r.path)).path>>
        ELSE IF found[1] = "slash" THEN <<"slash", r.path>>
        ELSE IF found[1] = "none" THEN <<"status", 404>>
        ELSE IF Closed(r, loc) THEN <<"status", 503>>
        ELSE IF loc.kind = "deny" THEN <<"status", 403>>
        ELSE IF Authorize(r, loc) # 0 THEN Refusal(Authorize(r, loc), loc)
        ELSE <<"proxy", loc.path, loc.kind, snap.cache /\ Asset(r.path)>>

\* serve, serveGroup and serveDefault
Edge(r) ==
    LET server == EdgeServer(r)
        acme   == server.acme /\ IsPrefix(Acme, r.path)
    IN  IF server.kind = "refuse" /\ r.scheme = "https" THEN <<"noHandshake">>
        ELSE IF r.client = "blocked" THEN <<"status", 403>>
        ELSE IF r.path = Bad THEN <<"status", 400>>
        ELSE IF server.kind = "host" THEN EdgeHost(r, server.acme)
        ELSE IF acme THEN <<"challenge">>
        ELSE CASE server.kind = "toHTTPS" -> <<"toHTTPS">>
               [] server.kind = "group" /\ Redirects(r.path) # {} -> <<"moved", Longest(Redirects(r.path)).path>>
               [] server.kind = "group" /\ snap.whole -> <<"moved", Root>>
               [] server.kind = "refuse" \/ (server.kind = "default" /\ snap.default = "close") -> <<"closed">>
               [] server.kind = "default" /\ snap.default = "redirect" -> <<"redirected">>
               [] OTHER -> <<"status", 404>>

-----------------------------------------------------------------------------
(* An admin changes one setting after the other *)

TypeOK == snap \in Snapshots

Init == snap \in { s \in Snapshots : s.tls = "none" /\ s.maint = "off" }

Edit(s) ==
    /\ Cardinality({ f \in DOMAIN s : s[f] # snap[f] }) = 1
    /\ snap' = s

Next == \E s \in Snapshots : Edit(s)

Spec == Init /\ [][Next]_vars

-----------------------------------------------------------------------------
(* Properties *)

\* A path is one for a location below the challenges'.
BelowAcme(path) ==
    \E l \in HostLocations : IsPrefix(Acme, l.path) /\ (IsPrefix(l.path, path) \/ l.path = Append(path, "/"))

\* What only one engine treats as its own: nginx has internal locations for the
\* error pages and the auth check; its asset cache is a location of its own, which a
\* path redirect does not reach; and a location below that of the challenges is
\* longer than theirs, where Relay Edge answers the challenge.
OneEngineOnly(r) ==
    \/ IsPrefix(Errors, r.path)
    \/ ForwardAuth /\ r.path = Verify
    \/ snap.cache /\ Asset(r.path) /\ Redirects(r.path) # {}
    \/ EdgeServer(r).kind = "host" /\ EdgeServer(r).acme /\ BelowAcme(r.path)

\* The engines check these in another order: the limits, a path that is none, the
\* blocklist where no server answers at all, and a path that both a redirect and
\* the slash of a location take.
OrderMatters(r) ==
    \/ Limited(r) \/ r.large \/ r.path = Bad
    \/ r.client = "blocked" /\ NginxServer(r) = "refuse"
    \/ Redirects(r.path) # {} /\ Match(r.path)[1] = "slash"

\* But for what one engine alone treats as its own, Relay Edge answers as the nginx
\* configuration of the same snapshot does: what is blocked, closed for maintenance,
\* redirected, asked to sign in or refused, and which location and cache serve the
\* rest.  Where they check in another order the answers may differ, but neither
\* passes to an upstream what the other keeps from it.
EnginesAgree ==
    \A r \in Requests : ~OneEngineOnly(r) =>
        /\ Nginx(r)[1] = "proxy" <=> Edge(r)[1] = "proxy"
        /\ ~OrderMatters(r) => Nginx(r) = Edge(r)
=============================================================================
