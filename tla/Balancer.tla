------------------------------ MODULE Balancer ------------------------------
(***************************************************************************)
(* The servers of a backend of Relay Balancer (src/internal/balancer:      *)
(* state.go, health.go, lb.go, and the parts of compile.go, server.go and  *)
(* runtimeapi.go that change them): health checks, the runtime API and     *)
(* reloads change a server, and whoever changed one refreshes what the     *)
(* backend derives from them all, its status and its table for hashing.    *)
(*                                                                         *)
(* Every server's address is resolved; counters, times and log lines are   *)
(* left out.                                                               *)
(***************************************************************************)
EXTENDS Integers

CONSTANTS
    Servers,
    Configs,       \* configurations: what each server is defined as
    Changers,      \* goroutines that may be changing servers at a time
    None,
    MaxReloads,    \* bound: configurations loaded
    MaxCommands    \* bound: commands of the runtime API

Gens == 0..MaxReloads

Admins == {"ready", "drain", "maint"}

\* passes: what a check of this definition finds
Def == [admin : Admins, weight : {0, 1}, check : BOOLEAN, rise : {1, 2}, fall : {1, 2}, passes : BOOLEAN]

VARIABLES
    srv,       \* srv[s]: its srvState, with the definition applied last
    checker,   \* checker[s]: generation of the running health checker
    flight,    \* flight[s]: results of checks that are yet to be applied
    reload,    \* the configuration being committed
    changing,  \* changing[x]: calls of beState.changed
    status,    \* beState.up
    overtaken, \* whether it was last set to a count that was no longer true
    table,     \* slots: the hash table, and whether it has the current version
    picker,    \* a session that is computing the table
    commands

vars == <<srv, checker, flight, reload, changing, status, overtaken, table, picker, commands>>

TypeOK ==
    /\ srv \in [Servers -> [conf : Def, admin : Admins, weight : {0, 1}, running : BOOLEAN,
                            health : 0..3, gen : Gens, forced : BOOLEAN]]
    /\ checker \in [Servers -> Gens \cup {None}]
    /\ \A s \in Servers : flight[s] \subseteq [gen : Gens, ok : BOOLEAN]
    /\ reload \in [todo : SUBSET Servers, conf : Configs, by : Changers \cup {None}, loaded : Gens]
    /\ changing \in [Changers -> [at : {"idle", "changed", "counted", "reload"}, up : BOOLEAN]]
    /\ status \in BOOLEAN /\ overtaken \in BOOLEAN
    /\ table \in [servers : SUBSET Servers, fresh : BOOLEAN]
    /\ picker \in {"idle", "fresh", "stale"}
    /\ commands \in 0..MaxCommands

-----------------------------------------------------------------------------
(* A server                                                                *)

\* usableLB
Usable == {s \in Servers : srv[s].running /\ srv[s].admin = "ready" /\ srv[s].weight > 0}

Best(d) == d.rise + d.fall - 1

Smaller(m, n) == IF m < n THEN m ELSE n
Larger(m, n)  == IF m > n THEN m ELSE n

\* the health under another rise and fall
Clamped(r, d) ==
    IF r.running THEN Larger(Smaller(r.health, Best(d)), d.rise)
                 ELSE Smaller(r.health, d.rise - 1)

\* applyConfig, for a server there was
Reconfigured(r, d) ==
    LET up == r.running \/ d.check # r.conf.check IN
    [ conf    |-> d,
      admin   |-> IF d.admin # r.conf.admin THEN d.admin ELSE r.admin,
      weight  |-> IF d.weight # r.conf.weight THEN d.weight ELSE r.weight,
      running |-> up,
      health  |-> IF ~d.check THEN r.health
                  ELSE IF ~r.conf.check THEN d.rise ELSE Clamped(r, d),
      gen     |-> r.gen + 1,
      forced  |-> r.forced /\ ~up ]

\* As Checked, counting every success.
CheckedUncapped(r, ok) ==
    IF ok
    THEN [r EXCEPT !.health = @ + 1, !.running = @ \/ r.health + 1 >= r.conf.rise]
    ELSE IF r.health > r.conf.rise
         THEN [r EXCEPT !.health = @ - 1]
         ELSE [r EXCEPT !.health = 0, !.running = FALSE]

\* checkResult: the health counter
Checked(r, ok) ==
    LET better == IF r.health + 1 >= r.conf.rise THEN Best(r.conf) ELSE r.health + 1 IN
    IF ok
    THEN [r EXCEPT !.health = better, !.running = @ \/ better >= r.conf.rise]
    ELSE IF r.health > r.conf.rise
         THEN [r EXCEPT !.health = @ - 1]
         ELSE [r EXCEPT !.health = 0, !.running = FALSE]

\* setAdmin: a server that leaves maintenance is up.
Administered(r, admin) ==
    IF r.admin = "maint" /\ r.conf.check
    THEN [r EXCEPT !.admin = admin, !.health = r.conf.rise, !.running = TRUE]
    ELSE [r EXCEPT !.admin = admin]

\* forceHealth
Forced(r, up) == [r EXCEPT !.running = up, !.health = IF up THEN Best(r.conf) ELSE 0, !.forced = ~up]

-----------------------------------------------------------------------------
(* changed: what a backend derives from its servers                        *)

Free(x) == changing[x].at = "idle"

WillTell(x) == changing' = [changing EXCEPT ![x].at = "changed"]

\* As TableStale, keeping the version.
TableKept == UNCHANGED <<table, picker>>

\* A new version: tables that were computed, or are being, are stale.
TableStale ==
    /\ table' = [table EXCEPT !.fresh = FALSE]
    /\ picker' = IF picker = "fresh" THEN "stale" ELSE picker

\* The version is bumped and the usable servers are counted,
Count(x) ==
    /\ changing[x].at = "changed"
    /\ changing' = [changing EXCEPT ![x] = [at |-> "counted", up |-> Usable # {}]]
    /\ TableStale
    /\ UNCHANGED <<srv, checker, flight, reload, status, overtaken, commands>>

\* and then the status is set to what was counted.
SetStatus(x) ==
    /\ changing[x].at = "counted"
    /\ status' = changing[x].up
    /\ overtaken' = (status' # (Usable # {}))
    /\ changing' = [changing EXCEPT ![x].at = "idle"]
    /\ UNCHANGED <<srv, checker, flight, reload, table, picker, commands>>

\* slots: a session that hashes computes the table when its version is old;
Pick ==
    /\ picker = "idle" /\ ~table.fresh
    /\ picker' = "fresh"
    /\ UNCHANGED <<srv, checker, flight, reload, changing, status, overtaken, table, commands>>

\* the version it read before is the table's.
Tabulate ==
    /\ picker # "idle"
    /\ table' = [servers |-> Usable, fresh |-> picker = "fresh"]
    /\ picker' = "idle"
    /\ UNCHANGED <<srv, checker, flight, reload, changing, status, overtaken, commands>>

-----------------------------------------------------------------------------
(* Health checks                                                           *)

\* checkLoop: a check has run, and its checker was not canceled meanwhile.
Check(s) ==
    /\ checker[s] # None
    /\ srv[s].admin # "maint"
    /\ flight' = [flight EXCEPT ![s] = @ \cup {[gen |-> checker[s], ok |-> srv[s].conf.passes]}]
    /\ UNCHANGED <<srv, checker, reload, changing, status, overtaken, table, picker, commands>>

\* As Counts, for any server that is checked.
CountsAnyway(s, res) == srv[s].conf.check /\ srv[s].admin # "maint"

\* checkResult: whose result is it, and does the server still want it?
Counts(s, res) == res.gen = srv[s].gen /\ srv[s].conf.check /\ srv[s].admin # "maint"

Result(x, s) ==
    /\ Free(x)
    /\ \E res \in flight[s] :
         /\ flight' = [flight EXCEPT ![s] = @ \ {res}]
         /\ IF Counts(s, res)
            THEN /\ srv' = [srv EXCEPT ![s] = Checked(@, res.ok)]
                 /\ IF srv'[s].running # srv[s].running THEN WillTell(x) ELSE UNCHANGED changing
            ELSE UNCHANGED <<srv, changing>>
    /\ UNCHANGED <<checker, reload, status, overtaken, table, picker, commands>>

-----------------------------------------------------------------------------
(* The runtime API                                                         *)

Command == commands < MaxCommands /\ commands' = commands + 1

SetAdmin(x, s, admin) ==
    /\ Free(x) /\ Command
    /\ srv[s].admin # admin
    /\ srv' = [srv EXCEPT ![s] = Administered(@, admin)]
    /\ WillTell(x)
    /\ UNCHANGED <<checker, flight, reload, status, overtaken, table, picker>>

SetWeight(x, s, w) ==
    /\ Free(x) /\ Command
    /\ srv[s].weight # w
    /\ srv' = [srv EXCEPT ![s].weight = w]
    /\ WillTell(x)
    /\ UNCHANGED <<checker, flight, reload, status, overtaken, table, picker>>

ForceHealth(x, s, up) ==
    /\ Free(x) /\ Command
    /\ srv[s].running # up
    /\ srv' = [srv EXCEPT ![s] = Forced(@, up)]
    /\ WillTell(x)
    /\ UNCHANGED <<checker, flight, reload, status, overtaken, table, picker>>

-----------------------------------------------------------------------------
(* Reloads, one at a time                                                  *)

\* commit: the backend is the new one, without a hash table, and its servers
\* are reconfigured one by one.
Reload(x, conf) ==
    /\ Free(x)
    /\ reload.by = None /\ reload.loaded < MaxReloads
    /\ reload' = [todo |-> Servers, conf |-> conf, by |-> x, loaded |-> reload.loaded + 1]
    /\ changing' = [changing EXCEPT ![x].at = "reload"]
    /\ table' = [servers |-> {}, fresh |-> FALSE]
    /\ picker' = "idle"
    /\ UNCHANGED <<srv, checker, flight, status, overtaken, commands>>

Reconfigure(s) ==
    /\ s \in reload.todo
    /\ srv' = [srv EXCEPT ![s] = Reconfigured(@, reload.conf[s])]
    /\ reload' = [reload EXCEPT !.todo = @ \ {s}]
    /\ UNCHANGED <<checker, flight, changing, status, overtaken, table, picker, commands>>

\* changed is called; then stopChecks and startChecks: a check of the old
\* checkers either saw in time that it was canceled, or did not.
Loaded ==
    /\ reload.by # None /\ reload.todo = {}
    /\ WillTell(reload.by)
    /\ reload' = [reload EXCEPT !.by = None]
    /\ checker' = [s \in Servers |-> IF srv[s].conf.check THEN srv[s].gen ELSE None]
    /\ \/ UNCHANGED flight
       \/ flight' = [s \in Servers |-> {}]
    /\ UNCHANGED <<srv, status, overtaken, table, picker, commands>>

-----------------------------------------------------------------------------
Init ==
    /\ \E conf \in Configs :
         /\ srv = [s \in Servers |->
              [conf |-> conf[s], admin |-> conf[s].admin, weight |-> conf[s].weight, running |-> TRUE,
               health |-> conf[s].rise, gen |-> 0, forced |-> FALSE]]
         /\ checker = [s \in Servers |-> IF conf[s].check THEN 0 ELSE None]
         /\ reload = [todo |-> {}, conf |-> conf, by |-> None, loaded |-> 0]
    /\ flight = [s \in Servers |-> {}]
    /\ changing = [x \in Changers |-> [at |-> "idle", up |-> TRUE]]
    /\ status = (Usable # {}) /\ overtaken = FALSE
    /\ table = [servers |-> {}, fresh |-> FALSE]
    /\ picker = "idle"
    /\ commands = 0

Act(x, s) ==
    \/ Result(x, s)
    \/ \E admin \in Admins : SetAdmin(x, s, admin)
    \/ \E w \in {0, 1} : SetWeight(x, s, w)
    \/ \E up \in BOOLEAN : ForceHealth(x, s, up)

Next ==
    \/ \E x \in Changers : Count(x) \/ SetStatus(x) \/ \E conf \in Configs : Reload(x, conf)
    \/ \E x \in Changers, s \in Servers : Act(x, s)
    \/ \E s \in Servers : Check(s) \/ Reconfigure(s)
    \/ Pick \/ Tabulate \/ Loaded

Spec == Init /\ [][Next]_vars

-----------------------------------------------------------------------------
(* Properties                                                              *)

\* A checked server runs exactly while its health says so, and its health has a
\* meaning under the rise and fall it has now: reloads, the runtime API and the
\* checks each change both.  (docs/BALANCER.md, health checks)
HealthDecides ==
    \A s \in Servers : srv[s].conf.check =>
        /\ srv[s].running <=> srv[s].health >= srv[s].conf.rise
        /\ srv[s].health <= Best(srv[s].conf)

\* What a backend derives from its servers is current: the hash table of a
\* session, once who changed a server has bumped the version, and the status it
\* tracks, once who changed one has told.  Only a call of changed that counts
\* before another change and sets the status after it leaves it wrong.
\* (slots against changed; state.go:61)
TableIsCurrent ==
    table.fresh /\ (\A x \in Changers : changing[x].at \in {"idle", "counted"}) => table.servers = Usable

StatusIsCurrent ==
    (\A x \in Changers : changing[x].at = "idle") /\ ~overtaken => (status <=> Usable # {})

\* Checks, reloads and the runtime API leave each server and its backend as their
\* latest words have them; and a server that its present definition's checks find
\* well is not taken down by a check, in particular not by one of a definition it
\* had before.
ChecksAreCurrent ==
    /\ [](HealthDecides /\ TableIsCurrent /\ StatusIsCurrent)
    /\ [][ \A s \in Servers :
              srv[s].running /\ ~srv'[s].running => ~srv[s].conf.passes \/ srv'[s].forced ]_vars

=============================================================================
