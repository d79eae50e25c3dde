----------------------------- MODULE Discovery ------------------------------
(***************************************************************************)
(* Hosts for the containers of one Docker endpoint (src/internal/docker:   *)
(* sync.go, link.go, conn.go, service.go).  Containers come, go, and are   *)
(* renamed; the session of the endpoint hears of it in events, lists them  *)
(* now and then, and creates, updates and deletes the hosts of those with  *)
(* labels, while admins create, edit and delete hosts.                     *)
(*                                                                         *)
(* Which host belongs to which container is kept in one record (kvManaged) *)
(* that is loaded, changed and saved under syncMu, and written apart from  *)
(* the hosts.  A label is the domain it asks for; the endpoint creates,    *)
(* removes and keeps in sync (AutoCreate, AutoRemove, KeepInSync).         *)
(* Servers of backends, which are kept alike, are left out.                *)
(***************************************************************************)
EXTENDS Naturals, Sequences, FiniteSets

CONSTANTS
    Names,      \* of containers
    Labels,     \* of a container by its name: the domains they may ask for
    Addrs,      \* of containers
    None,
    MaxHosts,   \* bound: hosts ever created
    MaxErrors,  \* bound: failing calls to Docker
    MaxMoves    \* bound: what happens to containers, calls of admins, lost connections and crashes

Absent  == [state |-> "absent"]
Unused  == [state |-> "unused"]
Deleted == [state |-> "deleted"]

Domains == UNION { Labels[n] : n \in Names }

Container == {Absent} \cup [state : {"stopped", "running"}, dom : Domains, addr : Addrs]

\* addr is a container's name when the host waits for that container to start.
Host  == [dom : Domains, addr : Addrs \cup Names, on : BOOLEAN]
Entry == [name : Names, auto : BOOLEAN, sync : BOOLEAN, link : BOOLEAN, dom : Domains]
Ids == 1..MaxHosts

VARIABLES
    containers,  \* in Docker
    events,      \* those the session has not read
    session,     \* what its goroutine is doing
    initial,     \* it lists the containers for the first time
    list,        \* what it listed, running only
    m,           \* the record while reconcile holds syncMu, else None
    hosts,       \* Unused before, Deleted after they are there
    managed,     \* the record in the store
    removals,
    unseen,      \* names that could not be looked for when this connection began
    editor,      \* an admin's edit, with the host as it was read
    errors,
    moves

vars == <<containers, events, session, initial, list, m, hosts, managed, removals, unseen, editor, errors, moves>>

Record == [Ids -> Entry \cup {None}]

TypeOK ==
    /\ containers \in [Names -> Container]
    /\ \A i \in DOMAIN events : events[i] \in [what : {"start", "destroy", "rename"}, name : Names, new : Names]
    /\ session \in {"down", "refresh", "listed", "sync", "process", "watch"}
    /\ initial \in BOOLEAN
    /\ list \in [Names -> Container]
    /\ m \in Record \cup {None}
    /\ hosts \in [Ids -> Host \cup {Unused, Deleted}]
    /\ managed \in Record
    /\ removals \in [Names -> {None, "waiting", "due"}]
    /\ unseen \in SUBSET Names
    /\ editor \in {None} \cup [id : Ids, host : Host]
    /\ errors \in 0..MaxErrors
    /\ moves \in 0..MaxMoves

-----------------------------------------------------------------------------
(* Containers                                                              *)

Runs(n) == containers[n].state = "running"

There(n) == containers[n] # Absent

Heard(what, n, new) ==
    events' = IF session = "down" THEN events
              ELSE Append(events, [what |-> what, name |-> n, new |-> new])

\* A call to Docker fails.
Erred == errors < MaxErrors /\ errors' = errors + 1

\* What nobody here decides.
Moved == moves < MaxMoves /\ moves' = moves + 1

\* A container is created and started, or started again; its address is any.
Start(n) ==
    /\ Moved
    /\ ~Runs(n)
    /\ \E d \in Labels[n], a \in Addrs :
          /\ There(n) => d = containers[n].dom
          /\ containers' = [containers EXCEPT ![n] = [state |-> "running", dom |-> d, addr |-> a]]
    /\ Heard("start", n, n)
    /\ UNCHANGED <<session, initial, list, m, hosts, managed, removals, unseen, editor, errors>>

Die(n) ==
    /\ Moved
    /\ Runs(n)
    /\ containers' = [containers EXCEPT ![n].state = "stopped"]
    /\ UNCHANGED <<events, session, initial, list, m, hosts, managed, removals, unseen, editor, errors>>

Destroy(n) ==
    /\ Moved
    /\ There(n)
    /\ containers' = [containers EXCEPT ![n] = Absent]
    /\ Heard("destroy", n, n)
    /\ UNCHANGED <<session, initial, list, m, hosts, managed, removals, unseen, editor, errors>>

Rename(n, new) ==
    /\ Moved
    /\ There(n) /\ ~There(new)
    /\ containers' = [containers EXCEPT ![n] = Absent, ![new] = containers[n]]
    /\ Heard("rename", n, new)
    /\ UNCHANGED <<session, initial, list, m, hosts, managed, removals, unseen, editor, errors>>

-----------------------------------------------------------------------------
(* What is done for one running container, to a record and the hosts       *)

Served(h, i) == h[i] \notin {Unused, Deleted}

Waits(e, n) == e # None /\ e.name = n /\ e.link

\* linkPending: a host that waits gets the address, if it is as it was created.
Linked(st, n, c) ==
    [r |-> [i \in Ids |-> IF ~Waits(st.r[i], n) THEN st.r[i]
                          ELSE IF Served(st.h, i) THEN [st.r[i] EXCEPT !.link = FALSE] ELSE None],
     h |-> [i \in Ids |-> IF Waits(st.r[i], n) /\ Served(st.h, i) /\ ~st.h[i].on /\ st.h[i].addr = n
                          THEN [st.h[i] EXCEPT !.addr = c.addr, !.on = TRUE] ELSE st.h[i]]]

\* domainOwner
Owned(h, d, except) == \E i \in Ids \ except : Served(h, i) /\ h[i].dom = d

New(h) == CHOOSE i \in Ids : h[i] = Unused /\ \A j \in Ids : h[j] = Unused => i <= j

\* ensureHost, where it creates one
Created(st, n, c) ==
    IF Owned(st.h, c.dom, {}) \/ Unused \notin { st.h[i] : i \in Ids } THEN st
    ELSE [r |-> [st.r EXCEPT ![New(st.h)] =
                    [name |-> n, auto |-> TRUE, sync |-> TRUE, link |-> FALSE, dom |-> c.dom]],
          h |-> [st.h EXCEPT ![New(st.h)] = [dom |-> c.dom, addr |-> c.addr, on |-> TRUE]]]

\* ensureHost for the entry i of the container.  A host that was deleted is
\* created again when the labels are other ones; if it cannot be, nothing is
\* saved.
Ensured(st, n, c, i) ==
    IF st.r[i].dom = c.dom THEN st
    ELSE IF ~Served(st.h, i)
         THEN IF Owned(st.h, c.dom, {}) THEN st ELSE Created([st EXCEPT !.r[i] = None], n, c)
    ELSE IF Owned(st.h, c.dom, {i}) THEN st
    ELSE [r |-> [st.r EXCEPT ![i].dom = c.dom],
          h |-> [st.h EXCEPT ![i].dom = c.dom, ![i].addr = c.addr]]

\* If there are several entries, it is any of them: they are in a map.
Ensures(st, n, c) ==
    LET mine == { i \in Ids : st.r[i] # None /\ st.r[i].name = n /\ st.r[i].auto }
    IN  IF mine = {} THEN {Created(st, n, c)} ELSE { Ensured(st, n, c, i) : i \in mine }

\* syncUpstreams
Synced(st, n, c) ==
    [st EXCEPT !.h = [i \in Ids |->
        IF st.r[i] # None /\ st.r[i].name = n /\ ~st.r[i].link /\ st.r[i].sync /\ Served(st.h, i)
        THEN [st.h[i] EXCEPT !.addr = c.addr] ELSE st.h[i]]]

-----------------------------------------------------------------------------
(* The session of the endpoint                                             *)

Nobody == [n \in Names |-> Absent]

\* It asks for events, and then lists.
Connect ==
    /\ session = "down"
    /\ session' = "refresh" /\ initial' = TRUE
    /\ events' = <<>>
    /\ UNCHANGED <<containers, list, m, hosts, managed, removals, unseen, editor, errors, moves>>

Refresh ==
    /\ session = "refresh"
    /\ session' = "listed"
    /\ list' = [n \in Names |-> IF Runs(n) THEN containers[n] ELSE Absent]
    /\ UNCHANGED <<containers, events, initial, m, hosts, managed, removals, unseen, editor, errors, moves>>

\* The containers cannot be listed.  Nothing is reconciled until they are, and
\* nobody looks for orphans if this was to be the first time: no later listing
\* is the initial one.
RefreshFails ==
    /\ Erred
    /\ session = "refresh"
    /\ session' = "watch" /\ initial' = FALSE
    /\ unseen' = IF initial THEN Names ELSE unseen
    /\ UNCHANGED <<containers, events, list, m, hosts, managed, removals, editor, moves>>

\* reconcile: the lock, and the record
Reconcile ==
    /\ session = "listed"
    /\ session' = "sync" /\ m' = managed
    /\ UNCHANGED <<containers, events, initial, list, hosts, managed, removals, unseen, editor, errors, moves>>

\* one container of the list
Ensure(n) ==
    /\ session = "sync" /\ list[n] # Absent
    /\ \E st \in Ensures(Linked([r |-> m, h |-> hosts], n, list[n]), n, list[n]) :
          LET end == Synced(st, n, list[n]) IN m' = end.r /\ hosts' = end.h
    /\ list' = [list EXCEPT ![n] = Absent]
    /\ UNCHANGED <<containers, events, session, initial, managed, removals, unseen, editor, errors, moves>>

\* As Orphan, if nothing were looked for after a connection.
OrphanUnseen(n) == FALSE

\* scheduleOrphans looks, after the first listing, for each container it created for.
LookedFor(n) == initial /\ \E i \in Ids : m[i] # None /\ m[i].auto /\ m[i].name = n

Orphan(n) == LookedFor(n) /\ ~There(n)

\* Of those it cannot look for, none is scheduled.
Reconciled ==
    /\ session = "sync" /\ list = Nobody
    /\ \E erred \in SUBSET { n \in Names : LookedFor(n) } :
          /\ IF erred = {} THEN UNCHANGED errors ELSE Erred
          /\ removals' = [n \in Names |-> IF Orphan(n) /\ n \notin erred THEN "due" ELSE removals[n]]
          /\ unseen' = unseen \cup erred
    /\ managed' = m /\ m' = None
    /\ session' = "process"
    /\ UNCHANGED <<containers, events, initial, list, hosts, editor, moves>>

\* processRemovals for one name, in the session or as its timer fires: what was
\* created for the container goes if it does not exist now.
Removal(n) ==
    /\ removals[n] = "due"
    /\ session \notin {"down", "sync"}
    /\ removals' = [removals EXCEPT ![n] = None]
    /\ LET gone == IF There(n) THEN {} ELSE { i \in Ids : managed[i] # None /\ managed[i].auto /\ managed[i].name = n }
       IN  /\ managed' = [i \in Ids |-> IF i \in gone THEN None ELSE managed[i]]
           /\ hosts' = [i \in Ids |-> IF i \in gone THEN Deleted ELSE hosts[i]]
    /\ UNCHANGED <<containers, events, session, initial, list, m, unseen, editor, errors, moves>>

\* It is not known whether the container exists: the removal stays for the next
\* round.
RemovalFails(n) ==
    /\ Erred
    /\ removals[n] = "due"
    /\ session \notin {"down", "sync"}
    /\ removals' = [removals EXCEPT ![n] = "waiting"]
    /\ UNCHANGED <<containers, events, session, initial, list, m, hosts, managed, unseen, editor, moves>>

Processed ==
    /\ session = "process" /\ \A n \in Names : removals[n] # "due"
    /\ session' = "watch" /\ initial' = FALSE
    /\ UNCHANGED <<containers, events, list, m, hosts, managed, removals, unseen, editor, errors, moves>>

\* handleRename
Renamed(r, e) == [i \in Ids |-> IF r[i] # None /\ r[i].name = e.name THEN [r[i] EXCEPT !.name = e.new] ELSE r[i]]

Handle ==
    /\ session = "watch" /\ events # <<>>
    /\ LET e == Head(events)
       IN  /\ removals' = CASE e.what = "destroy" -> [removals EXCEPT ![e.name] = "waiting"]
                            [] e.what = "start"   -> [removals EXCEPT ![e.name] = None]
                            [] e.what = "rename"  -> removals
           /\ managed' = IF e.what = "rename" THEN Renamed(managed, e) ELSE managed
    /\ events' = Tail(events)
    /\ UNCHANGED <<containers, session, initial, list, m, hosts, unseen, editor, errors, moves>>

\* Half a second after an event, and every minute.
Resync ==
    /\ session = "watch"
    /\ session' = "refresh"
    /\ UNCHANGED <<containers, events, initial, list, m, hosts, managed, removals, unseen, editor, errors, moves>>

GraceEnds(n) ==
    /\ removals[n] = "waiting"
    /\ removals' = [removals EXCEPT ![n] = "due"]
    /\ UNCHANGED <<containers, events, session, initial, list, m, hosts, managed, unseen, editor, errors, moves>>

-----------------------------------------------------------------------------
(* Admins                                                                  *)

\* CreateHosts, for a container that was listed: when it is stopped, the host
\* waits for it.
CreateHost(n) ==
    /\ Moved
    /\ There(n) /\ session # "down" /\ m = None
    /\ \E d \in Domains, sync \in BOOLEAN :
          LET link == ~Runs(n) IN
          /\ ~Owned(hosts, d, {}) /\ \E i \in Ids : hosts[i] = Unused
          /\ hosts' = [hosts EXCEPT ![New(hosts)] =
                [dom |-> d, addr |-> IF link THEN n ELSE containers[n].addr, on |-> ~link]]
          /\ managed' = [managed EXCEPT ![New(hosts)] =
                [name |-> n, auto |-> FALSE, sync |-> sync, link |-> link, dom |-> d]]
    /\ UNCHANGED <<containers, events, session, initial, list, m, removals, unseen, editor, errors>>

DeleteHost(i) ==
    /\ Moved
    /\ Served(hosts, i)
    /\ hosts' = [hosts EXCEPT ![i] = Deleted]
    /\ UNCHANGED <<containers, events, session, initial, list, m, managed, removals, unseen, editor, errors>>

\* PUT: the host is read, and written back with what was changed.
Edit(i) ==
    /\ Moved
    /\ editor = None /\ Served(hosts, i)
    /\ editor' = [id |-> i, host |-> hosts[i]]
    /\ UNCHANGED <<containers, events, session, initial, list, m, hosts, managed, removals, unseen, errors>>

Save ==
    /\ editor # None
    /\ \E on \in BOOLEAN :
          hosts' = IF Served(hosts, editor.id) THEN [hosts EXCEPT ![editor.id] = [editor.host EXCEPT !.on = on]] ELSE hosts
    /\ editor' = None
    /\ UNCHANGED <<containers, events, session, initial, list, m, managed, removals, unseen, moves, errors>>

-----------------------------------------------------------------------------
(* Faults                                                                  *)

Lose ==
    /\ Moved
    /\ session = "watch"
    /\ session' = "down" /\ events' = <<>>
    /\ initial' = FALSE /\ unseen' = {}
    /\ UNCHANGED <<containers, list, m, hosts, managed, removals, editor, errors>>

\* Relay dies and starts again: what was written is there, but not the record
\* that reconcile had changed, nor the removals.
Crash ==
    /\ Moved
    /\ session' = "down" /\ events' = <<>>
    /\ initial' = FALSE /\ unseen' = {}
    /\ list' = Nobody /\ m' = None
    /\ removals' = [n \in Names |-> None]
    /\ editor' = None
    /\ UNCHANGED <<containers, hosts, managed, errors>>

-----------------------------------------------------------------------------

\* Relay is new, or it is new to this endpoint, where a container may be.
Init ==
    /\ \/ containers = Nobody
       \/ \E n \in Names : \E c \in Container :
             c # Absent /\ c.dom \in Labels[n] /\ containers = [Nobody EXCEPT ![n] = c]
    /\ events = <<>>
    /\ session = "down" /\ initial = FALSE
    /\ list = Nobody /\ m = None
    /\ hosts = [i \in Ids |-> Unused] /\ managed = [i \in Ids |-> None]
    /\ removals = [n \in Names |-> None] /\ unseen = {}
    /\ editor = None
    /\ errors = 0 /\ moves = 0

Session == Connect \/ Refresh \/ Reconcile \/ (\E n \in Names : Ensure(n)) \/ Reconciled \/ Processed \/ Resync

Timely == Handle \/ \E n \in Names : Removal(n) \/ GraceEnds(n)

Docker == \E n \in Names : Start(n) \/ Die(n) \/ Destroy(n) \/ \E new \in Names : Rename(n, new)

Admin == (\E n \in Names : CreateHost(n)) \/ (\E i \in Ids : DeleteHost(i) \/ Edit(i)) \/ Save

Errors == RefreshFails \/ \E n \in Names : RemovalFails(n)

Next ==
    Docker \/ Session \/ Timely \/ Admin \/ Errors \/ Lose \/ Crash

Spec == Init /\ [][Next]_vars

\* The loop of the session runs, its select takes events as well as ticks, and
\* timers fire.  Only so many events and removals come of a move.
Fairness == WF_vars(Session) /\ SF_vars(Timely)

FairSpec == Spec /\ Fairness

-----------------------------------------------------------------------------
(* Properties                                                              *)

\* The hosts that are kept in sync with a running container have its address:
\* whatever was renamed, edited or lost meanwhile.  (syncUpstreams)
AddressFollows ==
    \A n \in Names, i \in Ids :
        Runs(n) /\ managed[i] # None /\ managed[i].name = n /\ managed[i].sync /\ Served(hosts, i)
          => hosts[i].addr = containers[n].addr

\* What was created for a container that is gone is forgotten, and deleted, if
\* the container could be looked for when the connection began.
\* (scheduleRemoval, scheduleOrphans, processRemovals)
GoneIsRemoved ==
    \A i \in Ids : managed[i] # None /\ managed[i].auto => There(managed[i].name) \/ managed[i].name \in unseen

\* A domain that a running container's labels ask for is served, unless an
\* admin deleted the host it had, or there are no more.  (ensureHost)
LabelsAreServed ==
    \A n \in Names :
        Runs(n) => \/ Owned(hosts, containers[n].dom, {})
                   \/ \E i \in Ids : managed[i] # None /\ managed[i].name = n /\ managed[i].dom = containers[n].dom
                   \/ Unused \notin { hosts[i] : i \in Ids }

\* When containers and admins leave off, and the connection holds, the hosts
\* come to fit the containers, and stay so.  A call that fails later costs only
\* time; one that fails as the connection begins costs the removals it was for,
\* until the next connection.  (runSession, reconcile, watchEvents)
HostsFollow == <>[](AddressFollows /\ GoneIsRemoved /\ LabelsAreServed)
=============================================================================
