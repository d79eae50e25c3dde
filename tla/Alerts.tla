------------------------------- MODULE Alerts -------------------------------
(***************************************************************************)
(* Health checks of hosts and the notifications they lead to               *)
(* (src/internal/health/service.go, src/internal/notify/service.go and the *)
(* event bus between a saved host and its check, src/internal/events).     *)
(*                                                                         *)
(* A check is one probe, or two when a target that was well seems down.    *)
(* Streams are checked as hosts are; degraded counts as healthy, the check *)
(* of UDP is left out, and so is what a message says.  There is one        *)
(* channel, and every notification is routed to it.                        *)
(***************************************************************************)
EXTENDS Naturals, Sequences

CONSTANTS
    Targets,      \* hosts, by their ids
    None,
    Workers,      \* goroutines that deliver
    Room,         \* capacity of each of the queues
    MaxChanges,   \* bound: hosts saved or deleted, upstreams that fail or return, applies
    MaxFaults     \* bound: crashes, and rows of health_checks that are not saved

Statuses == {"healthy", "down", "disabled"}

\* What is told of a target, and what is not about one and not critical.
Notices == Targets \X {"down", "recovered"} \cup {<<None, "update">>}

Critical(n) == n[1] # None

Everything == "*"

VARIABLES
    host,      \* host[t]: its document ("off" is disabled), and whether its upstream answers
    bus,       \* events waiting for watch: hosts that changed, or an apply that finished
    kick,      \* targets waiting for the loop
    loop,      \* the loop: what it is at, and the targets its sweep has seen
    check,     \* check[t]: the check under way
    health,    \* health[t]: Service.state and the row of health_checks
    told,      \* told[t]: what Notify was last told of it, and whether that may be no more
    intake, recent, queue, worker,   \* the queues, the dedupe window and the deliveries of notify
    held,      \* what waits for the end of the quiet hours
    quiet, changes, glitches

healthVars == <<loop, check, health, told>>
notifyVars == <<intake, recent, queue, worker, held, quiet>>
vars == <<host, bus, kick, loop, check, health, told, intake, recent, queue, worker, held, quiet,
          changes, glitches>>

NoCheck == [at |-> "none"]

Queues(S) == UNION {[1..n -> S] : n \in 0..Room}

TypeOK ==
    /\ host \in [Targets -> [doc : {"none", "on", "off"}, answers : BOOLEAN]]
    /\ bus \in Queues(Targets \cup {Everything}) /\ kick \in Queues(Targets \cup {Everything})
    /\ loop \in [at : {"idle", "sweep", "one", "clean"}, seen : SUBSET Targets]
    /\ \A t \in Targets : check[t] # NoCheck =>
         check[t] \in [at : {"probe", "confirm", "record", "save", "tell"}, on : BOOLEAN,
                       st : Statuses \cup {None}, prev : Statuses \cup {None}]
    /\ health \in [Targets -> [now : Statuses \cup {None}, row : Statuses \cup {None}]]
    /\ told \in [Targets -> [what : {None, "down", "recovered"}, excused : BOOLEAN]]
    /\ intake \in Queues(Notices) /\ queue \in Queues(Notices) /\ recent \subseteq Notices
    /\ worker \in [Workers -> (Notices \X (1..3)) \cup {None}]
    /\ held \in [now : SUBSET Notices, row : SUBSET Notices]
    /\ quiet \in BOOLEAN /\ changes \in 0..MaxChanges /\ glitches \in 0..MaxFaults

-----------------------------------------------------------------------------
(* Queues that drop what does not fit: the bus, enqueue, Notify, deliveries *)

Put(q, e) == IF Len(q) < Room THEN Append(q, e) ELSE q

Change == changes < MaxChanges /\ changes' = changes + 1

\* A host is saved, disabled or deleted, and config.changed is published.
Save(t, doc) ==
    /\ Change
    /\ host[t].doc # doc
    /\ host' = [host EXCEPT ![t].doc = doc]
    /\ bus' = Put(bus, t)
    /\ UNCHANGED <<kick, healthVars, notifyVars, glitches>>

\* An upstream fails or returns.
Flip(t) ==
    /\ Change
    /\ host' = [host EXCEPT ![t].answers = ~@]
    /\ UNCHANGED <<bus, kick, healthVars, notifyVars, glitches>>

Applied ==
    /\ Change
    /\ bus' = Put(bus, Everything)
    /\ UNCHANGED <<host, kick, healthVars, notifyVars, glitches>>

\* watch, enqueue
Watch ==
    /\ bus # <<>>
    /\ kick' = Put(kick, Head(bus)) /\ bus' = Tail(bus)
    /\ UNCHANGED <<host, healthVars, notifyVars, changes, glitches>>

-----------------------------------------------------------------------------
(* The loop                                                                *)

Idle(t) == check[t] = NoCheck

Begun(t) == [at |-> "probe", on |-> host[t].doc = "on", st |-> None, prev |-> None]

Known == {t \in Targets : health[t].now # None}

\* A sweep lists the hosts, and checks them at once.
StartSweep ==
    LET seen == {t \in Targets : host[t].doc # "none"} IN
    /\ loop' = [at |-> "sweep", seen |-> seen]
    /\ check' = [t \in Targets |-> IF t \in seen THEN Begun(t) ELSE NoCheck]
    /\ UNCHANGED <<host, bus, health, told, notifyVars, changes, glitches>>

\* loop: the timer's case.
Sweep == loop.at = "idle" /\ StartSweep /\ UNCHANGED kick

\* loop: the other case, of everything
KickAll ==
    /\ loop.at = "idle" /\ kick # <<>> /\ Head(kick) = Everything
    /\ kick' = Tail(kick)
    /\ StartSweep

Forgotten(t) == [health EXCEPT ![t] = [now |-> None, row |-> None]]

\* or of one target: checkTarget.
KickOne ==
    /\ loop.at = "idle" /\ kick # <<>> /\ Head(kick) # Everything
    /\ kick' = Tail(kick)
    /\ LET t == Head(kick) IN
       IF host[t].doc = "none"
       THEN /\ health' = Forgotten(t)
            /\ told' = [told EXCEPT ![t].excused = TRUE]
            /\ UNCHANGED <<loop, check>>
       ELSE /\ loop' = [loop EXCEPT !.at = "one"]
            /\ check' = [check EXCEPT ![t] = Begun(t)]
            /\ UNCHANGED <<health, told>>
    /\ UNCHANGED <<host, bus, notifyVars, changes, glitches>>

\* As Unseen, removing nothing.
UnseenKept == {}

\* sweep: the targets that are removed after its checks
Unseen == Known \ loop.seen

\* All its checks have ended (wg.Wait), and then targets without a host are removed.
Checked ==
    /\ loop.at \in {"sweep", "one"} /\ \A t \in Targets : Idle(t)
    /\ loop' = [loop EXCEPT !.at = IF loop.at = "sweep" /\ Unseen # {} THEN "clean" ELSE "idle"]
    /\ UNCHANGED <<host, bus, kick, check, health, told, notifyVars, changes, glitches>>

Remove ==
    /\ loop.at = "clean"
    /\ \E t \in Unseen :
         /\ health' = Forgotten(t)
         /\ told' = [told EXCEPT ![t].excused = TRUE]
         /\ loop' = [loop EXCEPT !.at = IF Unseen = {t} THEN "idle" ELSE "clean"]
    /\ UNCHANGED <<host, bus, kick, check, notifyVars, changes, glitches>>

-----------------------------------------------------------------------------
(* A check                                                                 *)

Steps(t, at, st) == check' = [check EXCEPT ![t].at = at, ![t].st = st]

\* checkHost, up to the first probe
Probe(t) ==
    /\ check[t].at = "probe"
    /\ \/ ~check[t].on /\ Steps(t, "record", "disabled")
       \/ check[t].on /\ host[t].answers /\ Steps(t, "record", "healthy")
       \/ /\ check[t].on /\ ~host[t].answers
          /\ Steps(t, IF health[t].now = "healthy" THEN "confirm" ELSE "record", "down")
    /\ UNCHANGED <<host, bus, kick, loop, health, told, notifyVars, changes, glitches>>

\* confirmDelay, and the second probe
Confirm(t) ==
    /\ check[t].at = "confirm"
    /\ Steps(t, "record", IF host[t].answers THEN "healthy" ELSE "down")
    /\ UNCHANGED <<host, bus, kick, loop, health, told, notifyVars, changes, glitches>>

\* record: the state,
Record(t) ==
    /\ check[t].at = "record"
    /\ health' = [health EXCEPT ![t].now = check[t].st]
    /\ check' = [check EXCEPT ![t].at = "save", ![t].prev = health[t].now]
    /\ UNCHANGED <<host, bus, kick, loop, told, notifyVars, changes, glitches>>

\* then its row,
SaveRow(t) ==
    /\ check[t].at = "save"
    /\ check' = [check EXCEPT ![t] = IF @.prev = @.st THEN NoCheck ELSE [@ EXCEPT !.at = "tell"]]
    /\ \/ health' = [health EXCEPT ![t].row = check[t].st] /\ UNCHANGED glitches
       \/ glitches < MaxFaults /\ glitches' = glitches + 1 /\ UNCHANGED health
    /\ UNCHANGED <<host, bus, kick, loop, told, notifyVars, changes>>

\* As Word, without the first word on a target.
WordOfChange(c) ==
    IF c.st = "down" /\ c.prev # None THEN "down"
    ELSE IF c.prev = "down" /\ c.st = "healthy" THEN "recovered" ELSE None

\* transition: what is told of a change
Word(c) ==
    IF c.st = "down" THEN "down"
    ELSE IF c.prev = "down" /\ c.st = "healthy" THEN "recovered" ELSE None

\* and then what changed.
Tell(t) ==
    /\ check[t].at = "tell"
    /\ check' = [check EXCEPT ![t] = NoCheck]
    /\ LET word == Word(check[t]) IN
       IF word = None
       THEN /\ told' = [told EXCEPT ![t].excused = @ \/ check[t].st = "disabled"]
            /\ UNCHANGED intake
       ELSE /\ told' = [told EXCEPT ![t] = [what |-> word, excused |-> FALSE]]
            /\ intake' = Put(intake, <<t, word>>)
    /\ UNCHANGED <<host, bus, kick, loop, health, recent, queue, worker, held, quiet, changes, glitches>>

-----------------------------------------------------------------------------
(* Notifications                                                           *)

\* Something else has one to make, such as a weekly check for updates.
Announce ==
    /\ Change
    /\ intake' = Put(intake, <<None, "update">>)
    /\ UNCHANGED <<host, bus, kick, healthVars, recent, queue, worker, held, quiet, glitches>>

\* route: one that was routed in the last 5 minutes is dropped, one that is not
\* critical waits for the end of the quiet hours.
Route ==
    /\ intake # <<>>
    /\ intake' = Tail(intake)
    /\ LET n == Head(intake) IN
       \/ n \in recent /\ UNCHANGED <<recent, held, queue>>
       \/ /\ n \notin recent
          /\ recent' = recent \cup {n}
          /\ IF quiet /\ ~Critical(n)
             THEN held' = [now |-> held.now \cup {n}, row |-> held.now \cup {n}] /\ UNCHANGED queue
             ELSE queue' = Put(queue, n) /\ UNCHANGED held
    /\ UNCHANGED <<host, bus, kick, healthVars, worker, quiet, changes, glitches>>

\* Five minutes have passed since.
Forget ==
    /\ \E n \in recent : recent' = recent \ {n}
    /\ UNCHANGED <<host, bus, kick, healthVars, intake, queue, worker, held, quiet, changes, glitches>>

\* flushHeld: one digest
Flush ==
    /\ held.now # {} /\ ~quiet
    /\ held' = [now |-> {}, row |-> {}]
    /\ \E n \in held.now : queue' = Put(queue, n)
    /\ UNCHANGED <<host, bus, kick, healthVars, intake, recent, worker, quiet, changes, glitches>>

\* The quiet hours end.
Morning ==
    /\ quiet /\ quiet' = FALSE
    /\ UNCHANGED <<host, bus, kick, healthVars, intake, recent, queue, worker, held, changes, glitches>>

Take(w) ==
    /\ worker[w] = None /\ queue # <<>>
    /\ worker' = [worker EXCEPT ![w] = <<Head(queue), 1>>]
    /\ queue' = Tail(queue)
    /\ UNCHANGED <<host, bus, kick, healthVars, intake, recent, held, quiet, changes, glitches>>

\* deliver: an attempt succeeds, or is the last one, or there is another.
Deliver(w) ==
    /\ worker[w] # None
    /\ \/ worker' = [worker EXCEPT ![w] = None]
       \/ worker[w][2] < 3 /\ worker' = [worker EXCEPT ![w][2] = @ + 1]
    /\ UNCHANGED <<host, bus, kick, healthVars, intake, recent, queue, held, quiet, changes, glitches>>

-----------------------------------------------------------------------------
\* Relay stops and starts: the health and the held notifications of the
\* database are loaded, everything else was in memory.
Crash ==
    /\ glitches < MaxFaults /\ glitches' = glitches + 1
    /\ bus' = <<>> /\ kick' = <<>> /\ loop' = [at |-> "idle", seen |-> {}]
    /\ check' = [t \in Targets |-> NoCheck]
    /\ health' = [t \in Targets |-> [now |-> health[t].row, row |-> health[t].row]]
    /\ told' = [t \in Targets |-> [told[t] EXCEPT !.excused = TRUE]]
    /\ intake' = <<>> /\ recent' = {} /\ queue' = <<>> /\ worker' = [w \in Workers |-> None]
    /\ held' = [held EXCEPT !.now = held.row]
    /\ UNCHANGED <<host, quiet, changes>>

Init ==
    /\ \E doc \in {"none", "on"} : host = [t \in Targets |-> [doc |-> doc, answers |-> TRUE]]
    /\ bus = <<>> /\ kick = <<>> /\ loop = [at |-> "idle", seen |-> {}]
    /\ check = [t \in Targets |-> NoCheck]
    /\ health = [t \in Targets |-> [now |-> None, row |-> None]]
    /\ told = [t \in Targets |-> [what |-> None, excused |-> FALSE]]
    /\ intake = <<>> /\ recent = {} /\ queue = <<>> /\ worker = [w \in Workers |-> None]
    /\ held = [now |-> {}, row |-> {}]
    /\ quiet = TRUE /\ changes = 0 /\ glitches = 0

\* the goroutine of loop and those of its checks
Loop ==
    \/ KickAll \/ KickOne \/ Checked \/ Remove
    \/ \E t \in Targets : Probe(t) \/ Confirm(t) \/ Record(t) \/ SaveRow(t) \/ Tell(t)

Notify == Route \/ Flush \/ \E w \in Workers : Take(w)

Next ==
    \/ \E t \in Targets : Flip(t) \/ \E doc \in {"none", "on", "off"} : Save(t, doc)
    \/ Applied \/ Announce \/ Watch
    \/ Sweep \/ Loop
    \/ Forget \/ Morning \/ Notify
    \/ \E w \in Workers : Deliver(w)
    \/ Crash

Spec == Init /\ [][Next]_vars

\* The goroutines run, the timer of the next sweep fires, attempts to deliver
\* time out, and quiet hours end.
Fairness ==
    /\ WF_vars(Loop) /\ WF_vars(Sweep) /\ WF_vars(Watch)
    /\ WF_vars(Notify) /\ WF_vars(Morning)
    /\ \A w \in Workers : WF_vars(Deliver(w))

FairSpec == Spec /\ Fairness

-----------------------------------------------------------------------------
(* Properties                                                              *)

\* A target that is recorded as down was announced as such after whatever was
\* announced of it before, and of one recorded as healthy the last word is not
\* that it is down: unless Relay was restarted, or the host was disabled or
\* deleted, since that word.  (record and transition, over every order of
\* sweeps, kicks and edits)
AlertsAreTrue ==
    \A t \in Targets : check[t].at \notin {"save", "tell"} /\ ~told[t].excused =>
        /\ health[t].now = "down" => told[t].what = "down"
        /\ health[t].now = "healthy" => told[t].what # "down"

Truth(t) ==
    CASE host[t].doc = "none" -> None
      [] host[t].doc = "off" -> "disabled"
      [] OTHER -> IF host[t].answers THEN "healthy" ELSE "down"

\* Once hosts and upstreams rest, each target is recorded as it is, whatever
\* events the bus and the queue dropped and wherever Relay was restarted, one
\* whose host was deleted is forgotten, and no notification waits for ever.
AlertsFollow ==
    <>[]( /\ \A t \in Targets : health[t].now = Truth(t)
          /\ intake = <<>> /\ queue = <<>> /\ held.now = {}
          /\ \A w \in Workers : worker[w] = None )

=============================================================================
