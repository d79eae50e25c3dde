------------------------------ MODULE Pipeline ------------------------------
(***************************************************************************)
(* The apply pipeline of the relay app (src/internal/apply): it turns the  *)
(* edited configuration into a numbered version, swaps it into the engine  *)
(* agents, watches their health, and takes the swap back when something    *)
(* fails; a reconcile loop compares the agents with the live version.      *)
(*                                                                         *)
(* Apply, rollback to a version, discard, start and stop of an engine and  *)
(* the reconcile loop exclude each other by applyMu.  What they do not     *)
(* exclude is everything else: edits of the configuration, engines that    *)
(* exit, containers that restart, an agent that does not answer in time, a *)
(* crash of the relay app.  So every request to an agent is a step of its  *)
(* own, and these happen between any two of them.                          *)
(*                                                                         *)
(* A snapshot of the configuration is what it renders to.                  *)
(***************************************************************************)
EXTENDS AgentCalls

CONSTANTS
    Snapshots,    \* the configurations an edit can produce
    MaxVersions,  \* bound: versions recorded
    MaxFaults,    \* bound: faults that happen
    Faults,       \* which of AllFaults happen
    Docker,       \* TRUE: Relay starts and stops engine containers
    Managed       \* the engines an admin starts and stops

Proxies   == {"nginx", "edge"}
Balancers == {"haproxy", "balancer"}
Engine    == Proxies \cup Balancers \cup {"tunnel"}

\* nginx and edge: engine.alwaysOn()
AlwaysOn(e) == e \in Proxies

AllFaults == {"exit", "restart", "unreachable", "lost", "crash"}

\* What a configuration renders to: the proxy engine and the hash of its files,
\* the load balancer engine, the hash and whether it has anything to run, and
\* the hash of the tunnel files and whether anything is published.
Snapshot == [ pe : Proxies, ph : Hash,
              le : Balancers, lh : Hash, run : BOOLEAN,
              th : Hash, tun : BOOLEAN ]

ASSUME PipelineAssumption ==
    /\ Snapshots \subseteq Snapshot /\ Snapshots # {}
    /\ MaxVersions \in Nat
    /\ MaxFaults \in Nat
    /\ Faults \subseteq AllFaults
    /\ Docker \in BOOLEAN
    /\ Managed \subseteq Engine

VARIABLES
    draft,    \* the configuration as edited
    rows,     \* config_versions, rows[id]
    ag,       \* ag[e]: the agent of engine e
    up,       \* up[e]: its container runs, so the agent answers
    stopped,  \* kvStoppedEngines: the engines an admin stopped
    job,      \* the apply in progress
    rec,      \* the reconcile in progress
    faults    \* faults so far

vars == <<draft, rows, ag, up, stopped, job, rec, faults>>

Statuses == {"draft", "failed", "rolled_back", "live", "superseded"}

\* problems: row.Error names requests of the rollback that failed.
Row == [snap : Snapshot, status : Statuses, problems : BOOLEAN]

\* an agent's answer to /v1/status, as the relay app remembers it
Status == [reach : BOOLEAN, hash : Release \cup {None}, running : BOOLEAN, stop : BOOLEAN]

Unanswered == [reach |-> FALSE, hash |-> None, running |-> FALSE, stop |-> FALSE]

Answered(e) == [ reach |-> TRUE, hash |-> ag[e].store.current,
                 running |-> Running(ag[e]), stop |-> ag[e].store.stopped ]

Calls == [ do : {"apply", "applyStop", "stopOnly", "rollback", "start", "ctrStart", "ctrStop"},
           to : Engine, hash : Hash \cup {None} ]

Call(do, e, h) == [do |-> do, to |-> e, hash |-> h]

\* Apply with a release, or with the release and Stop
Install(e, h, run) == Call(IF run THEN "apply" ELSE "applyStop", e, h)

Only(cond, call) == IF cond THEN <<call>> ELSE <<>>

\* proxySwap: what the apply has changed so far
Marks == {"lbSwitch", "lbStop", "lbStart", "lbChange",
          "switch", "stop", "start", "swap", "tunnel"}

JobSteps == {"idle", "read", "proxy", "lb", "tunnel", "insert", "lbStop", "lbApply",
             "stop", "apply", "follow", "health", "promote", "undo"}

Job == [ pc : JobSteps,
         force : BOOLEAN,          \* RollbackTo's: apply without changes
         snap : Snapshot,
         live : Nat,               \* liveRow's id, 0 when there is none
         lbSeen : Status,          \* lst, and
         tunSeen : Status,         \* tst, read before the swap
         did : SUBSET Marks,
         undo : Seq(Calls),        \* requests of failAfterSwap not sent yet
         problems : BOOLEAN ]      \* rbErrs is not empty

Rec == [ pc : {"idle", "lock", "run"},
         seen : [Engine -> Status],   \* st, read before TryLock
         left : SUBSET Engine,        \* engines it asked to stop, in vain
         todo : Seq(Calls) ]

TypeOK ==
    /\ draft \in Snapshot
    /\ rows \in Seq(Row)
    /\ ag \in [Engine -> AgentState]
    /\ up \in [Engine -> BOOLEAN]
    /\ stopped \in SUBSET Engine
    /\ job \in Job
    /\ rec \in Rec
    /\ faults \in 0..MaxFaults

\* applyMu
Unlocked == job.pc = "idle" /\ rec.pc # "run"

LiveRows == { i \in 1..Len(rows) : rows[i].status = "live" }
Live     == IF LiveRows = {} THEN 0 ELSE Latest(LiveRows)

\* prevEngine and prevLB, before and after the first apply
OldProxy(live) == IF live = 0 THEN "nginx" ELSE rows[live].snap.pe
OldLb(live)    == IF live = 0 THEN "haproxy" ELSE rows[live].snap.le

OtherProxy(e) == CHOOSE o \in Proxies : o # e
OtherLb(e)    == CHOOSE o \in Balancers : o # e

\* As LbWanted, whatever an admin has stopped.
LbWantedAnyway(s) == s.run

\* whether a version's load balancer and tunnel are to run
LbWanted(s)  == s.run /\ s.le \notin stopped
TunWanted(s) == s.tun /\ "tunnel" \notin stopped

Fault(kind) == kind \in Faults /\ faults < MaxFaults /\ faults' = faults + 1

-----------------------------------------------------------------------------
(* One request to an agent *)

\* r: the agent says OK or says no, or the client gives up.  A client that
\* gives up does not know whether the request took effect.
Send(c, r) ==
    LET a == ag[c.to]
        done == Done(a, c.do, c.hash, AlwaysOn(c.to))
        refusals == Refusals(a, c.do, c.hash, AlwaysOn(c.to))
    IN  CASE r = "ok" ->
               /\ up[c.to] /\ CanDo(a, c.do)
               /\ ag' = [ag EXCEPT ![c.to] = done]
               /\ UNCHANGED faults
          [] r = "refused" ->
               /\ up[c.to]
               /\ \E b \in refusals : ag' = [ag EXCEPT ![c.to] = b]
               /\ UNCHANGED faults
          [] r = "unavailable" ->
               \/ ~up[c.to] /\ UNCHANGED <<ag, faults>>
               \/ up[c.to] /\ Fault("unreachable") /\ UNCHANGED ag
               \/ /\ up[c.to] /\ Fault("lost")
                  /\ \E b \in (IF CanDo(a, c.do) THEN {done} ELSE {}) \cup refusals :
                       ag' = [ag EXCEPT ![c.to] = b]

Replies == {"ok", "refused", "unavailable"}

\* the status of e, if it answers
Asked(e, st) ==
    \/ up[e] /\ st = Answered(e) /\ UNCHANGED faults
    \/ ~up[e] /\ st = Unanswered /\ UNCHANGED faults
    \/ up[e] /\ st = Unanswered /\ Fault("unreachable")

\* ensureEngine: the stopped container of an engine that is about to be used
\* is started, and its agent boots.
Bring(e) ==
    /\ Docker /\ ~up[e]
    /\ up' = [up EXCEPT ![e] = TRUE]
    /\ ag' = [ag EXCEPT ![e] = Booted(@)]

-----------------------------------------------------------------------------
(* Apply, up to the swap *)

NoJob(s) == [ pc |-> "idle", force |-> FALSE, snap |-> s, live |-> 0, lbSeen |-> Unanswered,
              tunSeen |-> Unanswered, did |-> {}, undo |-> <<>>, problems |-> FALSE ]

AnySnapshot == CHOOSE s \in Snapshots : TRUE
EndJob == job' = NoJob(AnySnapshot)
Goto(pc) == job' = [job EXCEPT !.pc = pc]

ApplyBegin ==
    /\ Unlocked
    /\ Len(rows) < MaxVersions
    /\ job' = [NoJob(draft) EXCEPT !.pc = "read"]
    /\ UNCHANGED <<draft, rows, ag, up, stopped, rec, faults>>

\* RollbackTo: the version's snapshot replaces the draft, and is applied.
RollbackBegin(i) ==
    /\ Unlocked
    /\ Len(rows) < MaxVersions
    /\ rows[i].status \in {"live", "superseded"}
    /\ draft' = rows[i].snap
    /\ job' = [NoJob(draft) EXCEPT !.pc = "read", !.force = TRUE]
    /\ UNCHANGED <<rows, ag, up, stopped, rec, faults>>

\* applyLocked reads the configuration, as it is now, and the live version.
ReadDraft ==
    /\ job.pc = "read"
    /\ IF Live # 0 /\ rows[Live].snap = draft /\ ~job.force
       THEN EndJob                                            \* "no_changes"
       ELSE job' = [job EXCEPT !.pc = "proxy", !.snap = draft, !.live = Live]
    /\ UNCHANGED <<draft, rows, ag, up, stopped, rec, faults>>

NewRow(status) == [snap |-> job.snap, status |-> status, problems |-> FALSE]

\* the engine whose container the step needs
Needed(pc) ==
    CASE pc = "proxy" -> {job.snap.pe}
      [] pc = "lb" -> IF job.snap.run THEN {job.snap.le} ELSE {}
      [] pc = "tunnel" -> IF job.snap.tun THEN {"tunnel"} ELSE {}
      [] OTHER -> {}

EnsureEngine(e) ==
    /\ e \in Needed(job.pc)
    /\ Bring(e)
    /\ UNCHANGED <<draft, rows, stopped, job, rec, faults>>

\* Validation fails, which is recorded, or the engine does not answer, which is
\* not.  Nothing was changed on the engines.
ValidateFails(r) ==
    /\ \E e \in Needed(job.pc) :
         IF r = "refused"
         THEN up[e] /\ UNCHANGED faults /\ rows' = Append(rows, NewRow("failed"))
         ELSE r = "unavailable" /\ Fault("unreachable") /\ UNCHANGED rows
    /\ EndJob
    /\ UNCHANGED <<draft, ag, up, stopped, rec>>

CheckProxy ==
    /\ job.pc = "proxy"
    /\ up[job.snap.pe]
    /\ Goto("lb")
    /\ UNCHANGED <<draft, rows, ag, up, stopped, rec, faults>>

CheckLb ==
    /\ job.pc = "lb"
    /\ \A e \in Needed("lb") : up[e]
    /\ \E st \in {Answered(job.snap.le), Unanswered} :
         /\ Asked(job.snap.le, st)
         /\ job' = [job EXCEPT !.lbSeen = st, !.pc = "tunnel"]
    /\ UNCHANGED <<draft, rows, ag, up, stopped, rec>>

CheckTunnel ==
    /\ job.pc = "tunnel"
    /\ \A e \in Needed("tunnel") : up[e]
    /\ \E st \in {Answered("tunnel"), Unanswered} :
         /\ Asked("tunnel", st)
         /\ job' = [job EXCEPT !.tunSeen = st, !.pc = "insert"]
    /\ UNCHANGED <<draft, rows, ag, up, stopped, rec>>

Switching   == OldProxy(job.live) # job.snap.pe
LbSwitching == OldLb(job.live) # job.snap.le

InsertDraft ==
    /\ job.pc = "insert"
    /\ rows' = Append(rows, NewRow("draft"))
    /\ Goto(IF LbSwitching THEN "lbStop" ELSE "lbApply")
    /\ UNCHANGED <<draft, ag, up, stopped, rec, faults>>

-----------------------------------------------------------------------------
(* failAfterSwap *)

\* As Undo, with the load balancer taken back before the proxy engine.
UndoLbFirst(did) ==
    Only("lbChange" \in did, Call("rollback", job.snap.le, None))
    \o Only("swap" \in did, Call("rollback", job.snap.pe, None))

\* As Undo, for the proxy engine alone.
UndoProxyOnly(did) == Only("swap" \in did, Call("rollback", job.snap.pe, None))

\* The requests that take back what is marked: the proxy engine first, then the
\* load balancer, then the tunnel engine.
Undo(did) ==
    LET new == job.snap
        old == IF job.live = 0 THEN new ELSE rows[job.live].snap
    IN  (IF "switch" \in did
         THEN Only("start" \in did, Call("applyStop", new.pe, new.ph))
              \o Only("stop" \in did, Call("start", OldProxy(job.live), None))
         ELSE Only("swap" \in did, Call("rollback", new.pe, None)))
        \o
        (IF "lbSwitch" \in did
         THEN Only("lbStart" \in did, Call("applyStop", new.le, new.lh))
              \o Only("lbStop" \in did /\ job.live # 0, Install(old.le, old.lh, LbWanted(old)))
         ELSE Only("lbChange" \in did, Call("rollback", new.le, None)))
        \o Only("tunnel" \in did, Call("rollback", "tunnel", None))

FailWith(did) == job' = [job EXCEPT !.pc = "undo", !.did = did, !.undo = Undo(did)]

Advance(pc, did) == job' = [job EXCEPT !.pc = pc, !.did = did]

\* Only a rollback with nothing to go back to is refused: the releases undone to
\* were accepted before.
UndoStep(r) ==
    /\ job.pc = "undo" /\ job.undo # <<>>
    /\ r = "refused" => ~CanDo(ag[Head(job.undo).to], Head(job.undo).do)
    /\ Send(Head(job.undo), r)
    /\ job' = [job EXCEPT !.undo = Tail(@), !.problems = @ \/ r # "ok"]
    /\ UNCHANGED <<draft, rows, up, stopped, rec>>

RecordFailure ==
    /\ job.pc = "undo" /\ job.undo = <<>>
    /\ rows' = [rows EXCEPT ![Len(rows)].status = IF job.live = 0 THEN "failed" ELSE "rolled_back",
                            ![Len(rows)].problems = job.problems]
    /\ EndJob
    /\ UNCHANGED <<draft, ag, up, stopped, rec, faults>>

-----------------------------------------------------------------------------
(* The swap: load balancer, proxy engine, tunnel engine *)

\* The load balancer engine of the live version is stopped, on its live release.
\* One that does not answer is taken to be down.
StopOldLb(r) ==
    LET old  == OldLb(job.live)
        stop == IF job.live = 0 THEN Call("stopOnly", old, None)
                ELSE Call("applyStop", old, rows[job.live].snap.lh)
    IN  /\ job.pc = "lbStop"
        /\ Send(stop, r)
        /\ Advance("lbApply", IF r = "ok" THEN {"lbSwitch", "lbStop"} ELSE {"lbSwitch"})
        /\ UNCHANGED <<draft, rows, up, stopped, rec>>

\* As AfterLb, with the other proxy engine never stopped.
AfterLbNoStop == "apply"

AfterLb == IF Switching THEN "stop" ELSE "apply"

\* As LbToDo, comparing only whether it runs.
LbToDoRunning ==
    job.lbSeen.reach /\ (LbSwitching \/ job.lbSeen.running # job.snap.run)

LbToDo ==
    /\ job.lbSeen.reach
    /\ \/ LbSwitching
       \/ job.lbSeen.hash # job.snap.lh
       \/ job.lbSeen.running # job.snap.run

ApplyLb(r) ==
    LET s == job.snap
        before == IF LbSwitching THEN job.did \cup {"lbStart"} ELSE job.did
        after  == IF LbSwitching THEN before ELSE job.did \cup {"lbChange"}
    IN  /\ job.pc = "lbApply" /\ LbToDo
        /\ Send(Install(s.le, s.lh, s.run), r)
        /\ IF r = "ok"
           THEN /\ Advance(AfterLb, after)
                /\ stopped' = IF s.run THEN stopped \ {s.le} ELSE stopped
           ELSE FailWith(before) /\ UNCHANGED stopped
        /\ UNCHANGED <<draft, rows, up, rec>>

\* Nothing to change, or a load balancer that does not answer.
PassLb ==
    /\ job.pc = "lbApply" /\ ~LbToDo
    /\ IF job.snap.run /\ ~job.lbSeen.reach
       THEN FailWith(job.did)
       ELSE Goto(AfterLb)
    /\ UNCHANGED <<draft, rows, ag, up, stopped, rec, faults>>

StopOldProxy(r) ==
    LET old  == OldProxy(job.live)
        stop == IF job.live = 0 THEN Call("stopOnly", old, None)
                ELSE Call("applyStop", old, rows[job.live].snap.ph)
    IN  /\ job.pc = "stop"
        /\ Send(stop, r)
        /\ Advance("apply", job.did \cup (IF r = "ok" THEN {"switch", "stop", "start"}
                                          ELSE {"switch", "start"}))
        /\ UNCHANGED <<draft, rows, up, stopped, rec>>

ApplyProxy(r) ==
    /\ job.pc = "apply"
    /\ Send(Call("apply", job.snap.pe, job.snap.ph), r)
    /\ IF r = "ok" THEN Advance("follow", job.did \cup {"swap"}) ELSE FailWith(job.did)
    /\ UNCHANGED <<draft, rows, up, stopped, rec>>

TunnelToDo ==
    LET t == job.tunSeen
    IN  /\ t.reach
        /\ \/ t.hash # job.snap.th /\ (job.snap.tun \/ t.hash # None)
           \/ t.running # job.snap.tun

ApplyTunnel(r) ==
    /\ job.pc = "follow" /\ TunnelToDo
    /\ Send(Install("tunnel", job.snap.th, job.snap.tun), r)
    /\ IF r = "ok"
       THEN /\ Advance("health", job.did \cup {"tunnel"})
            /\ stopped' = IF job.snap.tun THEN stopped \ {"tunnel"} ELSE stopped
       ELSE FailWith(job.did) /\ UNCHANGED stopped
    /\ UNCHANGED <<draft, rows, up, rec>>

PassTunnel ==
    /\ job.pc = "follow" /\ ~TunnelToDo
    /\ IF job.snap.tun /\ ~job.tunSeen.reach
       THEN FailWith(job.did)
       ELSE Goto("health")
    /\ UNCHANGED <<draft, rows, ag, up, stopped, rec, faults>>

\* the engines healthCheck watches
Watched == {job.snap.pe} \cup (IF LbSwitching /\ job.snap.run THEN {job.snap.le} ELSE {})

\* An engine that does not answer is not held against the version.
HealthPasses ==
    /\ job.pc = "health"
    /\ \E st \in {Answered(job.snap.pe), Unanswered} :
         Asked(job.snap.pe, st) /\ (st.reach => st.running)
    /\ \A e \in Watched \ {job.snap.pe} : up[e] => Running(ag[e])
    /\ Goto("promote")
    /\ UNCHANGED <<draft, rows, ag, up, stopped, rec>>

\* A watched engine is down, or something that answered before the swap does not.
HealthFails ==
    /\ job.pc = "health"
    /\ \/ job.live # 0
       \/ \E e \in Watched : up[e] /\ ~Running(ag[e])
    /\ FailWith(job.did)
    /\ UNCHANGED <<draft, rows, ag, up, stopped, rec, faults>>

\* PromoteVersion
Promote ==
    /\ job.pc = "promote"
    /\ rows' = [ i \in 1..Len(rows) |->
                   IF i = Len(rows) THEN [rows[i] EXCEPT !.status = "live"]
                   ELSE IF i \in LiveRows THEN [rows[i] EXCEPT !.status = "superseded"]
                   ELSE rows[i] ]
    /\ EndJob
    /\ UNCHANGED <<draft, ag, up, stopped, rec, faults>>

-----------------------------------------------------------------------------
(* Edits, discard, and an admin starting and stopping an engine *)

Edit(s) ==
    /\ s # draft
    /\ draft' = s
    /\ UNCHANGED <<rows, ag, up, stopped, job, rec, faults>>

Discard ==
    /\ Unlocked /\ Live # 0
    /\ draft' = rows[Live].snap
    /\ UNCHANGED <<rows, ag, up, stopped, job, rec, faults>>

\* What LiveRelease has for engine e: its call, or nothing.
LivePush(e) ==
    LET s == rows[Live].snap
    IN  CASE e = s.pe     -> <<Install(e, s.ph, TRUE)>>
          [] e = s.le     -> <<Install(e, s.lh, s.run)>>
          [] e = "tunnel" -> <<Install(e, s.th, s.tun)>>
          [] OTHER        -> <<>>

\* PushLive does nothing when the agent already has the release, running or not
\* as it should.
Pushed(a, push) ==
    IF push = <<>> THEN a
    ELSE LET c == Head(push)
         IN  IF a.store.current = c.hash /\ Running(a) = (c.do = "apply") THEN a
             ELSE Done(a, c.do, c.hash, FALSE)

\* EngineAction start: the container, the stop flag, PushLive, /v1/start.
AdminStart(e) ==
    LET a == IF up[e] THEN ag[e] ELSE Booted(ag[e])
        b == IF Live = 0 THEN a ELSE Pushed(a, LivePush(e))
    IN  /\ Unlocked
        /\ e \in Proxies => e = OldProxy(Live)
        /\ e \in Balancers => e = OldLb(Live)
        /\ up[e] \/ Docker
        /\ up' = [up EXCEPT ![e] = TRUE]
        /\ stopped' = stopped \ {e}
        /\ ag' = [ag EXCEPT ![e] = IF CanDo(b, "start") THEN Done(b, "start", None, AlwaysOn(e)) ELSE b]
        /\ UNCHANGED <<draft, rows, job, rec, faults>>

\* EngineAction stop: /v1/stop, the stop flag, and the container of an engine
\* other than the selected proxy engine.
AdminStop(e) ==
    /\ Unlocked
    /\ up[e] \/ e \notin Proxies
    /\ ag' = IF up[e] THEN [ag EXCEPT ![e] = Done(@, "stop", None, AlwaysOn(e))] ELSE ag
    /\ stopped' = IF e \in Proxies THEN stopped ELSE stopped \cup {e}
    /\ up' = IF Docker /\ (e \notin Proxies \/ e # OldProxy(Live))
             THEN [up EXCEPT ![e] = FALSE] ELSE up
    /\ UNCHANGED <<draft, rows, job, rec, faults>>

-----------------------------------------------------------------------------
(* reconcile *)

NoRec == [ pc |-> "idle", seen |-> [e \in Engine |-> Unanswered], left |-> {}, todo |-> <<>> ]

\* Status asks every agent; at most one of those that could answer does not.
ReconcileStatus ==
    /\ rec.pc = "idle"
    /\ \E lost \in {{}} \cup { {e} : e \in { x \in Engine : up[x] } } :
         /\ IF lost = {} THEN UNCHANGED faults ELSE Fault("unreachable")
         /\ rec' = [rec EXCEPT !.pc = "lock",
                      !.seen = [ e \in Engine |-> IF up[e] /\ e \notin lost
                                                  THEN Answered(e) ELSE Unanswered ]]
    /\ UNCHANGED <<draft, rows, ag, up, stopped, job>>

\* manageContainers: whether an engine that was not running, or was stopped just
\* now, does not need its container
EngineIdle(e, s, st) ==
    CASE e \in Proxies   -> e # s.pe
      [] e \in Balancers -> e # s.le \/ ~s.run \/ st.stop \/ e \in stopped
      [] OTHER           -> ~s.tun \/ st.stop \/ e \in stopped

\* As Stale, for agents that have lost everything.
StaleEmpty(st, h) == st.reach /\ st.hash = None

\* The agent answers and has another release active.
Stale(st, h) == st.reach /\ st.hash # h

\* What reconcile asks for, given the status it has seen: the selected engines
\* back on the live release, the other ones stopped, idle containers stopped.
Corrections(seen) ==
    LET s == rows[Live].snap
        unselected == {OtherProxy(s.pe), OtherLb(s.le)}
        Restore(e, h, wanted) ==
            Only(Stale(seen[e], h) /\ (wanted \/ seen[e].hash # None), Install(e, h, wanted))
        Stop(e) == Only(seen[e].reach /\ seen[e].running, Call("stopOnly", e, None))
        StopContainer(e) ==
            Only(/\ Docker /\ seen[e].reach
                 /\ ~seen[e].running \/ e \in unselected
                 /\ EngineIdle(e, s, seen[e]), Call("ctrStop", e, None))
    IN  Restore(s.pe, s.ph, TRUE) \o Stop(OtherProxy(s.pe))
        \o Restore(s.le, s.lh, LbWanted(s)) \o Stop(OtherLb(s.le))
        \o Restore("tunnel", s.th, TunWanted(s))
        \o Only(Docker /\ ~seen[s.pe].reach, Call("ctrStart", s.pe, None))
        \o StopContainer("nginx") \o StopContainer("edge")
        \o StopContainer("haproxy") \o StopContainer("balancer") \o StopContainer("tunnel")

\* TryLock: busy, nothing live, nothing to do, or the corrections one by one.
ReconcileLock ==
    /\ rec.pc = "lock"
    /\ LET todo == IF Unlocked /\ Live # 0 THEN Corrections(rec.seen) ELSE <<>>
       IN  rec' = IF todo = <<>> THEN NoRec
                  ELSE [NoRec EXCEPT !.pc = "run", !.todo = todo]
    /\ UNCHANGED <<draft, rows, ag, up, stopped, job, faults>>

NextCall == rec' = IF Tail(rec.todo) = <<>> THEN NoRec ELSE [rec EXCEPT !.todo = Tail(@)]

\* An answer other than OK is logged.
ReconcileCall(r) ==
    LET c == Head(rec.todo)
    IN  /\ rec.pc = "run"
        /\ c.do \notin {"ctrStart", "ctrStop"}
        /\ Send(c, r)
        /\ IF c.do = "stopOnly" /\ r # "ok" /\ Tail(rec.todo) # <<>>
           THEN rec' = [rec EXCEPT !.todo = Tail(@), !.left = @ \cup {c.to}]
           ELSE NextCall
        /\ UNCHANGED <<draft, rows, up, stopped, job>>

\* The container of an engine that may still be running is left alone.
ReconcileContainer ==
    LET c == Head(rec.todo)
    IN  /\ rec.pc = "run"
        /\ c.do \in {"ctrStart", "ctrStop"}
        /\ CASE c.do = "ctrStart" /\ ~up[c.to] -> Bring(c.to)
             [] c.do = "ctrStop" /\ c.to \notin rec.left ->
                  /\ up' = [up EXCEPT ![c.to] = FALSE]
                  /\ ag' = [ag EXCEPT ![c.to] = Halted(@.store)]
             [] OTHER -> UNCHANGED <<up, ag>>
        /\ NextCall
        /\ UNCHANGED <<draft, rows, stopped, job, faults>>

-----------------------------------------------------------------------------
(* What happens by itself *)

\* An engine process exits; its supervisor restarts it.
EngineExits(e) ==
    /\ Running(ag[e])
    /\ Fault("exit")
    /\ ag' = [ag EXCEPT ![e].proc = None]
    /\ UNCHANGED <<draft, rows, up, stopped, job, rec>>

EngineReturns(e) ==
    /\ up[e] /\ ag[e].want /\ ~Running(ag[e])
    /\ ag' = [ag EXCEPT ![e].proc = ag[e].store.current]
    /\ UNCHANGED <<draft, rows, up, stopped, job, rec, faults>>

\* An engine container is restarted.
AgentRestarts(e) ==
    /\ up[e] /\ ag[e].store.current # None
    /\ Fault("restart")
    /\ ag' = [ag EXCEPT ![e] = Booted(@)]
    /\ UNCHANGED <<draft, rows, up, stopped, job, rec>>

\* The relay app is killed and comes back: the apply and the reconcile in
\* progress are gone, a row they inserted stays a draft.
Crash ==
    /\ job.pc # "idle" \/ rec.pc # "idle"
    /\ Fault("crash")
    /\ EndJob
    /\ rec' = NoRec
    /\ UNCHANGED <<draft, rows, ag, up, stopped>>

-----------------------------------------------------------------------------
\* The first start: the proxy engines boot on their bootstrap release, and the
\* selection file says nginx.
Fresh(e) ==
    LET booted == [EmptyStore EXCEPT !.dirs = {Boot}, !.current = Boot]
    IN  IF e = "nginx" THEN Serving(booted)
        ELSE IF e = "edge" THEN Halted(Marked(booted, TRUE))
        ELSE Halted(EmptyStore)

Init ==
    /\ draft \in Snapshots
    /\ rows = <<>>
    /\ ag = [e \in Engine |-> Fresh(e)]
    /\ up = [e \in Engine |-> TRUE]
    /\ stopped = {}
    /\ job = NoJob(AnySnapshot)
    /\ rec = NoRec
    /\ faults = 0

Begin ==
    \/ ApplyBegin
    \/ \E i \in 1..Len(rows) : RollbackBegin(i)

JobStep ==
    \/ ReadDraft
    \/ \E e \in Engine : EnsureEngine(e)
    \/ \E r \in {"refused", "unavailable"} : ValidateFails(r)
    \/ CheckProxy \/ CheckLb \/ CheckTunnel \/ InsertDraft
    \/ \E r \in {"ok", "unavailable"} : StopOldLb(r) \/ StopOldProxy(r)
    \/ \E r \in Replies : ApplyLb(r) \/ ApplyProxy(r) \/ ApplyTunnel(r) \/ UndoStep(r)
    \/ PassLb \/ PassTunnel
    \/ HealthPasses \/ HealthFails
    \/ Promote \/ RecordFailure

Reconcile == ReconcileStatus \/ ReconcileLock \/ (\E r \in {"ok", "unavailable"} : ReconcileCall(r)) \/ ReconcileContainer

AdminAction == \E e \in Managed : AdminStart(e) \/ AdminStop(e)

Environment ==
    \/ \E e \in Engine : EngineExits(e) \/ EngineReturns(e) \/ AgentRestarts(e)
    \/ Crash

Next == Begin \/ JobStep \/ Reconcile \/ (\E s \in Snapshots : Edit(s)) \/ Discard \/ AdminAction \/ Environment

Spec == Init /\ [][Next]_vars

\* Every request has a timeout and the reconcile loop ticks every 10 s, so both
\* go on; a supervisor restarts an engine that exited.
FairSpec ==
    /\ Spec
    /\ WF_vars(JobStep) /\ WF_vars(Reconcile)
    /\ \A e \in Engine : WF_vars(EngineReturns(e))

-----------------------------------------------------------------------------
(* Properties *)

\* At most one version is live, the superseded ones are older than it, and
\* whatever is newer failed, was taken back or never finished.
\* (PromoteVersion under applyMu, against crashes between InsertVersion and it)
History ==
    /\ Cardinality(LiveRows) <= 1
    /\ \A i \in 1..Len(rows) :
         rows[i].status = "superseded" => \E j \in LiveRows : i < j

\* What an engine has active and, if it is to run, runs.
Has(e, h) == ag[e].store.current = h

\* A version goes live only when every engine it needs has its release active,
\* however long ago each was asked, and whatever happened since.
\* (applyLocked: status read before the swap, used after it)
PromotedIsActive ==
    [][ \A i \in 1..Len(rows) :
          rows[i].status # "live" /\ rows'[i].status = "live" =>
            LET s == rows[i].snap
            IN  /\ Has(s.pe, s.ph)
                /\ s.run => Has(s.le, s.lh)
                /\ s.tun => Has("tunnel", s.th) ]_vars

\* The engines serve version i: those that are to run, and only those, are
\* running, on its releases, as far as their containers are up.
Serves(i) ==
    LET s == rows[i].snap
        Is(e, h, wanted) == IF wanted THEN up[e] => Has(e, h) /\ Running(ag[e])
                            ELSE ~Running(ag[e])
    IN  Is(s.pe, s.ph, TRUE) /\ Is(s.le, s.lh, LbWanted(s)) /\ Is("tunnel", s.th, TunWanted(s))

\* Version i was taken back and, as its row says, nothing went wrong with that.
TakenBack(i) ==
    rows[i].status = "draft" /\ rows'[i].status = "rolled_back" /\ ~rows'[i].problems

\* A version recorded as rolled back, with no problem noted, leaves the engines
\* serving the live version.  (failAfterSwap: "vN is live again")
RollbackRestores == [][ \A i \in 1..Len(rows) : TakenBack(i) => Serves(Live) ]_vars

\* The load balancer runs before and after, and what is published stays so.
Steady(old, new) ==
    /\ old.run /\ new.run
    /\ old.tun = new.tun
    /\ old.tun \/ old.th = new.th

\* The same for the versions that change the proxy engine or its release, the first
\* time a version fails, when no engine failed and no admin stopped one.
ChangeIsTakenBack ==
    [][ \A i \in 1..Len(rows) :
          LET new == rows[i].snap
              old == rows[Live].snap
          IN  /\ TakenBack(i) /\ faults = 0 /\ stopped = {}
              /\ \A j \in 1..(i - 1) : rows[j].status \in {"live", "superseded"}
              /\ Steady(old, new) /\ <<new.pe, new.ph>> # <<old.pe, old.ph>>
              => Serves(Live) ]_vars

\* Never two proxy engines, nor two load balancers, on the same ports.
OnePortOwner ==
    /\ Cardinality({ e \in Proxies : Running(ag[e]) }) <= 1
    /\ Cardinality({ e \in Balancers : Running(ag[e]) }) <= 1

\* The proxy engine never routes to load balancer frontends that are not there:
\* while an apply or its undoing is under way, a proxy engine that was given the
\* new version and still runs it does so next to a load balancer that runs it too,
\* unless a request of the undoing has failed.
\* (applyLocked: "the load balancer first"; failAfterSwap: the proxy engine first)
RoutesBehindFrontends ==
    LET new == job.snap
    IN  "swap" \in job.did /\ ~job.problems /\ new.run /\ ag[new.pe].proc = new.ph
            => ag[new.le].proc = new.lh

\* The container of the selected proxy engine is never stopped.
\* (manageContainers: the live version is read under the lock, the status is not)
ProxyContainerStays ==
    [][ Live # 0 /\ up[rows[Live].snap.pe] => up'[rows[Live].snap.pe] ]_vars

\* An engine an admin stopped is down until an admin or a new version starts it:
\* no undo, no reconcile, no restart of its container does.
\* (kvStoppedEngines in the relay app against the stopped marker of the agent)
AdminStopHolds == \A e \in stopped : ~Running(ag[e])

\* Once a version is live, the engines come back to it again and again.
LiveIsServed == Live # 0 ~> Live # 0 /\ job.pc = "idle" /\ Serves(Live)
=============================================================================
