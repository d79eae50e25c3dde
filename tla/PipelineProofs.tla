--------------------------- MODULE PipelineProofs ---------------------------
(***************************************************************************)
(* Pipeline, for every set of configurations, any number of versions and   *)
(* faults of every kind, with and without Docker, whatever an admin does:  *)
(*                                                                         *)
(*   TypeCorrect       Spec => []TypeOK                                    *)
(*   HistoryHolds      Spec => []History                                   *)
(*   PromotionIsSound  Spec => PromotedIsActive                            *)
(*   ContainerStays    Spec => ProxyContainerStays                         *)
(*                                                                         *)
(* and, while every request is answered and containers stay up (Calm),     *)
(*                                                                         *)
(*   PortsAreOwned     Calm /\ Spec => []OnePortOwner                      *)
(*                                                                         *)
(* and, while no engine exits by itself,                                   *)
(*                                                                         *)
(*   FrontendsAreThere "exit" \notin Faults /\ Spec                        *)
(*                                           => []RoutesBehindFrontends    *)
(*                                                                         *)
(* and, while Relay starts and stops no containers, no admin starts or     *)
(* stops an engine, and a store has room for an earlier release (Plain),   *)
(*                                                                         *)
(*   ChangesAreTakenBack  Plain /\ Spec => ChangeIsTakenBack               *)
(*                                                                         *)
(* and, while Relay starts and stops no containers, what a request does is *)
(* answered, and every version runs what an admin may stop (Heard),        *)
(*                                                                         *)
(*   StopsHold         Heard /\ Spec => []AdminStopHolds                   *)
(***************************************************************************)
EXTENDS Pipeline, ReleasesProofs, FiniteSetTheorems

-----------------------------------------------------------------------------
(* What a request does to an agent *)

\* the requests the relay app sends to an agent, with a release where one is due
AgentCall ==
    { c \in Calls : /\ c.do \notin {"ctrStart", "ctrStop"}
                    /\ c.do \in {"apply", "applyStop"} => c.hash \in Hash }

ContainerCall == { c \in Calls : c.do \in {"ctrStart", "ctrStop"} }

\* An apply that fails on the engine leaves a well-formed store.
LEMMA UndoneStore ==
  ASSUME NEW s \in Store, NEW h \in Hash
  PROVE  Undone(s, h) \in Store
<1> h \in Release /\ s.current \in Release \cup {None}
  BY DEF Release, Store
<1>1. Activated(s, h) \in Store
  BY StoreOperations DEF Activated
<1>2. Swapped(Activated(s, h), s.current) \in Store
  BY <1>1, StoreOperations
<1> QED BY <1>2, StoreOperations DEF Undone

\* So does a rollback to the previous release.
LEMMA RolledBackStore ==
  ASSUME NEW s \in Store, Previous(s) # None
  PROVE  RolledBack(s) \in Store
<1>1. Previous(s) \in Release
  BY PreviousOnDisk DEF Store
<1>2. Swapped(s, Previous(s)) \in Store
  BY <1>1, StoreOperations
<1> QED BY <1>1, <1>2, StoreOperations DEF RolledBack

\* boot(), stopping and starting keep the store.
LEMMA AgentShapes ==
  /\ \A s \in Store : Serving(s) \in AgentState /\ Halted(s) \in AgentState
  /\ \A s : Serving(s).store = s /\ Halted(s).store = s
  /\ \A a \in AgentState : Booted(a) \in AgentState /\ Booted(a).store = a.store
<1>1. ASSUME NEW s \in Store PROVE Serving(s) \in AgentState /\ Halted(s) \in AgentState
  BY DEF Serving, Halted, AgentState, Store
<1>2. \A s : Serving(s).store = s /\ Halted(s).store = s
  BY DEF Serving, Halted
<1> QED BY <1>1, <1>2 DEF Booted, AgentState

\* An answered request leaves a well-formed agent, and a release it installed active.
LEMMA DoneFacts ==
  ASSUME NEW a \in AgentState, NEW c \in AgentCall, NEW ao \in BOOLEAN, CanDo(a, c.do)
  PROVE  /\ Done(a, c.do, c.hash, ao) \in AgentState
         /\ c.do \in {"apply", "applyStop"} => Done(a, c.do, c.hash, ao).store.current = c.hash
<1> a.store \in Store
  BY DEF AgentState
<1> c.do \in {"apply", "applyStop", "stopOnly", "rollback", "start"}
  BY DEF AgentCall, Calls
<1>1. CASE c.do \in {"apply", "applyStop"}
  <2>1. c.hash \in Hash
    BY <1>1 DEF AgentCall
  <2>2. \A stop \in BOOLEAN : /\ Applied(a.store, c.hash, stop) \in Store
                             /\ Applied(a.store, c.hash, stop).current = c.hash
    BY <2>1, AppliedStore
  <2>3. CASE c.do = "apply"
    <3>1. Done(a, c.do, c.hash, ao) =
            IF Active(a, c.hash) THEN a ELSE Serving(Applied(a.store, c.hash, FALSE))
      BY <2>3 DEF Done
    <3> QED BY ZenonT(60), <3>1, <2>2, AgentShapes DEF Active
  <2>4. CASE c.do = "applyStop"
    <3>1. Done(a, c.do, c.hash, ao) = Halted(Applied(a.store, c.hash, TRUE))
      BY <2>4 DEF Done
    <3> QED BY ZenonT(60), <3>1, <2>2, AgentShapes
  <2> QED BY <1>1, <2>3, <2>4
<1>2. CASE c.do = "stopOnly"
  BY <1>2, MarkedStore, AgentShapes DEF Done
<1>3. CASE c.do = "rollback"
  <2>1. RolledBack(a.store) \in Store
    BY <1>3, RolledBackStore DEF CanDo
  <2> QED BY <1>3, <2>1, MarkedStore, AgentShapes DEF Done
<1>4. CASE c.do = "start"
  BY <1>4, MarkedStore, AgentShapes DEF Done
<1> QED BY <1>1, <1>2, <1>3, <1>4

\* So does a request that was refused.
LEMMA RefusalFacts ==
  ASSUME NEW a \in AgentState, NEW c \in AgentCall, NEW ao \in BOOLEAN,
         NEW b \in Refusals(a, c.do, c.hash, ao)
  PROVE  b \in AgentState
<1> a.store \in Store /\ a.want \in BOOLEAN
  BY DEF AgentState, Store
<1>1. CASE b = a
  BY <1>1
<1>2. CASE c.do = "apply" /\ b = Reverted(a, c.hash, ao)
  <2>1. Undone(a.store, c.hash) \in Store
    BY <1>2, UndoneStore DEF AgentCall
  <2>2. Marked(Undone(a.store, c.hash), FALSE) \in Store
    BY <2>1, MarkedStore
  <2>3. \A on \in BOOLEAN : Marked(Marked(Undone(a.store, c.hash), FALSE), on) \in Store
    BY <2>2, MarkedStore
  <2> QED BY <1>2, <2>2, <2>3, AgentShapes DEF Reverted, Store
<1> QED BY <1>1, <1>2 DEF Refusals

-----------------------------------------------------------------------------
(* Type correctness *)

\* TypeOK, and what makes it inductive: the version the apply started from is in
\* the history, and every request it or the reconcile loop has yet to send names
\* a release when it needs one.
TypeInv ==
    /\ TypeOK
    /\ job.live \in 0..Len(rows)
    /\ job.undo \in Seq(AgentCall)
    /\ rec.todo \in Seq(AgentCall \cup ContainerCall)
    /\ rec.pc = "run" => rec.todo # <<>>

\* Every version of the history has a configuration.
LEMMA RowFacts ==
  ASSUME rows \in Seq(Row)
  PROVE  /\ Len(rows) \in Nat
         /\ \A i \in 1..Len(rows) : rows[i] \in Row /\ rows[i].snap \in Snapshot
<1>1. Len(rows) \in Nat /\ \A i \in 1..Len(rows) : rows[i] \in Row
  OBVIOUS
<1> QED BY <1>1 DEF Row

\* The live version is one of the history.
LEMMA LiveFacts ==
  ASSUME TypeOK
  PROVE  /\ Live \in 0..Len(rows)
         /\ Live # 0 => Live \in LiveRows /\ rows[Live].snap \in Snapshot
<1>1. LiveRows \in SUBSET (1..Len(rows)) /\ Len(rows) \in Nat
  BY DEF LiveRows, TypeOK
<1>2. CASE LiveRows = {}
  BY <1>1, <1>2 DEF Live
<1>3. CASE LiveRows # {}
  <2>1. Latest(LiveRows) \in LiveRows
    BY <1>1, <1>3, LatestIn
  <2>2. Live = Latest(LiveRows)
    BY <1>3 DEF Live
  <2>3. Live \in 1..Len(rows)
    BY <1>1, <2>1, <2>2
  <2> QED BY <2>1, <2>2, <2>3, <1>1, RowFacts DEF TypeOK
<1> QED BY <1>2, <1>3

\* What a request does to the agents: it is well-formed, it touches one agent,
\* and a release whose installation was answered OK is active there.
LEMMA SendFacts ==
  ASSUME TypeOK, NEW c \in AgentCall, NEW r \in Replies, Send(c, r)
  PROVE  /\ ag' \in [Engine -> AgentState]
         /\ faults' \in 0..MaxFaults
         /\ \A e \in Engine : e # c.to => ag'[e] = ag[e]
         /\ r = "ok" /\ c.do \in {"apply", "applyStop"} => ag'[c.to].store.current = c.hash
<1> DEFINE a == ag[c.to]
           done == Done(a, c.do, c.hash, AlwaysOn(c.to))
           refusals == Refusals(a, c.do, c.hash, AlwaysOn(c.to))
<1> c.to \in Engine /\ c.do \in {"apply", "applyStop", "stopOnly", "rollback", "start"}
  BY DEF AgentCall, Calls
<1> a \in AgentState /\ AlwaysOn(c.to) \in BOOLEAN
  BY DEF TypeOK, AlwaysOn
<1>1. /\ CanDo(a, c.do) => done \in AgentState
      /\ CanDo(a, c.do) /\ c.do \in {"apply", "applyStop"} => done.store.current = c.hash
  BY DoneFacts
<1>2. refusals \subseteq AgentState
  BY RefusalFacts
<1>3. \A kind : Fault(kind) => faults' \in 0..MaxFaults
  BY PipelineAssumption DEF Fault, TypeOK
<1>4. ASSUME NEW b \in AgentState, ag' = [ag EXCEPT ![c.to] = b]
      PROVE  /\ ag' \in [Engine -> AgentState] /\ ag'[c.to] = b
             /\ \A e \in Engine : e # c.to => ag'[e] = ag[e]
  BY <1>4 DEF TypeOK
<1>5. CASE r = "ok"
  <2>1. CanDo(a, c.do) /\ ag' = [ag EXCEPT ![c.to] = done] /\ faults' = faults
    BY <1>5 DEF Send
  <2> QED BY <2>1, <1>1, <1>4 DEF TypeOK
<1>6. CASE r = "refused"
  <2>1. faults' = faults /\ \E b \in refusals : ag' = [ag EXCEPT ![c.to] = b]
    BY <1>6 DEF Send
  <2> QED BY <2>1, <1>2, <1>4, <1>6 DEF TypeOK
<1>7. CASE r = "unavailable"
  <2>1. \/ ag' = ag /\ (faults' = faults \/ Fault("unreachable"))
        \/ /\ Fault("lost")
           /\ \E b \in (IF CanDo(a, c.do) THEN {done} ELSE {}) \cup refusals :
                ag' = [ag EXCEPT ![c.to] = b]
    BY <1>7 DEF Send
  <2>2. (IF CanDo(a, c.do) THEN {done} ELSE {}) \cup refusals \subseteq AgentState
    BY <1>1, <1>2
  <2> QED BY <2>1, <2>2, <1>3, <1>4, <1>7 DEF TypeOK
<1> QED BY <1>5, <1>6, <1>7 DEF Replies

\* The requests of an undoing are well-formed.
LEMMA UndoType ==
  ASSUME TypeInv, NEW did \in SUBSET Marks
  PROVE  Undo(did) \in Seq(AgentCall)
<1> DEFINE new == job.snap
           old == IF job.live = 0 THEN new ELSE rows[job.live].snap
<1>1. new \in Snapshot /\ old \in Snapshot
  BY RowFacts DEF TypeInv, TypeOK, Job
<1>2. OldProxy(job.live) \in Engine
  BY RowFacts DEF TypeInv, TypeOK, Snapshot, OldProxy, Engine, Proxies
<1>3. \A s \in Snapshot : /\ s.pe \in Engine /\ s.le \in Engine
                          /\ {s.ph, s.lh, s.th} \subseteq Hash
  BY DEF Snapshot, Engine
<1>4. \A e \in Engine, h \in Hash : Call("applyStop", e, h) \in AgentCall
  BY DEF Call, AgentCall, Calls
<1>5. \A e \in Engine : Call("start", e, None) \in AgentCall /\ Call("rollback", e, None) \in AgentCall
  BY DEF Call, AgentCall, Calls
<1>6. \A e \in Engine, h \in Hash, run \in BOOLEAN : Install(e, h, run) \in AgentCall
  BY DEF Install, Call, AgentCall, Calls
<1>8. LbWanted(old) \in BOOLEAN
  BY <1>1 DEF LbWanted, Snapshot
<1>9. "tunnel" \in Engine
  BY DEF Engine
<1>10. (IF "switch" \in did
        THEN Only("start" \in did, Call("applyStop", new.pe, new.ph))
             \o Only("stop" \in did, Call("start", OldProxy(job.live), None))
        ELSE Only("swap" \in did, Call("rollback", new.pe, None))) \in Seq(AgentCall)
  BY <1>1, <1>2, <1>3, <1>4, <1>5 DEF Only
<1>11. (IF "lbSwitch" \in did
        THEN Only("lbStart" \in did, Call("applyStop", new.le, new.lh))
             \o Only("lbStop" \in did /\ job.live # 0, Install(old.le, old.lh, LbWanted(old)))
        ELSE Only("lbChange" \in did, Call("rollback", new.le, None))) \in Seq(AgentCall)
  BY <1>1, <1>3, <1>4, <1>5, <1>6, <1>8 DEF Only
<1>12. Only("tunnel" \in did, Call("rollback", "tunnel", None)) \in Seq(AgentCall)
  BY <1>5, <1>9 DEF Only
<1> QED BY <1>10, <1>11, <1>12 DEF Undo

\* The live proxy engine is never idle.
LEMMA LiveProxyBusy ==
  ASSUME NEW s, NEW st, s.pe \in Proxies
  PROVE  ~EngineIdle(s.pe, s, st)
BY DEF EngineIdle, Proxies, Balancers

\* A reconcile asks for well-formed requests, and never for the container of the
\* live proxy engine to be stopped.
LEMMA CorrectionsFacts ==
  ASSUME TypeOK, Live # 0, NEW seen \in [Engine -> Status]
  PROVE  /\ Corrections(seen) \in Seq(AgentCall \cup ContainerCall)
         /\ \A i \in 1..Len(Corrections(seen)) :
              Corrections(seen)[i].do = "ctrStop" => Corrections(seen)[i].to # rows[Live].snap.pe
<1> DEFINE s == rows[Live].snap
           unselected == {OtherProxy(s.pe), OtherLb(s.le)}
           Restore(e, h, wanted) ==
             Only(Stale(seen[e], h) /\ (wanted \/ seen[e].hash # None), Install(e, h, wanted))
           Stop(e) == Only(seen[e].reach /\ seen[e].running, Call("stopOnly", e, None))
           StopContainer(e) ==
             Only(/\ Docker /\ seen[e].reach
                  /\ ~seen[e].running \/ e \in unselected
                  /\ EngineIdle(e, s, seen[e]), Call("ctrStop", e, None))
           Fine == { c \in AgentCall \cup ContainerCall : c.do = "ctrStop" => c.to # s.pe }
<1>1. s \in Snapshot
  BY LiveFacts
<1>2. /\ {s.pe, s.le} \subseteq Engine /\ {s.ph, s.lh, s.th} \subseteq Hash
      /\ s.pe \in Proxies /\ s.le \in Balancers
  BY <1>1 DEF Snapshot, Engine
<1>3. OtherProxy(s.pe) \in Engine /\ OtherLb(s.le) \in Engine
  <2>1. OtherProxy(s.pe) \in Proxies
    BY DEF Proxies, OtherProxy
  <2>2. OtherLb(s.le) \in Balancers
    BY DEF Balancers, OtherLb
  <2> QED BY <2>1, <2>2 DEF Engine
<1>4. \A run : \A e \in Engine, h \in Hash : Install(e, h, run) \in Fine
  BY DEF Install, Call, AgentCall, Calls
<1>5. \A e \in Engine : Call("stopOnly", e, None) \in Fine /\ Call("ctrStart", e, None) \in Fine
  BY DEF Call, AgentCall, ContainerCall, Calls
<1>6. \A wanted : \A e \in Engine, h \in Hash : Restore(e, h, wanted) \in Seq(Fine)
  <2> SUFFICES ASSUME NEW e \in Engine, NEW h \in Hash, NEW wanted
               PROVE  Restore(e, h, wanted) \in Seq(Fine)
    OBVIOUS
  <2>1. Install(e, h, wanted) \in Fine
    BY <1>4
  <2> HIDE DEF Fine
  <2> QED BY <2>1 DEF Only
<1>7. \A e \in Engine : Stop(e) \in Seq(Fine)
  <2> SUFFICES ASSUME NEW e \in Engine PROVE Stop(e) \in Seq(Fine)
    OBVIOUS
  <2>1. Call("stopOnly", e, None) \in Fine
    BY <1>5
  <2> HIDE DEF Fine
  <2> QED BY <2>1 DEF Only
<1>8. \A e \in Engine : StopContainer(e) \in Seq(Fine)
  <2> SUFFICES ASSUME NEW e \in Engine PROVE StopContainer(e) \in Seq(Fine)
    OBVIOUS
  <2>1. Call("ctrStop", e, None) \in AgentCall \cup ContainerCall
    BY DEF Call, ContainerCall, Calls
  <2>2. CASE e = s.pe
    <3>1. ~EngineIdle(e, s, seen[e])
      BY <2>2, <1>2, LiveProxyBusy
    <3> QED BY <3>1 DEF Only
  <2>3. CASE e # s.pe
    <3>1. Call("ctrStop", e, None) \in Fine
      BY <2>1, <2>3 DEF Call
    <3> HIDE DEF Fine
    <3> QED BY <3>1 DEF Only
  <2> QED BY <2>2, <2>3
<1>9. Only(Docker /\ ~seen[s.pe].reach, Call("ctrStart", s.pe, None)) \in Seq(Fine)
  <2>1. Call("ctrStart", s.pe, None) \in Fine
    BY <1>2, <1>5
  <2> HIDE DEF Fine
  <2> QED BY <2>1 DEF Only
<1>10. {"nginx", "edge", "haproxy", "balancer", "tunnel"} \subseteq Engine
  BY DEF Engine, Proxies, Balancers
<1>11. Corrections(seen) =
         Restore(s.pe, s.ph, TRUE) \o Stop(OtherProxy(s.pe))
         \o Restore(s.le, s.lh, LbWanted(s)) \o Stop(OtherLb(s.le))
         \o Restore("tunnel", s.th, TunWanted(s))
         \o Only(Docker /\ ~seen[s.pe].reach, Call("ctrStart", s.pe, None))
         \o StopContainer("nginx") \o StopContainer("edge")
         \o StopContainer("haproxy") \o StopContainer("balancer") \o StopContainer("tunnel")
  BY SMTT(60) DEF Corrections
<1>12. Corrections(seen) \in Seq(Fine)
  <2>1. /\ Restore(s.pe, s.ph, TRUE) \in Seq(Fine)
        /\ Restore(s.le, s.lh, LbWanted(s)) \in Seq(Fine)
        /\ Restore("tunnel", s.th, TunWanted(s)) \in Seq(Fine)
        /\ Stop(OtherProxy(s.pe)) \in Seq(Fine)
        /\ Stop(OtherLb(s.le)) \in Seq(Fine)
    BY <1>2, <1>3, <1>6, <1>7, <1>10
  <2>2. /\ StopContainer("nginx") \in Seq(Fine)
        /\ StopContainer("edge") \in Seq(Fine)
        /\ StopContainer("haproxy") \in Seq(Fine)
        /\ StopContainer("balancer") \in Seq(Fine)
        /\ StopContainer("tunnel") \in Seq(Fine)
    BY <1>8, <1>10
  <2>3. \A p, q \in Seq(Fine) : p \o q \in Seq(Fine)
    <3> HIDE DEF Fine
    <3> QED OBVIOUS
  <2> HIDE DEF Restore, Stop, StopContainer, Fine, s
  <2>4. Restore(s.pe, s.ph, TRUE) \o Stop(OtherProxy(s.pe))
        \o Restore(s.le, s.lh, LbWanted(s)) \in Seq(Fine)
    BY <2>1, <2>3, Zenon
  <2>5. Restore(s.pe, s.ph, TRUE) \o Stop(OtherProxy(s.pe))
        \o Restore(s.le, s.lh, LbWanted(s)) \o Stop(OtherLb(s.le))
        \o Restore("tunnel", s.th, TunWanted(s)) \in Seq(Fine)
    BY <2>1, <2>3, <2>4, Zenon
  <2>6. Restore(s.pe, s.ph, TRUE) \o Stop(OtherProxy(s.pe))
        \o Restore(s.le, s.lh, LbWanted(s)) \o Stop(OtherLb(s.le))
        \o Restore("tunnel", s.th, TunWanted(s))
        \o Only(Docker /\ ~seen[s.pe].reach, Call("ctrStart", s.pe, None))
        \o StopContainer("nginx") \in Seq(Fine)
    BY <1>9, <2>2, <2>3, <2>5, Zenon
  <2>7. Restore(s.pe, s.ph, TRUE) \o Stop(OtherProxy(s.pe))
        \o Restore(s.le, s.lh, LbWanted(s)) \o Stop(OtherLb(s.le))
        \o Restore("tunnel", s.th, TunWanted(s))
        \o Only(Docker /\ ~seen[s.pe].reach, Call("ctrStart", s.pe, None))
        \o StopContainer("nginx") \o StopContainer("edge")
        \o StopContainer("haproxy") \in Seq(Fine)
    BY <2>2, <2>3, <2>6, Zenon
  <2>8. Restore(s.pe, s.ph, TRUE) \o Stop(OtherProxy(s.pe))
        \o Restore(s.le, s.lh, LbWanted(s)) \o Stop(OtherLb(s.le))
        \o Restore("tunnel", s.th, TunWanted(s))
        \o Only(Docker /\ ~seen[s.pe].reach, Call("ctrStart", s.pe, None))
        \o StopContainer("nginx") \o StopContainer("edge")
        \o StopContainer("haproxy") \o StopContainer("balancer")
        \o StopContainer("tunnel") \in Seq(Fine)
    BY <2>2, <2>3, <2>7, Zenon
  <2> QED BY <1>11, <2>8
<1> QED BY <1>12

\* What the relay app remembers of an agent's answer.
LEMMA StatusFacts ==
  ASSUME TypeOK
  PROVE  Unanswered \in Status /\ \A e \in Engine : Answered(e) \in Status
<1>1. \A e \in Engine : ag[e] \in AgentState
  BY DEF TypeOK
<1>2. \A a \in AgentState : /\ a.store.current \in Release \cup {None}
                            /\ a.store.stopped \in BOOLEAN
                            /\ Running(a) \in BOOLEAN
  BY DEF AgentState, Store, Running
<1> QED BY <1>1, <1>2 DEF Unanswered, Answered, Status

\* An apply that has just begun, and the one that is not there.
LEMMA NewJobFacts ==
  ASSUME NEW s \in Snapshot
  PROVE  NoJob(s) \in Job /\ NoJob(s).live = 0 /\ NoJob(s).undo = <<>> /\ NoJob(s).pc = "idle"
<1>1. Unanswered \in Status
  BY DEF Unanswered, Status
<1>2. "idle" \in JobSteps /\ <<>> \in Seq(Calls)
  BY DEF JobSteps
<1> QED BY <1>1, <1>2 DEF NoJob, Job

\* There is a configuration to fill the place of an apply that is not there.
LEMMA AnySnapshotFacts == AnySnapshot \in Snapshot
BY PipelineAssumption DEF AnySnapshot

\* The end of an apply.
LEMMA EndFacts ==
  ASSUME TypeOK, EndJob
  PROVE  /\ job' \in Job /\ job'.live = 0 /\ job'.undo = <<>> /\ job'.pc = "idle"
         /\ job'.undo \in Seq(AgentCall)
<1>1. \A q : q = <<>> => q \in Seq(AgentCall)
  OBVIOUS
<1>2. job' = NoJob(AnySnapshot) /\ AnySnapshot \in Snapshot
  BY AnySnapshotFacts DEF EndJob
<1>3. job' \in Job /\ job'.live = 0 /\ job'.undo = <<>> /\ job'.pc = "idle"
  BY <1>2, NewJobFacts
<1> QED BY <1>1, <1>3

\* Going on to the next step of an apply changes nothing else about it.
LEMMA AdvanceFacts ==
  ASSUME job \in Job, NEW pc \in JobSteps, NEW did \in SUBSET Marks, Advance(pc, did)
  PROVE  /\ job' \in Job
         /\ job'.pc = pc /\ job'.snap = job.snap /\ job'.live = job.live /\ job'.undo = job.undo
         /\ job'.lbSeen = job.lbSeen /\ job'.tunSeen = job.tunSeen
BY DEF Advance, Job

\* Goto moves the apply and changes nothing else of it.
LEMMA GotoFacts ==
  ASSUME job \in Job, NEW pc \in JobSteps, Goto(pc)
  PROVE  /\ job' \in Job
         /\ job'.pc = pc /\ job'.snap = job.snap /\ job'.live = job.live /\ job'.undo = job.undo
         /\ job'.lbSeen = job.lbSeen /\ job'.tunSeen = job.tunSeen
BY DEF Goto, Job

\* The start of an apply or of a rollback.
LEMMA BeginFacts ==
  ASSUME NEW s \in Snapshot,
         \/ job' = [NoJob(s) EXCEPT !.pc = "read"]
         \/ job' = [NoJob(s) EXCEPT !.pc = "read", !.force = TRUE]
  PROVE  /\ job' \in Job /\ job'.pc = "read" /\ job'.live = 0
         /\ job'.undo \in Seq(AgentCall)
<1>1. "read" \in JobSteps
  BY DEF JobSteps
<1>2. NoJob(s) \in Job /\ NoJob(s).live = 0 /\ NoJob(s).undo = <<>>
  BY NewJobFacts
<1>3. job' \in Job /\ job'.pc = "read" /\ job'.live = 0 /\ job'.undo = <<>>
  BY <1>1, <1>2 DEF Job
<1>4. \A q : q = <<>> => q \in Seq(AgentCall)
  OBVIOUS
<1> QED BY <1>3, <1>4

\* What applyLocked reads first.
LEMMA ReadFacts ==
  ASSUME job \in Job, NEW s \in Snapshot, NEW n \in Nat,
         job' = [job EXCEPT !.pc = "proxy", !.snap = s, !.live = n]
  PROVE  /\ job' \in Job
         /\ job'.pc = "proxy" /\ job'.snap = s /\ job'.live = n /\ job'.undo = job.undo
<1>1. "proxy" \in JobSteps
  BY DEF JobSteps
<1> QED BY <1>1 DEF Job

\* Giving a version up: what is left of the apply is its undoing.
LEMMA FailFacts ==
  ASSUME TypeInv, NEW did \in SUBSET Marks, FailWith(did)
  PROVE  /\ job' \in Job
         /\ job'.pc = "undo" /\ job'.snap = job.snap /\ job'.live = job.live
         /\ job'.undo \in Seq(AgentCall)
<1>1. Undo(did) \in Seq(AgentCall)
  BY UndoType
<1>2. Undo(did) \in Seq(Calls) /\ job \in Job /\ "undo" \in JobSteps
  BY <1>1 DEF AgentCall, TypeInv, TypeOK, JobSteps
<1> QED BY <1>1, <1>2 DEF FailWith, Job

\* At the first start the agents have booted, the proxy engines on their
\* bootstrap release.
LEMMA TypeInit == Init => TypeInv
<1> SUFFICES ASSUME Init PROVE TypeInv
  OBVIOUS
<1>1. EmptyStore \in Store /\ [EmptyStore EXCEPT !.dirs = {Boot}, !.current = Boot] \in Store
  <2>1. EmptyStore \in Store
    BY DEF EmptyStore, Store
  <2>2. {Boot} \in SUBSET Release /\ Boot \in Release \cup {None}
    BY DEF Release
  <2> QED BY <2>1, <2>2 DEF Store
<1>2. ag \in [Engine -> AgentState]
  BY <1>1, MarkedStore, AgentShapes DEF Init, Fresh
<1>3. AnySnapshot \in Snapshot
  BY AnySnapshotFacts
<1>4. job \in Job /\ job.live = 0 /\ job.undo = <<>>
  BY <1>3, NewJobFacts DEF Init
<1>5. rec \in Rec /\ rec.todo = <<>> /\ rec.pc = "idle"
  BY DEF Init, NoRec, Rec, Unanswered, Status
<1>6. rows \in Seq(Row) /\ Len(rows) = 0 /\ faults \in 0..MaxFaults /\ stopped \in SUBSET Engine
      /\ up \in [Engine -> BOOLEAN] /\ draft \in Snapshot
  BY PipelineAssumption DEF Init
<1> QED BY <1>2, <1>4, <1>5, <1>6 DEF TypeInv, TypeOK

\* Bringing an engine's container up boots its agent.
LEMMA BringFacts ==
  ASSUME TypeOK, NEW e \in Engine, Bring(e)
  PROVE  /\ ag' \in [Engine -> AgentState] /\ up' \in [Engine -> BOOLEAN]
         /\ \A x \in Engine : ag'[x].store = ag[x].store
         /\ \A x \in Engine : up[x] => up'[x]
BY AgentShapes DEF TypeOK, Bring

\* Every recorded version keeps its configuration.
LEMMA AppendRowFacts ==
  ASSUME TypeOK, NEW status \in Statuses, rows' = Append(rows, NewRow(status))
  PROVE  /\ rows' \in Seq(Row) /\ Len(rows') = Len(rows) + 1
         /\ \A i \in 1..Len(rows) : rows'[i] = rows[i]
         /\ rows'[Len(rows')] = NewRow(status)
<1>1. NewRow(status) \in Row
  BY DEF NewRow, Row, TypeOK, Job
<1> QED BY <1>1 DEF TypeOK

\* A request to an agent has a limit of time, an end or a lost answer is counted.
LEMMA AskFacts ==
  ASSUME TypeOK, NEW e \in Engine, NEW st, Asked(e, st)
  PROVE  faults' \in 0..MaxFaults /\ st \in Status
         /\ (st.reach => st = Answered(e))
<1>1. \A kind : Fault(kind) => faults' \in 0..MaxFaults
  BY PipelineAssumption DEF Fault, TypeOK
<1>2. ~Unanswered.reach
  BY DEF Unanswered
<1> QED BY <1>1, <1>2, StatusFacts DEF Asked, TypeOK

\* The swap's requests.
LEMMA InstallFacts ==
  ASSUME NEW e \in Engine, NEW h \in Hash, NEW run
  PROVE  /\ Install(e, h, run) \in AgentCall
         /\ Install(e, h, run).do \in {"apply", "applyStop"}
         /\ Install(e, h, run).to = e /\ Install(e, h, run).hash = h
         /\ Call("apply", e, h) \in AgentCall /\ Call("applyStop", e, h) \in AgentCall
         /\ Call("stopOnly", e, None) \in AgentCall
BY DEF Install, Call, AgentCall, Calls

\* The steps of an apply up to the swap leave well-formed states.
LEMMA TypeCheckSteps ==
  ASSUME TypeInv,
         \/ ReadDraft \/ CheckProxy \/ CheckLb \/ CheckTunnel \/ InsertDraft
         \/ \E e \in Engine : EnsureEngine(e)
         \/ \E r \in {"refused", "unavailable"} : ValidateFails(r)
  PROVE  TypeInv'
<1> USE DEF TypeInv, TypeOK
<1>l. {"read", "proxy", "lb", "tunnel", "insert", "lbStop", "lbApply"} \subseteq JobSteps
  BY DEF JobSteps
<1>f. \A kind : Fault(kind) => faults' \in 0..MaxFaults
  BY PipelineAssumption DEF Fault
<1>1. CASE ReadDraft
  <2>1. draft \in Snapshot /\ Live \in 0..Len(rows)
    BY LiveFacts
  <2>2. EndJob \/ job' = [job EXCEPT !.pc = "proxy", !.snap = draft, !.live = Live]
    BY <1>1 DEF ReadDraft
  <2>3. job' \in Job /\ job'.live \in 0..Len(rows) /\ job'.undo \in Seq(AgentCall)
    <3>1. CASE EndJob
      BY <3>1, EndFacts
    <3>2. CASE job' = [job EXCEPT !.pc = "proxy", !.snap = draft, !.live = Live]
      <4>1. Live \in Nat
        BY <2>1
      <4>2. job' \in Job /\ job'.live = Live /\ job'.undo = job.undo
        BY <3>2, <2>1, <4>1, ReadFacts
      <4> QED BY <2>1, <4>2
    <3> QED BY <2>2, <3>1, <3>2
  <2> QED BY <1>1, <2>3 DEF ReadDraft
<1>2. CASE CheckProxy
  BY <1>2, <1>l, GotoFacts DEF CheckProxy
<1>3. CASE CheckLb
  <2>1. job.snap.le \in Engine
    BY DEF Job, Snapshot, Engine
  <2>2. PICK st \in {Answered(job.snap.le), Unanswered} :
          /\ Asked(job.snap.le, st)
          /\ job' = [job EXCEPT !.lbSeen = st, !.pc = "tunnel"]
    BY <1>3 DEF CheckLb
  <2>3. faults' \in 0..MaxFaults /\ st \in Status
    BY <2>1, <2>2, AskFacts
  <2>4. job' \in Job /\ job'.live = job.live /\ job'.undo = job.undo
    BY <2>2, <2>3, <1>l DEF Job
  <2> QED BY <1>3, <2>3, <2>4 DEF CheckLb
<1>4. CASE CheckTunnel
  <2>1. "tunnel" \in Engine
    BY DEF Engine
  <2>2. PICK st \in {Answered("tunnel"), Unanswered} :
          /\ Asked("tunnel", st)
          /\ job' = [job EXCEPT !.tunSeen = st, !.pc = "insert"]
    BY <1>4 DEF CheckTunnel
  <2>3. faults' \in 0..MaxFaults /\ st \in Status
    BY <2>1, <2>2, AskFacts
  <2>4. job' \in Job /\ job'.live = job.live /\ job'.undo = job.undo
    BY <2>2, <2>3, <1>l DEF Job
  <2> QED BY <1>4, <2>3, <2>4 DEF CheckTunnel
<1>5. CASE InsertDraft
  <2>1. rows' \in Seq(Row) /\ Len(rows') = Len(rows) + 1
    BY <1>5, AppendRowFacts DEF InsertDraft, Statuses
  <2>2. job' \in Job /\ job'.live = job.live /\ job'.undo = job.undo
    BY <1>5, <1>l, GotoFacts DEF InsertDraft
  <2> QED BY <1>5, <2>1, <2>2 DEF InsertDraft
<1>6. ASSUME NEW e \in Engine, EnsureEngine(e) PROVE TypeInv'
  BY <1>6, BringFacts DEF EnsureEngine
<1>7. ASSUME NEW r \in {"refused", "unavailable"}, ValidateFails(r) PROVE TypeInv'
  <2>1. /\ faults' = faults \/ Fault("unreachable")
        /\ rows' = rows \/ rows' = Append(rows, NewRow("failed"))
        /\ EndJob /\ UNCHANGED <<draft, ag, up, stopped, rec>>
    BY <1>7 DEF ValidateFails
  <2>2. rows' \in Seq(Row) /\ Len(rows') >= Len(rows)
    BY <2>1, AppendRowFacts DEF Statuses
  <2>3. job' \in Job /\ job'.live = 0 /\ job'.undo \in Seq(AgentCall)
    BY <2>1, EndFacts
  <2>4. faults' \in 0..MaxFaults
    BY <2>1, <1>f
  <2> QED BY <2>1, <2>2, <2>3, <2>4
<1> QED BY <1>1, <1>2, <1>3, <1>4, <1>5, <1>6, <1>7

\* the steps of an apply whose version is recorded
Inserted == {"lbStop", "lbApply", "stop", "apply", "follow", "health", "promote", "undo"}

\* the steps of the swap
SwapStep ==
    \/ \E r \in {"ok", "unavailable"} : StopOldLb(r) \/ StopOldProxy(r)
    \/ \E r \in Replies : ApplyLb(r) \/ ApplyProxy(r) \/ ApplyTunnel(r)
    \/ PassLb \/ PassTunnel \/ HealthPasses \/ HealthFails

\* What the swap of an apply does, one request or one decision at a time: the
\* history stays, and the apply goes on to a later step or to its undoing.
LEMMA SwapFacts ==
  ASSUME TypeInv, SwapStep
  PROVE  /\ TypeInv' /\ rows' = rows /\ rec' = rec /\ up' = up
         /\ job.pc \in Inserted /\ job'.pc \in Inserted /\ job'.snap = job.snap
<1> DEFINE Grown == \E pc \in Inserted, did \in SUBSET Marks : Advance(pc, did)
           Given == \E did \in SUBSET Marks : FailWith(did)
           Moved == \E pc \in Inserted : Goto(pc)
<1>i. Inserted \subseteq JobSteps /\ "undo" \in Inserted
  BY DEF Inserted, JobSteps
<1>j. Grown \/ Given \/ Moved =>
        /\ job' \in Job /\ job'.snap = job.snap /\ job'.live = job.live
        /\ job'.undo \in Seq(AgentCall) /\ job'.pc \in Inserted
  BY <1>i, AdvanceFacts, GotoFacts, FailFacts DEF TypeInv, TypeOK
<1>p. job.pc \in Inserted
  BY DEF SwapStep, StopOldLb, StopOldProxy, ApplyLb, ApplyProxy, ApplyTunnel, PassLb,
         PassTunnel, HealthPasses, HealthFails, Inserted
<1>s. \A c \in AgentCall, r \in Replies :
        Send(c, r) => ag' \in [Engine -> AgentState] /\ faults' \in 0..MaxFaults
  BY SendFacts DEF TypeInv
<1>l. /\ {"lbApply", "stop", "apply", "follow", "health", "promote"} \subseteq Inserted
      /\ AfterLb \in Inserted
  BY DEF Inserted, AfterLb
<1>m. job.did \in SUBSET Marks /\ job.snap \in Snapshot
  BY DEF TypeInv, TypeOK, Job
<1>e. /\ job.snap.pe \in Engine /\ job.snap.le \in Engine /\ "tunnel" \in Engine
      /\ OldProxy(job.live) \in Engine /\ OldLb(job.live) \in Engine
      /\ {job.snap.ph, job.snap.lh, job.snap.th} \subseteq Hash
      /\ job.live # 0 => {rows[job.live].snap.ph, rows[job.live].snap.lh} \subseteq Hash
  BY <1>m, RowFacts DEF TypeInv, TypeOK, Snapshot, OldProxy, OldLb, Engine, Proxies, Balancers
<1> DEFINE Fine == /\ Grown \/ Given \/ Moved
                   /\ ag' \in [Engine -> AgentState] /\ faults' \in 0..MaxFaults
                   /\ stopped' \in SUBSET Engine
                   /\ UNCHANGED <<draft, rows, up, rec>>
<1>k. SUFFICES Fine
  BY <1>j, <1>p DEF TypeInv, TypeOK
<1>1. ASSUME NEW r \in {"ok", "unavailable"}, StopOldLb(r) PROVE Fine
  <2> DEFINE stop == IF job.live = 0 THEN Call("stopOnly", OldLb(job.live), None)
                     ELSE Call("applyStop", OldLb(job.live), rows[job.live].snap.lh)
  <2>1. stop \in AgentCall /\ r \in Replies
    BY SMTT(60), <1>e, InstallFacts DEF Replies
  <2>2. Send(stop, r) /\ UNCHANGED <<draft, rows, up, stopped, rec>>
    BY <1>1 DEF StopOldLb
  <2>3. Grown
    <3>1. {"lbSwitch", "lbStop"} \in SUBSET Marks /\ {"lbSwitch"} \in SUBSET Marks
      BY DEF Marks
    <3> QED BY <1>1, <3>1, <1>l DEF StopOldLb
  <2> QED BY <2>1, <2>2, <2>3, <1>s DEF TypeInv, TypeOK
<1>2. ASSUME NEW r \in {"ok", "unavailable"}, StopOldProxy(r) PROVE Fine
  <2> DEFINE stop == IF job.live = 0 THEN Call("stopOnly", OldProxy(job.live), None)
                     ELSE Call("applyStop", OldProxy(job.live), rows[job.live].snap.ph)
  <2>1. stop \in AgentCall /\ r \in Replies
    BY SMTT(60), <1>e, InstallFacts DEF Replies
  <2>2. Send(stop, r) /\ UNCHANGED <<draft, rows, up, stopped, rec>>
    BY <1>2 DEF StopOldProxy
  <2>3. Grown
    <3>1. /\ job.did \cup {"switch", "stop", "start"} \in SUBSET Marks
          /\ job.did \cup {"switch", "start"} \in SUBSET Marks
      BY <1>m DEF Marks
    <3> QED BY <1>2, <3>1, <1>l DEF StopOldProxy
  <2> QED BY <2>1, <2>2, <2>3, <1>s DEF TypeInv, TypeOK
<1>3. ASSUME NEW r \in Replies, ApplyLb(r) PROVE Fine
  <2>1. Install(job.snap.le, job.snap.lh, job.snap.run) \in AgentCall
    BY <1>e, InstallFacts
  <2>2. /\ Send(Install(job.snap.le, job.snap.lh, job.snap.run), r)
        /\ UNCHANGED <<draft, rows, up, rec>>
        /\ stopped' \in SUBSET Engine
    BY <1>3 DEF ApplyLb, TypeInv, TypeOK
  <2>3. Grown \/ Given
    <3>1. job.did \cup {"lbStart"} \in SUBSET Marks /\ job.did \cup {"lbChange"} \in SUBSET Marks
      BY <1>m DEF Marks
    <3> QED BY <1>3, <3>1, <1>l, <1>m DEF ApplyLb
  <2> QED BY <2>1, <2>2, <2>3, <1>s
<1>4. ASSUME NEW r \in Replies, ApplyProxy(r) PROVE Fine
  <2>1. Call("apply", job.snap.pe, job.snap.ph) \in AgentCall
    BY <1>e, InstallFacts
  <2>2. /\ Send(Call("apply", job.snap.pe, job.snap.ph), r)
        /\ UNCHANGED <<draft, rows, up, stopped, rec>>
    BY <1>4 DEF ApplyProxy
  <2>3. Grown \/ Given
    <3>1. job.did \cup {"swap"} \in SUBSET Marks
      BY <1>m DEF Marks
    <3> QED BY <1>4, <3>1, <1>l, <1>m DEF ApplyProxy
  <2> QED BY <2>1, <2>2, <2>3, <1>s DEF TypeInv, TypeOK
<1>5. ASSUME NEW r \in Replies, ApplyTunnel(r) PROVE Fine
  <2>1. Install("tunnel", job.snap.th, job.snap.tun) \in AgentCall
    BY <1>e, InstallFacts
  <2>2. /\ Send(Install("tunnel", job.snap.th, job.snap.tun), r)
        /\ UNCHANGED <<draft, rows, up, rec>>
        /\ stopped' \in SUBSET Engine
    BY <1>5 DEF ApplyTunnel, TypeInv, TypeOK
  <2>3. Grown \/ Given
    <3>1. job.did \cup {"tunnel"} \in SUBSET Marks
      BY <1>m DEF Marks
    <3> QED BY <1>5, <3>1, <1>l, <1>m DEF ApplyTunnel
  <2> QED BY <2>1, <2>2, <2>3, <1>s
<1>6. CASE PassLb
  <2>1. Given \/ Moved
    BY <1>6, <1>l, <1>m DEF PassLb
  <2> QED BY <2>1, <1>6 DEF PassLb, TypeInv, TypeOK
<1>7. CASE PassTunnel
  <2>1. Given \/ Moved
    BY <1>7, <1>l, <1>m DEF PassTunnel
  <2> QED BY <2>1, <1>7 DEF PassTunnel, TypeInv, TypeOK
<1>8. CASE HealthPasses
  <2>1. faults' \in 0..MaxFaults
    BY <1>8, <1>e, AskFacts DEF HealthPasses, TypeInv
  <2> QED BY <2>1, <1>8, <1>l DEF HealthPasses, TypeInv, TypeOK
<1>9. CASE HealthFails
  BY <1>9, <1>m DEF HealthFails, TypeInv, TypeOK
<1> QED BY <1>1, <1>2, <1>3, <1>4, <1>5, <1>6, <1>7, <1>8, <1>9 DEF SwapStep

\* So do its undoing and its end.
LEMMA TypeEndSteps ==
  ASSUME TypeInv, Promote \/ RecordFailure \/ \E r \in Replies : UndoStep(r)
  PROVE  TypeInv'
<1>1. ASSUME NEW n \in 1..Len(rows), NEW st \in Statuses, NEW b \in BOOLEAN,
             rows' = [rows EXCEPT ![n].status = st, ![n].problems = b]
      PROVE  rows' \in Seq(Row) /\ Len(rows') = Len(rows)
  BY SMTT(60), <1>1, RowFacts DEF TypeInv, TypeOK, Row
<1>2. CASE Promote
  <2>1. \A i \in 1..Len(rows), st \in Statuses : [rows[i] EXCEPT !.status = st] \in Row
    BY RowFacts DEF TypeInv, TypeOK, Row
  <2>2. {"live", "superseded"} \subseteq Statuses
    BY DEF Statuses
  <2>3. rows' \in [1..Len(rows) -> Row]
    BY <1>2, <2>1, <2>2, RowFacts DEF Promote, TypeInv, TypeOK
  <2>4. rows' \in Seq(Row) /\ Len(rows') = Len(rows)
    BY SMTT(60), <2>3, RowFacts DEF TypeInv, TypeOK
  <2>5. job' \in Job /\ job'.live = 0 /\ job'.undo \in Seq(AgentCall)
    BY <1>2, EndFacts DEF Promote, TypeInv
  <2>6. UNCHANGED <<draft, ag, up, stopped, rec, faults>>
    BY <1>2, Zenon DEF Promote
  <2> QED BY <2>4, <2>5, <2>6 DEF TypeInv, TypeOK
<1>3. CASE RecordFailure
  <2>1. rows' \in Seq(Row) /\ Len(rows') = Len(rows)
    <3>1. {"failed", "rolled_back"} \subseteq Statuses
      BY DEF Statuses
    <3>2. job.problems \in BOOLEAN
      BY DEF TypeInv, TypeOK, Job
    <3>3. CASE Len(rows) = 0
      <4>1. rows \in [1..0 -> Row] /\ DOMAIN rows = 1..0
        BY <3>3 DEF TypeInv, TypeOK
      <4>2. DOMAIN rows' = 1..0
        BY <1>3, <4>1 DEF RecordFailure
      <4>3. rows' = [i \in 1..0 |-> rows'[i]]
        BY <1>3, <4>1, <4>2 DEF RecordFailure
      <4>4. rows' \in [1..0 -> Row]
        BY <4>2, <4>3
      <4> QED BY <4>4, <3>3
    <3>4. CASE Len(rows) # 0
      <4>1. Len(rows) \in 1..Len(rows)
        BY <3>4, RowFacts DEF TypeInv, TypeOK
      <4> QED BY <1>1, <1>3, <3>1, <3>2, <4>1 DEF RecordFailure
    <3> QED BY <3>3, <3>4
  <2>2. job' \in Job /\ job'.live = 0 /\ job'.undo \in Seq(AgentCall)
    BY <1>3, EndFacts DEF RecordFailure, TypeInv
  <2>3. UNCHANGED <<draft, ag, up, stopped, rec, faults>>
    BY <1>3, Zenon DEF RecordFailure
  <2> QED BY <2>1, <2>2, <2>3 DEF TypeInv, TypeOK
<1>4. ASSUME NEW r \in Replies, UndoStep(r) PROVE TypeInv'
  <2>1. job.undo \in Seq(AgentCall) /\ job.undo # <<>> /\ job \in Job
    BY <1>4 DEF UndoStep, TypeInv, TypeOK
  <2>2. Head(job.undo) \in AgentCall /\ Tail(job.undo) \in Seq(AgentCall)
    BY <2>1
  <2>3. ag' \in [Engine -> AgentState] /\ faults' \in 0..MaxFaults
    BY <1>4, <2>2, SendFacts DEF UndoStep, TypeInv
  <2>4. Tail(job.undo) \in Seq(Calls)
    BY <2>2 DEF AgentCall
  <2>5. job' \in Job /\ job'.live = job.live /\ job'.undo = Tail(job.undo)
    BY <1>4, <2>1, <2>4 DEF UndoStep, Job
  <2> QED BY <1>4, <2>2, <2>3, <2>5 DEF UndoStep, TypeInv, TypeOK
<1> QED BY <1>2, <1>3, <1>4

\* What the live version has for an engine is a release to install.
LEMMA PushFacts ==
  ASSUME TypeOK, NEW e \in Engine, Live # 0
  PROVE  \/ LivePush(e) = <<>>
         \/ \E h \in Hash, run \in BOOLEAN : LivePush(e) = <<Install(e, h, run)>>
<1>1. rows[Live].snap \in Snapshot
  BY LiveFacts
<1> DEFINE v == rows[Live].snap
<1>2. {v.ph, v.lh, v.th} \subseteq Hash /\ {v.run, v.tun} \subseteq BOOLEAN
  BY <1>1 DEF Snapshot
<1>3. \/ LivePush(e) = <<Install(e, v.ph, TRUE)>>
      \/ LivePush(e) = <<Install(e, v.lh, v.run)>>
      \/ LivePush(e) = <<Install(e, v.th, v.tun)>>
      \/ LivePush(e) = <<>>
  <2>1. v.pe \in Proxies /\ v.le \in Balancers
    BY <1>1 DEF Snapshot
  <2>2. CASE e = v.pe
    BY <2>1, <2>2 DEF LivePush, Proxies, Balancers
  <2>3. CASE e = v.le
    BY <2>1, <2>3 DEF LivePush, Proxies, Balancers
  <2>4. CASE e = "tunnel"
    BY <2>1, <2>4 DEF LivePush, Proxies, Balancers
  <2>5. CASE e \notin {v.pe, v.le, "tunnel"}
    BY <2>5 DEF LivePush
  <2> QED BY <2>2, <2>3, <2>4, <2>5
<1> QED BY <1>2, <1>3

\* An engine that is switched off, or on, by an admin.
LEMMA AdminFacts ==
  ASSUME TypeOK, NEW e \in Engine, AdminStart(e) \/ AdminStop(e)
  PROVE  ag' \in [Engine -> AgentState] /\ up' \in [Engine -> BOOLEAN]
<1> ag[e] \in AgentState /\ AlwaysOn(e) \in BOOLEAN
  BY DEF TypeOK, AlwaysOn
<1>1. CASE AdminStop(e)
  <2>1. \A a \in AgentState, ao \in BOOLEAN : Done(a, "stop", None, ao) \in AgentState
    <3> SUFFICES ASSUME NEW a \in AgentState, NEW ao \in BOOLEAN
                 PROVE  Done(a, "stop", None, ao) \in AgentState
      OBVIOUS
    <3>1. a.store \in Store /\ Marked(a.store, TRUE) \in Store
      BY MarkedStore DEF AgentState
    <3>2. Done(a, "stop", None, ao) = Halted(IF ao THEN a.store ELSE Marked(a.store, TRUE))
      BY DEF Done
    <3> QED BY <3>1, <3>2, AgentShapes
  <2>2. ag' \in [Engine -> AgentState]
    BY <1>1, <2>1 DEF AdminStop, TypeOK
  <2>3. up' \in [Engine -> BOOLEAN]
    BY <1>1 DEF AdminStop, TypeOK
  <2> QED BY <2>2, <2>3
<1>2. CASE AdminStart(e)
  <2> DEFINE a == IF up[e] THEN ag[e] ELSE Booted(ag[e])
             b == IF Live = 0 THEN a ELSE Pushed(a, LivePush(e))
  <2>1. a \in AgentState
    BY AgentShapes
  <2>2. Live # 0 => LivePush(e) = <<>> \/ LivePush(e) \in { <<c>> : c \in
                      { d \in AgentCall : d.do \in {"apply", "applyStop"} } }
    BY PushFacts, InstallFacts
  <2>3. \A push : push = <<>> \/ push \in { <<c>> : c \in
                      { d \in AgentCall : d.do \in {"apply", "applyStop"} } }
                  => Pushed(a, push) \in AgentState
    <3> SUFFICES ASSUME NEW c \in AgentCall, c.do \in {"apply", "applyStop"}
                 PROVE  Pushed(a, <<c>>) \in AgentState /\ Pushed(a, <<>>) \in AgentState
      <4>1. Pushed(a, <<>>) \in AgentState
        BY <2>1 DEF Pushed
      <4> QED BY <4>1
    <3>1. Done(a, c.do, c.hash, FALSE) \in AgentState
      BY <2>1, DoneFacts DEF CanDo
    <3> HIDE DEF a
    <3>2. Pushed(a, <<c>>) = a \/ Pushed(a, <<c>>) = Done(a, c.do, c.hash, FALSE)
      <4>1. <<c>> # <<>> /\ Head(<<c>>) = c
        OBVIOUS
      <4> QED BY <4>1 DEF Pushed
    <3>3. Pushed(a, <<>>) = a
      BY DEF Pushed
    <3> QED BY <2>1, <3>1, <3>2, <3>3
  <2>4. b \in AgentState
    BY <2>1, <2>2, <2>3
  <2>5. CanDo(b, "start") => Done(b, "start", None, AlwaysOn(e)) \in AgentState
    <3>1. Call("start", e, None) \in AgentCall
      BY DEF Call, AgentCall, Calls
    <3>2. Call("start", e, None).do = "start" /\ Call("start", e, None).hash = None
      BY DEF Call
    <3> HIDE DEF b
    <3> QED BY <2>4, <3>1, <3>2, DoneFacts
  <2>6. ag' = [ag EXCEPT ![e] = IF CanDo(b, "start") THEN Done(b, "start", None, AlwaysOn(e)) ELSE b]
    BY <1>2 DEF AdminStart
  <2>7. up' = [up EXCEPT ![e] = TRUE]
    BY <1>2 DEF AdminStart
  <2> HIDE DEF b
  <2> QED BY <2>4, <2>5, <2>6, <2>7 DEF TypeOK
<1> QED BY <1>1, <1>2

\* A reconcile reads, locks and works through its corrections.
LEMMA TypeReconcile == TypeInv /\ Reconcile => TypeInv'
<1> SUFFICES ASSUME TypeInv, Reconcile PROVE TypeInv'
  OBVIOUS
<1> DEFINE Todo == Seq(AgentCall \cup ContainerCall)
<1>0. /\ rec \in Rec /\ rec.todo \in Todo
      /\ AgentCall \cup ContainerCall \subseteq Calls
      /\ {"nginx", "edge", "haproxy", "balancer", "tunnel"} = Engine
  BY DEF TypeInv, TypeOK, AgentCall, ContainerCall, Engine, Proxies, Balancers
<1>n. NoRec \in Rec /\ NoRec.todo \in Todo /\ NoRec.pc = "idle"
  <2>1. NoRec.todo = <<>> /\ NoRec.pc = "idle"
    BY DEF NoRec
  <2>2. NoRec \in Rec
    BY DEF NoRec, Rec, Unanswered, Status
  <2> QED BY <2>1, <2>2
<1>f. \A kind : Fault(kind) => faults' \in 0..MaxFaults
  BY PipelineAssumption DEF Fault, TypeInv, TypeOK
<1>c. ASSUME NextCall, rec.todo # <<>>
      PROVE  /\ rec' \in Rec /\ rec'.todo \in Todo
             /\ rec'.pc = "run" => rec'.todo # <<>>
  <2>1. Tail(rec.todo) \in Todo
    BY <1>0, <1>c
  <2>2. Tail(rec.todo) \in Seq(Calls)
    BY <1>0, <2>1
  <2>3. \/ rec' = NoRec
        \/ Tail(rec.todo) # <<>> /\ rec' = [rec EXCEPT !.todo = Tail(@)]
    BY <1>c DEF NextCall
  <2> HIDE DEF Todo
  <2> QED BY <1>0, <1>n, <2>1, <2>2, <2>3 DEF Rec
<1>1. CASE ReconcileStatus
  <2>1. PICK lost \in {{}} \cup { {e} : e \in { x \in Engine : up[x] } } :
          /\ faults' = faults \/ Fault("unreachable")
          /\ rec' = [rec EXCEPT !.pc = "lock",
                       !.seen = [ e \in Engine |-> IF up[e] /\ e \notin lost
                                                   THEN Answered(e) ELSE Unanswered ]]
    BY <1>1 DEF ReconcileStatus
  <2>2. [ e \in Engine |-> IF up[e] /\ e \notin lost THEN Answered(e) ELSE Unanswered ]
          \in [Engine -> Status]
    BY SMTT(60), StatusFacts DEF TypeInv
  <2>3. rec' \in Rec /\ rec'.todo = rec.todo /\ rec'.pc = "lock"
    BY <1>0, <2>1, <2>2 DEF Rec
  <2>4. faults' \in 0..MaxFaults
    BY <2>1, <1>f DEF TypeInv, TypeOK
  <2> QED BY <1>0, <1>1, <2>3, <2>4 DEF ReconcileStatus, TypeInv, TypeOK
<1>2. CASE ReconcileLock
  <2>1. \/ rec' = NoRec
        \/ /\ Live # 0 /\ Corrections(rec.seen) # <<>>
           /\ rec' = [NoRec EXCEPT !.pc = "run", !.todo = Corrections(rec.seen)]
    BY <1>2 DEF ReconcileLock
  <2>2. /\ rec' \in Rec /\ rec'.todo \in Todo
        /\ rec'.pc = "run" => rec'.todo # <<>>
    <3>1. Live # 0 => Corrections(rec.seen) \in Todo
      BY <1>0, CorrectionsFacts DEF Rec, TypeInv
    <3>2. Live # 0 => Corrections(rec.seen) \in Seq(Calls)
      BY <1>0, <3>1
    <3> HIDE DEF Todo
    <3> QED BY <2>1, <1>n, <3>1, <3>2 DEF Rec
  <2> QED BY <1>2, <2>2 DEF ReconcileLock, TypeInv, TypeOK
<1>3. ASSUME NEW r \in {"ok", "unavailable"}, ReconcileCall(r) PROVE TypeInv'
  <2>0. rec.todo # <<>>
    BY <1>3 DEF ReconcileCall, TypeInv
  <2> DEFINE c == Head(rec.todo)
  <2>1. c \in AgentCall /\ r \in Replies
    BY <1>0, <1>3, <2>0 DEF ReconcileCall, ContainerCall, Replies
  <2>2. ag' \in [Engine -> AgentState] /\ faults' \in 0..MaxFaults
    BY <1>3, <2>1, SendFacts DEF ReconcileCall, TypeInv
  <2>3. /\ rec' \in Rec /\ rec'.todo \in Todo
        /\ rec'.pc = "run" => rec'.todo # <<>>
    <3>1. CASE NextCall
      BY <1>c, <2>0, <3>1
    <3>2. CASE Tail(rec.todo) # <<>> /\ rec' = [rec EXCEPT !.todo = Tail(@), !.left = @ \cup {c.to}]
      <4>1. Tail(rec.todo) \in Todo
        BY <1>0, <2>0
      <4>2. Tail(rec.todo) \in Seq(Calls)
        BY <1>0, <4>1
      <4>3. c.to \in Engine
        BY <2>1 DEF AgentCall, Calls
      <4> HIDE DEF Todo, c
      <4> QED BY <1>0, <3>2, <4>1, <4>2, <4>3 DEF Rec
    <3> QED BY <1>3, <3>1, <3>2 DEF ReconcileCall
  <2> QED BY <1>3, <2>2, <2>3 DEF ReconcileCall, TypeInv, TypeOK
<1>4. ASSUME ReconcileContainer PROVE TypeInv'
  <2> DEFINE c == Head(rec.todo)
  <2>0. rec.todo # <<>>
    BY <1>4 DEF ReconcileContainer, TypeInv
  <2>1. c.to \in Engine
    BY <1>0, <2>0 DEF Calls
  <2>2. \A s \in Store : Halted(s) \in AgentState
    BY AgentShapes
  <2>3. ag[c.to].store \in Store
    BY <2>1 DEF TypeInv, TypeOK, AgentState
  <2>4. \/ Bring(c.to)
        \/ /\ up' = [up EXCEPT ![c.to] = FALSE]
           /\ ag' = [ag EXCEPT ![c.to] = Halted(ag[c.to].store)]
        \/ UNCHANGED <<up, ag>>
    BY <1>4, <2>1 DEF ReconcileContainer, TypeInv, TypeOK
  <2>5. ag' \in [Engine -> AgentState] /\ up' \in [Engine -> BOOLEAN]
    BY ZenonT(60), <2>1, <2>2, <2>3, <2>4, BringFacts DEF TypeInv, TypeOK
  <2> QED BY <1>4, <1>c, <2>0, <2>5 DEF ReconcileContainer, TypeInv, TypeOK
<1> QED BY <1>1, <1>2, <1>3, <1>4 DEF Reconcile

\* No step of an apply, of the reconcile loop, of an admin or of the engines
\* leaves the well-formed states.
LEMMA TypeNext == TypeInv /\ [Next]_vars => TypeInv'
<1> SUFFICES ASSUME TypeInv, [Next]_vars PROVE TypeInv'
  OBVIOUS
<1> USE DEF TypeInv, TypeOK
<1>f. \A kind : Fault(kind) => faults' \in 0..MaxFaults
  BY PipelineAssumption DEF Fault
<1>r. \A i \in 1..Len(rows) : rows[i].snap \in Snapshot
  BY RowFacts
<1>1. CASE Begin
  <2>1. \/ job' = [NoJob(draft) EXCEPT !.pc = "read"]
        \/ job' = [NoJob(draft) EXCEPT !.pc = "read", !.force = TRUE]
    BY <1>1 DEF Begin, ApplyBegin, RollbackBegin
  <2>2. job' \in Job /\ job'.live = 0 /\ job'.undo \in Seq(AgentCall)
    BY <2>1, BeginFacts
  <2>3. CASE ApplyBegin
    BY <2>2, <2>3 DEF ApplyBegin
  <2>4. ASSUME NEW i \in 1..Len(rows), RollbackBegin(i) PROVE TypeInv'
    BY <2>2, <2>4, <1>r DEF RollbackBegin
  <2> QED BY <1>1, <2>3, <2>4 DEF Begin
<1>2. CASE JobStep
  BY <1>2, TypeCheckSteps, SwapFacts, TypeEndSteps DEF JobStep, SwapStep
<1>3. CASE Reconcile
  BY <1>3, TypeReconcile
<1>4. ASSUME NEW s \in Snapshots, Edit(s) PROVE TypeInv'
  BY <1>4, PipelineAssumption DEF Edit
<1>5. CASE Discard
  BY <1>5, LiveFacts DEF Discard
<1>6. ASSUME NEW e \in Managed, AdminStart(e) \/ AdminStop(e) PROVE TypeInv'
  <2>1. e \in Engine
    BY PipelineAssumption
  <2>2. /\ stopped' \in SUBSET Engine
        /\ UNCHANGED <<draft, rows, job, rec, faults>>
    BY <1>6, <2>1 DEF AdminStart, AdminStop
  <2> QED BY <1>6, <2>1, <2>2, AdminFacts
<1>7. ASSUME NEW e \in Engine, EngineExits(e) \/ EngineReturns(e) \/ AgentRestarts(e) PROVE TypeInv'
  <2>1. ag[e] \in AgentState
    OBVIOUS
  <2>2. \A a \in AgentState : /\ [a EXCEPT !.proc = None] \in AgentState
                              /\ [a EXCEPT !.proc = a.store.current] \in AgentState
                              /\ Booted(a) \in AgentState
    BY AgentShapes DEF AgentState, Store
  <2>3. ag' \in [Engine -> AgentState]
    BY <1>7, <2>1, <2>2 DEF EngineExits, EngineReturns, AgentRestarts
  <2>4. faults' \in 0..MaxFaults
    BY <1>7, <1>f DEF EngineExits, EngineReturns, AgentRestarts
  <2> QED BY <1>7, <2>3, <2>4 DEF EngineExits, EngineReturns, AgentRestarts
<1>8. CASE Crash
  <2>1. NoRec \in Rec /\ NoRec.todo = <<>> /\ NoRec.pc = "idle"
    BY DEF NoRec, Rec, Unanswered, Status
  <2>2. job' \in Job /\ job'.live = 0 /\ job'.undo \in Seq(AgentCall)
    BY <1>8, EndFacts DEF Crash
  <2> QED BY <1>8, <1>f, <2>1, <2>2 DEF Crash
<1>9. CASE UNCHANGED vars
  BY <1>9 DEF vars
<1> QED BY <1>1, <1>2, <1>3, <1>4, <1>5, <1>6, <1>7, <1>8, <1>9 DEF Next, AdminAction, Environment

\* Spec => []TypeOK: whatever fails, the history, the agents, the apply and the
\* reconcile in progress stay well-formed; no request names a release that was
\* not rendered and no rollback leaves a release store without one.
THEOREM TypeCorrect == Spec => []TypeOK
<1>1. TypeInv => TypeOK
  BY DEF TypeInv
<1> QED BY TypeInit, TypeNext, <1>1, PTL DEF Spec

-----------------------------------------------------------------------------
(* The history of versions *)

\* applyMu, and what PromoteVersion relies on: the version in progress is the
\* newest one, and still a draft.
HistoryInv ==
    /\ TypeInv
    /\ job.pc # "idle" => rec.pc # "run"
    /\ \A i, j \in 1..Len(rows) : rows[i].status = "live" /\ rows[j].status = "live" => i = j
    /\ \A i \in 1..Len(rows) : rows[i].status = "superseded" =>
         \E j \in 1..Len(rows) : rows[j].status = "live" /\ i < j
    /\ job.pc \in Inserted =>
         Len(rows) > 0 /\ rows[Len(rows)].status = "draft" /\ rows[Len(rows)].snap = job.snap

\* There is no history and no apply at first.
LEMMA HistoryInit == Init => HistoryInv
<1> SUFFICES ASSUME Init PROVE HistoryInv
  OBVIOUS
<1>1. job.pc = "idle" /\ Len(rows) = 0
  BY DEF Init, NoJob
<1> QED BY <1>1, TypeInit DEF HistoryInv, Inserted

\* A version that is added goes to the end, and is not live.
LEMMA HistoryAppend ==
  ASSUME HistoryInv, NEW st \in {"draft", "failed"}, rows' = Append(rows, NewRow(st))
  PROVE  /\ \A i, j \in 1..Len(rows') : rows'[i].status = "live" /\ rows'[j].status = "live" => i = j
         /\ \A i \in 1..Len(rows') : rows'[i].status = "superseded" =>
              \E j \in 1..Len(rows') : rows'[j].status = "live" /\ i < j
         /\ Len(rows') > 0 /\ rows'[Len(rows')].status = st /\ rows'[Len(rows')].snap = job.snap
<1>1. /\ Len(rows) \in Nat /\ Len(rows') = Len(rows) + 1
      /\ \A i \in 1..Len(rows) : rows'[i] = rows[i]
      /\ rows'[Len(rows')] = NewRow(st)
  BY AppendRowFacts, RowFacts DEF HistoryInv, TypeInv, TypeOK, Statuses
<1>2. NewRow(st).status = st /\ NewRow(st).snap = job.snap
  BY DEF NewRow
<1>3. \A i \in 1..Len(rows') : i \in 1..Len(rows) \/ i = Len(rows')
  BY <1>1
<1> QED BY <1>1, <1>2, <1>3 DEF HistoryInv

\* Every step keeps the history.
LEMMA HistoryNext == HistoryInv /\ [Next]_vars => HistoryInv'
<1> SUFFICES ASSUME HistoryInv, [Next]_vars PROVE HistoryInv'
  OBVIOUS
<1>t. TypeInv /\ TypeInv'
  BY TypeNext DEF HistoryInv
<1>n. Len(rows) \in Nat
  BY <1>t, RowFacts DEF TypeInv, TypeOK
<1>same. ASSUME rows' = rows, job'.pc # "idle" => rec'.pc # "run",
                job'.pc \in Inserted => job.pc \in Inserted /\ job'.snap = job.snap
         PROVE  HistoryInv'
  BY <1>t, <1>same DEF HistoryInv
<1>i. NoRec.pc = "idle"
  BY DEF NoRec
<1>1. CASE Begin
  <2>1. \/ job' = [NoJob(draft) EXCEPT !.pc = "read"]
        \/ job' = [NoJob(draft) EXCEPT !.pc = "read", !.force = TRUE]
    BY <1>1 DEF Begin, ApplyBegin, RollbackBegin
  <2>2. job'.pc = "read"
    BY <1>t, <2>1, BeginFacts DEF TypeInv, TypeOK
  <2> QED BY <1>1, <2>2, <1>same DEF Begin, ApplyBegin, RollbackBegin, Unlocked, Inserted
<1>2. CASE JobStep
  <2>0. ASSUME EndJob PROVE job'.pc = "idle"
    BY <2>0, <1>t, EndFacts DEF TypeInv
  <2>1. CASE ReadDraft
    <3>1. job'.pc \notin Inserted /\ (job.pc # "idle")
      BY ZenonT(60), <2>0, <2>1, <1>t DEF ReadDraft, Inserted, TypeInv, TypeOK, Job
    <3> QED BY <2>1, <3>1, <1>same DEF ReadDraft, HistoryInv
  <2>2. ASSUME CheckProxy \/ CheckLb \/ CheckTunnel PROVE HistoryInv'
    <3>1. job'.pc \notin Inserted /\ job.pc # "idle"
      BY ZenonT(60), <2>2, <1>t DEF CheckProxy, CheckLb, CheckTunnel, Goto, Inserted, TypeInv, TypeOK, Job
    <3> QED BY <2>2, <3>1, <1>same DEF CheckProxy, CheckLb, CheckTunnel, HistoryInv
  <2>3. CASE InsertDraft
    <3>1. rows' = Append(rows, NewRow("draft")) /\ job'.snap = job.snap /\ rec'.pc # "run"
      BY <2>3, <1>t DEF InsertDraft, Goto, TypeInv, TypeOK, Job, HistoryInv
    <3> QED BY <3>1, <1>t, HistoryAppend DEF HistoryInv
  <2>4. ASSUME NEW e \in Engine, EnsureEngine(e) PROVE HistoryInv'
    BY <2>4, <1>t DEF EnsureEngine, HistoryInv
  <2>5. ASSUME NEW r \in {"refused", "unavailable"}, ValidateFails(r) PROVE HistoryInv'
    <3>1. job'.pc = "idle"
      BY <2>0, <2>5 DEF ValidateFails
    <3>2. CASE rows' = rows
      BY <3>1, <3>2, <1>same DEF Inserted
    <3>3. CASE rows' = Append(rows, NewRow("failed"))
      BY <3>1, <3>3, <1>t, HistoryAppend DEF HistoryInv, Inserted
    <3> QED BY <2>5, <3>2, <3>3 DEF ValidateFails
  <2>6. ASSUME SwapStep PROVE HistoryInv'
    <3>1. /\ rows' = rows /\ rec' = rec
          /\ job.pc \in Inserted /\ job'.pc \in Inserted /\ job'.snap = job.snap
      BY <2>6, <1>t, SwapFacts
    <3> QED BY <3>1, <1>same DEF HistoryInv, Inserted
  <2>7. ASSUME NEW r \in Replies, UndoStep(r) PROVE HistoryInv'
    <3>1. job.pc = "undo" /\ job'.pc = job.pc /\ job'.snap = job.snap /\ rows' = rows /\ rec' = rec
      BY <2>7, <1>t DEF UndoStep, TypeInv, TypeOK, Job
    <3> QED BY <3>1, <1>same DEF HistoryInv
  <2>8. CASE RecordFailure
    <3>1. Len(rows) > 0 /\ rows[Len(rows)].status = "draft" /\ job'.pc = "idle"
      BY <2>0, <2>8 DEF RecordFailure, HistoryInv, Inserted
    <3>2. /\ Len(rows') = Len(rows)
          /\ \A i \in 1..Len(rows) : i # Len(rows) => rows'[i] = rows[i]
          /\ rows'[Len(rows)].status \in {"failed", "rolled_back"}
      BY SMTT(60), <2>8, <3>1, <1>n, <1>t, RowFacts DEF RecordFailure, TypeInv, TypeOK, Row
    <3> QED BY SMTT(60), <3>1, <3>2, <1>n, <1>t DEF HistoryInv, Inserted
  <2>9. CASE Promote
    <3>1. Len(rows) > 0 /\ rows[Len(rows)].status = "draft" /\ job'.pc = "idle"
      BY <2>0, <2>9 DEF Promote, HistoryInv, Inserted
    <3>2. /\ Len(rows') = Len(rows)
          /\ rows'[Len(rows)].status = "live"
          /\ \A i \in 1..Len(rows) : i # Len(rows) =>
               rows'[i].status = IF rows[i].status = "live" THEN "superseded" ELSE rows[i].status
      <4>1. rows' = [ i \in 1..Len(rows) |->
                   IF i = Len(rows) THEN [rows[i] EXCEPT !.status = "live"]
                   ELSE IF i \in LiveRows THEN [rows[i] EXCEPT !.status = "superseded"]
                   ELSE rows[i] ]
        BY <2>9 DEF Promote
      <4>2. Len(rows') = Len(rows)
        BY <4>1, <1>n, <1>t DEF TypeInv, TypeOK
      <4>3. \A i \in 1..Len(rows), st \in Statuses : [rows[i] EXCEPT !.status = st].status = st
        BY <1>t, RowFacts DEF TypeInv, TypeOK, Row
      <4> QED BY <3>1, <4>1, <4>2, <4>3, <1>n DEF LiveRows, Statuses
    <3> QED BY <3>1, <3>2, <1>n, <1>t DEF HistoryInv, Inserted
  <2> QED BY <1>2, <2>1, <2>2, <2>3, <2>4, <2>5, <2>6, <2>7, <2>8, <2>9 DEF JobStep, SwapStep
<1>3. CASE Reconcile
  <2>1. rows' = rows /\ job' = job /\ (job.pc # "idle" => rec'.pc # "run")
    <3>1. CASE ReconcileStatus
      BY <3>1, <1>t DEF ReconcileStatus, TypeInv, TypeOK, Rec
    <3>2. CASE ReconcileLock
      BY <3>2, <1>i, <1>t DEF ReconcileLock, Unlocked
    <3>3. ASSUME NEW r, ReconcileCall(r) PROVE <2>1
      BY <3>3 DEF ReconcileCall, HistoryInv
    <3>4. CASE ReconcileContainer
      BY <3>4 DEF ReconcileContainer, HistoryInv
    <3> QED BY SMTT(60), <1>3, <3>1, <3>2, <3>3, <3>4 DEF Reconcile
  <2> QED BY <2>1, <1>same
<1>4. ASSUME NEW s \in Snapshots, Edit(s) PROVE HistoryInv'
  BY <1>4, <1>t DEF Edit, HistoryInv
<1>5. CASE Discard
  BY <1>5, <1>t DEF Discard, HistoryInv
<1>6. CASE AdminAction
  BY <1>6, <1>t DEF AdminAction, AdminStart, AdminStop, HistoryInv
<1>7. ASSUME NEW e \in Engine, EngineExits(e) \/ EngineReturns(e) \/ AgentRestarts(e)
      PROVE  HistoryInv'
  BY <1>7, <1>t DEF EngineExits, EngineReturns, AgentRestarts, HistoryInv
<1>8. CASE Crash
  <2>1. job'.pc = "idle" /\ rows' = rows
    BY <1>8, <1>t, EndFacts DEF Crash, TypeInv
  <2> QED BY <2>1, <1>same DEF Inserted
<1>9. CASE UNCHANGED vars
  BY <1>9, <1>t DEF vars, HistoryInv
<1> QED BY <1>1, <1>2, <1>3, <1>4, <1>5, <1>6, <1>7, <1>8, <1>9 DEF Next, Environment

\* Spec => []History: however applies, rollbacks, discards and crashes of the
\* relay app follow each other, one version at most is live and every superseded
\* one is older than it.
THEOREM HistoryHolds == Spec => []History
<1>1. HistoryInv => History
  <2> SUFFICES ASSUME HistoryInv PROVE History
    OBVIOUS
  <2>1. LiveRows = {} \/ \E x : LiveRows = {x}
    <3>1. \A i, j \in LiveRows : i = j
      BY DEF HistoryInv, LiveRows
    <3> QED BY <3>1
  <2>2. Cardinality(LiveRows) \in {0, 1}
    <3>1. CASE LiveRows = {}
      BY <3>1, FS_EmptySet
    <3>2. ASSUME NEW x, LiveRows = {x} PROVE Cardinality(LiveRows) = 1
      BY <3>2, FS_Singleton
    <3> QED BY <2>1, <3>1, <3>2
  <2> QED BY <2>2 DEF History, HistoryInv, LiveRows
<1> QED BY HistoryInit, HistoryNext, <1>1, PTL DEF Spec

-----------------------------------------------------------------------------
(* The container of the live proxy engine *)

\* The reconcile in progress holds applyMu, so the live version is the one its
\* corrections were made for.
ContainerInv ==
    /\ HistoryInv
    /\ rec.pc = "run" =>
         /\ Live # 0
         /\ \A i \in 1..Len(rec.todo) :
              rec.todo[i].do = "ctrStop" => rec.todo[i].to # rows[Live].snap.pe

\* An apply's steps are taken under applyMu; they start containers and stop none.
LEMMA JobStepFacts ==
  ASSUME TypeInv, JobStep
  PROVE  job.pc # "idle" /\ rec' = rec /\ \A e \in Engine : up[e] => up'[e]
<1>1. ASSUME NEW e \in Engine, EnsureEngine(e)
      PROVE  job.pc # "idle" /\ rec' = rec /\ \A x \in Engine : up[x] => up'[x]
  <2>1. job.pc # "idle"
    BY <1>1 DEF EnsureEngine, Needed
  <2> QED BY <1>1, <2>1, BringFacts DEF EnsureEngine, TypeInv
<1>2. ASSUME SwapStep PROVE job.pc # "idle" /\ rec' = rec /\ up' = up
  <2>1. job.pc \in Inserted /\ rec' = rec /\ up' = up
    BY SMTT(60), <1>2, SwapFacts
  <2> QED BY <2>1 DEF Inserted
<1>3. ASSUME \/ ReadDraft \/ CheckProxy \/ CheckLb \/ CheckTunnel \/ InsertDraft
             \/ \E r \in {"refused", "unavailable"} : ValidateFails(r)
             \/ Promote \/ RecordFailure \/ \E r \in Replies : UndoStep(r)
      PROVE  job.pc # "idle" /\ rec' = rec /\ up' = up
  BY <1>3 DEF ReadDraft, CheckProxy, CheckLb, CheckTunnel, InsertDraft, ValidateFails,
              Promote, RecordFailure, UndoStep, Needed
<1> QED BY <1>1, <1>2, <1>3 DEF JobStep, SwapStep

\* There is no reconciliation at first.
LEMMA ContainerInit == Init => ContainerInv
<1> SUFFICES ASSUME Init PROVE ContainerInv
  OBVIOUS
<1>1. rec.pc = "idle"
  BY DEF Init, NoRec
<1> QED BY <1>1, HistoryInit DEF ContainerInv

\* Every step keeps what is said of the containers.
LEMMA ContainerNext == ContainerInv /\ [Next]_vars => ContainerInv'
<1> SUFFICES ASSUME ContainerInv, [Next]_vars PROVE ContainerInv'
  OBVIOUS
<1>t. HistoryInv /\ TypeInv /\ HistoryInv'
  BY HistoryNext DEF ContainerInv, HistoryInv
<1>l. rows' = rows => Live' = Live
  BY DEF Live, LiveRows
<1>same. ASSUME rows' = rows, rec' = rec PROVE ContainerInv'
  BY <1>same, <1>t, <1>l DEF ContainerInv
<1>idle. ASSUME rec'.pc # "run" PROVE ContainerInv'
  BY <1>idle, <1>t DEF ContainerInv
<1>i. NoRec.pc = "idle"
  BY DEF NoRec
<1>1. CASE Begin
  BY <1>1, <1>idle DEF Begin, ApplyBegin, RollbackBegin, Unlocked
<1>2. CASE JobStep
  BY <1>2, <1>t, <1>idle, JobStepFacts DEF HistoryInv
<1>3. CASE ReconcileStatus
  <2>1. rec'.pc = "lock"
    BY <1>3, <1>t DEF ReconcileStatus, TypeInv, TypeOK, Rec
  <2> QED BY <2>1, <1>idle
<1>4. CASE ReconcileLock
  <2>1. \/ rec' = NoRec
        \/ Live # 0 /\ rec' = [NoRec EXCEPT !.pc = "run", !.todo = Corrections(rec.seen)]
    BY <1>4 DEF ReconcileLock
  <2>2. rec.seen \in [Engine -> Status]
    BY <1>t DEF TypeInv, TypeOK, Rec
  <2>3. ASSUME Live # 0, rec' = [NoRec EXCEPT !.pc = "run", !.todo = Corrections(rec.seen)]
        PROVE  /\ \A i \in 1..Len(rec'.todo) :
                    rec'.todo[i].do = "ctrStop" => rec'.todo[i].to # rows[Live].snap.pe
    <3>1. rec'.todo = Corrections(rec.seen)
      BY <2>3 DEF NoRec
    <3> QED BY <3>1, <2>2, <2>3, <1>t, CorrectionsFacts DEF TypeInv
  <2> QED BY ZenonT(60), <1>4, <1>i, <1>l, <1>t, <1>idle, <2>1, <2>3 DEF ReconcileLock, ContainerInv
<1>5. ASSUME ReconcileContainer \/ \E r \in {"ok", "unavailable"} : ReconcileCall(r)
      PROVE  ContainerInv'
  <2>1. rec.pc = "run" /\ rows' = rows /\ (rec' = NoRec \/ rec'.todo = Tail(rec.todo))
    BY <1>5, <1>t DEF ReconcileContainer, ReconcileCall, NextCall, TypeInv, TypeOK, Rec
  <2>2. rec.todo \in Seq(AgentCall \cup ContainerCall) /\ rec.todo # <<>>
    BY <1>t, <2>1 DEF TypeInv
  <2>3. /\ Len(Tail(rec.todo)) = Len(rec.todo) - 1 /\ Len(rec.todo) \in Nat
        /\ \A i \in 1..Len(Tail(rec.todo)) : Tail(rec.todo)[i] = rec.todo[i + 1]
    BY <2>2
  <2>4. rec'.todo = Tail(rec.todo) => \A i \in 1..Len(rec'.todo) :
           rec'.todo[i].do = "ctrStop" => rec'.todo[i].to # rows[Live].snap.pe
    BY <2>1, <2>3 DEF ContainerInv
  <2> QED BY <1>i, <1>l, <1>t, <1>idle, <2>1, <2>4 DEF ContainerInv
<1>6. ASSUME \E s \in Snapshots : Edit(s) PROVE ContainerInv'
  BY <1>6, <1>same DEF Edit
<1>7. CASE Discard
  BY <1>7, <1>same DEF Discard
<1>8. CASE AdminAction
  BY <1>8, <1>same DEF AdminAction, AdminStart, AdminStop
<1>9. ASSUME NEW e \in Engine, EngineExits(e) \/ EngineReturns(e) \/ AgentRestarts(e)
      PROVE  ContainerInv'
  BY <1>9, <1>same DEF EngineExits, EngineReturns, AgentRestarts
<1>10. CASE Crash
  BY <1>10, <1>i, <1>idle DEF Crash
<1>11. CASE UNCHANGED vars
  BY <1>11, <1>same DEF vars
<1> QED
  BY <1>1, <1>2, <1>3, <1>4, <1>5, <1>6, <1>7, <1>8, <1>9, <1>10, <1>11
     DEF Next, Reconcile, Environment

\* Spec => ProxyContainerStays: no step of the relay app stops the container of
\* the proxy engine the live version uses, however old the status a reconcile
\* acts on.
THEOREM ContainerStays == Spec => ProxyContainerStays
<1>1. ASSUME ContainerInv, [Next]_vars
      PROVE  Live # 0 /\ up[rows[Live].snap.pe] => up'[rows[Live].snap.pe]
  <2> SUFFICES ASSUME Live # 0, up[rows[Live].snap.pe] PROVE up'[rows[Live].snap.pe]
    OBVIOUS
  <2> DEFINE pe == rows[Live].snap.pe
  <2>t. TypeInv /\ pe \in Proxies /\ pe \in Engine /\ up \in [Engine -> BOOLEAN]
    BY <1>1, LiveFacts DEF ContainerInv, HistoryInv, TypeInv, TypeOK, Snapshot, Engine
  <2>same. up' = up => up'[pe]
    OBVIOUS
  <2>1. CASE JobStep
    BY <2>1, <2>t, JobStepFacts
  <2>2. CASE ReconcileContainer
    <3> DEFINE c == Head(rec.todo)
    <3>1. rec.todo \in Seq(AgentCall \cup ContainerCall) /\ rec.todo # <<>> /\ rec.pc = "run"
      BY <2>2, <2>t DEF ReconcileContainer, TypeInv
    <3>2. c = rec.todo[1] /\ 1 \in 1..Len(rec.todo) /\ c.to \in Engine
      BY <3>1 DEF AgentCall, ContainerCall, Calls
    <3>3. c.do = "ctrStop" => c.to # pe
      BY <1>1, <3>1, <3>2 DEF ContainerInv
    <3>4. \/ Bring(c.to)
          \/ c.do = "ctrStop" /\ up' = [up EXCEPT ![c.to] = FALSE]
          \/ up' = up
      BY <2>2 DEF ReconcileContainer
    <3> QED BY <3>2, <3>3, <3>4, <2>t, BringFacts DEF TypeInv
  <2>3. ASSUME NEW e \in Managed, AdminStart(e) \/ AdminStop(e) PROVE up'[pe]
    <3>1. e \in Engine
      BY PipelineAssumption
    <3>2. up' = up \/ up' = [up EXCEPT ![e] = TRUE]
          \/ ((e \notin Proxies \/ e # OldProxy(Live)) /\ up' = [up EXCEPT ![e] = FALSE])
      BY SMTT(60), <2>3 DEF AdminStart, AdminStop
    <3> QED BY <3>1, <3>2, <2>t DEF OldProxy
  <2>4. ASSUME \/ Begin \/ Discard \/ Crash \/ ReconcileStatus \/ ReconcileLock
               \/ \E r \in {"ok", "unavailable"} : ReconcileCall(r)
               \/ \E s \in Snapshots : Edit(s)
               \/ \E e \in Engine : EngineExits(e) \/ EngineReturns(e) \/ AgentRestarts(e)
               \/ UNCHANGED vars
        PROVE  up' = up
    BY <2>4 DEF Begin, ApplyBegin, RollbackBegin, Discard, Crash, ReconcileStatus,
                ReconcileLock, ReconcileCall, Edit, EngineExits, EngineReturns, AgentRestarts, vars
  <2> QED BY <1>1, <2>same, <2>1, <2>2, <2>3, <2>4 DEF Next, Reconcile, AdminAction, Environment
<1> QED BY ContainerInit, ContainerNext, <1>1, PTL DEF Spec, ProxyContainerStays

-----------------------------------------------------------------------------
(* What a version that goes live is promoted on *)

SeenLb     == {"tunnel", "insert", "lbStop", "lbApply"}
SeenTunnel == {"insert", "lbStop", "lbApply", "stop", "apply", "follow"}
DoneLb     == {"stop", "apply", "follow", "health", "promote"}
DoneProxy  == {"follow", "health", "promote"}
DoneTunnel == {"health", "promote"}

\* Under applyMu only the apply changes what an agent has active, so the statuses
\* read before the swap hold until it uses them, and what it installed stays.
PromotedInv ==
    /\ HistoryInv
    /\ job.pc = "lbStop" => LbSwitching
    /\ job.pc \in SeenLb /\ job.lbSeen.reach => Has(job.snap.le, job.lbSeen.hash)
    /\ job.pc \in SeenTunnel /\ job.tunSeen.reach => Has("tunnel", job.tunSeen.hash)
    /\ job.pc \in DoneLb /\ job.snap.run => Has(job.snap.le, job.snap.lh)
    /\ job.pc \in DoneProxy => Has(job.snap.pe, job.snap.ph)
    /\ job.pc \in DoneTunnel /\ job.snap.tun => Has("tunnel", job.snap.th)

Seens == SeenLb \cup SeenTunnel \cup DoneLb \cup DoneProxy \cup DoneTunnel

\* Nothing has been promoted at first.
LEMMA PromotedInit == Init => PromotedInv
<1> SUFFICES ASSUME Init PROVE PromotedInv
  OBVIOUS
<1>1. job.pc = "idle"
  BY DEF Init, NoJob
<1> QED BY <1>1, HistoryInit DEF PromotedInv, SeenLb, SeenTunnel, DoneLb, DoneProxy, DoneTunnel

\* A step that leaves the apply and the active releases alone.
LEMMA PromotedKept ==
  ASSUME PromotedInv, HistoryInv', job' = job, rows' = rows,
         \A e \in Engine : ag'[e].store.current = ag[e].store.current
  PROVE  PromotedInv'
<1>1. job.snap.pe \in Engine /\ job.snap.le \in Engine /\ "tunnel" \in Engine
  BY DEF PromotedInv, HistoryInv, TypeInv, TypeOK, Job, Snapshot, Engine
<1> QED BY <1>1 DEF PromotedInv, Has, LbSwitching, OldLb

\* A step after which nothing is under way, or the version has been given up.
LEMMA PromotedOver ==
  ASSUME HistoryInv', job'.pc \notin Seens PROVE PromotedInv'
BY DEF PromotedInv, Seens, SeenLb, SeenTunnel, DoneLb, DoneProxy, DoneTunnel

\* The steps of the swap.
LEMMA PromotedSwap ==
  ASSUME PromotedInv, HistoryInv', SwapStep
  PROVE  PromotedInv'
<1>t. TypeInv /\ TypeOK /\ job \in Job /\ job.snap \in Snapshot
  BY DEF PromotedInv, HistoryInv, TypeInv, TypeOK, Job
<1>s. /\ job.snap.pe \in Proxies /\ job.snap.le \in Balancers
      /\ job.snap.ph \in Hash /\ job.snap.lh \in Hash /\ job.snap.th \in Hash
      /\ job.snap.run \in BOOLEAN /\ job.snap.tun \in BOOLEAN
      /\ Proxies \subseteq Engine /\ Balancers \subseteq Engine /\ "tunnel" \in Engine
      /\ Proxies \cap Balancers = {} /\ "tunnel" \notin Proxies \cup Balancers
  BY <1>t DEF Snapshot, Engine, Proxies, Balancers
<1>o. OldProxy(job.live) \in Proxies /\ OldLb(job.live) \in Balancers
      /\ (job.live # 0 => rows[job.live].snap.ph \in Hash /\ rows[job.live].snap.lh \in Hash)
  BY <1>t, RowFacts DEF TypeInv, TypeOK, OldProxy, OldLb, Snapshot, Proxies, Balancers
<1>d. job.did \in SUBSET Marks
  BY <1>t DEF Job
<1>u. \A did \in SUBSET Marks : FailWith(did) => PromotedInv'
  <2> SUFFICES ASSUME NEW did \in SUBSET Marks, FailWith(did) PROVE PromotedInv'
    OBVIOUS
  <2>1. job'.pc = "undo"
    BY <1>t, FailFacts
  <2> QED BY <2>1, PromotedOver DEF Seens, SeenLb, SeenTunnel, DoneLb, DoneProxy, DoneTunnel
<1>a. \A pc \in JobSteps, did \in SUBSET Marks : Advance(pc, did) =>
        /\ job'.pc = pc /\ job'.snap = job.snap
        /\ job'.lbSeen = job.lbSeen /\ job'.tunSeen = job.tunSeen
  BY <1>t, AdvanceFacts
<1>g. \A pc \in JobSteps : Goto(pc) =>
        /\ job'.pc = pc /\ job'.snap = job.snap
        /\ job'.lbSeen = job.lbSeen /\ job'.tunSeen = job.tunSeen
  BY <1>t, GotoFacts
<1>l. {"lbApply", "stop", "apply", "follow", "health", "promote", AfterLb} \subseteq JobSteps
  BY DEF JobSteps, AfterLb
<1>b. AfterLb \in {"stop", "apply"}
  BY DEF AfterLb
<1> USE DEF SeenLb, SeenTunnel, DoneLb, DoneProxy, DoneTunnel, Has
<1>1. ASSUME NEW r \in {"ok", "unavailable"}, StopOldLb(r) PROVE PromotedInv'
  <2> DEFINE stop == IF job.live = 0 THEN Call("stopOnly", OldLb(job.live), None)
                     ELSE Call("applyStop", OldLb(job.live), rows[job.live].snap.lh)
  <2>1. stop \in AgentCall /\ stop.to = OldLb(job.live) /\ r \in Replies
    BY <1>o, <1>s, InstallFacts DEF Replies, Call
  <2>2. job.pc = "lbStop" /\ Send(stop, r)
    BY <1>1 DEF StopOldLb
  <2>3. \A e \in Engine : e # OldLb(job.live) => ag'[e] = ag[e]
    BY <2>1, <2>2, <1>t, SendFacts
  <2>4. /\ job'.pc = "lbApply" /\ job'.snap = job.snap
        /\ job'.lbSeen = job.lbSeen /\ job'.tunSeen = job.tunSeen
    BY <1>1, <1>a, <1>l DEF StopOldLb, Marks
  <2>5. ag'[job.snap.le] = ag[job.snap.le] /\ ag'["tunnel"] = ag["tunnel"]
    BY <2>2, <2>3, <1>s, <1>o DEF PromotedInv, LbSwitching
  <2> QED BY <2>2, <2>4, <2>5 DEF PromotedInv
<1>2. ASSUME NEW r \in {"ok", "unavailable"}, StopOldProxy(r) PROVE PromotedInv'
  <2> DEFINE stop == IF job.live = 0 THEN Call("stopOnly", OldProxy(job.live), None)
                     ELSE Call("applyStop", OldProxy(job.live), rows[job.live].snap.ph)
  <2>1. stop \in AgentCall /\ stop.to = OldProxy(job.live) /\ r \in Replies
    BY <1>o, <1>s, InstallFacts DEF Replies, Call
  <2>2. job.pc = "stop" /\ Send(stop, r)
    BY <1>2 DEF StopOldProxy
  <2>3. \A e \in Engine : e # OldProxy(job.live) => ag'[e] = ag[e]
    BY <2>1, <2>2, <1>t, SendFacts
  <2>4. /\ job'.pc = "apply" /\ job'.snap = job.snap
        /\ job'.lbSeen = job.lbSeen /\ job'.tunSeen = job.tunSeen
    BY <1>2, <1>a, <1>d, <1>l DEF StopOldProxy, Marks
  <2>5. ag'[job.snap.le] = ag[job.snap.le] /\ ag'["tunnel"] = ag["tunnel"]
    BY <2>3, <1>s, <1>o
  <2> QED BY <2>2, <2>4, <2>5 DEF PromotedInv
<1>3. ASSUME NEW r \in Replies, ApplyLb(r) PROVE PromotedInv'
  <2> DEFINE c == Install(job.snap.le, job.snap.lh, job.snap.run)
  <2>1. /\ c \in AgentCall /\ c.do \in {"apply", "applyStop"}
        /\ c.to = job.snap.le /\ c.hash = job.snap.lh
    BY <1>s, InstallFacts
  <2>2. job.pc = "lbApply" /\ Send(c, r)
    BY <1>3 DEF ApplyLb
  <2> HIDE DEF c
  <2>3. /\ \A e \in Engine : e # job.snap.le => ag'[e] = ag[e]
        /\ r = "ok" => ag'[job.snap.le].store.current = job.snap.lh
    BY <2>1, <2>2, <1>t, SendFacts
  <2>4. CASE r = "ok"
    <3>1. job.did \cup {"lbStart"} \in SUBSET Marks /\ job.did \cup {"lbChange"} \in SUBSET Marks
      BY <1>d DEF Marks
    <3>2. \E did \in SUBSET Marks : Advance(AfterLb, did)
      BY <1>3, <2>4, <3>1 DEF ApplyLb
    <3>3. /\ job'.pc \in {"stop", "apply"} /\ job'.snap = job.snap
          /\ job'.tunSeen = job.tunSeen
      BY <3>2, <1>a, <1>b, <1>l
    <3>4. ag'["tunnel"] = ag["tunnel"]
      BY <2>3, <1>s
    <3> QED BY <2>2, <2>3, <2>4, <3>3, <3>4 DEF PromotedInv
  <2>5. CASE r # "ok"
    <3>1. job.did \cup {"lbStart"} \in SUBSET Marks
      BY <1>d DEF Marks
    <3>2. \E did \in SUBSET Marks : FailWith(did)
      BY <1>3, <1>d, <2>5, <3>1 DEF ApplyLb
    <3> QED BY <3>2, <1>u
  <2> QED BY <2>4, <2>5
<1>4. CASE PassLb
  <2>1. job.pc = "lbApply" /\ ~LbToDo /\ ag' = ag
    BY <1>4 DEF PassLb
  <2>2. CASE job.snap.run /\ ~job.lbSeen.reach
    BY <1>4, <1>d, <1>u, <2>2 DEF PassLb
  <2>3. CASE ~(job.snap.run /\ ~job.lbSeen.reach)
    <3>1. /\ job'.pc \in {"stop", "apply"} /\ job'.snap = job.snap
          /\ job'.tunSeen = job.tunSeen
      BY <1>4, <1>b, <1>g, <1>l, <2>3 DEF PassLb
    <3>2. job.snap.run => ag[job.snap.le].store.current = job.snap.lh
      BY <2>1, <2>3 DEF LbToDo, PromotedInv
    <3> QED BY <2>1, <3>1, <3>2 DEF PromotedInv
  <2> QED BY <2>2, <2>3
<1>5. ASSUME NEW r \in Replies, ApplyProxy(r) PROVE PromotedInv'
  <2> DEFINE c == Call("apply", job.snap.pe, job.snap.ph)
  <2>1. /\ c \in AgentCall /\ c.do \in {"apply", "applyStop"}
        /\ c.to = job.snap.pe /\ c.hash = job.snap.ph
    BY ZenonT(60), <1>s, InstallFacts DEF Call
  <2>2. job.pc = "apply" /\ Send(c, r)
    BY <1>5 DEF ApplyProxy
  <2> HIDE DEF c
  <2>3. /\ \A e \in Engine : e # job.snap.pe => ag'[e] = ag[e]
        /\ r = "ok" => ag'[job.snap.pe].store.current = job.snap.ph
    BY <2>1, <2>2, <1>t, SendFacts
  <2>4. CASE r = "ok"
    <3>1. job.did \cup {"swap"} \in SUBSET Marks
      BY <1>d DEF Marks
    <3>2. /\ job'.pc = "follow" /\ job'.snap = job.snap /\ job'.tunSeen = job.tunSeen
      BY <1>5, <1>a, <1>l, <2>4, <3>1 DEF ApplyProxy
    <3>3. ag'["tunnel"] = ag["tunnel"] /\ ag'[job.snap.le] = ag[job.snap.le]
      BY <2>3, <1>s
    <3> QED BY <2>2, <2>3, <2>4, <3>2, <3>3 DEF PromotedInv
  <2>5. CASE r # "ok"
    BY <1>5, <1>d, <1>u, <2>5 DEF ApplyProxy
  <2> QED BY <2>4, <2>5
<1>6. ASSUME NEW r \in Replies, ApplyTunnel(r) PROVE PromotedInv'
  <2> DEFINE c == Install("tunnel", job.snap.th, job.snap.tun)
  <2>1. /\ c \in AgentCall /\ c.do \in {"apply", "applyStop"}
        /\ c.to = "tunnel" /\ c.hash = job.snap.th
    BY <1>s, InstallFacts
  <2>2. job.pc = "follow" /\ Send(c, r)
    BY <1>6 DEF ApplyTunnel
  <2> HIDE DEF c
  <2>3. /\ \A e \in Engine : e # "tunnel" => ag'[e] = ag[e]
        /\ r = "ok" => ag'["tunnel"].store.current = job.snap.th
    BY <2>1, <2>2, <1>t, SendFacts
  <2>4. CASE r = "ok"
    <3>1. job.did \cup {"tunnel"} \in SUBSET Marks
      BY <1>d DEF Marks
    <3>2. job'.pc = "health" /\ job'.snap = job.snap
      BY <1>6, <1>a, <1>l, <2>4, <3>1 DEF ApplyTunnel
    <3>3. ag'[job.snap.pe] = ag[job.snap.pe] /\ ag'[job.snap.le] = ag[job.snap.le]
      BY <2>3, <1>s
    <3> QED BY <2>2, <2>3, <2>4, <3>2, <3>3 DEF PromotedInv
  <2>5. CASE r # "ok"
    BY <1>6, <1>d, <1>u, <2>5 DEF ApplyTunnel
  <2> QED BY <2>4, <2>5
<1>7. CASE PassTunnel
  <2>1. job.pc = "follow" /\ ~TunnelToDo /\ ag' = ag
    BY <1>7 DEF PassTunnel
  <2>2. CASE job.snap.tun /\ ~job.tunSeen.reach
    BY <1>7, <1>d, <1>u, <2>2 DEF PassTunnel
  <2>3. CASE ~(job.snap.tun /\ ~job.tunSeen.reach)
    <3>1. job'.pc = "health" /\ job'.snap = job.snap
      BY <1>7, <1>g, <1>l, <2>3 DEF PassTunnel
    <3>2. job.snap.tun => ag["tunnel"].store.current = job.snap.th
      BY <2>1, <2>3 DEF TunnelToDo, PromotedInv
    <3> QED BY <2>1, <3>1, <3>2 DEF PromotedInv
  <2> QED BY <2>2, <2>3
<1>8. CASE HealthPasses
  <2>1. job.pc = "health" /\ ag' = ag /\ job'.pc = "promote" /\ job'.snap = job.snap
    BY <1>8, <1>g, <1>l DEF HealthPasses
  <2> QED BY <2>1 DEF PromotedInv
<1>9. CASE HealthFails
  BY <1>9, <1>d, <1>u DEF HealthFails
<1> QED BY <1>1, <1>2, <1>3, <1>4, <1>5, <1>6, <1>7, <1>8, <1>9 DEF SwapStep

\* Every step keeps what is said of the promoted releases.
LEMMA PromotedNext == PromotedInv /\ [Next]_vars => PromotedInv'
<1> SUFFICES ASSUME PromotedInv, [Next]_vars PROVE PromotedInv'
  OBVIOUS
<1>t. HistoryInv /\ HistoryInv' /\ TypeInv /\ TypeOK /\ job \in Job /\ job.snap \in Snapshot
  BY HistoryNext DEF PromotedInv, HistoryInv, TypeInv, TypeOK, Job
<1>e. /\ job.snap.pe \in Engine /\ job.snap.le \in Engine /\ "tunnel" \in Engine
  BY <1>t DEF Snapshot, Engine
<1>i. {"idle", "read", "proxy", "lb", "undo"} \cap Seens = {}
  BY DEF Seens, SeenLb, SeenTunnel, DoneLb, DoneProxy, DoneTunnel
<1>1. CASE Begin
  <2>1. \/ job' = [NoJob(draft) EXCEPT !.pc = "read"]
        \/ job' = [NoJob(draft) EXCEPT !.pc = "read", !.force = TRUE]
    BY <1>1 DEF Begin, ApplyBegin, RollbackBegin
  <2>2. job'.pc = "read"
    BY <1>t, <2>1, BeginFacts DEF TypeOK
  <2> QED BY <2>2, <1>i, <1>t, PromotedOver
<1>2. CASE JobStep
  <2>0. ASSUME EndJob PROVE PromotedInv'
    BY <2>0, <1>i, <1>t, EndFacts, PromotedOver
  <2>1. CASE ReadDraft
    <3>1. CASE EndJob
      BY <3>1, <2>0
    <3>2. CASE job' = [job EXCEPT !.pc = "proxy", !.snap = draft, !.live = Live]
      <4>1. job'.pc = "proxy"
        BY <3>2, <1>t DEF Job
      <4> QED BY <4>1, <1>i, <1>t, PromotedOver
    <3> QED BY <2>1, <3>1, <3>2 DEF ReadDraft
  <2>2. CASE CheckProxy
    <3>1. job'.pc = "lb"
      BY <2>2, <1>t DEF CheckProxy, Goto, Job
    <3> QED BY <3>1, <1>i, <1>t, PromotedOver
  <2>3. CASE CheckLb
    <3>1. PICK st \in {Answered(job.snap.le), Unanswered} :
            /\ Asked(job.snap.le, st)
            /\ job' = [job EXCEPT !.lbSeen = st, !.pc = "tunnel"]
      BY <2>3 DEF CheckLb
    <3>2. st \in Status /\ (st.reach => st = Answered(job.snap.le))
      BY <3>1, <1>e, <1>t, AskFacts
    <3>3. job'.pc = "tunnel" /\ job'.snap = job.snap /\ job'.lbSeen = st /\ ag' = ag
      BY <2>3, <3>1, <1>t DEF CheckLb, Job
    <3>4. st.reach => st.hash = ag[job.snap.le].store.current
      BY <3>2 DEF Answered
    <3> QED BY <3>3, <3>4, <1>t
            DEF PromotedInv, SeenLb, SeenTunnel, DoneLb, DoneProxy, DoneTunnel, Has
  <2>4. CASE CheckTunnel
    <3>1. PICK st \in {Answered("tunnel"), Unanswered} :
            /\ Asked("tunnel", st)
            /\ job' = [job EXCEPT !.tunSeen = st, !.pc = "insert"]
      BY <2>4 DEF CheckTunnel
    <3>2. st \in Status /\ (st.reach => st = Answered("tunnel"))
      BY <3>1, <1>e, <1>t, AskFacts
    <3>3. /\ job.pc = "tunnel" /\ job'.pc = "insert" /\ job'.snap = job.snap /\ ag' = ag
          /\ job'.lbSeen = job.lbSeen /\ job'.tunSeen = st
      BY <2>4, <3>1, <1>t DEF CheckTunnel, Job
    <3>4. st.reach => st.hash = ag["tunnel"].store.current
      BY <3>2 DEF Answered
    <3> QED BY <3>3, <3>4, <1>t
            DEF PromotedInv, SeenLb, SeenTunnel, DoneLb, DoneProxy, DoneTunnel, Has
  <2>5. CASE InsertDraft
    <3>1. job.pc = "insert" /\ rows' = Append(rows, NewRow("draft")) /\ ag' = ag
      BY <2>5 DEF InsertDraft
    <3>2. /\ job'.pc = IF LbSwitching THEN "lbStop" ELSE "lbApply"
          /\ job'.snap = job.snap /\ job'.live = job.live
          /\ job'.lbSeen = job.lbSeen /\ job'.tunSeen = job.tunSeen
      BY <2>5, <1>t DEF InsertDraft, Goto, Job
    <3>3. OldLb(job.live)' = OldLb(job.live)
      <4>1. job.live \in 0..Len(rows) /\ \A i \in 1..Len(rows) : rows'[i] = rows[i]
        BY <3>1, <1>t, AppendRowFacts DEF TypeInv, Statuses
      <4> QED BY <3>2, <4>1, <1>t, RowFacts DEF OldLb, TypeOK
    <3>4. job'.pc = "lbStop" => LbSwitching'
      BY <3>2, <3>3 DEF LbSwitching
    <3> QED BY <3>1, <3>2, <3>4, <1>t
            DEF PromotedInv, SeenLb, SeenTunnel, DoneLb, DoneProxy, DoneTunnel, Has
  <2>6. ASSUME NEW e \in Engine, EnsureEngine(e) PROVE PromotedInv'
    BY <2>6, <1>t, BringFacts, PromotedKept DEF EnsureEngine
  <2>7. ASSUME NEW r \in {"refused", "unavailable"}, ValidateFails(r) PROVE PromotedInv'
    BY <2>7, <2>0 DEF ValidateFails
  <2>8. ASSUME SwapStep PROVE PromotedInv'
    BY <2>8, <1>t, PromotedSwap
  <2>9. ASSUME NEW r \in Replies, UndoStep(r) PROVE PromotedInv'
    <3>1. job'.pc = "undo"
      BY <2>9, <1>t DEF UndoStep, Job
    <3> QED BY <3>1, <1>i, <1>t, PromotedOver
  <2>10. CASE RecordFailure
    BY <2>10, <2>0 DEF RecordFailure
  <2>11. CASE Promote
    BY <2>11, <2>0 DEF Promote
  <2> QED BY <1>2, <2>1, <2>2, <2>3, <2>4, <2>5, <2>6, <2>7, <2>8, <2>9, <2>10, <2>11 DEF JobStep, SwapStep
<1>3. CASE Reconcile
  <2>1. CASE job.pc = "idle"
    <3>1. job' = job
      BY <1>3 DEF Reconcile, ReconcileStatus, ReconcileLock, ReconcileCall, ReconcileContainer
    <3> QED BY SMTT(60), <2>1, <3>1, <1>i, <1>t, PromotedOver
  <2>2. CASE job.pc # "idle"
    <3>1. rec.pc # "run"
      BY SMTT(60), <2>2, <1>t DEF HistoryInv
    <3>2. UNCHANGED <<job, rows, ag>>
      BY <1>3, <3>1 DEF Reconcile, ReconcileStatus, ReconcileLock, ReconcileCall, ReconcileContainer
    <3> QED BY <3>2, <1>t, PromotedKept
  <2> QED BY <2>1, <2>2
<1>4. ASSUME \E s \in Snapshots : Edit(s) PROVE PromotedInv'
  BY <1>4, <1>t, PromotedKept DEF Edit
<1>5. CASE Discard
  BY <1>5, <1>t, PromotedKept DEF Discard
<1>6. CASE AdminAction
  <2>1. job' = job /\ job.pc = "idle"
    BY <1>6 DEF AdminAction, AdminStart, AdminStop, Unlocked
  <2> QED BY <2>1, <1>i, <1>t, PromotedOver
<1>7. ASSUME NEW e \in Engine, EngineExits(e) \/ EngineReturns(e) \/ AgentRestarts(e)
      PROVE  PromotedInv'
  <2>1. ag[e] \in AgentState /\ ag \in [Engine -> AgentState]
    BY <1>t DEF TypeOK
  <2>2. \A x \in Engine : ag'[x].store = ag[x].store
    BY <1>7, <2>1, AgentShapes DEF EngineExits, EngineReturns, AgentRestarts, AgentState
  <2>3. job' = job /\ rows' = rows
    BY <1>7 DEF EngineExits, EngineReturns, AgentRestarts
  <2> QED BY <2>2, <2>3, <1>t, PromotedKept
<1>8. CASE Crash
  BY <1>8, <1>i, <1>t, EndFacts, PromotedOver DEF Crash
<1>9. CASE UNCHANGED vars
  BY <1>9, <1>t, PromotedKept DEF vars
<1> QED BY <1>1, <1>2, <1>3, <1>4, <1>5, <1>6, <1>7, <1>8, <1>9 DEF Next, Environment

\* What becomes of the table of versions in a step.
LEMMA RowsChange ==
  ASSUME HistoryInv, [Next]_vars
  PROVE  \/ Promote \/ RecordFailure \/ rows' = rows
         \/ \E st \in Statuses : rows' = Append(rows, NewRow(st))
<1>t. TypeInv
  BY DEF HistoryInv
<1>1. ASSUME SwapStep PROVE rows' = rows
  BY <1>1, <1>t, SwapFacts
<1>2. InsertDraft => \E st \in Statuses : rows' = Append(rows, NewRow(st))
  BY DEF InsertDraft, Statuses
<1>3. ASSUME \E r \in {"refused", "unavailable"} : ValidateFails(r)
      PROVE  rows' = rows \/ \E st \in Statuses : rows' = Append(rows, NewRow(st))
  <2>1. rows' = rows \/ rows' = Append(rows, NewRow("failed"))
    BY ZenonT(60), <1>3 DEF ValidateFails
  <2> QED BY <2>1 DEF Statuses
<1>4. ASSUME \/ ReadDraft \/ CheckProxy \/ CheckLb \/ CheckTunnel
             \/ \E e \in Engine : EnsureEngine(e)
             \/ \E r \in Replies : UndoStep(r)
             \/ Begin \/ Discard \/ Reconcile \/ AdminAction \/ Environment
             \/ \E s \in Snapshots : Edit(s)
             \/ UNCHANGED vars
      PROVE  rows' = rows
  BY ZenonT(60), <1>4 DEF ReadDraft, CheckProxy, CheckLb, CheckTunnel, EnsureEngine, UndoStep, Begin,
              ApplyBegin, RollbackBegin, Discard, Reconcile, ReconcileStatus,
              ReconcileLock, ReconcileCall, ReconcileContainer, AdminAction, AdminStart,
              AdminStop, Environment, EngineExits, EngineReturns, AgentRestarts, Crash,
              Edit, vars
<1> QED BY <1>1, <1>2, <1>3, <1>4, Zenon DEF Next, JobStep, SwapStep

\* Spec => PromotedIsActive: a version is recorded as live only when each engine
\* it needs has its release active, although their statuses were read before the
\* swap and answers are lost, engines exit and containers restart meanwhile.
THEOREM PromotionIsSound == Spec => PromotedIsActive
<1> DEFINE Sound(i) ==
      LET s == rows[i].snap
      IN  /\ Has(s.pe, s.ph)
          /\ s.run => Has(s.le, s.lh)
          /\ s.tun => Has("tunnel", s.th)
<1>1. ASSUME PromotedInv, [Next]_vars
      PROVE  \A i \in 1..Len(rows) : rows[i].status # "live" /\ rows'[i].status = "live" => Sound(i)
  <2> SUFFICES ASSUME NEW i \in 1..Len(rows), rows[i].status # "live", rows'[i].status = "live"
               PROVE  Sound(i)
    OBVIOUS
  <2>t. HistoryInv /\ TypeInv /\ TypeOK /\ Len(rows) \in Nat
    BY <1>1, RowFacts DEF PromotedInv, HistoryInv, TypeInv, TypeOK
  <2>1. CASE Promote
    <3>1. job.pc = "promote" /\ rows[Len(rows)].snap = job.snap
      BY <2>1, <2>t DEF Promote, HistoryInv, Inserted
    <3>2. i = Len(rows)
      <4>1. i # Len(rows) => rows'[i] = IF i \in LiveRows THEN [rows[i] EXCEPT !.status = "superseded"]
                                        ELSE rows[i]
        BY <2>1 DEF Promote
      <4>2. i \notin LiveRows
        BY DEF LiveRows
      <4> QED BY <4>1, <4>2
    <3> QED BY <1>1, <3>1, <3>2 DEF PromotedInv, DoneLb, DoneProxy, DoneTunnel
  <2>2. ASSUME ~Promote PROVE rows'[i].status # "live"
    <3>1. CASE rows' = rows
      BY <3>1
    <3>2. ASSUME NEW st \in Statuses, rows' = Append(rows, NewRow(st)) PROVE rows'[i] = rows[i]
      BY <3>2, <2>t, AppendRowFacts
    <3>3. CASE RecordFailure
      <4>1. rows[i] \in Row
        BY <2>t, RowFacts DEF TypeOK
      <4>2. rows'[i].status \in {rows[i].status, "failed", "rolled_back"}
        BY <3>3, <4>1, <2>t DEF RecordFailure, TypeOK, Row
      <4> QED BY <4>2
    <3>4. \/ RecordFailure \/ rows' = rows
          \/ \E st \in Statuses : rows' = Append(rows, NewRow(st))
      BY <1>1, <2>2, <2>t, RowsChange
    <3> QED BY <3>1, <3>2, <3>3, <3>4
  <2> QED BY <2>1, <2>2
<1> QED BY PromotedInit, PromotedNext, <1>1, PTL DEF Spec, PromotedIsActive

-----------------------------------------------------------------------------
(* Which engines are asleep *)

\* An engine that is down and stays down until someone asks its agent for it: no
\* supervisor restarts it, and its container boots without it.
Asleep(a) == a.proc = None /\ ~a.want /\ (a.store.current = None \/ a.store.stopped)

Down(agents, X) == \A e \in X : Asleep(agents[e])

\* the requests that may leave an engine running
Wakes(c) == c.do \notin {"applyStop", "stopOnly"}

\* What of a store tells whether its engine boots.
LEMMA StoppedStore ==
  ASSUME NEW s \in Store, NEW h \in Hash, NEW on \in BOOLEAN
  PROVE  /\ Applied(s, h, on).stopped = on
         /\ Undone(s, h).current = s.current
         /\ Marked(s, on).stopped = on /\ Marked(s, on).current = s.current
<1> h \in Release /\ s.current \in Release \cup {None}
  BY DEF Release, Store
<1>1. Activated(s, h) \in Store
  BY StoreOperations DEF Activated
<1>2. /\ Marked(Activated(s, h), on) \in Store /\ Marked(Activated(s, h), on).stopped = on
  BY <1>1, MarkedStore DEF Marked, Store
<1>3. /\ Pruned(Marked(Activated(s, h), on)) \in Store
      /\ Pruned(Marked(Activated(s, h), on)).stopped = on
  BY <1>2, StoreOperations DEF Pruned, Store
<1>4. Applied(s, h, on).stopped = on
  BY <1>3 DEF Applied, Trimmed, Store
<1>5. Swapped(Activated(s, h), s.current) \in Store
      /\ Swapped(Activated(s, h), s.current).current = s.current
  BY <1>1, StoreOperations DEF Swapped, Store
<1>6. Undone(s, h).current = s.current
  BY <1>5 DEF Undone, Unrecorded, Store
<1> QED BY <1>4, <1>6 DEF Marked, Store

\* An engine asleep: a request to stop puts every engine to sleep, and neither a
\* refused request nor a restart of its container wakes it.
LEMMA SleepFacts ==
  ASSUME NEW a \in AgentState, NEW ao \in BOOLEAN
  PROVE  /\ \A c \in AgentCall : ~Wakes(c) => Asleep(Done(a, c.do, c.hash, ao))
         /\ Asleep(a) => /\ \A c \in AgentCall : \A b \in Refusals(a, c.do, c.hash, ao) : Asleep(b)
                         /\ Asleep(Booted(a)) /\ Asleep(Done(a, "stop", None, ao))
<1> a.store \in Store /\ Marked(a.store, TRUE).stopped
  BY StoppedStore, MarkedStore DEF AgentState, Marked, Store
<1>h. \A s : Asleep(Halted(s)) <=> (s.current = None \/ s.stopped)
  BY DEF Asleep, Halted
<1>1. ASSUME NEW c \in AgentCall, ~Wakes(c) PROVE Asleep(Done(a, c.do, c.hash, ao))
  <2>1. CASE c.do = "applyStop"
    <3>1. c.hash \in Hash
      BY <2>1 DEF AgentCall
    <3>2. Applied(a.store, c.hash, TRUE).stopped
      BY <3>1, StoppedStore
    <3> QED BY <2>1, <3>2, <1>h DEF Done
  <2>2. CASE c.do = "stopOnly"
    BY <2>2, <1>h DEF Done
  <2> QED BY <1>1, <2>1, <2>2 DEF Wakes
<1>2. ASSUME Asleep(a), NEW c \in AgentCall, NEW b \in Refusals(a, c.do, c.hash, ao)
      PROVE  Asleep(b)
  <2>1. CASE c.do = "apply" /\ b = Reverted(a, c.hash, ao)
    <3> DEFINE undone == Undone(a.store, c.hash)
    <3>1. c.hash \in Hash /\ undone \in Store /\ undone.current = a.store.current
      BY <2>1, UndoneStore, StoppedStore DEF AgentCall
    <3> DEFINE back == Marked(undone, FALSE)
    <3>2. back \in Store /\ back.current = a.store.current
      BY <3>1, MarkedStore DEF Marked, Store
    <3>3. \A on \in BOOLEAN : Marked(back, on).stopped = on /\ Marked(back, on).current = a.store.current
      BY <3>2 DEF Marked, Store
    <3>4. a.store.stopped \in BOOLEAN
      BY DEF Store
    <3>5. ~a.want /\ ~Running(a)
      BY <1>2 DEF Asleep, Running
    <3>6. CASE a.store.current = None
      <4>1. Reverted(a, c.hash, ao) = Halted(Marked(back, ~(ao /\ ~a.store.stopped)))
        BY <3>5, <3>6 DEF Reverted
      <4> QED BY <2>1, <3>3, <3>4, <3>6, <4>1, <1>h
    <3>7. CASE a.store.stopped
      <4>1. Reverted(a, c.hash, ao) = Halted(Marked(back, TRUE))
        BY <3>5, <3>7 DEF Reverted
      <4>2. Marked(back, TRUE).stopped
        BY <3>3
      <4> HIDE DEF back
      <4> QED BY <2>1, <4>1, <4>2, <1>h
    <3> QED BY <1>2, <3>6, <3>7 DEF Asleep
  <2>2. CASE b = a
    BY <1>2, <2>2
  <2> QED BY <1>2, <2>1, <2>2 DEF Refusals
<1>3. ASSUME Asleep(a) PROVE Asleep(Booted(a)) /\ Asleep(Done(a, "stop", None, ao))
  <2>1. Booted(a) = Halted(a.store)
    BY <1>3 DEF Asleep, Booted
  <2>2. Done(a, "stop", None, ao) \in {Halted(a.store), Halted(Marked(a.store, TRUE))}
    BY DEF Done
  <2>3. a.store.current = None \/ a.store.stopped
    BY <1>3 DEF Asleep
  <2>4. Asleep(Halted(a.store)) /\ Asleep(Halted(Marked(a.store, TRUE)))
    BY <2>3, <1>h
  <2> QED BY <2>1, <2>2, <2>4
<1> QED BY <1>1, <1>2, <1>3

\* Every request is answered: containers stay up, and what happens besides is that
\* engines exit and containers restart.
Calm == ~Docker /\ Faults \subseteq {"exit", "restart"}

\* Then a request to stop is done, and only a request that is done wakes an engine.
LEMMA CalmSend ==
  ASSUME TypeOK, Calm, NEW c \in AgentCall, NEW r \in Replies, Send(c, r), up[c.to]
  PROVE  /\ r # "unavailable"
         /\ ~Wakes(c) => r = "ok" /\ Asleep(ag'[c.to])
         /\ \A e \in Engine : Asleep(ag[e]) /\ (e = c.to /\ Wakes(c) => r # "ok") => Asleep(ag'[e])
<1> DEFINE a == ag[c.to]
           done == Done(a, c.do, c.hash, AlwaysOn(c.to))
           refusals == Refusals(a, c.do, c.hash, AlwaysOn(c.to))
<1> c.to \in Engine /\ a \in AgentState /\ AlwaysOn(c.to) \in BOOLEAN
  BY DEF AgentCall, Calls, TypeOK, AlwaysOn
<1>1. \A e \in Engine : e # c.to => ag'[e] = ag[e]
  BY SendFacts
<1>2. r # "unavailable"
  <2> SUFFICES ASSUME r = "unavailable" PROVE FALSE
    OBVIOUS
  <2>1. Fault("unreachable") \/ Fault("lost")
    BY DEF Send
  <2> QED BY <2>1 DEF Fault, Calm
<1>3. r = "ok" => ag'[c.to] = done
  BY DEF Send, TypeOK
<1>4. r = "refused" => \E b \in refusals : ag'[c.to] = b
  BY DEF Send, TypeOK
<1>5. ~Wakes(c) => Asleep(done) /\ refusals = {}
  BY SleepFacts DEF Wakes, Refusals, CanDo
<1>6. Asleep(a) => \A b \in refusals : Asleep(b)
  BY SleepFacts
<1>7. r \in {"ok", "refused"}
  BY <1>2 DEF Replies
<1> HIDE DEF a, done, refusals
<1>8. ~Wakes(c) => r = "ok" /\ Asleep(ag'[c.to])
  BY <1>3, <1>4, <1>5, <1>7
<1>9. ASSUME NEW e \in Engine, Asleep(ag[e]), e = c.to /\ Wakes(c) => r # "ok" PROVE Asleep(ag'[e])
  BY <1>1, <1>4, <1>6, <1>7, <1>8, <1>9 DEF a
<1> QED BY <1>2, <1>8, <1>9

\* Among the requests to come, none wakes an engine of X but old.
Returns(X, old, todo) == \A i \in 1..Len(todo) : todo[i].to \in X /\ Wakes(todo[i]) => todo[i].to = old

\* The request that stops new comes before every one that wakes an engine of X.
StopsFirst(X, new, todo) ==
    \E i \in 1..Len(todo) :
       /\ todo[i].do = "applyStop" /\ todo[i].to = new
       /\ \A j \in 1..(i - 1) : todo[j].to \in X => ~Wakes(todo[j])

\* One sequence after another.
LEMMA ConcatFacts ==
  ASSUME NEW S, NEW s \in Seq(S), NEW t \in Seq(S)
  PROVE  /\ s \o t \in Seq(S)
         /\ Len(s) \in Nat /\ Len(t) \in Nat /\ Len(s \o t) = Len(s) + Len(t)
         /\ \A i \in 1..Len(s) : (s \o t)[i] = s[i]
         /\ \A i \in 1..Len(t) : (s \o t)[Len(s) + i] = t[i]
         /\ \A i \in 1..Len(s \o t) : i \in 1..Len(s) \/ i - Len(s) \in 1..Len(t)
OBVIOUS

\* One request that is made, or not.
LEMMA OneFacts ==
  ASSUME NEW S, NEW c \in S, NEW q, q = <<>> \/ q = <<c>>
  PROVE  /\ q \in Seq(S) /\ Len(q) \in Nat
         /\ \A i \in 1..Len(q) : q[i] = c
         /\ Len(q) > 0 <=> q = <<c>>
<1>1. CASE q = <<>>
  BY <1>1
<1>2. CASE q = <<c>>
  BY <1>2
<1> QED BY <1>1, <1>2

\* Two of them, one after the other.
LEMMA TwoFacts ==
  ASSUME NEW S, NEW c \in S, NEW d \in S, NEW s \in Seq(S), NEW t \in Seq(S),
         \A i \in 1..Len(s) : s[i] = c,  \A i \in 1..Len(t) : t[i] = d
  PROVE  /\ s \o t \in Seq(S) /\ Len(s \o t) \in Nat
         /\ \A i \in 1..Len(s \o t) : (s \o t)[i] = c \/ (Len(t) > 0 /\ (s \o t)[i] = d)
         /\ Len(s) > 0 => Len(s \o t) > 0 /\ (s \o t)[1] = c
<1> DEFINE q == s \o t
<1>1. /\ q \in Seq(S) /\ Len(s) \in Nat /\ Len(t) \in Nat /\ Len(q) = Len(s) + Len(t)
      /\ \A i \in 1..Len(s) : q[i] = s[i]
      /\ \A i \in 1..Len(t) : q[Len(s) + i] = t[i]
      /\ \A i \in 1..Len(q) : i \in 1..Len(s) \/ i - Len(s) \in 1..Len(t)
  BY ConcatFacts
<1> HIDE DEF q
<1>2. ASSUME NEW i \in 1..Len(q) PROVE q[i] = c \/ (Len(t) > 0 /\ q[i] = d)
  <2>1. CASE i \in 1..Len(s)
    BY <2>1, <1>1
  <2>2. CASE i - Len(s) \in 1..Len(t)
    <3>1. Len(s) + (i - Len(s)) = i /\ Len(t) > 0
      BY <2>2, <1>1
    <3>2. q[Len(s) + (i - Len(s))] = d
      BY <2>2, <1>1
    <3> QED BY <3>1, <3>2
  <2> QED BY <2>1, <2>2, <1>1
<1> QED BY <1>1, <1>2 DEF q

\* The undoing of an apply: to each kind of engine it sends what took the change
\* back, a stop of the new one before anything else, and a start of the old one.
LEMMA UndoFacts ==
  ASSUME TypeInv, NEW did \in SUBSET Marks
  PROVE  LET new == job.snap
             todo == Undo(did)
         IN  /\ todo \in Seq(AgentCall)
             /\ \A i \in 1..Len(todo) : todo[i].to \in Proxies /\ Wakes(todo[i]) =>
                  IF "switch" \in did THEN todo[i].to = OldProxy(job.live)
                  ELSE "swap" \in did /\ todo[i].to = new.pe
             /\ \A i \in 1..Len(todo) : todo[i].to \in Balancers /\ Wakes(todo[i]) =>
                  IF "lbSwitch" \in did THEN todo[i].to = OldLb(job.live)
                  ELSE "lbChange" \in did /\ todo[i].to = new.le
             /\ {"switch", "start"} \subseteq did => StopsFirst(Proxies, new.pe, todo)
             /\ {"lbSwitch", "lbStart"} \subseteq did => StopsFirst(Balancers, new.le, todo)
<1> DEFINE new == job.snap
           old == IF job.live = 0 THEN new ELSE rows[job.live].snap
           P == IF "switch" \in did
                THEN Only("start" \in did, Call("applyStop", new.pe, new.ph))
                     \o Only("stop" \in did, Call("start", OldProxy(job.live), None))
                ELSE Only("swap" \in did, Call("rollback", new.pe, None))
           B == IF "lbSwitch" \in did
                THEN Only("lbStart" \in did, Call("applyStop", new.le, new.lh))
                     \o Only("lbStop" \in did /\ job.live # 0, Install(old.le, old.lh, LbWanted(old)))
                ELSE Only("lbChange" \in did, Call("rollback", new.le, None))
           T == Only("tunnel" \in did, Call("rollback", "tunnel", None))
<1>e. /\ Proxies \subseteq Engine /\ Balancers \subseteq Engine /\ "tunnel" \in Engine
      /\ Proxies \cap Balancers = {} /\ "tunnel" \notin Proxies \cup Balancers
  BY DEF Engine, Proxies, Balancers
<1>s. /\ new \in Snapshot /\ old \in Snapshot
      /\ new.pe \in Proxies /\ new.le \in Balancers /\ old.le \in Balancers
      /\ {new.ph, new.lh, old.lh} \subseteq Hash
  <2>1. new \in Snapshot /\ old \in Snapshot
    BY RowFacts DEF TypeInv, TypeOK, Job
  <2> QED BY <2>1 DEF Snapshot
<1>o. OldProxy(job.live) \in Proxies
  BY RowFacts DEF TypeInv, TypeOK, Snapshot, OldProxy, Proxies
<1>l. job.live # 0 => old.le = OldLb(job.live)
  BY DEF OldLb
<1>c. \A e \in Engine, h \in Hash :
        /\ Call("applyStop", e, h) \in AgentCall /\ Call("applyStop", e, h).do = "applyStop"
        /\ Call("applyStop", e, h).to = e
        /\ Call("start", e, None) \in AgentCall /\ Call("start", e, None).to = e
        /\ Call("rollback", e, None) \in AgentCall /\ Call("rollback", e, None).to = e
        /\ \A run \in BOOLEAN : Install(e, h, run) \in AgentCall /\ Install(e, h, run).to = e
  BY DEF Install, Call, AgentCall, Calls
<1>w. LbWanted(old) \in BOOLEAN
  BY SMTT(60), <1>s DEF LbWanted, Snapshot
<1>P. /\ P \in Seq(AgentCall)
      /\ \A i \in 1..Len(P) : /\ P[i].to \in Proxies
                              /\ Wakes(P[i]) =>
                                   IF "switch" \in did THEN P[i].to = OldProxy(job.live)
                                   ELSE "swap" \in did /\ P[i].to = new.pe
      /\ {"switch", "start"} \subseteq did =>
           Len(P) > 0 /\ P[1].do = "applyStop" /\ P[1].to = new.pe
  <2>1. CASE "switch" \in did
    <3> DEFINE c == Call("applyStop", new.pe, new.ph)
               d == Call("start", OldProxy(job.live), None)
    <3>1. /\ c \in AgentCall /\ c.do = "applyStop" /\ c.to = new.pe /\ ~Wakes(c)
          /\ d \in AgentCall /\ d.to = OldProxy(job.live)
      BY <1>c, <1>e, <1>o, <1>s DEF Wakes
    <3> HIDE DEF c, d
    <3>2. c \in AgentCall /\ d \in AgentCall
      BY <3>1
    <3> DEFINE x == Only("start" \in did, c)
               y == Only("stop" \in did, d)
    <3>3. (x = <<>> \/ x = <<c>>) /\ ("start" \in did => x = <<c>>)
      BY DEF Only
    <3>4. (y = <<>> \/ y = <<d>>)
      BY DEF Only
    <3>p. P = x \o y
      BY <2>1 DEF c, d
    <3> HIDE DEF x, y, P
    <3>x. x \in Seq(AgentCall) /\ (\A i \in 1..Len(x) : x[i] = c) /\ ("start" \in did => Len(x) > 0)
      BY <3>2, <3>3, OneFacts
    <3>y. y \in Seq(AgentCall) /\ (\A i \in 1..Len(y) : y[i] = d)
      BY <3>2, <3>4, OneFacts
    <3>5. /\ P \in Seq(AgentCall)
          /\ \A i \in 1..Len(P) : P[i] = c \/ (Len(y) > 0 /\ P[i] = d)
          /\ Len(x) > 0 => Len(P) > 0 /\ P[1] = c
      BY <3>2, <3>x, <3>y, <3>p, TwoFacts
    <3> QED BY <2>1, <3>1, <3>x, <3>5, <1>o, <1>s
  <2>2. CASE "switch" \notin did
    <3> DEFINE c == Call("rollback", new.pe, None)
    <3>1. c \in AgentCall /\ c.to = new.pe
      BY <1>c, <1>e, <1>s
    <3> HIDE DEF c
    <3>2. P = <<>> \/ ("swap" \in did /\ P = <<c>>)
      BY <2>2 DEF c, Only
    <3> HIDE DEF P
    <3>4. c \in AgentCall
      BY <3>1
    <3>5. P \in Seq(AgentCall) /\ (\A i \in 1..Len(P) : P[i] = c) /\ (Len(P) > 0 => P = <<c>>)
      BY <3>4, <3>2, OneFacts
    <3>6. Len(P) > 0 => "swap" \in did
      <4>1. <<>> # <<c>>
        OBVIOUS
      <4> QED BY <3>2, <3>5, <4>1
    <3>3. P \in Seq(AgentCall) /\ \A i \in 1..Len(P) : "swap" \in did /\ P[i] = c
      <4>1. Len(P) \in Nat
        BY <3>5
      <4>2. \A i \in 1..Len(P) : Len(P) > 0
        BY SMTT(60), <4>1
      <4> QED BY <3>5, <3>6, <4>2
    <3> QED BY <2>2, <3>1, <3>3, <1>s
  <2> QED BY <2>1, <2>2
<1>B. /\ B \in Seq(AgentCall)
      /\ \A i \in 1..Len(B) : /\ B[i].to \in Balancers
                              /\ Wakes(B[i]) =>
                                   IF "lbSwitch" \in did THEN B[i].to = OldLb(job.live)
                                   ELSE "lbChange" \in did /\ B[i].to = new.le
      /\ {"lbSwitch", "lbStart"} \subseteq did =>
           Len(B) > 0 /\ B[1].do = "applyStop" /\ B[1].to = new.le
  <2>1. CASE "lbSwitch" \in did
    <3> DEFINE c == Call("applyStop", new.le, new.lh)
               d == Install(old.le, old.lh, LbWanted(old))
    <3>1. /\ c \in AgentCall /\ c.do = "applyStop" /\ c.to = new.le /\ ~Wakes(c)
          /\ d \in AgentCall /\ d.to = old.le
      BY <1>c, <1>e, <1>s, <1>w DEF Wakes
    <3> HIDE DEF c, d, old
    <3>2. c \in AgentCall /\ d \in AgentCall
      BY <3>1
    <3> DEFINE x == Only("lbStart" \in did, c)
               y == Only("lbStop" \in did /\ job.live # 0, d)
    <3>3. (x = <<>> \/ x = <<c>>) /\ ("lbStart" \in did => x = <<c>>)
      BY DEF Only
    <3>4. (y = <<>> \/ y = <<d>>) /\ (y = <<>> \/ job.live # 0)
      BY DEF Only
    <3>p. B = x \o y
      BY <2>1 DEF c, d, old
    <3> HIDE DEF x, y, B
    <3>x. x \in Seq(AgentCall) /\ (\A i \in 1..Len(x) : x[i] = c) /\ ("lbStart" \in did => Len(x) > 0)
      BY <3>2, <3>3, OneFacts
    <3>y. y \in Seq(AgentCall) /\ (\A i \in 1..Len(y) : y[i] = d) /\ (Len(y) > 0 => job.live # 0)
      BY <3>2, <3>4, OneFacts
    <3>5. /\ B \in Seq(AgentCall)
          /\ \A i \in 1..Len(B) : B[i] = c \/ (Len(y) > 0 /\ B[i] = d)
          /\ Len(x) > 0 => Len(B) > 0 /\ B[1] = c
      BY SMTT(60), <3>2, <3>x, <3>y, <3>p, TwoFacts
    <3> QED BY <2>1, <3>1, <3>x, <3>y, <3>5, <1>l, <1>s
  <2>2. CASE "lbSwitch" \notin did
    <3> DEFINE c == Call("rollback", new.le, None)
    <3>1. c \in AgentCall /\ c.to = new.le
      BY <1>c, <1>e, <1>s
    <3> HIDE DEF c
    <3>2. B = <<>> \/ ("lbChange" \in did /\ B = <<c>>)
      BY <2>2 DEF c, Only
    <3> HIDE DEF B
    <3>4. c \in AgentCall
      BY <3>1
    <3>5. B \in Seq(AgentCall) /\ (\A i \in 1..Len(B) : B[i] = c) /\ (Len(B) > 0 => B = <<c>>)
      BY <3>4, <3>2, OneFacts
    <3>6. Len(B) > 0 => "lbChange" \in did
      <4>1. <<>> # <<c>>
        OBVIOUS
      <4> QED BY <3>2, <3>5, <4>1
    <3>3. B \in Seq(AgentCall) /\ \A i \in 1..Len(B) : "lbChange" \in did /\ B[i] = c
      <4>1. Len(B) \in Nat
        BY <3>5
      <4>2. \A i \in 1..Len(B) : Len(B) > 0
        BY <4>1
      <4> QED BY <3>5, <3>6, <4>2
    <3> QED BY <2>2, <3>1, <3>3, <1>s
  <2> QED BY <2>1, <2>2
<1>T. T \in Seq(AgentCall) /\ \A i \in 1..Len(T) : T[i].to = "tunnel"
  <2> DEFINE c == Call("rollback", "tunnel", None)
  <2>1. c \in AgentCall /\ c.to = "tunnel"
    BY DEF Call, AgentCall, Calls, Engine
  <2> HIDE DEF c
  <2>2. T = <<>> \/ T = <<c>>
    BY DEF c, Only
  <2> HIDE DEF T
  <2>3. c \in AgentCall
    BY <2>1
  <2>4. T \in Seq(AgentCall) /\ \A i \in 1..Len(T) : T[i] = c
    BY <2>2, <2>3, OneFacts
  <2> QED BY <2>1, <2>4
<1>U. Undo(did) = (P \o B) \o T
  BY DEF Undo
<1> HIDE DEF P, B, T, old, new
<1>q. P \in Seq(AgentCall) /\ B \in Seq(AgentCall) /\ T \in Seq(AgentCall)
  BY <1>P, <1>B, <1>T
<1> DEFINE PB == P \o B
           U == PB \o T
<1>1. /\ PB \in Seq(AgentCall) /\ Len(P) \in Nat /\ Len(B) \in Nat /\ Len(PB) = Len(P) + Len(B)
      /\ \A i \in 1..Len(P) : PB[i] = P[i]
      /\ \A i \in 1..Len(B) : PB[Len(P) + i] = B[i]
      /\ \A i \in 1..Len(PB) : i \in 1..Len(P) \/ i - Len(P) \in 1..Len(B)
  BY <1>q, ConcatFacts
<1> HIDE DEF PB
<1>a. PB \in Seq(AgentCall)
  BY <1>1
<1>2. /\ U \in Seq(AgentCall) /\ Len(T) \in Nat /\ Len(U) = Len(PB) + Len(T)
      /\ \A i \in 1..Len(PB) : U[i] = PB[i]
      /\ \A i \in 1..Len(T) : U[Len(PB) + i] = T[i]
      /\ \A i \in 1..Len(U) : i \in 1..Len(PB) \/ i - Len(PB) \in 1..Len(T)
  BY <1>a, <1>q, ConcatFacts
<1> HIDE DEF U
<1>3. \A i \in 1..Len(U) : \/ i \in 1..Len(P) /\ U[i] = P[i]
                           \/ i - Len(P) \in 1..Len(B) /\ U[i] = B[i - Len(P)]
                           \/ U[i].to = "tunnel"
  <2> SUFFICES ASSUME NEW i \in 1..Len(U)
               PROVE  \/ i \in 1..Len(P) /\ U[i] = P[i]
                      \/ i - Len(P) \in 1..Len(B) /\ U[i] = B[i - Len(P)]
                      \/ U[i].to = "tunnel"
    OBVIOUS
  <2>1. CASE i \in 1..Len(PB)
    <3>1. CASE i \in 1..Len(P)
      BY <2>1, <3>1, <1>1, <1>2
    <3>2. CASE i - Len(P) \in 1..Len(B)
      <4>1. PB[Len(P) + (i - Len(P))] = B[i - Len(P)]
        BY <3>2, <1>1
      <4>2. Len(P) + (i - Len(P)) = i
        BY <1>1
      <4> QED BY <2>1, <3>2, <4>1, <4>2, <1>2
    <3> QED BY <2>1, <3>1, <3>2, <1>1
  <2>2. CASE i - Len(PB) \in 1..Len(T)
    <3>1. U[Len(PB) + (i - Len(PB))] = T[i - Len(PB)]
      BY <2>2, <1>2
    <3>2. Len(PB) + (i - Len(PB)) = i
      BY <1>1
    <3> QED BY <2>2, <3>1, <3>2, <1>T
  <2> QED BY <2>1, <2>2, <1>2
<1>4. \A i \in 1..Len(U) : U[i].to \in Proxies /\ Wakes(U[i]) =>
        IF "switch" \in did THEN U[i].to = OldProxy(job.live)
        ELSE "swap" \in did /\ U[i].to = new.pe
  BY ZenonT(60), <1>3, <1>P, <1>B, <1>e
<1>5. \A i \in 1..Len(U) : U[i].to \in Balancers /\ Wakes(U[i]) =>
        IF "lbSwitch" \in did THEN U[i].to = OldLb(job.live)
        ELSE "lbChange" \in did /\ U[i].to = new.le
  BY SMTT(60), <1>3, <1>P, <1>B, <1>e
<1>6. ASSUME {"switch", "start"} \subseteq did PROVE StopsFirst(Proxies, new.pe, U)
  <2>1. 1 \in 1..Len(P) /\ P[1].do = "applyStop" /\ P[1].to = new.pe
    BY <1>6, <1>P, <1>1
  <2>2. 1 \in 1..Len(U) /\ U[1] = P[1] /\ 1..(1 - 1) = {}
    BY <2>1, <1>1, <1>2
  <2> QED BY <2>1, <2>2 DEF StopsFirst
<1>7. ASSUME {"lbSwitch", "lbStart"} \subseteq did PROVE StopsFirst(Balancers, new.le, U)
  <2>1. 1 \in 1..Len(B) /\ B[1].do = "applyStop" /\ B[1].to = new.le
    BY <1>7, <1>B, <1>1
  <2> DEFINE at == Len(P) + 1
  <2>2. at \in 1..Len(PB) /\ PB[at] = B[1] /\ at \in 1..Len(U) /\ U[at] = B[1]
    BY <2>1, <1>1, <1>2
  <2>3. \A j \in 1..(at - 1) : j \in 1..Len(P) /\ j \in 1..Len(PB) /\ U[j] = P[j]
    BY <1>1, <1>2
  <2>4. \A j \in 1..(at - 1) : U[j].to \notin Balancers
    BY <2>3, <1>P, <1>e
  <2> QED BY <2>1, <2>2, <2>4 DEF StopsFirst
<1> QED BY <1>2, <1>4, <1>5, <1>6, <1>7, <1>U DEF U, PB, new

\* What a reconcile may ask for.
Repairs(s) ==
    { Call("stopOnly", OtherProxy(s.pe), None), Call("stopOnly", OtherLb(s.le), None),
      Install(s.pe, s.ph, TRUE), Install(s.le, s.lh, LbWanted(s)),
      Install("tunnel", s.th, TunWanted(s)) }

\* Where Relay starts and stops no containers, a reconcile asks for nothing else.
LEMMA CorrectionsAre ==
  ASSUME ~Docker, NEW seen
  PROVE  Corrections(seen) \in Seq(Repairs(rows[Live].snap))
<1> DEFINE s == rows[Live].snap
           R == Repairs(s)
           Restore(e, h, wanted) ==
             Only(Stale(seen[e], h) /\ (wanted \/ seen[e].hash # None), Install(e, h, wanted))
           Stop(e) == Only(seen[e].reach /\ seen[e].running, Call("stopOnly", e, None))
<1>1. \A c \in R : <<c>> \in Seq(R)
  <2> HIDE DEF R
  <2> QED OBVIOUS
<1>2. <<>> \in Seq(R)
  OBVIOUS
<1>3. \A p, q \in Seq(R) : p \o q \in Seq(R)
  <2> HIDE DEF R
  <2> QED OBVIOUS
<1>4. /\ Call("stopOnly", OtherProxy(s.pe), None) \in R /\ Call("stopOnly", OtherLb(s.le), None) \in R
      /\ Install(s.pe, s.ph, TRUE) \in R /\ Install(s.le, s.lh, LbWanted(s)) \in R
      /\ Install("tunnel", s.th, TunWanted(s)) \in R
  BY Zenon DEF Repairs
<1>5. /\ Restore(s.pe, s.ph, TRUE) \in Seq(R)
      /\ Restore(s.le, s.lh, LbWanted(s)) \in Seq(R)
      /\ Restore("tunnel", s.th, TunWanted(s)) \in Seq(R)
      /\ Stop(OtherProxy(s.pe)) \in Seq(R)
      /\ Stop(OtherLb(s.le)) \in Seq(R)
  <2> HIDE DEF R, s
  <2> QED BY <1>1, <1>2, <1>4, ZenonT(60) DEF Only
<1>6. Corrections(seen) =
         Restore(s.pe, s.ph, TRUE) \o Stop(OtherProxy(s.pe))
         \o Restore(s.le, s.lh, LbWanted(s)) \o Stop(OtherLb(s.le))
         \o Restore("tunnel", s.th, TunWanted(s))
         \o <<>> \o <<>> \o <<>> \o <<>> \o <<>> \o <<>>
  BY ZenonT(60) DEF Corrections, Only
<1> HIDE DEF Restore, Stop, R, s
<1>7. Restore(s.pe, s.ph, TRUE) \o Stop(OtherProxy(s.pe))
      \o Restore(s.le, s.lh, LbWanted(s)) \o Stop(OtherLb(s.le))
      \o Restore("tunnel", s.th, TunWanted(s)) \in Seq(R)
  BY <1>3, <1>5, Zenon
<1>8. Corrections(seen) \in Seq(R)
  BY <1>2, <1>3, <1>6, <1>7, Zenon
<1> QED BY <1>8 DEF R, s

\* When Relay has no containers to start or stop, what a reconcile asks for wakes no
\* engine but those of the live version.
LEMMA CorrectionsWake ==
  ASSUME TypeOK, Live # 0, ~Docker, NEW seen \in [Engine -> Status]
  PROVE  \A i \in 1..Len(Corrections(seen)) :
           /\ Corrections(seen)[i] \in AgentCall
           /\ Wakes(Corrections(seen)[i]) =>
                Corrections(seen)[i].to \in {rows[Live].snap.pe, rows[Live].snap.le, "tunnel"}
<1> DEFINE s == rows[Live].snap
           q == Corrections(seen)
<1>1. s \in Snapshot /\ q \in Seq(Repairs(s))
  BY LiveFacts, CorrectionsAre
<1>2. /\ {s.pe, s.le, "tunnel"} \subseteq Engine /\ {s.ph, s.lh, s.th} \subseteq Hash
      /\ s.pe \in Proxies /\ s.le \in Balancers
  BY <1>1 DEF Snapshot, Engine
<1>3. OtherProxy(s.pe) \in Engine /\ OtherLb(s.le) \in Engine
  <2>1. OtherProxy(s.pe) \in Proxies
    BY DEF Proxies, OtherProxy
  <2>2. OtherLb(s.le) \in Balancers
    BY DEF Balancers, OtherLb
  <2> QED BY <2>1, <2>2 DEF Engine
<1>4. \A e \in {s.pe, s.le, "tunnel"}, h \in Hash : \A run :
        Install(e, h, run) \in AgentCall /\ Install(e, h, run).to = e
  BY <1>2, InstallFacts
<1>5. \A e \in Engine : Call("stopOnly", e, None) \in AgentCall /\ ~Wakes(Call("stopOnly", e, None))
  BY DEF Call, AgentCall, Calls, Wakes
<1> HIDE DEF s
<1>6. \A c \in Repairs(s) : c \in AgentCall /\ (Wakes(c) => c.to \in {s.pe, s.le, "tunnel"})
  <2>1. ASSUME NEW c, c = Install(s.pe, s.ph, TRUE) \/ c = Install(s.le, s.lh, LbWanted(s))
                     \/ c = Install("tunnel", s.th, TunWanted(s))
        PROVE  c \in AgentCall /\ c.to \in {s.pe, s.le, "tunnel"}
    <3>1. PICK e \in {s.pe, s.le, "tunnel"}, h \in Hash : \E run : c = Install(e, h, run)
      BY <1>2, <2>1, ZenonT(60)
    <3>2. c \in AgentCall /\ c.to = e
      BY <1>4, <3>1, ZenonT(60)
    <3> QED BY <3>2
  <2>2. ASSUME NEW c, c = Call("stopOnly", OtherProxy(s.pe), None)
                     \/ c = Call("stopOnly", OtherLb(s.le), None)
        PROVE  c \in AgentCall /\ ~Wakes(c)
    BY <1>3, <1>5, <2>2
  <2> QED BY <2>1, <2>2 DEF Repairs
<1> HIDE DEF q
<1> QED BY <1>1, <1>6 DEF q, s

-----------------------------------------------------------------------------
(* The ports of the engines *)

\* the steps of an apply that has not begun to change the engines, and none
ToSwap == {"idle", "read", "proxy", "lb", "tunnel", "insert", "lbStop"}

\* Which proxy engines are asleep: all but the live version's until that one is
\* stopped, all but the new version's from then on.  Whoever gives the version up has
\* the new one stopped before the old one is started.
ProxiesOwned(a, j, old) ==
    LET new == j.snap.pe
    IN  /\ j.pc \in ToSwap \cup {"lbApply", "stop"} =>
             Down(a, Proxies \ {old}) /\ "switch" \notin j.did /\ "swap" \notin j.did
        /\ j.pc = "apply" =>
             IF old = new THEN Down(a, Proxies \ {old}) /\ "switch" \notin j.did
             ELSE Down(a, Proxies) /\ {"switch", "start"} \subseteq j.did
        /\ j.pc \in {"follow", "health", "promote"} =>
             /\ Down(a, Proxies \ {new})
             /\ IF old = new THEN "switch" \notin j.did ELSE {"switch", "start"} \subseteq j.did
        /\ j.pc = "undo" =>
             /\ Returns(Proxies, old, j.undo)
             /\ \/ Down(a, Proxies \ {old})
                \/ Down(a, Proxies \ {new}) /\ StopsFirst(Proxies, new, j.undo)

\* The same for the load balancers.
BalancersOwned(a, j, old) ==
    LET new == j.snap.le
    IN  /\ j.pc \in ToSwap =>
             Down(a, Balancers \ {old}) /\ "lbSwitch" \notin j.did /\ "lbChange" \notin j.did
        /\ j.pc = "lbApply" =>
             IF old = new THEN Down(a, Balancers \ {old}) /\ "lbSwitch" \notin j.did
             ELSE Down(a, Balancers) /\ "lbSwitch" \in j.did
        /\ j.pc \in {"stop", "apply", "follow", "health", "promote"} =>
             /\ Down(a, Balancers \ {new})
             /\ IF old = new THEN "lbSwitch" \notin j.did
                ELSE "lbSwitch" \in j.did /\ ("lbStart" \in j.did \/ Down(a, Balancers))
        /\ j.pc = "undo" =>
             /\ Returns(Balancers, old, j.undo)
             /\ \/ Down(a, Balancers \ {old})
                \/ Down(a, Balancers \ {new}) /\ StopsFirst(Balancers, new, j.undo)

\* What the reconcile in progress asks for, under applyMu.
RecReturns ==
    /\ \A i \in 1..Len(rec.todo) : rec.todo[i] \in AgentCall
    /\ Returns(Proxies, OldProxy(Live), rec.todo)
    /\ Returns(Balancers, OldLb(Live), rec.todo)

\* The apply works on the version that is live, and each kind of engine has at most
\* one that is not asleep.
PortsInv ==
    /\ PromotedInv /\ Calm
    /\ \A e \in Engine : up[e]
    /\ job.pc \notin {"idle", "read"} => job.live = Live
    /\ job.pc = "stop" => Switching
    /\ rec.pc = "run" => RecReturns
    /\ ProxiesOwned(ag, job, OldProxy(Live))
    /\ BalancersOwned(ag, job, OldLb(Live))

\* Where the three sorts of engine are.
LEMMA EngineSorts ==
  /\ Proxies \subseteq Engine /\ Balancers \subseteq Engine /\ "tunnel" \in Engine
  /\ Proxies \cap Balancers = {} /\ "tunnel" \notin Proxies \cup Balancers
BY DEF Engine, Proxies, Balancers

\* The engines of the live version, or of the first start.
LEMMA OldFacts ==
  ASSUME TypeOK, NEW n \in 0..Len(rows)
  PROVE  OldProxy(n) \in Proxies /\ OldLb(n) \in Balancers
BY RowFacts DEF TypeOK, OldProxy, OldLb, Snapshot, Proxies, Balancers

\* The live version stays while no version is recorded, or one is that is not live.
LEMMA LiveSame ==
  ASSUME HistoryInv,
         \/ rows' = rows
         \/ \E st \in {"draft", "failed"} : rows' = Append(rows, NewRow(st))
         \/ RecordFailure
  PROVE  /\ Live' = Live /\ OldProxy(Live)' = OldProxy(Live) /\ OldLb(Live)' = OldLb(Live)
         /\ Live # 0 => rows'[Live].snap = rows[Live].snap
<1>t. TypeInv /\ TypeOK /\ Len(rows) \in Nat /\ Live \in 0..Len(rows)
  BY LiveFacts, RowFacts DEF HistoryInv, TypeInv, TypeOK
<1>1. LiveRows' = LiveRows /\ \A i \in 1..Len(rows) : rows'[i].snap = rows[i].snap
  <2>1. CASE rows' = rows
    BY <2>1 DEF LiveRows
  <2>2. ASSUME NEW st \in {"draft", "failed"}, rows' = Append(rows, NewRow(st)) PROVE <1>1
    <3>1. /\ Len(rows') = Len(rows) + 1 /\ rows'[Len(rows) + 1].status = st
          /\ \A i \in 1..Len(rows) : rows'[i] = rows[i]
      BY <2>2, <1>t, AppendRowFacts DEF Statuses, NewRow
    <3> QED BY <3>1, <1>t DEF LiveRows
  <2>3. CASE RecordFailure
    <3>1. Len(rows) > 0 /\ rows[Len(rows)].status = "draft"
      BY <2>3 DEF RecordFailure, HistoryInv, Inserted
    <3>2. /\ Len(rows') = Len(rows)
          /\ \A i \in 1..Len(rows) : rows'[i].snap = rows[i].snap
          /\ \A i \in 1..Len(rows) : i # Len(rows) => rows'[i] = rows[i]
          /\ rows'[Len(rows)].status \in {"failed", "rolled_back"}
      BY <2>3, <3>1, <1>t, RowFacts DEF RecordFailure, TypeOK, Row
    <3> QED BY <3>1, <3>2, <1>t DEF LiveRows
  <2> QED BY <2>1, <2>2, <2>3
<1>2. Live' = Live
  BY <1>1 DEF Live
<1> QED BY <1>1, <1>2, <1>t DEF OldProxy, OldLb

\* The version that is promoted is the live one.
LEMMA LivePromoted ==
  ASSUME HistoryInv, Promote
  PROVE  /\ OldProxy(Live)' = job.snap.pe /\ OldLb(Live)' = job.snap.le
         /\ Live' # 0 /\ rows'[Live'].snap = job.snap
<1>t. TypeInv /\ TypeOK /\ Len(rows) \in Nat
  BY RowFacts DEF HistoryInv, TypeInv, TypeOK
<1> DEFINE n == Len(rows)
<1>1. n > 0 /\ rows[n].snap = job.snap
  BY DEF Promote, HistoryInv, Inserted
<1>2. rows' = [ i \in 1..Len(rows) |->
                   IF i = Len(rows) THEN [rows[i] EXCEPT !.status = "live"]
                   ELSE IF i \in LiveRows THEN [rows[i] EXCEPT !.status = "superseded"]
                   ELSE rows[i] ]
  BY DEF Promote
<1>3. Len(rows') = n
  BY <1>2, <1>t
<1>4. \A i \in 1..n, st \in Statuses : [rows[i] EXCEPT !.status = st].status = st
                                      /\ [rows[i] EXCEPT !.status = st].snap = rows[i].snap
  BY <1>t, RowFacts DEF TypeOK, Row
<1>5. rows'[n].status = "live" /\ rows'[n].snap = job.snap
  BY <1>1, <1>2, <1>4, <1>t DEF Statuses
<1>6. \A i \in 1..n : i # n => rows'[i].status # "live"
  BY <1>2, <1>4, <1>t DEF Statuses, LiveRows
<1>7. LiveRows' = {n}
  BY <1>1, <1>3, <1>5, <1>6, <1>t DEF LiveRows
<1>8. Latest({n}) = n
  BY <1>t DEF Latest
<1>9. Live' = n
  BY <1>7, <1>8 DEF Live
<1> QED BY <1>1, <1>5, <1>9 DEF OldProxy, OldLb

\* At the first start nginx runs alone.
LEMMA PortsInit == Calm /\ Init => PortsInv
<1> SUFFICES ASSUME Calm, Init PROVE PortsInv
  OBVIOUS
<1>1. /\ PromotedInv /\ rows = <<>> /\ up = [e \in Engine |-> TRUE]
      /\ ag = [e \in Engine |-> Fresh(e)]
      /\ job.pc = "idle" /\ job.did = {} /\ rec.pc = "idle"
  BY PromotedInit DEF Init, NoJob, NoRec
<1>2. LiveRows = {} /\ Live = 0
  BY <1>1 DEF LiveRows, Live
<1>3. OldProxy(Live) = "nginx" /\ OldLb(Live) = "haproxy"
  BY <1>2 DEF OldProxy, OldLb
<1>4. \A s : s.current = None \/ s.stopped => Asleep(Halted(s))
  BY DEF Halted, Asleep
<1>5. \A e \in Engine \ {"nginx"} : Asleep(Fresh(e))
  <2>1. EmptyStore.current = None
    BY DEF EmptyStore
  <2>2. Marked([EmptyStore EXCEPT !.dirs = {Boot}, !.current = Boot], TRUE).stopped
    <3>1. {Boot} \in SUBSET Release /\ Boot \in Release \cup {None} /\ EmptyStore \in Store
      BY DEF Release, EmptyStore, Store
    <3>2. [EmptyStore EXCEPT !.dirs = {Boot}, !.current = Boot] \in Store
      BY <3>1 DEF Store
    <3> QED BY <3>2 DEF Marked, Store
  <2> QED BY <1>4, <2>1, <2>2 DEF Fresh
<1>6. Down(ag, Proxies \ {"nginx"}) /\ Down(ag, Balancers \ {"haproxy"})
  BY <1>1, <1>5, EngineSorts DEF Down, Balancers
<1>7. ProxiesOwned(ag, job, OldProxy(Live)) /\ BalancersOwned(ag, job, OldLb(Live))
  BY <1>1, <1>3, <1>6 DEF ProxiesOwned, BalancersOwned
<1> QED BY <1>1, <1>7 DEF PortsInv

\* Engines that sleep stay asleep.
LEMMA DownKept ==
  ASSUME NEW X \in SUBSET Engine, Down(ag, X),
         \A e \in X : Asleep(ag[e]) => Asleep(ag'[e])
  PROVE  Down(ag', X)
BY DEF Down

\* A step that leaves the apply alone and wakes nobody.
LEMMA PortsKept ==
  ASSUME PortsInv, PromotedInv', job' = job, rows' = rows, up' = up,
         rec'.pc = "run" => RecReturns',
         \A e \in Engine : Asleep(ag[e]) => Asleep(ag'[e])
  PROVE  PortsInv'
<1>1. Live' = Live /\ OldProxy(Live)' = OldProxy(Live) /\ OldLb(Live)' = OldLb(Live)
  BY LiveSame DEF PortsInv, PromotedInv
<1>2. \A X \in SUBSET Engine : Down(ag, X) => Down(ag', X)
  BY DownKept
<1>3. \A x : Proxies \ {x} \in SUBSET Engine /\ Balancers \ {x} \in SUBSET Engine
  BY EngineSorts
<1>4. Proxies \in SUBSET Engine /\ Balancers \in SUBSET Engine
  BY EngineSorts
<1>5. ProxiesOwned(ag', job', OldProxy(Live)')
  <2>1. ProxiesOwned(ag, job, OldProxy(Live))
    BY DEF PortsInv
  <2> QED BY <2>1, <1>1, <1>2, <1>3, <1>4 DEF ProxiesOwned
<1>6. BalancersOwned(ag', job', OldLb(Live)')
  <2>1. BalancersOwned(ag, job, OldLb(Live))
    BY DEF PortsInv
  <2> QED BY <2>1, <1>1, <1>2, <1>3, <1>4 DEF BalancersOwned
<1>7. (job.pc = "stop" => Switching)'
  <2>1. job.pc = "stop" => Switching /\ job.live = Live
    BY DEF PortsInv
  <2> QED BY <2>1, <1>1 DEF Switching
<1> QED BY <1>1, <1>5, <1>6, <1>7 DEF PortsInv, Calm

\* A step after which no apply is under way, or one has just begun.
LEMMA PortsRest ==
  ASSUME PortsInv, PromotedInv', \A e \in Engine : up'[e],
         job'.pc \in {"idle", "read"},
         job'.did \cap {"switch", "swap", "lbSwitch", "lbChange"} = {},
         rec'.pc = "run" => RecReturns',
         Down(ag', Proxies \ {OldProxy(Live)'}), Down(ag', Balancers \ {OldLb(Live)'})
  PROVE  PortsInv'
<1>1. ProxiesOwned(ag', job', OldProxy(Live)') /\ BalancersOwned(ag', job', OldLb(Live)')
  BY DEF ProxiesOwned, BalancersOwned, ToSwap
<1> QED BY <1>1 DEF PortsInv, Calm

\* A step of an apply before the swap.
LEMMA PortsBefore ==
  ASSUME PortsInv, PromotedInv', up' = up, ag' = ag,
         Live' = Live, OldProxy(Live)' = OldProxy(Live), OldLb(Live)' = OldLb(Live),
         job.pc \in ToSwap, job'.pc \in ToSwap \cup {"lbApply"},
         job'.did = job.did, job'.live = Live, rec'.pc # "run",
         job'.pc = "lbApply" => OldLb(Live) = job'.snap.le
  PROVE  PortsInv'
<1>1. ProxiesOwned(ag', job', OldProxy(Live)')
  BY DEF PortsInv, ProxiesOwned, ToSwap
<1>2. BalancersOwned(ag', job', OldLb(Live)')
  BY DEF PortsInv, BalancersOwned, ToSwap
<1> QED BY <1>1, <1>2 DEF PortsInv, Calm, ToSwap

\* The version is given up while, of each kind of engine, only the live version's is
\* awake, or the new one, which the undoing then stops first.
LEMMA PortsFail ==
  ASSUME PortsInv, PromotedInv', UNCHANGED <<rows, up, rec>>, job.pc \in Inserted,
         NEW did \in SUBSET Marks, FailWith(did),
         IF "switch" \in did
         THEN \/ Down(ag', Proxies \ {OldProxy(Live)})
              \/ "start" \in did /\ Down(ag', Proxies \ {job.snap.pe})
         ELSE /\ Down(ag', Proxies \ {OldProxy(Live)})
              /\ "swap" \in did => job.snap.pe = OldProxy(Live),
         IF "lbSwitch" \in did
         THEN \/ Down(ag', Balancers \ {OldLb(Live)})
              \/ "lbStart" \in did /\ Down(ag', Balancers \ {job.snap.le})
         ELSE /\ Down(ag', Balancers \ {OldLb(Live)})
              /\ "lbChange" \in did => job.snap.le = OldLb(Live)
  PROVE  PortsInv'
<1>t. TypeInv /\ job \in Job /\ job.pc # "idle" /\ rec.pc # "run"
  BY DEF PortsInv, PromotedInv, HistoryInv, TypeInv, TypeOK, Inserted
<1>l. job.live = Live
  BY DEF PortsInv, Inserted
<1>1. Live' = Live /\ OldProxy(Live)' = OldProxy(Live) /\ OldLb(Live)' = OldLb(Live)
  BY LiveSame DEF PortsInv, PromotedInv
<1>2. job'.pc = "undo" /\ job'.snap = job.snap /\ job'.live = job.live
  BY <1>t, FailFacts
<1>3. job'.undo = Undo(did)
  BY <1>t DEF FailWith, Job
<1> DEFINE todo == Undo(did)
<1>4. /\ \A i \in 1..Len(todo) : todo[i].to \in Proxies /\ Wakes(todo[i]) =>
           IF "switch" \in did THEN todo[i].to = OldProxy(Live)
           ELSE "swap" \in did /\ todo[i].to = job.snap.pe
      /\ \A i \in 1..Len(todo) : todo[i].to \in Balancers /\ Wakes(todo[i]) =>
           IF "lbSwitch" \in did THEN todo[i].to = OldLb(Live)
           ELSE "lbChange" \in did /\ todo[i].to = job.snap.le
      /\ {"switch", "start"} \subseteq did => StopsFirst(Proxies, job.snap.pe, todo)
      /\ {"lbSwitch", "lbStart"} \subseteq did => StopsFirst(Balancers, job.snap.le, todo)
  BY <1>t, <1>l, UndoFacts
<1> HIDE DEF todo
<1>5. Returns(Proxies, OldProxy(Live), todo) /\ Returns(Balancers, OldLb(Live), todo)
  BY <1>4 DEF Returns
<1>6. ProxiesOwned(ag', job', OldProxy(Live))
  BY <1>2, <1>3, <1>4, <1>5 DEF ProxiesOwned, ToSwap, todo
<1>7. BalancersOwned(ag', job', OldLb(Live))
  BY <1>2, <1>3, <1>4, <1>5 DEF BalancersOwned, ToSwap, todo
<1> QED BY <1>t, <1>l, <1>1, <1>2, <1>6, <1>7 DEF PortsInv, Calm

\* A request of the undoing, for the engines of one kind.
LEMMA UndoPorts ==
  ASSUME TypeOK, Calm, NEW X \in SUBSET Engine, NEW old, NEW new,
         NEW todo \in Seq(AgentCall), todo # <<>>, NEW r \in Replies,
         Send(Head(todo), r), up[Head(todo).to],
         Returns(X, old, todo),
         \/ Down(ag, X \ {old})
         \/ Down(ag, X \ {new}) /\ StopsFirst(X, new, todo)
  PROVE  /\ Returns(X, old, Tail(todo))
         /\ \/ Down(ag', X \ {old})
            \/ Down(ag', X \ {new}) /\ StopsFirst(X, new, Tail(todo))
<1> DEFINE c == Head(todo)
<1>1. /\ c \in AgentCall /\ c = todo[1]
      /\ Len(todo) \in Nat /\ Len(todo) > 0 /\ Len(Tail(todo)) = Len(todo) - 1
      /\ \A i \in 1..Len(Tail(todo)) : Tail(todo)[i] = todo[i + 1]
  OBVIOUS
<1> HIDE DEF c
<1>2. /\ ~Wakes(c) => r = "ok" /\ Asleep(ag'[c.to])
      /\ \A e \in Engine : Asleep(ag[e]) /\ (e = c.to /\ Wakes(c) => r # "ok") => Asleep(ag'[e])
  <2>1. c \in AgentCall /\ Send(c, r) /\ up[c.to]
    BY <1>1 DEF c
  <2> QED BY <2>1, CalmSend
<1>3. Returns(X, old, Tail(todo))
  BY <1>1 DEF Returns
<1>4. c.to \in X /\ Wakes(c) => c.to = old
  BY <1>1 DEF Returns
<1>5. CASE Down(ag, X \ {old})
  <2>1. Down(ag', X \ {old})
    BY <1>2, <1>4, <1>5 DEF Down
  <2> QED BY <1>3, <2>1
<1>6. CASE Down(ag, X \ {new}) /\ StopsFirst(X, new, todo)
  <2>1. PICK i \in 1..Len(todo) :
           /\ todo[i].do = "applyStop" /\ todo[i].to = new
           /\ \A j \in 1..(i - 1) : todo[j].to \in X => ~Wakes(todo[j])
    BY <1>6 DEF StopsFirst
  <2>2. CASE i = 1
    <3>1. c.do = "applyStop" /\ c.to = new
      BY <2>1, <2>2, <1>1
    <3>2. ~Wakes(c)
      BY <3>1 DEF Wakes
    <3>3. Down(ag', X \ {old})
      BY <1>2, <1>6, <3>1, <3>2 DEF Down
    <3> QED BY <1>3, <3>3
  <2>3. CASE i # 1
    <3>1. c.to \in X => ~Wakes(c)
      BY <1>1, <2>1, <2>3
    <3>2. Down(ag', X \ {new})
      BY <1>2, <1>6, <3>1 DEF Down
    <3>3. /\ i - 1 \in 1..Len(Tail(todo)) /\ Tail(todo)[i - 1] = todo[i]
          /\ \A j \in 1..((i - 1) - 1) : j + 1 \in 1..(i - 1) /\ Tail(todo)[j] = todo[j + 1]
      BY <1>1, <2>1, <2>3
    <3>4. StopsFirst(X, new, Tail(todo))
      <4> DEFINE k == i - 1
      <4>1. /\ k \in 1..Len(Tail(todo))
            /\ Tail(todo)[k].do = "applyStop" /\ Tail(todo)[k].to = new
            /\ \A j \in 1..(k - 1) : Tail(todo)[j].to \in X => ~Wakes(Tail(todo)[j])
        BY <2>1, <3>3
      <4> HIDE DEF k
      <4> QED BY <4>1 DEF StopsFirst
    <3> QED BY <1>3, <3>2, <3>4
  <2> QED BY <2>2, <2>3
<1> QED BY <1>5, <1>6

\* A request of the undoing.
LEMMA PortsUndo ==
  ASSUME PortsInv, PromotedInv', NEW r \in Replies, UndoStep(r)
  PROVE  PortsInv'
<1>t. TypeInv /\ TypeOK /\ Calm /\ job \in Job /\ job.undo \in Seq(AgentCall)
  BY DEF PortsInv, PromotedInv, HistoryInv, TypeInv, TypeOK
<1>1. /\ job.pc = "undo" /\ job.undo # <<>> /\ Send(Head(job.undo), r)
      /\ UNCHANGED <<rows, up, rec>>
  BY DEF UndoStep
<1>2. /\ job'.pc = "undo" /\ job'.snap = job.snap /\ job'.live = job.live
      /\ job'.undo = Tail(job.undo)
  BY <1>1, <1>t DEF UndoStep, Job
<1>3. Live' = Live /\ OldProxy(Live)' = OldProxy(Live) /\ OldLb(Live)' = OldLb(Live)
  BY <1>1, LiveSame DEF PortsInv, PromotedInv
<1>4. Head(job.undo) \in AgentCall
  BY <1>t, <1>1
<1>5. up[Head(job.undo).to]
  BY <1>4 DEF PortsInv, AgentCall, Calls
<1>6. ProxiesOwned(ag', job', OldProxy(Live))
  <2>1. /\ Returns(Proxies, OldProxy(Live), job.undo)
        /\ \/ Down(ag, Proxies \ {OldProxy(Live)})
           \/ Down(ag, Proxies \ {job.snap.pe}) /\ StopsFirst(Proxies, job.snap.pe, job.undo)
    BY <1>1 DEF PortsInv, ProxiesOwned
  <2>2. Proxies \in SUBSET Engine
    BY EngineSorts
  <2>3. /\ Returns(Proxies, OldProxy(Live), Tail(job.undo))
        /\ \/ Down(ag', Proxies \ {OldProxy(Live)})
           \/ Down(ag', Proxies \ {job.snap.pe}) /\ StopsFirst(Proxies, job.snap.pe, Tail(job.undo))
    BY <1>t, <1>1, <1>5, <2>1, <2>2, UndoPorts
  <2> QED BY <1>2, <2>3 DEF ProxiesOwned, ToSwap
<1>7. BalancersOwned(ag', job', OldLb(Live))
  <2>1. /\ Returns(Balancers, OldLb(Live), job.undo)
        /\ \/ Down(ag, Balancers \ {OldLb(Live)})
           \/ Down(ag, Balancers \ {job.snap.le}) /\ StopsFirst(Balancers, job.snap.le, job.undo)
    BY <1>1 DEF PortsInv, BalancersOwned
  <2>2. Balancers \in SUBSET Engine
    BY EngineSorts
  <2>3. /\ Returns(Balancers, OldLb(Live), Tail(job.undo))
        /\ \/ Down(ag', Balancers \ {OldLb(Live)})
           \/ Down(ag', Balancers \ {job.snap.le}) /\ StopsFirst(Balancers, job.snap.le, Tail(job.undo))
    BY <1>t, <1>1, <1>5, <2>1, <2>2, UndoPorts
  <2> QED BY <1>2, <2>3 DEF BalancersOwned, ToSwap
<1>8. rec.pc # "run" /\ job.live = Live
  BY <1>1 DEF PortsInv, PromotedInv, HistoryInv
<1> QED BY <1>1, <1>2, <1>3, <1>6, <1>7, <1>8 DEF PortsInv, Calm

\* A reconcile under way brings back the engines of the live version at most.
LEMMA PortsReconcile ==
  ASSUME PortsInv, PromotedInv', Reconcile
  PROVE  PortsInv'
<1>t. TypeInv /\ TypeOK /\ Calm /\ rec \in Rec /\ rec.todo \in Seq(AgentCall \cup ContainerCall)
  BY DEF PortsInv, PromotedInv, HistoryInv, TypeInv, TypeOK
<1>l. rows' = rows => Live' = Live /\ OldProxy(Live)' = OldProxy(Live) /\ OldLb(Live)' = OldLb(Live)
  BY LiveSame DEF PortsInv, PromotedInv
<1>n. NoRec.pc = "idle"
  BY DEF NoRec
<1>1. CASE ReconcileStatus
  <2>1. rec'.pc = "lock" /\ UNCHANGED <<rows, ag, up, job>>
    BY <1>1, <1>t DEF ReconcileStatus, Rec
  <2> QED BY <2>1, PortsKept
<1>2. CASE ReconcileLock
  <2>1. UNCHANGED <<rows, ag, up, job>>
    BY <1>2 DEF ReconcileLock
  <2>2. ASSUME rec'.pc = "run" PROVE RecReturns'
    <3>1. Live # 0 /\ rec'.todo = Corrections(rec.seen)
      <4>1. rec' # NoRec
        BY <1>n, <2>2
      <4>2. Unlocked /\ Live # 0 /\ rec' = [NoRec EXCEPT !.pc = "run", !.todo = Corrections(rec.seen)]
        BY <1>2, <4>1 DEF ReconcileLock
      <4> QED BY <4>2 DEF NoRec
    <3>2. rec.seen \in [Engine -> Status]
      BY <1>t DEF Rec
    <3> DEFINE todo == Corrections(rec.seen)
    <3>3. \A i \in 1..Len(todo) :
            /\ todo[i] \in AgentCall
            /\ Wakes(todo[i]) => todo[i].to \in {rows[Live].snap.pe, rows[Live].snap.le, "tunnel"}
      BY <1>t, <3>1, <3>2, CorrectionsWake DEF Calm
    <3>4. /\ rows[Live].snap.pe = OldProxy(Live) /\ rows[Live].snap.le = OldLb(Live)
          /\ OldProxy(Live) \in Proxies /\ OldLb(Live) \in Balancers
      BY <1>t, <3>1, LiveFacts, OldFacts DEF OldProxy, OldLb
    <3> HIDE DEF todo
    <3>5. Returns(Proxies, OldProxy(Live), todo) /\ Returns(Balancers, OldLb(Live), todo)
      BY <3>3, <3>4, EngineSorts DEF Returns
    <3> QED BY <1>l, <2>1, <3>1, <3>3, <3>5 DEF RecReturns, todo
  <2> QED BY <2>1, <2>2, PortsKept
<1>3. ASSUME NEW r \in {"ok", "unavailable"}, ReconcileCall(r) PROVE PortsInv'
  <2> DEFINE c == Head(rec.todo)
  <2>1. rec.pc = "run" /\ Send(c, r) /\ UNCHANGED <<rows, up, job>> /\ r \in Replies
    BY <1>3 DEF ReconcileCall, Replies
  <2>2. RecReturns /\ rec.todo # <<>> /\ job.pc = "idle"
    BY <2>1 DEF PortsInv, PromotedInv, HistoryInv, TypeInv
  <2>3. /\ c = rec.todo[1] /\ Len(rec.todo) \in Nat /\ Len(rec.todo) > 0
        /\ Len(Tail(rec.todo)) = Len(rec.todo) - 1
        /\ \A i \in 1..Len(Tail(rec.todo)) : Tail(rec.todo)[i] = rec.todo[i + 1]
    BY <1>t, <2>2
  <2> HIDE DEF c
  <2>4. /\ c \in AgentCall
        /\ c.to \in Proxies /\ Wakes(c) => c.to = OldProxy(Live)
        /\ c.to \in Balancers /\ Wakes(c) => c.to = OldLb(Live)
    BY <2>2, <2>3 DEF RecReturns, Returns
  <2>5. up[c.to]
    BY <2>4 DEF PortsInv, AgentCall, Calls
  <2>6. \A e \in Engine : Asleep(ag[e]) /\ ~(e = c.to /\ Wakes(c)) => Asleep(ag'[e])
    BY <1>t, <2>1, <2>4, <2>5, CalmSend
  <2>7. /\ Down(ag, Proxies \ {OldProxy(Live)}) /\ Down(ag, Balancers \ {OldLb(Live)})
        /\ job.did \cap {"switch", "swap", "lbSwitch", "lbChange"} = {}
    BY <2>2 DEF PortsInv, ProxiesOwned, BalancersOwned, ToSwap
  <2>8. Down(ag', Proxies \ {OldProxy(Live)}) /\ Down(ag', Balancers \ {OldLb(Live)})
    BY <2>4, <2>6, <2>7, EngineSorts DEF Down
  <2>9. ASSUME rec'.pc = "run" PROVE RecReturns'
    <3>1. rec'.todo = Tail(rec.todo)
      BY <1>3, <1>n, <1>t, <2>9 DEF ReconcileCall, NextCall, Rec
    <3>2. /\ \A i \in 1..Len(Tail(rec.todo)) : Tail(rec.todo)[i] \in AgentCall
          /\ Returns(Proxies, OldProxy(Live), Tail(rec.todo))
          /\ Returns(Balancers, OldLb(Live), Tail(rec.todo))
      BY <2>2, <2>3 DEF RecReturns, Returns
    <3> QED BY <1>l, <2>1, <3>1, <3>2 DEF RecReturns
  <2> QED BY <1>l, <2>1, <2>2, <2>7, <2>8, <2>9, PortsRest DEF PortsInv
<1>4. ASSUME ReconcileContainer PROVE FALSE
  <2> DEFINE c == Head(rec.todo)
  <2>1. rec.pc = "run" /\ c.do \in {"ctrStart", "ctrStop"}
    BY <1>4 DEF ReconcileContainer
  <2>2. RecReturns /\ rec.todo # <<>>
    BY <2>1 DEF PortsInv, PromotedInv, HistoryInv, TypeInv
  <2>3. c = rec.todo[1] /\ 1 \in 1..Len(rec.todo)
    BY <1>t, <2>2
  <2>4. c \in AgentCall
    BY <2>2, <2>3 DEF RecReturns
  <2> QED BY <2>1, <2>4 DEF AgentCall
<1> QED BY <1>1, <1>2, <1>3, <1>4 DEF Reconcile

\* An admin starts engines of the live version only.
LEMMA PortsAdmin ==
  ASSUME PortsInv, PromotedInv', AdminAction
  PROVE  PortsInv'
<1>t. TypeInv /\ TypeOK /\ ~Docker /\ Calm
  BY DEF PortsInv, PromotedInv, HistoryInv, TypeInv, Calm
<1>m. Managed \subseteq Engine
  BY PipelineAssumption
<1>1. ASSUME NEW e \in Managed, AdminStart(e) PROVE PortsInv'
  <2>1. /\ Unlocked /\ UNCHANGED <<rows, job, rec>>
        /\ e \in Proxies => e = OldProxy(Live)
        /\ e \in Balancers => e = OldLb(Live)
        /\ up' = [up EXCEPT ![e] = TRUE]
        /\ \E a : ag' = [ag EXCEPT ![e] = a]
    BY <1>1 DEF AdminStart
  <2>2. job.pc = "idle" /\ rec.pc # "run"
    BY <2>1 DEF Unlocked
  <2>3. Live' = Live /\ OldProxy(Live)' = OldProxy(Live) /\ OldLb(Live)' = OldLb(Live)
    BY <2>1, LiveSame DEF PortsInv, PromotedInv
  <2>4. /\ Down(ag, Proxies \ {OldProxy(Live)}) /\ Down(ag, Balancers \ {OldLb(Live)})
        /\ job.did \cap {"switch", "swap", "lbSwitch", "lbChange"} = {}
    BY <2>2 DEF PortsInv, ProxiesOwned, BalancersOwned, ToSwap
  <2>5. \A x \in Engine : x # e => ag'[x] = ag[x]
    BY <2>1, <1>t DEF TypeOK
  <2>6. Down(ag', Proxies \ {OldProxy(Live)}) /\ Down(ag', Balancers \ {OldLb(Live)})
    BY <2>1, <2>4, <2>5, EngineSorts DEF Down
  <2>7. \A x \in Engine : up'[x]
    BY <2>1, <1>t DEF PortsInv, TypeOK
  <2> QED BY <2>1, <2>2, <2>3, <2>4, <2>6, <2>7, PortsRest
<1>2. ASSUME NEW e \in Managed, AdminStop(e) PROVE PortsInv'
  <2>1. UNCHANGED <<rows, job, rec>> /\ up' = up /\ rec.pc # "run"
    BY <1>2, <1>t DEF AdminStop, Unlocked
  <2>2. up[e] /\ e \in Engine
    BY <1>m DEF PortsInv
  <2>3. ag' = [ag EXCEPT ![e] = Done(ag[e], "stop", None, AlwaysOn(e))]
    BY <1>2, <2>2, <1>t DEF AdminStop, TypeOK
  <2>4. ag[e] \in AgentState /\ AlwaysOn(e) \in BOOLEAN
    BY <1>t, <2>2 DEF TypeOK, AlwaysOn
  <2>5. Asleep(ag[e]) => Asleep(Done(ag[e], "stop", None, AlwaysOn(e)))
    BY <2>4, SleepFacts
  <2>6. \A x \in Engine : Asleep(ag[x]) => Asleep(ag'[x])
    BY <2>2, <2>3, <2>5, <1>t DEF TypeOK
  <2> QED BY <2>1, <2>6, PortsKept
<1> QED BY <1>1, <1>2 DEF AdminAction

\* The swap goes on, and what it has done to the engines is what its marks say.
LEMMA PortsSwap ==
  ASSUME PortsInv, PromotedInv', SwapStep
  PROVE  PortsInv'
<1> DEFINE old == OldProxy(Live)
           new == job.snap.pe
           oldLb == OldLb(Live)
           newLb == job.snap.le
<1>t. TypeInv /\ TypeOK /\ Calm /\ job \in Job /\ job.snap \in Snapshot /\ job.did \in SUBSET Marks
  BY DEF PortsInv, PromotedInv, HistoryInv, TypeInv, TypeOK, Job
<1>1. /\ UNCHANGED <<rows, rec, up>> /\ job.pc \in Inserted
  BY <1>t, SwapFacts
<1>2. Live' = Live /\ OldProxy(Live)' = OldProxy(Live) /\ OldLb(Live)' = OldLb(Live)
  BY <1>1, LiveSame DEF PortsInv, PromotedInv
<1>3. job.live = Live /\ rec.pc # "run"
  BY <1>1 DEF PortsInv, PromotedInv, HistoryInv, Inserted
<1>s. /\ new \in Proxies /\ newLb \in Balancers /\ old \in Proxies /\ oldLb \in Balancers
      /\ {job.snap.ph, job.snap.lh, job.snap.th} \subseteq Hash
      /\ Live # 0 => {rows[Live].snap.ph, rows[Live].snap.lh} \subseteq Hash
  <2>1. Live \in 0..Len(rows)
    BY <1>t, LiveFacts
  <2> QED BY <1>t, <2>1, OldFacts, LiveFacts DEF Snapshot
<1>p. /\ ProxiesOwned(ag, job, old) /\ BalancersOwned(ag, job, oldLb)
  BY DEF PortsInv
<1>m. /\ Switching <=> old # new
      /\ LbSwitching <=> oldLb # newLb
  BY <1>3 DEF Switching, LbSwitching
<1>a. ASSUME NEW pc \in JobSteps, NEW did \in SUBSET Marks, Advance(pc, did)
      PROVE  job'.pc = pc /\ job'.snap = job.snap /\ job'.live = job.live /\ job'.did = did
  BY <1>a, <1>t DEF Advance, Job
<1>g. ASSUME NEW pc \in JobSteps, Goto(pc)
      PROVE  job'.pc = pc /\ job'.snap = job.snap /\ job'.live = job.live /\ job'.did = job.did
  BY <1>g, <1>t DEF Goto, Job
<1>l. /\ {"lbApply", "stop", "apply", "follow", "health", "promote", AfterLb} \subseteq JobSteps
      /\ AfterLb = IF old # new THEN "stop" ELSE "apply"
  BY <1>m DEF JobSteps, AfterLb
<1>c. ASSUME NEW c \in AgentCall, NEW r \in Replies, Send(c, r)
      PROVE  /\ ~Wakes(c) => r = "ok" /\ Asleep(ag'[c.to])
             /\ \A e \in Engine : Asleep(ag[e]) /\ (e = c.to /\ Wakes(c) => r # "ok") => Asleep(ag'[e])
  <2>1. up[c.to]
    BY DEF PortsInv, AgentCall, Calls
  <2> QED BY <1>c, <1>t, <2>1, CalmSend
<1>q. ASSUME job'.snap = job.snap, job'.live = job.live,
             job'.pc = "stop" => old # new,
             ProxiesOwned(ag', job', old), BalancersOwned(ag', job', oldLb)
      PROVE  PortsInv'
  BY <1>1, <1>2, <1>3, <1>m, <1>q DEF PortsInv, Calm, Switching
<1> HIDE DEF old, new, oldLb, newLb
<1>n. /\ \A j : j.snap = job.snap => j.snap.pe = new /\ j.snap.le = newLb
      /\ job.snap.pe = new /\ job.snap.le = newLb
  BY DEF new, newLb
<1>4. ASSUME NEW r \in {"ok", "unavailable"}, StopOldLb(r) PROVE PortsInv'
  <2> DEFINE c == IF job.live = 0 THEN Call("stopOnly", OldLb(job.live), None)
                  ELSE Call("applyStop", OldLb(job.live), rows[job.live].snap.lh)
  <2>1. c \in AgentCall /\ c.to = oldLb /\ ~Wakes(c)
    <3>1. oldLb \in Engine /\ OldLb(job.live) = oldLb
      BY <1>3, <1>s, EngineSorts DEF oldLb
    <3>2. job.live # 0 => rows[job.live].snap.lh \in Hash
      BY <1>3, <1>s
    <3>3. /\ Call("stopOnly", oldLb, None) \in AgentCall /\ ~Wakes(Call("stopOnly", oldLb, None))
          /\ Call("stopOnly", oldLb, None).to = oldLb
      BY <3>1 DEF Call, AgentCall, Calls, Wakes
    <3>4. ASSUME NEW h \in Hash
          PROVE  /\ Call("applyStop", oldLb, h) \in AgentCall /\ ~Wakes(Call("applyStop", oldLb, h))
                 /\ Call("applyStop", oldLb, h).to = oldLb
      BY <3>1 DEF Call, AgentCall, Calls, Wakes
    <3> QED BY <3>1, <3>2, <3>3, <3>4
  <2>2. job.pc = "lbStop" /\ Send(c, r) /\ r \in Replies
    BY <1>4 DEF StopOldLb, Replies
  <2>3. LbSwitching
    BY <2>2 DEF PortsInv, PromotedInv
  <2> HIDE DEF c
  <2>4. Asleep(ag'[oldLb]) /\ \A e \in Engine : Asleep(ag[e]) => Asleep(ag'[e])
    BY <1>c, <2>1, <2>2
  <2>5. /\ job'.pc = "lbApply" /\ job'.snap = job.snap /\ job'.live = job.live
        /\ "lbSwitch" \in job'.did /\ {"switch", "swap"} \cap job'.did = {}
    <3>1. \E did \in SUBSET Marks : Advance("lbApply", did) /\ "lbSwitch" \in did
                                                           /\ {"switch", "swap"} \cap did = {}
      BY <1>4 DEF StopOldLb, Marks
    <3> QED BY <3>1, <1>a, <1>l
  <2>6. Down(ag, Proxies \ {old}) /\ Down(ag, Balancers \ {oldLb})
    BY <1>p, <2>2 DEF ProxiesOwned, BalancersOwned, ToSwap
  <2>7. Down(ag', Proxies \ {old}) /\ Down(ag', Balancers)
    BY <2>4, <2>6, EngineSorts DEF Down
  <2>8. ProxiesOwned(ag', job', old)
    BY <2>5, <2>7 DEF ProxiesOwned, ToSwap
  <2>9. BalancersOwned(ag', job', oldLb)
    BY <1>m, <1>n, <2>3, <2>5, <2>7 DEF BalancersOwned, ToSwap
  <2> QED BY <1>q, <2>5, <2>8, <2>9
<1>5. ASSUME NEW r \in {"ok", "unavailable"}, StopOldProxy(r) PROVE PortsInv'
  <2> DEFINE c == IF job.live = 0 THEN Call("stopOnly", OldProxy(job.live), None)
                  ELSE Call("applyStop", OldProxy(job.live), rows[job.live].snap.ph)
  <2>1. c \in AgentCall /\ c.to = old /\ ~Wakes(c)
    <3>1. old \in Engine /\ OldProxy(job.live) = old
      BY <1>3, <1>s, EngineSorts DEF old
    <3>2. job.live # 0 => rows[job.live].snap.ph \in Hash
      BY <1>3, <1>s
    <3>3. /\ Call("stopOnly", old, None) \in AgentCall /\ ~Wakes(Call("stopOnly", old, None))
          /\ Call("stopOnly", old, None).to = old
      BY <3>1 DEF Call, AgentCall, Calls, Wakes
    <3>4. ASSUME NEW h \in Hash
          PROVE  /\ Call("applyStop", old, h) \in AgentCall /\ ~Wakes(Call("applyStop", old, h))
                 /\ Call("applyStop", old, h).to = old
      BY <3>1 DEF Call, AgentCall, Calls, Wakes
    <3> QED BY <3>1, <3>2, <3>3, <3>4
  <2>2. job.pc = "stop" /\ Send(c, r) /\ r \in Replies
    BY <1>5 DEF StopOldProxy, Replies
  <2>3. old # new
    BY <1>m, <2>2 DEF PortsInv
  <2> HIDE DEF c
  <2>4. Asleep(ag'[old]) /\ \A e \in Engine : Asleep(ag[e]) => Asleep(ag'[e])
    BY <1>c, <2>1, <2>2
  <2>5. /\ job'.pc = "apply" /\ job'.snap = job.snap /\ job'.live = job.live
        /\ {"switch", "start"} \subseteq job'.did
        /\ \A m \in {"lbSwitch", "lbStart"} : m \in job.did <=> m \in job'.did
    <3>1. PICK did \in SUBSET Marks : /\ Advance("apply", did) /\ {"switch", "start"} \subseteq did
                                      /\ \A m \in {"lbSwitch", "lbStart"} : m \in job.did <=> m \in did
      <4>1. \A X \in {{"switch", "stop", "start"}, {"switch", "start"}} :
              /\ job.did \cup X \in SUBSET Marks /\ {"switch", "start"} \subseteq job.did \cup X
              /\ \A m \in {"lbSwitch", "lbStart"} : m \in job.did <=> m \in job.did \cup X
        BY <1>t DEF Marks
      <4>2. \E X \in {{"switch", "stop", "start"}, {"switch", "start"}} : Advance("apply", job.did \cup X)
        BY <1>5 DEF StopOldProxy
      <4> QED BY <4>1, <4>2
    <3> QED BY <3>1, <1>a, <1>l
  <2>6. /\ Down(ag, Proxies \ {old}) /\ Down(ag, Balancers \ {newLb})
        /\ IF oldLb = newLb THEN "lbSwitch" \notin job.did
           ELSE "lbSwitch" \in job.did /\ ("lbStart" \in job.did \/ Down(ag, Balancers))
    BY <1>p, <1>n, <2>2 DEF ProxiesOwned, BalancersOwned
  <2>7. /\ Down(ag', Proxies) /\ Down(ag', Balancers \ {newLb})
        /\ Down(ag, Balancers) => Down(ag', Balancers)
    BY <2>4, <2>6, EngineSorts DEF Down
  <2>8. ProxiesOwned(ag', job', old)
    BY <1>n, <2>3, <2>5, <2>7 DEF ProxiesOwned, ToSwap
  <2>9. BalancersOwned(ag', job', oldLb)
    BY <1>n, <2>5, <2>6, <2>7 DEF BalancersOwned, ToSwap
  <2> QED BY <1>q, <2>5, <2>8, <2>9
<1>6. ASSUME NEW r \in Replies, ApplyLb(r) PROVE PortsInv'
  <2> DEFINE c == Install(newLb, job.snap.lh, job.snap.run)
             before == IF LbSwitching THEN job.did \cup {"lbStart"} ELSE job.did
             after  == IF LbSwitching THEN before ELSE job.did \cup {"lbChange"}
  <2>1. c \in AgentCall /\ c.to = newLb
    <3>1. newLb \in Engine /\ job.snap.lh \in Hash
      BY <1>s, EngineSorts
    <3> QED BY <3>1, InstallFacts
  <2>2. /\ job.pc = "lbApply" /\ Send(c, r)
        /\ IF r = "ok" THEN Advance(AfterLb, after) ELSE FailWith(before)
    BY <1>6 DEF ApplyLb, newLb
  <2> HIDE DEF c
  <2>3. \A e \in Engine : Asleep(ag[e]) /\ (e = newLb => r # "ok") => Asleep(ag'[e])
    BY <1>c, <2>1, <2>2
  <2>4. /\ before \in SUBSET Marks /\ after \in SUBSET Marks
        /\ \A m \in {"switch", "swap", "lbSwitch"} : (m \in before <=> m \in job.did)
                                                 /\ (m \in after <=> m \in job.did)
        /\ LbSwitching => "lbStart" \in before /\ "lbStart" \in after
    BY <1>t DEF Marks
  <2>5. /\ Down(ag, Proxies \ {old}) /\ "switch" \notin job.did /\ "swap" \notin job.did
        /\ IF oldLb = newLb THEN Down(ag, Balancers \ {oldLb}) /\ "lbSwitch" \notin job.did
           ELSE Down(ag, Balancers) /\ "lbSwitch" \in job.did
    BY <1>p, <1>n, <2>2 DEF ProxiesOwned, BalancersOwned
  <2> HIDE DEF before, after
  <2>6. Down(ag', Proxies \ {old}) /\ Down(ag', Balancers \ {newLb})
    BY <2>3, <2>5, <1>s, EngineSorts DEF Down
  <2>7. CASE r = "ok"
    <3>1. /\ job'.pc = AfterLb /\ job'.snap = job.snap /\ job'.live = job.live /\ job'.did = after
      BY <1>a, <1>l, <2>2, <2>4, <2>7
    <3>2. ProxiesOwned(ag', job', old)
      BY <1>l, <1>n, <2>4, <2>5, <2>6, <3>1 DEF ProxiesOwned, ToSwap
    <3>3. BalancersOwned(ag', job', oldLb)
      BY <1>l, <1>m, <1>n, <2>4, <2>5, <2>6, <3>1 DEF BalancersOwned, ToSwap
    <3> QED BY <1>l, <1>q, <3>1, <3>2, <3>3
  <2>8. CASE r # "ok"
    <3>1. Down(ag', Balancers \ {oldLb})
      BY <2>3, <2>5, <2>8, EngineSorts DEF Down
    <3>2. FailWith(before)
      BY <2>2, <2>8
    <3> QED BY <1>1, <1>m, <2>4, <2>5, <2>6, <3>1, <3>2, PortsFail DEF old, oldLb, new, newLb
  <2> QED BY <2>7, <2>8
<1>7. CASE PassLb
  <2>1. /\ job.pc = "lbApply" /\ ag' = ag
        /\ FailWith(job.did) \/ Goto(AfterLb)
    BY <1>7 DEF PassLb
  <2>2. /\ Down(ag, Proxies \ {old}) /\ "switch" \notin job.did /\ "swap" \notin job.did
        /\ IF oldLb = newLb THEN Down(ag, Balancers \ {oldLb}) /\ "lbSwitch" \notin job.did
           ELSE Down(ag, Balancers) /\ "lbSwitch" \in job.did
        /\ Down(ag, Balancers \ {oldLb}) /\ Down(ag, Balancers \ {newLb})
    BY <1>p, <1>n, <2>1 DEF ProxiesOwned, BalancersOwned, Down
  <2>3. CASE Goto(AfterLb)
    <3>1. /\ job'.pc = AfterLb /\ job'.snap = job.snap /\ job'.live = job.live /\ job'.did = job.did
      BY <1>g, <1>l, <2>3
    <3>2. ProxiesOwned(ag', job', old)
      BY <1>l, <1>n, <2>1, <2>2, <3>1 DEF ProxiesOwned, ToSwap
    <3>3. BalancersOwned(ag', job', oldLb)
      BY <1>l, <1>n, <2>1, <2>2, <3>1 DEF BalancersOwned, ToSwap
    <3> QED BY <1>l, <1>q, <3>1, <3>2, <3>3
  <2>4. CASE FailWith(job.did)
    BY <1>1, <1>t, <2>1, <2>2, <2>4, PortsFail DEF old, oldLb, new, newLb
  <2> QED BY <2>1, <2>3, <2>4
<1>8. ASSUME NEW r \in Replies, ApplyProxy(r) PROVE PortsInv'
  <2> DEFINE c == Call("apply", new, job.snap.ph)
  <2>1. c \in AgentCall /\ c.to = new
    <3>1. new \in Engine /\ job.snap.ph \in Hash
      BY <1>s, EngineSorts
    <3> QED BY <3>1, InstallFacts DEF Call
  <2>2. /\ job.pc = "apply" /\ Send(c, r)
        /\ IF r = "ok" THEN Advance("follow", job.did \cup {"swap"}) ELSE FailWith(job.did)
    BY <1>8 DEF ApplyProxy, new
  <2> HIDE DEF c
  <2>3. \A e \in Engine : Asleep(ag[e]) /\ (e = new => r # "ok") => Asleep(ag'[e])
    BY <1>c, <2>1, <2>2
  <2>4. /\ IF old = new THEN Down(ag, Proxies \ {old}) /\ "switch" \notin job.did
           ELSE Down(ag, Proxies) /\ {"switch", "start"} \subseteq job.did
        /\ Down(ag, Balancers \ {newLb})
        /\ IF oldLb = newLb THEN "lbSwitch" \notin job.did
           ELSE "lbSwitch" \in job.did /\ ("lbStart" \in job.did \/ Down(ag, Balancers))
    BY <1>p, <1>n, <2>2 DEF ProxiesOwned, BalancersOwned
  <2>5. /\ Down(ag', Proxies \ {new}) /\ Down(ag', Balancers \ {newLb})
        /\ Down(ag, Balancers) => Down(ag', Balancers)
    BY <2>3, <2>4, <1>s, EngineSorts DEF Down
  <2>6. CASE r = "ok"
    <3>1. job.did \cup {"swap"} \in SUBSET Marks
      BY <1>t DEF Marks
    <3>2. /\ job'.pc = "follow" /\ job'.snap = job.snap /\ job'.live = job.live
          /\ job'.did = job.did \cup {"swap"}
      BY <1>a, <1>l, <2>2, <2>6, <3>1
    <3>3. ProxiesOwned(ag', job', old)
      BY <1>n, <2>4, <2>5, <3>2 DEF ProxiesOwned, ToSwap
    <3>4. BalancersOwned(ag', job', oldLb)
      BY <1>n, <2>4, <2>5, <3>2 DEF BalancersOwned, ToSwap
    <3> QED BY <1>q, <3>2, <3>3, <3>4
  <2>7. CASE r # "ok"
    <3>1. Down(ag', Proxies \ {old})
      BY <2>3, <2>4, <2>7, EngineSorts DEF Down
    <3>2. Down(ag', Balancers) => Down(ag', Balancers \ {oldLb})
      BY DEF Down
    <3>3. FailWith(job.did)
      BY <2>2, <2>7
    <3> QED BY <1>1, <1>t, <2>4, <2>5, <3>1, <3>2, <3>3, PortsFail DEF old, oldLb, new, newLb
  <2> QED BY <2>6, <2>7
<1>9. ASSUME job.pc \in {"follow", "health"},
             \A e \in Engine \ {"tunnel"} : Asleep(ag[e]) => Asleep(ag'[e]),
             \/ FailWith(job.did)
             \/ \E pc \in {"health", "promote"} : Goto(pc) \/ Advance(pc, job.did \cup {"tunnel"})
      PROVE  PortsInv'
  <2>1. /\ Down(ag, Proxies \ {new}) /\ Down(ag, Balancers \ {newLb})
        /\ IF old = new THEN "switch" \notin job.did ELSE {"switch", "start"} \subseteq job.did
        /\ IF oldLb = newLb THEN "lbSwitch" \notin job.did
           ELSE "lbSwitch" \in job.did /\ ("lbStart" \in job.did \/ Down(ag, Balancers))
    BY <1>p, <1>n, <1>9 DEF ProxiesOwned, BalancersOwned
  <2>2. /\ Down(ag', Proxies \ {new}) /\ Down(ag', Balancers \ {newLb})
        /\ Down(ag, Balancers) => Down(ag', Balancers)
    BY <1>9, <2>1, EngineSorts DEF Down
  <2>3. CASE FailWith(job.did)
    <3>1. Down(ag', Balancers) => Down(ag', Balancers \ {oldLb})
      BY DEF Down
    <3> QED BY <1>1, <1>t, <2>1, <2>2, <2>3, <3>1, PortsFail DEF old, oldLb, new, newLb
  <2>4. ASSUME NEW pc \in {"health", "promote"}, Goto(pc) \/ Advance(pc, job.did \cup {"tunnel"})
        PROVE  PortsInv'
    <3>1. job.did \cup {"tunnel"} \in SUBSET Marks
      BY <1>t DEF Marks
    <3>2. /\ job'.pc = pc /\ job'.snap = job.snap /\ job'.live = job.live
          /\ job'.did = job.did \/ job'.did = job.did \cup {"tunnel"}
      BY <1>a, <1>g, <1>l, <2>4, <3>1
    <3>3. \A m \in {"switch", "start", "lbSwitch", "lbStart"} : m \in job'.did <=> m \in job.did
      BY <3>2
    <3>4. ProxiesOwned(ag', job', old)
      BY <1>n, <2>1, <2>2, <3>2, <3>3 DEF ProxiesOwned, ToSwap
    <3>5. BalancersOwned(ag', job', oldLb)
      BY <1>n, <2>1, <2>2, <3>2, <3>3 DEF BalancersOwned, ToSwap
    <3> QED BY <1>q, <3>2, <3>4, <3>5
  <2> QED BY <1>9, <2>3, <2>4
<1>10. ASSUME NEW r \in Replies, ApplyTunnel(r) PROVE PortsInv'
  <2> DEFINE c == Install("tunnel", job.snap.th, job.snap.tun)
  <2>1. c \in AgentCall /\ c.to = "tunnel"
    <3>1. "tunnel" \in Engine /\ job.snap.th \in Hash
      BY <1>s, EngineSorts
    <3> QED BY <3>1, InstallFacts
  <2>2. /\ job.pc = "follow" /\ Send(c, r)
        /\ Advance("health", job.did \cup {"tunnel"}) \/ FailWith(job.did)
    BY <1>10 DEF ApplyTunnel
  <2> HIDE DEF c
  <2>3. \A e \in Engine \ {"tunnel"} : Asleep(ag[e]) => Asleep(ag'[e])
    BY <1>c, <2>1, <2>2
  <2> QED BY <1>9, <2>2, <2>3
<1>11. ASSUME PassTunnel \/ HealthPasses \/ HealthFails PROVE PortsInv'
  <2>1. /\ job.pc \in {"follow", "health"} /\ ag' = ag
        /\ FailWith(job.did) \/ Goto("health") \/ Goto("promote")
    BY <1>11 DEF PassTunnel, HealthPasses, HealthFails
  <2> QED BY <1>9, <2>1
<1> QED BY <1>4, <1>5, <1>6, <1>7, <1>8, <1>10, <1>11 DEF SwapStep

\* The steps of an apply.
LEMMA PortsJob ==
  ASSUME PortsInv, PromotedInv', JobStep
  PROVE  PortsInv'
<1>t. HistoryInv /\ HistoryInv' /\ TypeInv /\ TypeOK /\ Calm /\ job \in Job
  BY DEF PortsInv, PromotedInv, HistoryInv, TypeInv, TypeOK
<1>s. ASSUME \/ rows' = rows
             \/ \E st \in {"draft", "failed"} : rows' = Append(rows, NewRow(st))
             \/ RecordFailure
      PROVE  Live' = Live /\ OldProxy(Live)' = OldProxy(Live) /\ OldLb(Live)' = OldLb(Live)
  BY <1>s, <1>t, LiveSame
<1>e. ASSUME EndJob
      PROVE  job'.pc \in {"idle", "read"} /\ job'.did \cap {"switch", "swap", "lbSwitch", "lbChange"} = {}
  BY <1>e DEF EndJob, NoJob
<1>p. job.pc \in ToSwap => Down(ag, Proxies \ {OldProxy(Live)}) /\ Down(ag, Balancers \ {OldLb(Live)})
  BY DEF PortsInv, ProxiesOwned, BalancersOwned
<1>r. job.pc # "idle" /\ rec' = rec => rec.pc # "run" /\ rec'.pc # "run"
  BY <1>t DEF HistoryInv
<1>1. CASE ReadDraft
  <2>1. UNCHANGED <<rows, ag, up, rec>> /\ job.pc = "read"
    BY <1>1 DEF ReadDraft
  <2>2. CASE EndJob
    BY <1>e, <1>p, <1>r, <1>s, <2>1, <2>2, PortsRest DEF ToSwap, PortsInv
  <2>3. CASE job' = [job EXCEPT !.pc = "proxy", !.snap = draft, !.live = Live]
    <3>1. job'.pc = "proxy" /\ job'.did = job.did /\ job'.live = Live
      BY <1>t, <2>3 DEF Job
    <3> QED BY <1>r, <1>s, <2>1, <3>1, PortsBefore DEF ToSwap
  <2> QED BY <1>1, <2>2, <2>3 DEF ReadDraft
<1>2. ASSUME CheckProxy \/ CheckLb \/ CheckTunnel PROVE PortsInv'
  <2>1. /\ UNCHANGED <<rows, ag, up, rec>> /\ job.pc \in {"proxy", "lb", "tunnel"}
        /\ job'.pc \in {"lb", "tunnel", "insert"} /\ job'.did = job.did /\ job'.live = job.live
    BY <1>2, <1>t DEF CheckProxy, CheckLb, CheckTunnel, Goto, Job
  <2>2. job.live = Live
    BY <2>1 DEF PortsInv
  <2> QED BY <1>r, <1>s, <2>1, <2>2, PortsBefore DEF ToSwap
<1>3. CASE InsertDraft
  <2>1. /\ UNCHANGED <<ag, up, rec>> /\ job.pc = "insert" /\ rows' = Append(rows, NewRow("draft"))
        /\ job'.pc = IF LbSwitching THEN "lbStop" ELSE "lbApply"
        /\ job'.did = job.did /\ job'.live = job.live /\ job'.snap = job.snap
    BY <1>3, <1>t DEF InsertDraft, Goto, Job
  <2>2. job.live = Live
    BY <2>1 DEF PortsInv
  <2>3. job'.pc = "lbApply" => OldLb(Live) = job'.snap.le
    BY <2>1, <2>2 DEF LbSwitching
  <2> QED BY <1>r, <1>s, <2>1, <2>2, <2>3, PortsBefore DEF ToSwap
<1>4. ASSUME NEW e \in Engine, EnsureEngine(e) PROVE FALSE
  BY <1>4, <1>t DEF EnsureEngine, Bring, Calm
<1>5. ASSUME NEW r \in {"refused", "unavailable"}, ValidateFails(r) PROVE PortsInv'
  <2>1. /\ UNCHANGED <<ag, up, rec>> /\ EndJob
        /\ rows' = rows \/ rows' = Append(rows, NewRow("failed"))
        /\ Needed(job.pc) # {}
    BY <1>5 DEF ValidateFails
  <2>2. job.pc \in ToSwap /\ job.pc # "idle"
    BY <2>1 DEF Needed, ToSwap
  <2> QED BY <1>e, <1>p, <1>r, <1>s, <2>1, <2>2, PortsRest DEF PortsInv
<1>6. CASE RecordFailure
  <2>1. UNCHANGED <<ag, up, rec>> /\ EndJob /\ job.pc = "undo" /\ job.undo = <<>>
    BY <1>6, Zenon DEF RecordFailure
  <2>2. \A X, new : ~StopsFirst(X, new, job.undo)
    BY <2>1 DEF StopsFirst
  <2>3. Down(ag, Proxies \ {OldProxy(Live)}) /\ Down(ag, Balancers \ {OldLb(Live)})
    BY <2>1, <2>2 DEF PortsInv, ProxiesOwned, BalancersOwned
  <2> QED BY <1>e, <1>r, <1>s, <1>6, <2>1, <2>3, PortsRest DEF PortsInv
<1>7. CASE Promote
  <2>1. UNCHANGED <<ag, up, rec>> /\ EndJob /\ job.pc = "promote"
    BY <1>7, Zenon DEF Promote
  <2>2. OldProxy(Live)' = job.snap.pe /\ OldLb(Live)' = job.snap.le
    BY <1>7, <1>t, LivePromoted
  <2>3. Down(ag, Proxies \ {job.snap.pe}) /\ Down(ag, Balancers \ {job.snap.le})
    BY <2>1 DEF PortsInv, ProxiesOwned, BalancersOwned
  <2> QED BY <1>e, <1>r, <2>1, <2>2, <2>3, PortsRest DEF PortsInv
<1>8. ASSUME NEW r \in Replies, UndoStep(r) PROVE PortsInv'
  BY <1>8, PortsUndo
<1>9. CASE SwapStep
  BY <1>9, PortsSwap
<1> QED BY <1>1, <1>2, <1>3, <1>4, <1>5, <1>6, <1>7, <1>8, <1>9 DEF JobStep, SwapStep

\* No step wakes a second engine of a kind.
LEMMA PortsNext == PortsInv /\ [Next]_vars => PortsInv'
<1> SUFFICES ASSUME PortsInv, [Next]_vars PROVE PortsInv'
  OBVIOUS
<1>t. PromotedInv /\ PromotedInv' /\ TypeInv /\ TypeOK /\ Calm
  BY PromotedNext DEF PortsInv, PromotedInv, HistoryInv, TypeInv
<1>r. rec' = rec /\ rows' = rows => (rec'.pc = "run" => RecReturns')
  <2>1. rows' = rows => OldProxy(Live)' = OldProxy(Live) /\ OldLb(Live)' = OldLb(Live)
    BY <1>t, LiveSame DEF PromotedInv
  <2> QED BY <2>1 DEF PortsInv, RecReturns
<1>1. CASE Begin
  <2>1. /\ UNCHANGED <<rows, ag, up, rec>> /\ job.pc = "idle"
        /\ job'.pc = "read" /\ job'.did = {}
    BY <1>1 DEF Begin, ApplyBegin, RollbackBegin, Unlocked, NoJob
  <2>2. Down(ag, Proxies \ {OldProxy(Live)}) /\ Down(ag, Balancers \ {OldLb(Live)})
    BY <2>1 DEF PortsInv, ProxiesOwned, BalancersOwned, ToSwap
  <2>3. OldProxy(Live)' = OldProxy(Live) /\ OldLb(Live)' = OldLb(Live)
    BY <1>t, <2>1, LiveSame DEF PromotedInv
  <2> QED BY <1>r, <1>t, <2>1, <2>2, <2>3, PortsRest DEF PortsInv
<1>2. CASE JobStep
  BY <1>2, <1>t, PortsJob
<1>3. CASE Reconcile
  BY <1>3, <1>t, PortsReconcile
<1>4. ASSUME Discard \/ (\E s \in Snapshots : Edit(s)) \/ UNCHANGED vars PROVE PortsInv'
  <2>1. UNCHANGED <<job, rows, ag, up, rec>>
    BY <1>4 DEF Discard, Edit, vars
  <2> QED BY <1>r, <1>t, <2>1, PortsKept
<1>5. CASE AdminAction
  BY <1>5, <1>t, PortsAdmin
<1>6. ASSUME NEW e \in Engine, EngineExits(e) \/ EngineReturns(e) \/ AgentRestarts(e)
      PROVE  PortsInv'
  <2>1. UNCHANGED <<job, rows, up, rec>>
    BY <1>6 DEF EngineExits, EngineReturns, AgentRestarts
  <2>2. ag[e] \in AgentState
    BY <1>t DEF TypeOK
  <2>3. \/ ag' = [ag EXCEPT ![e].proc = None]
        \/ ag[e].want /\ ag' = [ag EXCEPT ![e].proc = ag[e].store.current]
        \/ ag' = [ag EXCEPT ![e] = Booted(ag[e])]
    BY <1>6, <1>t DEF EngineExits, EngineReturns, AgentRestarts, TypeOK
  <2>4. Asleep(ag[e]) => Asleep(Booted(ag[e]))
    BY <2>2, SleepFacts
  <2>5. Asleep(ag[e]) => Asleep(ag'[e])
    BY <2>2, <2>3, <2>4, <1>t DEF Asleep, AgentState, TypeOK
  <2>6. \A x \in Engine : x # e => ag'[x] = ag[x]
    BY <2>3, <1>t DEF TypeOK
  <2> QED BY <1>r, <1>t, <2>1, <2>5, <2>6, PortsKept
<1>7. CASE Crash
  BY <1>7, <1>t DEF Crash, Fault, Calm
<1> QED BY <1>1, <1>2, <1>3, <1>4, <1>5, <1>6, <1>7 DEF Next, Environment

\* Calm /\ Spec => []OnePortOwner: while every request is answered and containers
\* stay up, no switch to another proxy engine or load balancer, no undoing of one, no
\* reconcile, no start by an admin and no restart of an engine or of its container ever
\* has two engines of a kind run on the same ports.
THEOREM PortsAreOwned == Calm /\ Spec => []OnePortOwner
<1>1. PortsInv => OnePortOwner
  <2> SUFFICES ASSUME PortsInv PROVE OnePortOwner
    OBVIOUS
  <2>1. \A e \in Engine : Asleep(ag[e]) => ~Running(ag[e])
    BY DEF Asleep, Running
  <2>2. \E x : Down(ag, Proxies \ {x})
    <3>1. job.pc \in JobSteps
      BY DEF PortsInv, PromotedInv, HistoryInv, TypeInv, TypeOK, Job
    <3>2. \A x : Down(ag, Proxies) => Down(ag, Proxies \ {x})
      BY DEF Down
    <3> QED BY <3>1, <3>2 DEF PortsInv, ProxiesOwned, ToSwap, JobSteps
  <2>3. \E x : Down(ag, Balancers \ {x})
    <3>1. job.pc \in JobSteps
      BY DEF PortsInv, PromotedInv, HistoryInv, TypeInv, TypeOK, Job
    <3>2. \A x : Down(ag, Balancers) => Down(ag, Balancers \ {x})
      BY DEF Down
    <3> QED BY <3>1, <3>2 DEF PortsInv, BalancersOwned, ToSwap, JobSteps
  <2>4. ASSUME NEW X \in SUBSET Engine, NEW x, Down(ag, X \ {x})
        PROVE  Cardinality({ e \in X : Running(ag[e]) }) <= 1
    <3> DEFINE S == { e \in X : Running(ag[e]) }
    <3>1. S = {} \/ S = {x}
      BY <2>1, <2>4 DEF Down
    <3> HIDE DEF S
    <3>2. Cardinality(S) \in {0, 1}
      BY <3>1, FS_EmptySet, FS_Singleton
    <3> QED BY <3>2 DEF S
  <2> QED BY <2>2, <2>3, <2>4, EngineSorts DEF OnePortOwner
<1> QED BY PortsInit, PortsNext, <1>1, PTL DEF Spec

-----------------------------------------------------------------------------
(* Which agents are as they were left *)

\* An agent whose engine never exits by itself: the engine runs the active release when
\* it is wanted, and is down when it is not.
Coherent(a) ==
    IF a.want THEN a.proc = a.store.current /\ Running(a) /\ ~a.store.stopped
    ELSE ~Running(a)

\* A rollback goes to another release.
LEMMA RollbackMoves ==
  ASSUME NEW s \in Store, Previous(s) # None
  PROVE  RolledBack(s).current = Previous(s) /\ Previous(s) # s.current
<1>1. Previous(s) # s.current
  <2>1. Earlier(s) # {} /\ Previous(s) = s.history[Latest(Earlier(s))]
    BY DEF Previous
  <2>2. \A j \in Earlier(s) : s.history[j] # s.current
    BY DEF Earlier
  <2>3. Positions(s.history, s.current) # {}
    BY <2>1 DEF Earlier
  <2> DEFINE at == Positions(s.history, s.current)
  <2>4. at \in SUBSET (1..Len(s.history)) /\ Len(s.history) \in Nat
    BY DEF Positions, Store
  <2>5. Latest(at) \in 1..Len(s.history)
    BY <2>3, <2>4, LatestIn
  <2>6. Earlier(s) \in SUBSET (1..Len(s.history))
    BY <2>4, <2>5 DEF Earlier
  <2>7. Latest(Earlier(s)) \in Earlier(s)
    BY <2>1, <2>4, <2>6, LatestIn
  <2> QED BY <2>1, <2>2, <2>7
<1>2. Previous(s) \in Release
  BY PreviousOnDisk DEF Store
<1>3. Swapped(s, Previous(s)) \in Store /\ Swapped(s, Previous(s)).current = Previous(s)
  BY <1>2, StoreOperations DEF Swapped, Store
<1>4. RolledBack(s).current = Previous(s)
  BY <1>3 DEF RolledBack, RewoundTo, Store
<1> QED BY <1>1, <1>4

\* Whatever is asked of it, and however it answers, it stays one.
LEMMA CoherentFacts ==
  ASSUME NEW a \in AgentState, Coherent(a), NEW c \in AgentCall, NEW ao \in BOOLEAN
  PROVE  /\ CanDo(a, c.do) => Coherent(Done(a, c.do, c.hash, ao))
         /\ \A b \in Refusals(a, c.do, c.hash, ao) : Coherent(b)
<1> a.store \in Store
  BY DEF AgentState
<1>n. None \notin Hash
  BY ReleaseAssumption
<1>h. \A s : Coherent(Halted(s))
  BY DEF Coherent, Halted, Running
<1>s. \A s : s.current # None /\ ~s.stopped => Coherent(Serving(s))
  BY DEF Coherent, Serving, Running
<1>1. ASSUME CanDo(a, c.do) PROVE Coherent(Done(a, c.do, c.hash, ao))
  <2>1. CASE c.do = "apply"
    <3>1. c.hash \in Hash
      BY <2>1 DEF AgentCall
    <3>2. Applied(a.store, c.hash, FALSE).current = c.hash
      BY <3>1, AppliedStore
    <3>4. ~Applied(a.store, c.hash, FALSE).stopped
      BY <3>1, StoppedStore
    <3>3. Coherent(Serving(Applied(a.store, c.hash, FALSE)))
      BY <1>n, <1>s, <3>1, <3>2, <3>4
    <3> QED BY <2>1, <3>3 DEF Done
  <2>2. CASE c.do = "applyStop"
    BY <1>h, <2>2 DEF Done
  <2>3. CASE c.do = "stopOnly"
    BY <1>h, <2>3 DEF Done
  <2>4. CASE c.do = "rollback"
    <3>1. Previous(a.store) # None
      BY <1>1, <2>4 DEF CanDo
    <3>2. RolledBack(a.store) \in Store /\ RolledBack(a.store).current # None
      BY <3>1, RolledBackStore, RollbackMoves
    <3>3. /\ Marked(RolledBack(a.store), FALSE).current # None
          /\ ~Marked(RolledBack(a.store), FALSE).stopped
      BY <3>2 DEF Marked, Store
    <3> QED BY <1>s, <2>4, <3>3 DEF Done
  <2>5. CASE c.do = "start"
    <3>1. a.store.current # None
      BY <1>1, <2>5 DEF CanDo
    <3>2. Marked(a.store, FALSE).current # None /\ ~Marked(a.store, FALSE).stopped
      BY <3>1 DEF Marked, Store
    <3> QED BY <1>s, <2>5, <3>2 DEF Done
  <2> QED BY <2>1, <2>2, <2>3, <2>4, <2>5 DEF AgentCall, Calls
<1>2. ASSUME NEW b \in Refusals(a, c.do, c.hash, ao) PROVE Coherent(b)
  <2>1. CASE c.do = "apply" /\ b = Reverted(a, c.hash, ao)
    <3> DEFINE back == Marked(Undone(a.store, c.hash), FALSE)
    <3>1. c.hash \in Hash
      BY <2>1 DEF AgentCall
    <3>2. Undone(a.store, c.hash) \in Store /\ Undone(a.store, c.hash).current = a.store.current
      BY <3>1, UndoneStore, StoppedStore
    <3>3. back.current = a.store.current /\ ~back.stopped
      BY <3>2 DEF Marked, Store
    <3> HIDE DEF back
    <3>4. \/ a.store.current # None /\ Reverted(a, c.hash, ao) = Serving(back)
          \/ \E s : Reverted(a, c.hash, ao) = Halted(s)
      BY DEF Reverted, back
    <3> QED BY <1>h, <1>s, <2>1, <3>3, <3>4
  <2>2. CASE b = a
    BY <2>2
  <2> QED BY <1>2, <2>1, <2>2 DEF Refusals
<1> QED BY <1>1, <1>2

\* A restart of its container changes nothing that runs.
LEMMA CoherentBoot ==
  ASSUME NEW a \in AgentState, Coherent(a)
  PROVE  /\ Coherent(Booted(a)) /\ Booted(a).store = a.store
         /\ Running(a) => Booted(a).proc = a.proc
         /\ Asleep(a) => Asleep(Booted(a))
<1>1. Coherent(Halted(a.store))
  BY DEF Coherent, Halted, Running
<1>2. a.store.current # None /\ ~a.store.stopped => Coherent(Serving(a.store))
  BY DEF Coherent, Serving, Running
<1>3. Coherent(Booted(a))
  BY <1>1, <1>2 DEF Booted
<1>4. Running(a) => a.proc = a.store.current /\ a.store.current # None /\ ~a.store.stopped
  BY DEF Coherent, Running
<1> QED BY <1>3, <1>4, AgentShapes, SleepFacts DEF Booted, Serving

\* A request leaves every agent one; one that takes the new version back from a proxy
\* engine leaves it asleep or on another release.
LEMMA CoherentSend ==
  ASSUME TypeOK, \A e \in Engine : Coherent(ag[e]),
         NEW c \in AgentCall, NEW r \in Replies, Send(c, r)
  PROVE  /\ \A e \in Engine : Coherent(ag'[e])
         /\ r = "ok" /\ c.do = "applyStop" => Asleep(ag'[c.to])
         /\ r = "ok" /\ c.do = "rollback" => ag'[c.to].store.current # ag[c.to].store.current
<1> DEFINE a == ag[c.to]
           done == Done(a, c.do, c.hash, AlwaysOn(c.to))
           refusals == Refusals(a, c.do, c.hash, AlwaysOn(c.to))
<1> c.to \in Engine /\ a \in AgentState /\ AlwaysOn(c.to) \in BOOLEAN /\ Coherent(a)
  BY DEF AgentCall, Calls, TypeOK, AlwaysOn
<1>1. \A e \in Engine : e # c.to => ag'[e] = ag[e]
  BY SendFacts
<1>2. (CanDo(a, c.do) => Coherent(done)) /\ \A b \in refusals : Coherent(b)
  BY CoherentFacts
<1>3. \/ r = "ok" /\ CanDo(a, c.do) /\ ag'[c.to] = done
      \/ r # "ok" /\ (ag' = ag \/ (CanDo(a, c.do) /\ ag'[c.to] = done) \/ \E b \in refusals : ag'[c.to] = b)
  <2>1. CASE r = "ok"
    <3>1. CanDo(a, c.do) /\ ag' = [ag EXCEPT ![c.to] = done]
      BY <2>1 DEF Send
    <3> QED BY <2>1, <3>1 DEF TypeOK
  <2>2. CASE r = "refused"
    <3>1. \E b \in refusals : ag' = [ag EXCEPT ![c.to] = b]
      BY <2>2 DEF Send
    <3> QED BY <2>2, <3>1 DEF TypeOK
  <2>3. CASE r = "unavailable"
    <3>1. \/ ag' = ag
          \/ \E b \in (IF CanDo(a, c.do) THEN {done} ELSE {}) \cup refusals : ag' = [ag EXCEPT ![c.to] = b]
      BY <2>3 DEF Send
    <3> HIDE DEF a, done, refusals
    <3> QED BY <2>3, <3>1 DEF TypeOK
  <2> QED BY <2>1, <2>2, <2>3 DEF Replies
<1> HIDE DEF done, refusals
<1>4. Coherent(ag'[c.to])
  BY <1>2, <1>3
<1>5. \A e \in Engine : Coherent(ag'[e])
  BY <1>1, <1>4
<1>6. ASSUME r = "ok", c.do = "applyStop" PROVE Asleep(ag'[c.to])
  <2>1. ~Wakes(c)
    BY <1>6 DEF Wakes
  <2>2. Asleep(done)
    BY <2>1, SleepFacts DEF done
  <2> QED BY <1>3, <1>6, <2>2
<1>7. ASSUME r = "ok", c.do = "rollback" PROVE ag'[c.to].store.current # ag[c.to].store.current
  <2>1. Previous(a.store) # None /\ a.store \in Store
    BY <1>3, <1>7 DEF CanDo, AgentState
  <2>2. /\ RolledBack(a.store) \in Store
        /\ RolledBack(a.store).current # a.store.current
    BY <2>1, RolledBackStore, RollbackMoves
  <2>3. done.store = Marked(RolledBack(a.store), FALSE)
    BY <1>7 DEF done, Done, Serving
  <2>4. Marked(RolledBack(a.store), FALSE).current # a.store.current
    BY <2>2 DEF Marked, Store
  <2> QED BY <1>3, <1>7, <2>3, <2>4
<1> QED BY <1>5, <1>6, <1>7

-----------------------------------------------------------------------------
(* The load balancer first *)

\* The first request takes the new version from proxy engine pe, and no other goes there.
TakesBack(pe, todo) ==
    /\ Len(todo) > 0 /\ todo[1].to = pe /\ todo[1].do \in {"rollback", "applyStop"}
    /\ \A i \in 2..Len(todo) : todo[i].to # pe

\* No request goes to engine pe.
Spares(pe, todo) == \A i \in 1..Len(todo) : todo[i].to # pe

\* What comes after does not change that.
LEMMA LeadFacts ==
  ASSUME NEW pe, NEW s \in Seq(AgentCall), NEW t \in Seq(AgentCall), Spares(pe, t)
  PROVE  /\ s \o t \in Seq(AgentCall)
         /\ TakesBack(pe, s) => TakesBack(pe, s \o t)
         /\ Spares(pe, s) => Spares(pe, s \o t)
<1> DEFINE q == s \o t
<1>1. /\ q \in Seq(AgentCall) /\ Len(s) \in Nat /\ Len(t) \in Nat /\ Len(q) = Len(s) + Len(t)
      /\ \A i \in 1..Len(s) : q[i] = s[i]
      /\ \A i \in 1..Len(t) : q[Len(s) + i] = t[i]
      /\ \A i \in 1..Len(q) : i \in 1..Len(s) \/ i - Len(s) \in 1..Len(t)
  BY ConcatFacts
<1> HIDE DEF q
<1>2. ASSUME NEW i \in 1..Len(q), i \notin 1..Len(s) PROVE q[i].to # pe
  <2>1. i - Len(s) \in 1..Len(t) /\ Len(s) + (i - Len(s)) = i
    BY <1>1, <1>2
  <2>2. q[Len(s) + (i - Len(s))] = t[i - Len(s)]
    BY <1>1, <2>1
  <2> QED BY <2>1, <2>2 DEF Spares
<1>3. ASSUME TakesBack(pe, s) PROVE TakesBack(pe, q)
  <2>1. Len(q) > 0 /\ 1 \in 1..Len(s) /\ 2..Len(q) \subseteq 1..Len(q)
    BY <1>1, <1>3 DEF TakesBack
  <2>2. q[1].to = pe /\ q[1].do \in {"rollback", "applyStop"}
    BY <1>1, <1>3, <2>1 DEF TakesBack
  <2>3. ASSUME NEW i \in 2..Len(q) PROVE q[i].to # pe
    <3>1. CASE i \in 1..Len(s)
      <4>1. i \in 2..Len(s) /\ q[i] = s[i]
        BY <1>1, <3>1
      <4> QED BY <1>3, <4>1 DEF TakesBack
    <3>2. CASE i \notin 1..Len(s)
      BY <1>2, <2>1, <3>2
    <3> QED BY <3>1, <3>2
  <2> QED BY <2>1, <2>2, <2>3 DEF TakesBack
<1>4. ASSUME Spares(pe, s) PROVE Spares(pe, q)
  BY <1>1, <1>2, <1>4 DEF Spares
<1> QED BY <1>1, <1>3, <1>4 DEF q

\* The undoing of an apply begins with the new version's proxy engine.
LEMMA UndoLeads ==
  ASSUME TypeInv, NEW did \in SUBSET Marks, "swap" \in did,
         "switch" \in did => "start" \in did /\ Switching
  PROVE  TakesBack(job.snap.pe, Undo(did))
<1> DEFINE new == job.snap
           old == IF job.live = 0 THEN new ELSE rows[job.live].snap
           P == IF "switch" \in did
                THEN Only("start" \in did, Call("applyStop", new.pe, new.ph))
                     \o Only("stop" \in did, Call("start", OldProxy(job.live), None))
                ELSE Only("swap" \in did, Call("rollback", new.pe, None))
           B == IF "lbSwitch" \in did
                THEN Only("lbStart" \in did, Call("applyStop", new.le, new.lh))
                     \o Only("lbStop" \in did /\ job.live # 0, Install(old.le, old.lh, LbWanted(old)))
                ELSE Only("lbChange" \in did, Call("rollback", new.le, None))
           T == Only("tunnel" \in did, Call("rollback", "tunnel", None))
<1>s. /\ new.pe \in Proxies /\ new.le \in Balancers /\ old.le \in Balancers
      /\ {new.ph, new.lh, old.lh} \subseteq Hash /\ LbWanted(old) \in BOOLEAN
  <2>1. new \in Snapshot /\ old \in Snapshot
    BY RowFacts DEF TypeInv, TypeOK, Job
  <2> QED BY <2>1 DEF Snapshot, LbWanted
<1>o. OldProxy(job.live) \in Proxies
  BY OldFacts DEF TypeInv
<1>1. ASSUME NEW c \in AgentCall, NEW q, q = <<>> \/ q = <<c>>
      PROVE  q \in Seq(AgentCall) /\ (c.to # new.pe => Spares(new.pe, q))
  <2>1. q \in Seq(AgentCall) /\ \A i \in 1..Len(q) : q[i] = c
    BY <1>1, OneFacts
  <2> QED BY <2>1 DEF Spares
<1>2. ASSUME NEW c \in AgentCall, c.to = new.pe, c.do \in {"rollback", "applyStop"}
      PROVE  <<c>> \in Seq(AgentCall) /\ TakesBack(new.pe, <<c>>)
  <2>1. <<c>> \in Seq(AgentCall) /\ Len(<<c>>) = 1 /\ <<c>>[1] = c
    OBVIOUS
  <2> HIDE DEF new
  <2> QED BY <1>2, <2>1 DEF TakesBack
<1>c. \A e \in Engine, h \in Hash :
        /\ Call("applyStop", e, h) \in AgentCall /\ Call("applyStop", e, h).do = "applyStop"
        /\ Call("applyStop", e, h).to = e
        /\ Call("start", e, None) \in AgentCall /\ Call("start", e, None).to = e
        /\ Call("rollback", e, None) \in AgentCall /\ Call("rollback", e, None).to = e
        /\ Call("rollback", e, None).do = "rollback"
        /\ \A run \in BOOLEAN : Install(e, h, run) \in AgentCall /\ Install(e, h, run).to = e
  BY DEF Install, Call, AgentCall, Calls
<1>P. P \in Seq(AgentCall) /\ TakesBack(new.pe, P)
  <2>1. CASE "switch" \in did
    <3> DEFINE c == Call("applyStop", new.pe, new.ph)
               d == Call("start", OldProxy(job.live), None)
               y == Only("stop" \in did, d)
    <3>1. c \in AgentCall /\ c.to = new.pe /\ c.do \in {"rollback", "applyStop"}
      BY <1>c, <1>s, EngineSorts
    <3>2. d \in AgentCall /\ d.to # new.pe
      BY <1>c, <1>s, <1>o, <2>1, EngineSorts DEF Switching
    <3>3. (y = <<>> \/ y = <<d>>) /\ P = <<c>> \o y
      BY <2>1 DEF Only
    <3> HIDE DEF c, d, y, P
    <3>4. <<c>> \in Seq(AgentCall) /\ TakesBack(new.pe, <<c>>)
      BY <3>1, <1>2
    <3>5. y \in Seq(AgentCall) /\ Spares(new.pe, y)
      BY <3>2, <3>3, <1>1
    <3> QED BY <3>3, <3>4, <3>5, LeadFacts
  <2>2. CASE "switch" \notin did
    <3> DEFINE c == Call("rollback", new.pe, None)
    <3>1. c \in AgentCall /\ c.to = new.pe /\ c.do \in {"rollback", "applyStop"}
      BY <1>c, <1>s, EngineSorts
    <3>2. P = <<c>>
      BY <2>2 DEF Only
    <3> HIDE DEF c, P
    <3> QED BY <3>1, <3>2, <1>2
  <2> QED BY <2>1, <2>2
<1>B. B \in Seq(AgentCall) /\ Spares(new.pe, B)
  <2>1. CASE "lbSwitch" \in did
    <3> DEFINE c == Call("applyStop", new.le, new.lh)
               d == Install(old.le, old.lh, LbWanted(old))
               x == Only("lbStart" \in did, c)
               y == Only("lbStop" \in did /\ job.live # 0, d)
    <3>1. c \in AgentCall /\ c.to # new.pe
      BY <1>c, <1>s, EngineSorts
    <3>2. d \in AgentCall /\ d.to # new.pe
      BY SMTT(60), <1>c, <1>s, EngineSorts
    <3>3. (x = <<>> \/ x = <<c>>) /\ (y = <<>> \/ y = <<d>>) /\ B = x \o y
      BY <2>1 DEF Only
    <3> HIDE DEF c, d, x, y, B
    <3>4. x \in Seq(AgentCall) /\ Spares(new.pe, x) /\ y \in Seq(AgentCall) /\ Spares(new.pe, y)
      BY <3>1, <3>2, <3>3, <1>1
    <3> QED BY <3>3, <3>4, LeadFacts
  <2>2. CASE "lbSwitch" \notin did
    <3> DEFINE c == Call("rollback", new.le, None)
    <3>1. c \in AgentCall /\ c.to # new.pe
      BY <1>c, <1>s, EngineSorts
    <3>2. B = <<>> \/ B = <<c>>
      BY <2>2 DEF Only
    <3> HIDE DEF c, B
    <3> QED BY <3>1, <3>2, <1>1
  <2> QED BY <2>1, <2>2
<1>T. T \in Seq(AgentCall) /\ Spares(new.pe, T)
  <2> DEFINE c == Call("rollback", "tunnel", None)
  <2>1. c \in AgentCall /\ c.to # new.pe
    BY <1>c, <1>s, EngineSorts
  <2>2. T = <<>> \/ T = <<c>>
    BY DEF Only
  <2> HIDE DEF c, T
  <2> QED BY <2>1, <2>2, <1>1
<1>U. Undo(did) = (P \o B) \o T
  BY DEF Undo
<1> HIDE DEF P, B, T, old, new
<1>3. P \o B \in Seq(AgentCall) /\ TakesBack(new.pe, P \o B)
  BY <1>P, <1>B, LeadFacts
<1>4. TakesBack(new.pe, (P \o B) \o T)
  BY <1>3, <1>T, LeadFacts
<1> QED BY <1>4, <1>U DEF new

\* Every engine is as its agent wants it, and
FrontInv ==
    /\ PromotedInv /\ "exit" \notin Faults
    /\ \A e \in Engine : Coherent(ag[e])
    /\ job.pc = "stop" => Switching
    \* the marks are made in the order of the swap,
    /\ job.pc \in ToSwap => job.did = {}
    /\ job.pc \in {"lbApply", "stop", "apply"} => "swap" \notin job.did
    /\ "switch" \in job.did => "start" \in job.did /\ Switching
    \* the load balancer that was running goes on running what it ran,
    /\ job.pc \in SeenLb /\ job.lbSeen.reach /\ job.lbSeen.running =>
         ag[job.snap.le].proc = job.lbSeen.hash /\ Running(ag[job.snap.le])
    \* the new one runs the new version before the proxy engine is given it,
    /\ job.pc \in DoneLb /\ job.snap.run => ag[job.snap.le].proc = job.snap.lh
    \* and until the proxy engine has been taken back.
    /\ job.pc = "undo" /\ "swap" \in job.did /\ ~job.problems =>
         \/ /\ TakesBack(job.snap.pe, job.undo)
            /\ Has(job.snap.pe, job.snap.ph)
            /\ job.snap.run => ag[job.snap.le].proc = job.snap.lh
         \/ /\ Spares(job.snap.pe, job.undo)
            /\ Asleep(ag[job.snap.pe]) \/ ~Has(job.snap.pe, job.snap.ph)

\* It says what it is for.
LEMMA FrontSays == FrontInv => RoutesBehindFrontends
<1> SUFFICES ASSUME FrontInv, "swap" \in job.did, ~job.problems, job.snap.run,
                    ag[job.snap.pe].proc = job.snap.ph
             PROVE  ag[job.snap.le].proc = job.snap.lh
  BY DEF RoutesBehindFrontends
<1>t. /\ job \in Job /\ job.snap.pe \in Engine /\ job.snap.ph # None
  <2>1. job \in Job /\ job.snap \in Snapshot
    BY DEF FrontInv, PromotedInv, HistoryInv, TypeInv, TypeOK, Job
  <2> QED BY <2>1, ReleaseAssumption DEF Snapshot, Engine
<1>1. job.pc \in DoneLb \cup {"undo"}
  BY <1>t DEF FrontInv, DoneLb, ToSwap, Job, JobSteps
<1>2. CASE job.pc = "undo"
  <2>1. ~Asleep(ag[job.snap.pe])
    BY <1>t DEF Asleep
  <2>2. Coherent(ag[job.snap.pe]) /\ Running(ag[job.snap.pe])
    BY <1>t DEF FrontInv, Running
  <2>3. Has(job.snap.pe, job.snap.ph)
    BY <2>2 DEF Coherent, Has
  <2> QED BY <1>2, <2>1, <2>3 DEF FrontInv
<1> QED BY <1>1, <1>2 DEF FrontInv

\* An engine that was given a release, and answered OK, runs it.
LEMMA GivenRuns ==
  ASSUME TypeOK, \A e \in Engine : Coherent(ag[e]),
         NEW c \in AgentCall, c.do = "apply", Send(c, "ok")
  PROVE  ag'[c.to].proc = c.hash
<1> DEFINE a == ag[c.to]
<1>1. c.to \in Engine /\ a \in AgentState /\ a.store \in Store /\ Coherent(a) /\ c.hash \in Hash
  BY DEF AgentCall, Calls, TypeOK, AgentState
<1>2. ag'[c.to] = Done(a, "apply", c.hash, AlwaysOn(c.to))
  BY <1>1 DEF Send, TypeOK
<1>3. CASE Active(a, c.hash)
  <2>1. a.proc = c.hash
    BY <1>1, <1>3 DEF Active, Coherent
  <2>2. ag'[c.to] = a
    BY <1>2, <1>3 DEF Done
  <2> QED BY <2>1, <2>2
<1>4. CASE ~Active(a, c.hash)
  <2>1. ag'[c.to] = Serving(Applied(a.store, c.hash, FALSE))
    BY <1>2, <1>4 DEF Done
  <2>2. Applied(a.store, c.hash, FALSE).current = c.hash
    BY <1>1, AppliedStore
  <2>3. \A s : Serving(s).proc = s.current
    BY DEF Serving
  <2> QED BY <2>1, <2>2, <2>3
<1> QED BY <1>3, <1>4

\* A step that leaves the apply alone, and every engine that runs.
LEMMA FrontKept ==
  ASSUME FrontInv, PromotedInv', job' = job, rows' = rows,
         \A e \in Engine : /\ Coherent(ag'[e]) /\ ag'[e].store = ag[e].store
                           /\ Running(ag[e]) => ag'[e].proc = ag[e].proc
                           /\ Asleep(ag[e]) => Asleep(ag'[e])
  PROVE  FrontInv'
<1>s. /\ job.snap.pe \in Engine /\ job.snap.le \in Engine /\ job.snap.lh # None
  <2>1. job.snap \in Snapshot
    BY DEF FrontInv, PromotedInv, HistoryInv, TypeInv, TypeOK, Job
  <2> QED BY <2>1, ReleaseAssumption DEF Snapshot, Engine
<1>1. Switching' = Switching
  BY DEF Switching, OldProxy
<1>2. ag[job.snap.le].proc = job.snap.lh => ag'[job.snap.le].proc = job.snap.lh
  BY <1>s DEF Running
<1>3. Has(job.snap.pe, job.snap.ph)' = Has(job.snap.pe, job.snap.ph)
  BY <1>s DEF Has
<1>4. Running(ag[job.snap.le]) => Running(ag'[job.snap.le]) /\ ag'[job.snap.le].proc = ag[job.snap.le].proc
  BY <1>s DEF Running
<1> QED BY <1>s, <1>1, <1>2, <1>3, <1>4 DEF FrontInv

\* No apply is under way, or it has not asked any engine yet.
LEMMA FrontRest ==
  ASSUME FrontInv, PromotedInv', \A e \in Engine : Coherent(ag'[e]),
         job'.pc \in {"idle", "read", "proxy", "lb"}, job'.did = {}
  PROVE  FrontInv'
BY DEF FrontInv, ToSwap, SeenLb, DoneLb

\* The version is given up: what the proxy engine was given is taken back first.
LEMMA FrontFail ==
  ASSUME FrontInv, PromotedInv', rows' = rows, \A e \in Engine : Coherent(ag'[e]),
         NEW did \in SUBSET Marks, FailWith(did),
         "switch" \in did => "start" \in did /\ Switching,
         "swap" \in did => job.pc \in DoneProxy /\ \A e \in {job.snap.pe, job.snap.le} : ag'[e] = ag[e]
  PROVE  FrontInv'
<1>t. TypeInv /\ job \in Job
  BY DEF FrontInv, PromotedInv, HistoryInv, TypeInv, TypeOK
<1>1. /\ job'.pc = "undo" /\ job'.snap = job.snap /\ job'.live = job.live
      /\ job'.did = did /\ job'.undo = Undo(did)
  BY <1>t DEF FailWith, Job
<1>2. Switching' = Switching
  BY <1>1 DEF Switching, OldProxy
<1>3. "swap" \in did => /\ TakesBack(job'.snap.pe, job'.undo)
                        /\ Has(job.snap.pe, job.snap.ph)'
                        /\ job.snap.run => ag'[job.snap.le].proc = job.snap.lh
  <2> SUFFICES ASSUME "swap" \in did PROVE <1>3!2
    OBVIOUS
  <2>1. TakesBack(job.snap.pe, Undo(did))
    BY <1>t, UndoLeads
  <2>2. Has(job.snap.pe, job.snap.ph) /\ (job.snap.run => ag[job.snap.le].proc = job.snap.lh)
    BY DEF FrontInv, PromotedInv, DoneProxy, DoneLb
  <2> QED BY <1>1, <2>1, <2>2 DEF Has
<1> QED BY <1>1, <1>2, <1>3 DEF FrontInv, ToSwap, SeenLb, DoneLb, Has

\* A request of the undoing.
LEMMA FrontUndo ==
  ASSUME FrontInv, PromotedInv', NEW r \in Replies, UndoStep(r)
  PROVE  FrontInv'
<1>t. TypeInv /\ TypeOK /\ job \in Job /\ job.undo \in Seq(AgentCall)
  BY DEF FrontInv, PromotedInv, HistoryInv, TypeInv, TypeOK
<1> DEFINE c == Head(job.undo)
           pe == job.snap.pe
           todo == Tail(job.undo)
<1>1. /\ job.pc = "undo" /\ job.undo # <<>> /\ Send(c, r) /\ rows' = rows
      /\ job' = [job EXCEPT !.undo = todo, !.problems = @ \/ r # "ok"]
  BY DEF UndoStep
<1>2. /\ job'.pc = "undo" /\ job'.snap = job.snap /\ job'.live = job.live /\ job'.did = job.did
      /\ job'.undo = todo /\ (~job'.problems => ~job.problems /\ r = "ok")
  BY <1>1, <1>t DEF Job
<1>3. /\ c \in AgentCall /\ c = job.undo[1]
      /\ Len(job.undo) \in Nat /\ Len(job.undo) > 0 /\ Len(todo) = Len(job.undo) - 1
      /\ \A i \in 1..Len(todo) : todo[i] = job.undo[i + 1]
  BY <1>t, <1>1
<1> HIDE DEF c, todo
<1>c. c \in AgentCall
  BY <1>3
<1>s. pe \in Engine /\ job.snap.le \in Engine /\ pe # job.snap.le
  <2>1. job.snap \in Snapshot
    BY <1>t DEF Job
  <2> QED BY <2>1, EngineSorts DEF Snapshot
<1>4. /\ \A e \in Engine : Coherent(ag'[e])
      /\ r = "ok" /\ c.do = "applyStop" => Asleep(ag'[c.to])
      /\ r = "ok" /\ c.do = "rollback" => ag'[c.to].store.current # ag[c.to].store.current
  BY <1>c, <1>t, <1>1, CoherentSend DEF FrontInv
<1>5. \A e \in Engine : e # c.to => ag'[e] = ag[e]
  BY <1>c, <1>t, <1>1, SendFacts
<1>6. Switching' = Switching
  BY <1>1, <1>2 DEF Switching, OldProxy
<1>7. ASSUME "swap" \in job.did, ~job'.problems
      PROVE  Spares(pe, todo) /\ (Asleep(ag'[pe]) \/ ~Has(pe, job.snap.ph)')
  <2>1. CASE TakesBack(pe, job.undo) /\ Has(pe, job.snap.ph)
    <3>1. c.to = pe /\ c.do \in {"rollback", "applyStop"}
      BY <2>1, <1>3 DEF TakesBack
    <3>2. ASSUME NEW i \in 1..Len(todo) PROVE todo[i].to # pe
      <4>1. i + 1 \in 2..Len(job.undo) /\ todo[i] = job.undo[i + 1]
        BY <1>3
      <4> QED BY <2>1, <4>1 DEF TakesBack
    <3>3. Spares(pe, todo)
      BY <3>2 DEF Spares
    <3>4. Asleep(ag'[pe]) \/ ag'[pe].store.current # job.snap.ph
      BY <1>2, <1>4, <1>7, <2>1, <3>1 DEF Has
    <3> QED BY <1>2, <3>3, <3>4 DEF Has
  <2>2. CASE Spares(pe, job.undo) /\ (Asleep(ag[pe]) \/ ~Has(pe, job.snap.ph))
    <3>1. c.to # pe /\ ag'[pe] = ag[pe]
      BY <2>2, <1>3, <1>5, <1>s DEF Spares
    <3>2. ASSUME NEW i \in 1..Len(todo) PROVE todo[i].to # pe
      <4>1. i + 1 \in 1..Len(job.undo) /\ todo[i] = job.undo[i + 1]
        BY SMTT(60), <1>3
      <4> QED BY <2>2, <4>1 DEF Spares
    <3>3. Spares(pe, todo)
      BY <3>2 DEF Spares
    <3> QED BY <1>2, <2>2, <3>1, <3>3 DEF Has
  <2> QED BY <1>1, <1>2, <1>7, <2>1, <2>2 DEF FrontInv
<1> QED BY <1>2, <1>4, <1>6, <1>7 DEF FrontInv, ToSwap, SeenLb, DoneLb, Has

\* The swap: the load balancer runs the new version before the proxy engine is given it.
LEMMA FrontSwap ==
  ASSUME FrontInv, PromotedInv', SwapStep
  PROVE  FrontInv'
<1> DEFINE pe == job.snap.pe
           le == job.snap.le
<1>t. TypeInv /\ TypeOK /\ job \in Job /\ job.snap \in Snapshot /\ job.did \in SUBSET Marks
  BY DEF FrontInv, PromotedInv, HistoryInv, TypeInv, TypeOK, Job
<1>1. rows' = rows /\ job.pc \in Inserted
  BY <1>t, SwapFacts
<1>s. /\ pe \in Proxies /\ le \in Balancers /\ pe \in Engine /\ le \in Engine /\ "tunnel" \in Engine
      /\ pe # le /\ "tunnel" \notin {pe, le}
      /\ {job.snap.ph, job.snap.lh, job.snap.th} \subseteq Hash
      /\ job.snap.run \in BOOLEAN
  BY <1>t, EngineSorts DEF Snapshot
<1>o. /\ OldProxy(job.live) \in Proxies /\ OldLb(job.live) \in Balancers
      /\ OldProxy(job.live) \in Engine /\ OldLb(job.live) \in Engine
      /\ OldProxy(job.live) # le
      /\ job.live # 0 => {rows[job.live].snap.ph, rows[job.live].snap.lh} \subseteq Hash
  <2>1. job.live \in 0..Len(rows)
    BY <1>t DEF TypeInv
  <2>2. job.live # 0 => rows[job.live].snap \in Snapshot
    BY <1>t, <2>1, RowFacts DEF TypeOK
  <2> QED BY <1>t, <1>s, <2>1, <2>2, OldFacts, EngineSorts DEF Snapshot
<1>a. ASSUME NEW pc \in JobSteps, NEW did \in SUBSET Marks, Advance(pc, did)
      PROVE  /\ job'.pc = pc /\ job'.did = did /\ job'.snap = job.snap /\ job'.live = job.live
             /\ job'.lbSeen = job.lbSeen /\ Switching' = Switching
  BY <1>a, <1>1, <1>t DEF Advance, Job, Switching, OldProxy
<1>g. ASSUME NEW pc \in JobSteps, Goto(pc)
      PROVE  /\ job'.pc = pc /\ job'.did = job.did /\ job'.snap = job.snap /\ job'.live = job.live
             /\ job'.lbSeen = job.lbSeen /\ Switching' = Switching
  BY <1>g, <1>1, <1>t DEF Goto, Job, Switching, OldProxy
<1>l. /\ {"lbApply", "stop", "apply", "follow", "health", "promote", AfterLb} \subseteq JobSteps
      /\ AfterLb = IF Switching THEN "stop" ELSE "apply"
  BY DEF JobSteps, AfterLb
<1>c. ASSUME NEW c \in AgentCall, NEW r \in Replies, Send(c, r)
      PROVE  /\ \A e \in Engine : Coherent(ag'[e])
             /\ \A e \in Engine : e # c.to => ag'[e] = ag[e]
  BY <1>c, <1>t, CoherentSend, SendFacts DEF FrontInv
<1>x. job.pc = "undo" => FALSE
  BY DEF SwapStep, StopOldLb, StopOldProxy, ApplyLb, ApplyProxy, ApplyTunnel, PassLb, PassTunnel,
         HealthPasses, HealthFails
<1>k. "switch" \in job.did => "start" \in job.did /\ Switching
  BY DEF FrontInv
<1>f. ASSUME FailWith(job.did), \A e \in Engine : Coherent(ag'[e]),
             \/ "swap" \notin job.did
             \/ job.pc \in DoneProxy /\ \A e \in {pe, le} : ag'[e] = ag[e]
      PROVE  FrontInv'
  BY <1>f, <1>1, <1>k, <1>t, FrontFail
<1>q. ASSUME job'.snap = job.snap, job'.pc \in {"apply", "follow", "health", "promote"},
             "switch" \in job'.did => "start" \in job'.did /\ Switching',
             job'.pc = "apply" => "swap" \notin job'.did,
             \A e \in Engine : Coherent(ag'[e]),
             job.snap.run => ag'[le].proc = job.snap.lh
      PROVE  FrontInv'
  BY <1>q DEF FrontInv, ToSwap, SeenLb
<1>2. ASSUME NEW r \in {"ok", "unavailable"}, StopOldLb(r) PROVE FrontInv'
  <2> DEFINE c == IF job.live = 0 THEN Call("stopOnly", OldLb(job.live), None)
                  ELSE Call("applyStop", OldLb(job.live), rows[job.live].snap.lh)
  <2>1. c \in AgentCall /\ c.to = OldLb(job.live) /\ r \in Replies
    <3>1. /\ Call("stopOnly", OldLb(job.live), None) \in AgentCall
          /\ Call("stopOnly", OldLb(job.live), None).to = OldLb(job.live)
      BY <1>o DEF Call, AgentCall, Calls
    <3>2. job.live # 0 => LET d == Call("applyStop", OldLb(job.live), rows[job.live].snap.lh)
                          IN  d \in AgentCall /\ d.to = OldLb(job.live)
      BY <1>o DEF Call, AgentCall, Calls
    <3> QED BY <3>1, <3>2 DEF Replies
  <2>2. job.pc = "lbStop" /\ Send(c, r)
    BY <1>2 DEF StopOldLb
  <2> HIDE DEF c
  <2>3. c.to # le
    BY <2>1, <2>2 DEF FrontInv, PromotedInv, LbSwitching
  <2>4. (\A e \in Engine : Coherent(ag'[e])) /\ ag'[le] = ag[le]
    BY <1>c, <1>s, <2>1, <2>2, <2>3
  <2>5. /\ job'.pc = "lbApply" /\ job'.did \cap {"swap", "switch"} = {}
        /\ job'.snap = job.snap /\ job'.lbSeen = job.lbSeen
    <3>1. {"lbSwitch", "lbStop"} \in SUBSET Marks /\ {"lbSwitch"} \in SUBSET Marks
      BY DEF Marks
    <3>2. Advance("lbApply", {"lbSwitch", "lbStop"}) \/ Advance("lbApply", {"lbSwitch"})
      BY <1>2 DEF StopOldLb
    <3> QED BY <1>a, <1>l, <3>1, <3>2
  <2> QED BY <2>2, <2>4, <2>5 DEF FrontInv, ToSwap, SeenLb, DoneLb
<1>3. ASSUME NEW r \in {"ok", "unavailable"}, StopOldProxy(r) PROVE FrontInv'
  <2> DEFINE c == IF job.live = 0 THEN Call("stopOnly", OldProxy(job.live), None)
                  ELSE Call("applyStop", OldProxy(job.live), rows[job.live].snap.ph)
             did == job.did \cup (IF r = "ok" THEN {"switch", "stop", "start"} ELSE {"switch", "start"})
  <2>1. c \in AgentCall /\ c.to = OldProxy(job.live) /\ r \in Replies
    <3>1. /\ Call("stopOnly", OldProxy(job.live), None) \in AgentCall
          /\ Call("stopOnly", OldProxy(job.live), None).to = OldProxy(job.live)
      BY <1>o DEF Call, AgentCall, Calls
    <3>2. job.live # 0 => LET d == Call("applyStop", OldProxy(job.live), rows[job.live].snap.ph)
                          IN  d \in AgentCall /\ d.to = OldProxy(job.live)
      BY <1>o DEF Call, AgentCall, Calls
    <3> QED BY <3>1, <3>2 DEF Replies
  <2>2. job.pc = "stop" /\ Send(c, r) /\ Advance("apply", did)
    BY <1>3 DEF StopOldProxy
  <2>3. did \in SUBSET Marks /\ "start" \in did /\ ("swap" \in did <=> "swap" \in job.did)
    BY <1>t DEF Marks
  <2> HIDE DEF c, did
  <2>4. (\A e \in Engine : Coherent(ag'[e])) /\ ag'[le] = ag[le]
    BY <1>c, <1>s, <1>o, <2>1, <2>2
  <2>5. /\ job'.pc = "apply" /\ job'.did = did /\ job'.snap = job.snap
        /\ Switching' = Switching
    BY <1>a, <1>l, <2>2, <2>3
  <2>6. Switching /\ "swap" \notin job.did
    BY <2>2 DEF FrontInv
  <2>7. job.snap.run => ag[le].proc = job.snap.lh
    BY <2>2 DEF FrontInv, DoneLb
  <2> QED BY <1>q, <2>3, <2>4, <2>5, <2>6, <2>7
<1>4. ASSUME NEW r \in Replies, ApplyLb(r) PROVE FrontInv'
  <2> DEFINE c == Install(job.snap.le, job.snap.lh, job.snap.run)
             before == IF LbSwitching THEN job.did \cup {"lbStart"} ELSE job.did
             after  == IF LbSwitching THEN before ELSE job.did \cup {"lbChange"}
  <2>1. c \in AgentCall /\ c.to = le /\ c.hash = job.snap.lh /\ (job.snap.run => c.do = "apply")
    BY <1>s, InstallFacts DEF Install, Call
  <2>2. /\ job.pc = "lbApply" /\ Send(c, r)
        /\ IF r = "ok" THEN Advance(AfterLb, after) ELSE FailWith(before)
    BY <1>4 DEF ApplyLb
  <2>3. /\ {before, after} \subseteq SUBSET Marks
        /\ \A did \in {before, after} : /\ "swap" \in did <=> "swap" \in job.did
                                        /\ "switch" \in did <=> "switch" \in job.did
                                        /\ job.did \subseteq did
    BY <1>t DEF Marks
  <2> HIDE DEF c, before, after
  <2>4. "swap" \notin job.did
    BY <2>2 DEF FrontInv
  <2>5. \A e \in Engine : Coherent(ag'[e])
    BY <1>c, <2>1, <2>2
  <2>6. CASE r = "ok"
    <3>1. /\ job'.pc = AfterLb /\ job'.did = after /\ job'.snap = job.snap
          /\ Switching' = Switching
      BY <1>a, <1>l, <2>2, <2>3, <2>6
    <3>2. job.snap.run => ag'[le].proc = job.snap.lh
      BY <1>t, <2>1, <2>2, <2>6, GivenRuns DEF FrontInv
    <3>3. "switch" \in after => "start" \in after /\ Switching
      BY <1>k, <2>3
    <3> QED BY <1>l, <2>3, <2>4, <2>5, <3>1, <3>2, <3>3 DEF FrontInv, ToSwap, SeenLb
  <2>7. CASE r # "ok"
    <3>1. FailWith(before) /\ before \in SUBSET Marks
      BY <2>2, <2>3, <2>7
    <3>2. "swap" \notin before /\ ("switch" \in before => "start" \in before /\ Switching)
      BY <1>k, <2>3, <2>4
    <3> QED BY <1>1, <2>5, <3>1, <3>2, FrontFail
  <2> QED BY <2>6, <2>7
<1>5. CASE PassLb
  <2>1. job.pc = "lbApply" /\ ~LbToDo /\ ag' = ag
    BY <1>5 DEF PassLb
  <2>2. "swap" \notin job.did /\ \A e \in Engine : Coherent(ag'[e])
    BY <2>1 DEF FrontInv
  <2>3. CASE job.snap.run /\ ~job.lbSeen.reach
    BY <1>5, <1>f, <2>2, <2>3 DEF PassLb
  <2>4. CASE ~(job.snap.run /\ ~job.lbSeen.reach)
    <3>1. /\ job'.pc = AfterLb /\ job'.did = job.did /\ job'.snap = job.snap
          /\ Switching' = Switching
      BY <1>5, <1>g, <1>l, <2>4 DEF PassLb
    <3>2. job.snap.run => ag'[le].proc = job.snap.lh
      <4> SUFFICES ASSUME job.snap.run PROVE ag'[le].proc = job.snap.lh
        OBVIOUS
      <4>1. job.lbSeen.reach /\ job.lbSeen.hash = job.snap.lh /\ job.lbSeen.running
        BY <2>1, <2>4 DEF LbToDo
      <4> QED BY <2>1, <4>1 DEF FrontInv, SeenLb
    <3> QED BY <1>k, <1>l, <2>2, <3>1, <3>2 DEF FrontInv, ToSwap, SeenLb
  <2> QED BY <2>3, <2>4
<1>6. ASSUME NEW r \in Replies, ApplyProxy(r) PROVE FrontInv'
  <2> DEFINE c == Call("apply", job.snap.pe, job.snap.ph)
  <2>1. c \in AgentCall /\ c.to = pe
    BY ZenonT(60), <1>s, InstallFacts DEF Call
  <2>2. /\ job.pc = "apply" /\ Send(c, r)
        /\ IF r = "ok" THEN Advance("follow", job.did \cup {"swap"}) ELSE FailWith(job.did)
    BY <1>6 DEF ApplyProxy
  <2> HIDE DEF c
  <2>3. (\A e \in Engine : Coherent(ag'[e])) /\ ag'[le] = ag[le]
    BY <1>c, <1>s, <2>1, <2>2
  <2>4. CASE r = "ok"
    <3>1. job.did \cup {"swap"} \in SUBSET Marks
      BY <1>t DEF Marks
    <3>2. /\ job'.pc = "follow" /\ job'.did = job.did \cup {"swap"} /\ job'.snap = job.snap
          /\ Switching' = Switching
      BY <1>a, <1>l, <2>2, <2>4, <3>1
    <3>3. job.snap.run => ag[le].proc = job.snap.lh
      BY <2>2 DEF FrontInv, DoneLb
    <3> QED BY <1>k, <1>q, <2>3, <3>2, <3>3
  <2>5. CASE r # "ok"
    <3>1. "swap" \notin job.did
      BY <2>2 DEF FrontInv
    <3> QED BY <1>f, <2>2, <2>3, <2>5, <3>1
  <2> QED BY <2>4, <2>5
<1>7. ASSUME NEW r \in Replies, ApplyTunnel(r) PROVE FrontInv'
  <2> DEFINE c == Install("tunnel", job.snap.th, job.snap.tun)
  <2>1. c \in AgentCall /\ c.to = "tunnel"
    BY <1>s, InstallFacts
  <2>2. /\ job.pc = "follow" /\ Send(c, r)
        /\ IF r = "ok" THEN Advance("health", job.did \cup {"tunnel"}) ELSE FailWith(job.did)
    BY <1>7 DEF ApplyTunnel
  <2> HIDE DEF c
  <2>3. (\A e \in Engine : Coherent(ag'[e])) /\ \A e \in {pe, le} : ag'[e] = ag[e]
    <3>1. ag'[pe] = ag[pe] /\ ag'[le] = ag[le]
      BY <1>c, <1>s, <2>1, <2>2
    <3> QED BY <1>c, <2>1, <2>2, <3>1
  <2>4. CASE r = "ok"
    <3>1. job.did \cup {"tunnel"} \in SUBSET Marks
      BY <1>t DEF Marks
    <3>2. /\ job'.pc = "health" /\ job'.did = job.did \cup {"tunnel"} /\ job'.snap = job.snap
          /\ Switching' = Switching
      BY <1>a, <1>l, <2>2, <2>4, <3>1
    <3>3. job.snap.run => ag[le].proc = job.snap.lh
      BY <2>2 DEF FrontInv, DoneLb
    <3> QED BY <1>k, <1>q, <2>3, <3>2, <3>3
  <2>5. CASE r # "ok"
    <3>1. job.pc \in DoneProxy
      BY <2>2 DEF DoneProxy
    <3> QED BY <1>f, <2>2, <2>3, <2>5, <3>1
  <2> QED BY <2>4, <2>5
<1>8. ASSUME PassTunnel \/ HealthPasses \/ HealthFails PROVE FrontInv'
  <2>1. job.pc \in {"follow", "health"} /\ job.pc \in DoneProxy /\ ag' = ag
    BY <1>8 DEF PassTunnel, HealthPasses, HealthFails, DoneProxy
  <2>2. \A e \in Engine : Coherent(ag'[e])
    BY <2>1 DEF FrontInv
  <2>3. FailWith(job.did) \/ Goto("health") \/ Goto("promote")
    BY <1>8 DEF PassTunnel, HealthPasses, HealthFails
  <2>4. CASE FailWith(job.did)
    BY <1>f, <2>1, <2>2, <2>4
  <2>5. CASE Goto("health") \/ Goto("promote")
    <3>1. /\ job'.pc \in {"health", "promote"} /\ job'.did = job.did /\ job'.snap = job.snap
          /\ Switching' = Switching
      BY <1>g, <1>l, <2>5
    <3>2. job.snap.run => ag[le].proc = job.snap.lh
      BY <2>1 DEF FrontInv, DoneLb
    <3> QED BY <1>k, <1>q, <2>1, <2>2, <3>1, <3>2
  <2> QED BY <2>3, <2>4, <2>5
<1> QED BY <1>2, <1>3, <1>4, <1>5, <1>6, <1>7, <1>8 DEF SwapStep

\* An admin leaves every engine as its agent wants it.
LEMMA CoherentAdmin ==
  ASSUME TypeOK, \A e \in Engine : Coherent(ag[e]), NEW x \in Engine, AdminStart(x) \/ AdminStop(x)
  PROVE  \A e \in Engine : Coherent(ag'[e])
<1> ag[x] \in AgentState /\ AlwaysOn(x) \in BOOLEAN
  BY DEF TypeOK, AlwaysOn
<1>1. ASSUME NEW a, ag' = [ag EXCEPT ![x] = a], Coherent(a)
      PROVE  \A e \in Engine : Coherent(ag'[e])
  BY <1>1 DEF TypeOK
<1>2. CASE AdminStop(x)
  <2>1. \A s : Coherent(Halted(s))
    BY DEF Coherent, Halted, Running
  <2>2. Coherent(Done(ag[x], "stop", None, AlwaysOn(x)))
    BY <2>1 DEF Done
  <2>3. ag' = ag \/ ag' = [ag EXCEPT ![x] = Done(ag[x], "stop", None, AlwaysOn(x))]
    BY <1>2 DEF AdminStop
  <2> QED BY <1>1, <2>2, <2>3
<1>3. CASE AdminStart(x)
  <2> DEFINE a == IF up[x] THEN ag[x] ELSE Booted(ag[x])
             b == IF Live = 0 THEN a ELSE Pushed(a, LivePush(x))
  <2>1. a \in AgentState /\ Coherent(a)
    BY AgentShapes, CoherentBoot
  <2> HIDE DEF a
  <2>2. ASSUME NEW c \in AgentCall, c.do \in {"apply", "applyStop"}
        PROVE  Pushed(a, <<c>>) \in AgentState /\ Coherent(Pushed(a, <<c>>))
    <3>1. Done(a, c.do, c.hash, FALSE) \in AgentState /\ Coherent(Done(a, c.do, c.hash, FALSE))
      BY <2>1, <2>2, DoneFacts, CoherentFacts DEF CanDo
    <3>2. <<c>> # <<>> /\ Head(<<c>>) = c
      OBVIOUS
    <3>3. Pushed(a, <<c>>) = a \/ Pushed(a, <<c>>) = Done(a, c.do, c.hash, FALSE)
      BY <3>2 DEF Pushed
    <3> QED BY <2>1, <3>1, <3>3
  <2>3. Pushed(a, <<>>) = a
    BY DEF Pushed
  <2>4. b \in AgentState /\ Coherent(b)
    <3>1. CASE Live = 0 \/ LivePush(x) = <<>>
      BY <2>1, <2>3, <3>1
    <3>2. ASSUME NEW h \in Hash, NEW run \in BOOLEAN, Live # 0, LivePush(x) = <<Install(x, h, run)>>
          PROVE  b \in AgentState /\ Coherent(b)
      <4>1. Install(x, h, run) \in AgentCall /\ Install(x, h, run).do \in {"apply", "applyStop"}
        BY InstallFacts
      <4> QED BY <2>2, <3>2, <4>1
    <3> QED BY <3>1, <3>2, PushFacts
  <2>5. CanDo(b, "start") => Coherent(Done(b, "start", None, AlwaysOn(x)))
    <3>1. /\ Call("start", x, None) \in AgentCall
          /\ Call("start", x, None).do = "start" /\ Call("start", x, None).hash = None
      BY DEF Call, AgentCall, Calls
    <3> HIDE DEF b
    <3> QED BY <2>4, <3>1, CoherentFacts
  <2>6. ag' = [ag EXCEPT ![x] = IF CanDo(b, "start") THEN Done(b, "start", None, AlwaysOn(x)) ELSE b]
    BY <1>3 DEF AdminStart, a
  <2> HIDE DEF b
  <2> QED BY <1>1, <2>4, <2>5, <2>6
<1> QED BY <1>2, <1>3

\* An apply goes on.
LEMMA FrontJob ==
  ASSUME FrontInv, PromotedInv', JobStep
  PROVE  FrontInv'
<1>t. TypeInv /\ TypeOK /\ job \in Job
  BY DEF FrontInv, PromotedInv, HistoryInv, TypeInv, TypeOK
<1>e. ASSUME EndJob, ag' = ag PROVE FrontInv'
  <2>1. job'.pc = "idle" /\ job'.did = {}
    BY <1>e DEF EndJob, NoJob
  <2>2. \A e \in Engine : Coherent(ag'[e])
    BY <1>e DEF FrontInv
  <2> QED BY <2>1, <2>2, FrontRest
<1>d. job.pc \in ToSwap => job.did = {}
  BY DEF FrontInv
<1>c. ag' = ag => \A e \in Engine : Coherent(ag'[e])
  BY DEF FrontInv
<1>1. CASE ReadDraft
  <2>1. ag' = ag /\ job.pc = "read"
    BY <1>1 DEF ReadDraft
  <2>2. CASE EndJob
    BY <1>e, <2>1, <2>2
  <2>3. CASE job' = [job EXCEPT !.pc = "proxy", !.snap = draft, !.live = Live]
    <3>1. job'.pc = "proxy" /\ job'.did = job.did
      BY <1>t, <2>3 DEF Job
    <3> QED BY <1>c, <1>d, <2>1, <3>1, FrontRest DEF ToSwap
  <2> QED BY <1>1, <2>2, <2>3 DEF ReadDraft
<1>2. CASE CheckProxy
  <2>1. ag' = ag /\ job.pc = "proxy" /\ job'.pc = "lb" /\ job'.did = job.did
    BY <1>2, <1>t DEF CheckProxy, Goto, Job
  <2> QED BY <1>c, <1>d, <2>1, FrontRest DEF ToSwap
<1>3. CASE CheckLb
  <2>1. PICK st \in {Answered(job.snap.le), Unanswered} :
          /\ Asked(job.snap.le, st)
          /\ job' = [job EXCEPT !.lbSeen = st, !.pc = "tunnel"]
    BY <1>3 DEF CheckLb
  <2>2. /\ job.pc = "lb" /\ job'.pc = "tunnel" /\ job'.snap = job.snap /\ job'.lbSeen = st
        /\ job'.did = job.did /\ ag' = ag
    BY <1>3, <2>1, <1>t DEF CheckLb, Job
  <2>3. job.snap.le \in Engine
    BY <1>t, EngineSorts DEF Job, Snapshot
  <2>4. Coherent(ag[job.snap.le])
    BY <2>3 DEF FrontInv
  <2>5. st.reach /\ st.running => /\ Running(ag[job.snap.le])
                                  /\ ag[job.snap.le].proc = st.hash
    BY <2>1, <2>4 DEF Answered, Unanswered, Coherent
  <2> QED BY <1>c, <1>d, <2>2, <2>5 DEF FrontInv, ToSwap, SeenLb, DoneLb
<1>4. CASE CheckTunnel
  <2>1. /\ job.pc = "tunnel" /\ job'.pc = "insert" /\ job'.snap = job.snap /\ job'.lbSeen = job.lbSeen
        /\ job'.did = job.did /\ ag' = ag
    BY <1>4, <1>t DEF CheckTunnel, Job
  <2> QED BY <1>c, <1>d, <2>1 DEF FrontInv, ToSwap, SeenLb, DoneLb
<1>5. CASE InsertDraft
  <2>1. /\ job.pc = "insert" /\ job'.pc \in {"lbStop", "lbApply"} /\ job'.snap = job.snap
        /\ job'.lbSeen = job.lbSeen /\ job'.did = job.did /\ ag' = ag
    BY <1>5, <1>t DEF InsertDraft, Goto, Job
  <2> QED BY <1>c, <1>d, <2>1 DEF FrontInv, ToSwap, SeenLb, DoneLb
<1>6. ASSUME NEW x \in Engine, EnsureEngine(x) PROVE FrontInv'
  <2>1. job' = job /\ rows' = rows /\ ag' = [ag EXCEPT ![x] = Booted(ag[x])]
    BY <1>6 DEF EnsureEngine, Bring
  <2>2. \A e \in Engine : ag'[e] = ag[e] \/ ag'[e] = Booted(ag[e])
    BY <2>1, <1>t DEF TypeOK
  <2>3. \A e \in Engine : ag[e] \in AgentState /\ Coherent(ag[e])
    BY <1>t DEF TypeOK, FrontInv
  <2>4. \A e \in Engine : /\ Coherent(ag'[e]) /\ ag'[e].store = ag[e].store
                          /\ Running(ag[e]) => ag'[e].proc = ag[e].proc
                          /\ Asleep(ag[e]) => Asleep(ag'[e])
    BY <2>2, <2>3, CoherentBoot
  <2> QED BY <2>1, <2>4, FrontKept
<1>7. ASSUME NEW r \in {"refused", "unavailable"}, ValidateFails(r) PROVE FrontInv'
  BY <1>7, <1>e DEF ValidateFails
<1>8. ASSUME RecordFailure \/ Promote PROVE FrontInv'
  BY <1>8, <1>e DEF RecordFailure, Promote
<1>9. ASSUME NEW r \in Replies, UndoStep(r) PROVE FrontInv'
  BY <1>9, FrontUndo
<1>10. CASE SwapStep
  BY <1>10, FrontSwap
<1> QED BY SMTT(60), <1>1, <1>2, <1>3, <1>4, <1>5, <1>6, <1>7, <1>8, <1>9, <1>10 DEF JobStep, SwapStep

\* At the first start every engine is as its agent wants it.
LEMMA FrontInit == "exit" \notin Faults /\ Init => FrontInv
<1> SUFFICES ASSUME "exit" \notin Faults, Init PROVE FrontInv
  OBVIOUS
<1>1. PromotedInv /\ job.pc = "idle" /\ job.did = {}
  BY PromotedInit DEF Init, NoJob
<1>2. /\ \A s : Coherent(Halted(s))
      /\ \A s : s.current # None /\ ~s.stopped => Coherent(Serving(s))
  BY DEF Coherent, Halted, Serving, Running
<1>3. Boot # None /\ EmptyStore \in Store /\ ~EmptyStore.stopped
  <2>1. EmptyStore \in Store /\ ~EmptyStore.stopped
    BY DEF EmptyStore, Store
  <2> QED BY <2>1, ReleaseAssumption DEF Release
<1> DEFINE booted == [EmptyStore EXCEPT !.dirs = {Boot}, !.current = Boot]
<1>4. booted.current # None /\ ~booted.stopped
  BY <1>3 DEF Store
<1> HIDE DEF booted
<1>5. \A e \in Engine : Coherent(Fresh(e))
  <2> SUFFICES ASSUME NEW e \in Engine PROVE Coherent(Fresh(e))
    OBVIOUS
  <2>1. \/ Fresh(e) = Serving(booted)
        \/ Fresh(e) = Halted(Marked(booted, TRUE))
        \/ Fresh(e) = Halted(EmptyStore)
    BY DEF Fresh, booted
  <2> QED BY <1>2, <1>4, <2>1
<1>6. \A e \in Engine : Coherent(ag[e])
  BY <1>5 DEF Init
<1> QED BY <1>1, <1>6 DEF FrontInv, ToSwap, SeenLb, DoneLb

\* No step has a proxy engine serve the new version without its load balancer.
LEMMA FrontNext == FrontInv /\ [Next]_vars => FrontInv'
<1> SUFFICES ASSUME FrontInv, [Next]_vars PROVE FrontInv'
  OBVIOUS
<1>t. PromotedInv /\ PromotedInv' /\ HistoryInv /\ TypeInv /\ TypeOK /\ rec \in Rec
  BY PromotedNext DEF FrontInv, PromotedInv, HistoryInv, TypeInv, TypeOK
<1>a. \A e \in Engine : ag[e] \in AgentState /\ Coherent(ag[e])
  BY <1>t DEF TypeOK, FrontInv
<1>d. job.pc = "idle" => job.did = {}
  BY DEF FrontInv, ToSwap
<1>k. ASSUME UNCHANGED <<job, rows, ag>> PROVE FrontInv'
  <2>1. job' = job /\ rows' = rows /\ \A e \in Engine : ag'[e] = ag[e]
    BY <1>k
  <2> QED BY <1>a, <1>t, <2>1, FrontKept
<1>r. ASSUME job' = job, job.pc = "idle", \A e \in Engine : Coherent(ag'[e]) PROVE FrontInv'
  BY <1>d, <1>r, <1>t, FrontRest
<1>1. CASE Begin
  <2>1. ag' = ag /\ job'.pc = "read" /\ job'.did = {}
    BY <1>1 DEF Begin, ApplyBegin, RollbackBegin, NoJob
  <2> QED BY <1>a, <1>t, <2>1, FrontRest
<1>2. CASE JobStep
  BY <1>2, <1>t, FrontJob
<1>3. CASE Reconcile
  <2>0. job' = job /\ rows' = rows
    BY <1>3, Zenon DEF Reconcile, ReconcileStatus, ReconcileLock, ReconcileCall, ReconcileContainer
  <2>1. ASSUME ag' = ag PROVE FrontInv'
    BY <1>k, <2>0, <2>1
  <2>2. rec.pc = "run" => job.pc = "idle"
    BY <1>t DEF HistoryInv
  <2> DEFINE c == Head(rec.todo)
  <2>3. rec.pc = "run" => c \in AgentCall \cup ContainerCall
    <3>1. rec.pc = "run" => rec.todo # <<>>
      BY <1>t DEF TypeInv
    <3>2. rec.todo \in Seq(AgentCall \cup ContainerCall)
      BY <1>t DEF TypeInv
    <3> QED BY <3>1, <3>2
  <2>4. ASSUME NEW r \in {"ok", "unavailable"}, ReconcileCall(r) PROVE FrontInv'
    <3>1. rec.pc = "run" /\ Send(c, r) /\ c.do \notin {"ctrStart", "ctrStop"} /\ r \in Replies
      BY <2>4 DEF ReconcileCall, Replies
    <3> HIDE DEF c
    <3>2. c \in AgentCall
      BY <2>3, <3>1 DEF AgentCall, ContainerCall
    <3>3. \A e \in Engine : Coherent(ag'[e])
      BY <1>a, <1>t, <3>1, <3>2, CoherentSend
    <3> QED BY <1>r, <2>0, <2>2, <3>1, <3>3
  <2>5. CASE ReconcileContainer
    <3>1. rec.pc = "run"
      BY <2>5 DEF ReconcileContainer
    <3>2. c.to \in Engine
      BY <2>3, <3>1 DEF AgentCall, ContainerCall, Calls
    <3>3. \/ ag' = ag
          \/ ag' = [ag EXCEPT ![c.to] = Booted(ag[c.to])]
          \/ ag' = [ag EXCEPT ![c.to] = Halted(ag[c.to].store)]
      BY <2>5 DEF ReconcileContainer, Bring
    <3> HIDE DEF c
    <3>4. Coherent(Booted(ag[c.to])) /\ Coherent(Halted(ag[c.to].store))
      <4>1. Coherent(Halted(ag[c.to].store))
        BY DEF Coherent, Halted, Running
      <4> QED BY <1>a, <3>2, <4>1, CoherentBoot
    <3>5. \A e \in Engine : Coherent(ag'[e])
      BY <1>a, <1>t, <3>2, <3>3, <3>4 DEF TypeOK
    <3> QED BY <1>r, <2>0, <2>2, <3>1, <3>5
  <2>6. ASSUME ReconcileStatus \/ ReconcileLock PROVE ag' = ag
    BY <2>6, Zenon DEF ReconcileStatus, ReconcileLock
  <2> QED BY <1>3, <2>1, <2>4, <2>5, <2>6 DEF Reconcile
<1>4. ASSUME Discard \/ (\E s \in Snapshots : Edit(s)) \/ UNCHANGED vars PROVE FrontInv'
  BY <1>4, <1>k DEF Discard, Edit, vars
<1>5. CASE AdminAction
  <2>1. PICK x \in Engine : AdminStart(x) \/ AdminStop(x)
    BY <1>5, PipelineAssumption DEF AdminAction
  <2>2. job' = job /\ job.pc = "idle"
    BY <2>1 DEF AdminStart, AdminStop, Unlocked
  <2>3. \A e \in Engine : Coherent(ag'[e])
    BY <1>a, <1>t, <2>1, CoherentAdmin
  <2> QED BY <1>r, <2>2, <2>3
<1>6. ASSUME NEW x \in Engine, EngineExits(x) \/ EngineReturns(x) \/ AgentRestarts(x)
      PROVE  FrontInv'
  <2>1. ~EngineExits(x)
    BY DEF EngineExits, Fault, FrontInv
  <2>2. ~EngineReturns(x)
    BY <1>a DEF EngineReturns, Coherent
  <2>3. job' = job /\ rows' = rows /\ ag' = [ag EXCEPT ![x] = Booted(ag[x])]
    BY <1>6, <2>1, <2>2 DEF AgentRestarts
  <2>4. \A e \in Engine : ag'[e] = ag[e] \/ ag'[e] = Booted(ag[e])
    BY <2>3, <1>t DEF TypeOK
  <2>5. \A e \in Engine : /\ Coherent(ag'[e]) /\ ag'[e].store = ag[e].store
                          /\ Running(ag[e]) => ag'[e].proc = ag[e].proc
                          /\ Asleep(ag[e]) => Asleep(ag'[e])
    BY <1>a, <2>4, CoherentBoot
  <2> QED BY <1>t, <2>3, <2>5, FrontKept
<1>7. CASE Crash
  <2>1. EndJob /\ ag' = ag
    BY <1>7 DEF Crash
  <2>2. job'.pc = "idle" /\ job'.did = {}
    BY <2>1 DEF EndJob, NoJob
  <2> QED BY <1>a, <1>t, <2>1, <2>2, FrontRest
<1> QED BY <1>1, <1>2, <1>3, <1>4, <1>5, <1>6, <1>7 DEF Next, Environment

\* "exit" \notin Faults /\ Spec => []RoutesBehindFrontends: while no engine exits by
\* itself, whatever answers are lost, containers restart or are stopped and started
\* and however often the relay app is killed, a proxy engine that was given the new
\* version and still runs it has the load balancer of that version behind it, all
\* through the swap and through an undoing that no agent has failed.
THEOREM FrontendsAreThere == "exit" \notin Faults /\ Spec => []RoutesBehindFrontends
BY FrontInit, FrontNext, FrontSays, PTL DEF Spec

-----------------------------------------------------------------------------
(* What a version changes on the agents, and what takes it back *)

\* Relay starts and stops no containers, no admin starts or stops an engine, and a
\* store has room for the release before the active one.
Plain == ~Docker /\ Managed = {} /\ Keep > 0 /\ MaxHistory > 1

\* The engine runs, and h is active.
Runs(a, h) == a.store.current = h /\ Running(a)

\* An agent with nothing to restart.
Settled(a) == a.want => Running(a)

\* What an engine does when it is started on a store, or left down on it.
LEMMA ShapeFacts ==
  /\ \A s : Serving(s).store = s /\ Halted(s).store = s /\ Settled(Halted(s))
  /\ \A s \in Store : s.current # None => Runs(Serving(s), s.current) /\ Settled(Serving(s))
BY DEF Serving, Halted, Settled, Runs, Running

\* An apply that is answered: the engine runs the release, newest in its history.
LEMMA Installed ==
  ASSUME NEW a \in AgentState, NEW h \in Hash, NEW ao \in BOOLEAN
  PROVE  /\ Runs(Done(a, "apply", h, ao), h) /\ Settled(Done(a, "apply", h, ao))
         /\ Topped(a.store) => Topped(Done(a, "apply", h, ao).store)
         /\ Runs(a, h) => Done(a, "apply", h, ao) = a
<1>0. a.store \in Store /\ h # None
  BY ReleaseAssumption DEF AgentState
<1>1. Done(a, "apply", h, ao) = IF Active(a, h) THEN a ELSE Serving(Applied(a.store, h, FALSE))
  BY DEF Done
<1>2. CASE Active(a, h)
  BY <1>1, <1>2 DEF Active, Runs, Settled
<1>3. CASE ~Active(a, h)
  <2>1. PICK s : s = Applied(a.store, h, FALSE)
    OBVIOUS
  <2>2. Applied(a.store, h, FALSE) \in Store /\ Applied(a.store, h, FALSE).current = h
        /\ Topped(Applied(a.store, h, FALSE))
    BY <1>0, AppliedStore, AppliedTopped, Zenon
  <2>3. s \in Store /\ s.current = h /\ Topped(s)
    BY <2>1, <2>2
  <2>4. Done(a, "apply", h, ao) = Serving(s)
    BY <1>1, <1>3, <2>1
  <2>5. ~Runs(a, h)
    BY <1>3 DEF Active, Runs
  <2> QED BY <1>0, <2>3, <2>4, <2>5, ShapeFacts
<1> QED BY <1>2, <1>3

\* Over another release, that one is what a rollback goes back to.
LEMMA InstalledOver ==
  ASSUME Plain, NEW a \in AgentState, Topped(a.store), NEW h \in Hash, NEW ao \in BOOLEAN,
         NEW old \in Hash, a.store.current = old, old # h
  PROVE  Previous(Done(a, "apply", h, ao).store) = old
<1>0. a.store \in Store
  BY DEF AgentState
<1>1. Done(a, "apply", h, ao) = Serving(Applied(a.store, h, FALSE))
  BY DEF Done, Active
<1>2. Previous(Applied(a.store, h, FALSE)) = a.store.current
  <2>1. Keep > 0 /\ MaxHistory > 1 /\ a.store.current \in Hash /\ h # a.store.current
    BY DEF Plain
  <2>2. FALSE \in BOOLEAN
    OBVIOUS
  <2> QED BY <1>0, <2>1, <2>2, AppliedPrevious, Zenon
<1>3. Serving(Applied(a.store, h, FALSE)).store = Applied(a.store, h, FALSE)
  BY DEF Serving
<1> QED BY <1>1, <1>2, <1>3

\* A request to stop: the engine sleeps, on the release it was given.
LEMMA Stopped ==
  ASSUME NEW a \in AgentState, NEW ao \in BOOLEAN
  PROVE  /\ \A h \in Hash : LET b == Done(a, "applyStop", h, ao)
                           IN  Asleep(b) /\ Settled(b) /\ Topped(b.store) /\ b.store.current = h
         /\ \A h : LET b == Done(a, "stopOnly", h, ao)
                   IN  /\ Asleep(b) /\ Settled(b) /\ b.store.current = a.store.current
                       /\ Topped(a.store) => Topped(b.store)
<1>0. a.store \in Store
  BY DEF AgentState
<1>1. \A s : Halted(s).store = s /\ Settled(Halted(s)) /\ (s.stopped => Asleep(Halted(s)))
  BY DEF Halted, Settled, Asleep
<1>2. ASSUME NEW h \in Hash
      PROVE  LET b == Done(a, "applyStop", h, ao)
             IN  Asleep(b) /\ Settled(b) /\ Topped(b.store) /\ b.store.current = h
  <2>1. PICK s : s = Applied(a.store, h, TRUE)
    OBVIOUS
  <2>2. Applied(a.store, h, TRUE) \in Store /\ Applied(a.store, h, TRUE).current = h
        /\ Topped(Applied(a.store, h, TRUE))
    BY <1>0, AppliedStore, AppliedTopped, Zenon
  <2>3. Applied(a.store, h, TRUE).stopped = TRUE
    BY <1>0, StoppedStore, Zenon
  <2>4. Done(a, "applyStop", h, ao) = Halted(s)
    BY <2>1 DEF Done
  <2> QED BY <1>1, <2>1, <2>2, <2>3, <2>4
<1>3. ASSUME NEW h
      PROVE  LET b == Done(a, "stopOnly", h, ao)
             IN  /\ Asleep(b) /\ Settled(b) /\ b.store.current = a.store.current
                 /\ Topped(a.store) => Topped(b.store)
  <2>1. PICK s : s = Marked(a.store, TRUE)
    OBVIOUS
  <2>2. /\ Marked(a.store, TRUE) \in Store /\ Marked(a.store, TRUE).current = a.store.current
        /\ Topped(a.store) => Topped(Marked(a.store, TRUE))
    BY <1>0, MarkedTopped, Zenon
  <2>3. Marked(a.store, TRUE).stopped = TRUE
    BY <1>0 DEF Marked, Store
  <2>4. Done(a, "stopOnly", h, ao) = Halted(s)
    BY <2>1 DEF Done
  <2> QED BY <1>1, <2>1, <2>2, <2>3, <2>4
<1> QED BY <1>2, <1>3

\* A rollback that can be done: the engine runs the previous release.
LEMMA WentBack ==
  ASSUME NEW a \in AgentState, Previous(a.store) # None, NEW h, NEW ao \in BOOLEAN
  PROVE  Runs(Done(a, "rollback", h, ao), Previous(a.store)) /\ Settled(Done(a, "rollback", h, ao))
<1>0. a.store \in Store
  BY DEF AgentState
<1>1. Done(a, "rollback", h, ao) = Serving(Marked(RolledBack(a.store), FALSE))
  BY DEF Done
<1>2. RolledBack(a.store) \in Store
  BY <1>0, RolledBackStore
<1>3. RolledBack(a.store).current = Previous(a.store)
  <2>1. Previous(a.store) \in Release
    BY <1>0, PreviousOnDisk DEF Store
  <2>2. Swapped(a.store, Previous(a.store)) \in Store
        /\ Swapped(a.store, Previous(a.store)).current = Previous(a.store)
    BY <1>0, <2>1, StoreOperations DEF Swapped, Store
  <2> QED BY <2>2 DEF RolledBack, RewoundTo, Store
<1>4. PICK s : s = Marked(RolledBack(a.store), FALSE)
  OBVIOUS
<1>5. Marked(RolledBack(a.store), FALSE) \in Store
      /\ Marked(RolledBack(a.store), FALSE).current = RolledBack(a.store).current
  BY <1>2, MarkedTopped, Zenon
<1> QED BY <1>1, <1>3, <1>4, <1>5, ShapeFacts

\* Starting an engine that is down: it runs what is active.
LEMMA StartedUp ==
  ASSUME NEW a \in AgentState, Asleep(a), a.store.current # None, NEW h, NEW ao \in BOOLEAN
  PROVE  Runs(Done(a, "start", h, ao), a.store.current) /\ Settled(Done(a, "start", h, ao))
<1>0. a.store \in Store /\ ~Running(a)
  BY DEF AgentState, Asleep, Running
<1>1. Done(a, "start", h, ao) = Serving(Marked(a.store, FALSE))
  BY <1>0 DEF Done
<1>2. PICK s : s = Marked(a.store, FALSE)
  OBVIOUS
<1>3. Marked(a.store, FALSE) \in Store /\ Marked(a.store, FALSE).current = a.store.current
  BY <1>0, MarkedTopped, Zenon
<1> QED BY <1>1, <1>2, <1>3, ShapeFacts

\* A request that is refused leaves an engine that runs on its release.
LEMMA RefusalKeeps ==
  ASSUME NEW a \in AgentState, NEW c \in AgentCall, NEW ao \in BOOLEAN, Settled(a),
         NEW b \in Refusals(a, c.do, c.hash, ao)
  PROVE  Settled(b) /\ \A h : h # None /\ Runs(a, h) => Runs(b, h)
<1>0. a.store \in Store /\ a.want \in BOOLEAN
  BY DEF AgentState
<1>1. CASE b = a
  BY <1>1
<1>2. CASE c.do = "apply" /\ b = Reverted(a, c.hash, ao)
  <2>1. c.hash \in Hash
    BY <1>2 DEF AgentCall
  <2>2. Undone(a.store, c.hash) \in Store /\ Undone(a.store, c.hash).current = a.store.current
    <3>1. \A on \in BOOLEAN : Undone(a.store, c.hash).current = a.store.current
      BY <1>0, <2>1, StoppedStore
    <3> QED BY <1>0, <2>1, <3>1, UndoneStore
  <2>3. PICK s : s = Marked(Undone(a.store, c.hash), FALSE)
    OBVIOUS
  <2>4. s \in Store /\ s.current = a.store.current
    <3>1. Marked(Undone(a.store, c.hash), FALSE) \in Store
          /\ Marked(Undone(a.store, c.hash), FALSE).current = Undone(a.store, c.hash).current
      BY <2>2, MarkedTopped, Zenon
    <3> QED BY <2>2, <2>3, <3>1
  <2>5. \/ /\ a.store.current # None
           /\ b = Serving(s)
        \/ /\ ~Running(a) \/ a.store.current = None
           /\ \E x : b = Halted(x)
    BY <1>2, <2>3 DEF Reverted
  <2>6. \A x : Settled(Halted(x))
    BY DEF Halted, Settled
  <2> QED BY <2>4, <2>5, <2>6, ShapeFacts DEF Runs
<1> QED BY <1>1, <1>2 DEF Refusals

\* While nothing has gone wrong a request is answered, and touches one agent.
LEMMA PlainSend ==
  ASSUME TypeOK, NEW c \in AgentCall, NEW r \in Replies, Send(c, r), up[c.to], faults' = 0
  PROVE  /\ r # "unavailable" /\ ag' \in [Engine -> AgentState]
         /\ \A e \in Engine : e # c.to => ag'[e] = ag[e]
         /\ r = "ok" => /\ CanDo(ag[c.to], c.do)
                        /\ ag'[c.to] = Done(ag[c.to], c.do, c.hash, AlwaysOn(c.to))
         /\ r = "refused" =>
              ag'[c.to] \in Refusals(ag[c.to], c.do, c.hash, AlwaysOn(c.to))
<1>1. ag' \in [Engine -> AgentState] /\ \A e \in Engine : e # c.to => ag'[e] = ag[e]
  BY SendFacts
<1>2. c.to \in Engine
  BY DEF AgentCall, Calls
<1>3. r # "unavailable"
  <2> SUFFICES ASSUME r = "unavailable" PROVE FALSE
    OBVIOUS
  <2>1. Fault("unreachable") \/ Fault("lost")
    BY DEF Send
  <2> QED BY <2>1, PipelineAssumption DEF Fault, TypeOK
<1>4. r = "ok" => /\ CanDo(ag[c.to], c.do)
                  /\ ag'[c.to] = Done(ag[c.to], c.do, c.hash, AlwaysOn(c.to))
  BY <1>2 DEF Send, TypeOK
<1>5. r = "refused" => ag'[c.to] \in Refusals(ag[c.to], c.do, c.hash, AlwaysOn(c.to))
  BY <1>2 DEF Send, TypeOK
<1> QED BY <1>1, <1>3, <1>4, <1>5

-----------------------------------------------------------------------------
(* Where the engines are with a version *)

\* The first start, as if it were a version.
FirstSnap == [ pe |-> "nginx", ph |-> Boot, le |-> "haproxy", lh |-> None, run |-> FALSE,
               th |-> None, tun |-> FALSE ]

LiveSnap == IF Live = 0 THEN FirstSnap ELSE rows[Live].snap

\* Engine e is as version s has it.
At(e, a, s) ==
    /\ e \in Proxies => IF e = s.pe THEN Runs(a, s.ph) ELSE Asleep(a)
    /\ e \in Balancers => IF e = s.le /\ s.run THEN Runs(a, s.lh) ELSE Asleep(a)
    /\ e = "tunnel" => IF s.tun THEN Runs(a, s.th) ELSE Asleep(a)

\* What is known of the live version's configuration.
LEMMA LiveSnapFacts ==
  ASSUME TypeOK
  PROVE  /\ LiveSnap.pe \in Proxies /\ LiveSnap.le \in Balancers
         /\ LiveSnap.run \in BOOLEAN /\ LiveSnap.tun \in BOOLEAN
         /\ LiveSnap.pe = OldProxy(Live) /\ LiveSnap.le = OldLb(Live)
         /\ LiveSnap.ph # None
         /\ Live # 0 => /\ LiveSnap = rows[Live].snap /\ LiveSnap \in Snapshot
                        /\ {LiveSnap.ph, LiveSnap.lh, LiveSnap.th} \subseteq Hash
<1>1. CASE Live = 0
  BY <1>1, ReleaseAssumption DEF LiveSnap, FirstSnap, Proxies, Balancers, OldProxy, OldLb
<1>2. CASE Live # 0
  BY <1>2, LiveFacts, ReleaseAssumption DEF LiveSnap, Snapshot, OldProxy, OldLb
<1> QED BY <1>1, <1>2

\* No request of q is to engine e.
Avoids(q, e) == \A i \in 1..Len(q) : q[i].to # e

\* Once the requests of q are answered OK, engine e is as version s has it: it is so
\* already, or one request of q makes it so.
Due(e, a, q, s) ==
    \/ Avoids(q, e) /\ At(e, a, s)
    \/ \E i \in 1..Len(q) :
         /\ q[i].to = e /\ \A j \in 1..Len(q) : q[j].to = e => j = i
         /\ CanDo(a, q[i].do) => At(e, Done(a, q[i].do, q[i].hash, AlwaysOn(e)), s)

\* Requests to other engines, before and after, are of no account.
LEMMA DueJoin ==
  ASSUME NEW p \in Seq(AgentCall), NEW q \in Seq(AgentCall), NEW e, NEW a, NEW s
  PROVE  /\ Avoids(p, e) /\ Avoids(q, e) => Avoids(p \o q, e)
         /\ Due(e, a, p, s) /\ Avoids(q, e) => Due(e, a, p \o q, s)
         /\ Avoids(p, e) /\ Due(e, a, q, s) => Due(e, a, p \o q, s)
<1> DEFINE t == p \o q
<1>1. /\ t \in Seq(AgentCall)
      /\ Len(p) \in Nat /\ Len(q) \in Nat /\ Len(t) = Len(p) + Len(q)
      /\ \A i \in 1..Len(p) : t[i] = p[i]
      /\ \A i \in 1..Len(q) : t[Len(p) + i] = q[i]
      /\ \A i \in 1..Len(t) : i \in 1..Len(p) \/ i - Len(p) \in 1..Len(q)
  BY ConcatFacts
<1> HIDE DEF t
<1>2. \A i \in 1..Len(t) : IF i \in 1..Len(p) THEN t[i] = p[i]
                           ELSE i - Len(p) \in 1..Len(q) /\ t[i] = q[i - Len(p)]
  <2> SUFFICES ASSUME NEW i \in 1..Len(t), i \notin 1..Len(p)
               PROVE  i - Len(p) \in 1..Len(q) /\ t[i] = q[i - Len(p)]
    BY <1>1
  <2>1. i - Len(p) \in 1..Len(q) /\ Len(p) + (i - Len(p)) = i
    BY <1>1
  <2>2. t[Len(p) + (i - Len(p))] = q[i - Len(p)]
    BY <1>1, <2>1
  <2> QED BY <2>1, <2>2
<1>3. ASSUME Avoids(p, e), Avoids(q, e) PROVE Avoids(t, e)
  BY <1>2, <1>3 DEF Avoids
<1>4. ASSUME Due(e, a, p, s), Avoids(q, e) PROVE Due(e, a, t, s)
  <2>1. CASE Avoids(p, e) /\ At(e, a, s)
    BY <1>3, <1>4, <2>1 DEF Due
  <2>2. ASSUME NEW i \in 1..Len(p),
               p[i].to = e, \A j \in 1..Len(p) : p[j].to = e => j = i,
               CanDo(a, p[i].do) => At(e, Done(a, p[i].do, p[i].hash, AlwaysOn(e)), s)
        PROVE  Due(e, a, t, s)
    <3>1. i \in 1..Len(t) /\ t[i] = p[i]
      BY <1>1
    <3>2. \A j \in 1..Len(t) : t[j].to = e => j = i
      BY <1>2, <1>4, <2>2 DEF Avoids
    <3> QED BY <2>2, <3>1, <3>2 DEF Due
  <2> QED BY <1>4, <2>1, <2>2 DEF Due
<1>5. ASSUME Avoids(p, e), Due(e, a, q, s) PROVE Due(e, a, t, s)
  <2>1. CASE Avoids(q, e) /\ At(e, a, s)
    BY <1>3, <1>5, <2>1 DEF Due
  <2>2. ASSUME NEW i \in 1..Len(q),
               q[i].to = e, \A j \in 1..Len(q) : q[j].to = e => j = i,
               CanDo(a, q[i].do) => At(e, Done(a, q[i].do, q[i].hash, AlwaysOn(e)), s)
        PROVE  Due(e, a, t, s)
    <3>1. Len(p) + i \in 1..Len(t) /\ t[Len(p) + i] = q[i]
      <4>1. PICK n \in Nat, m \in Nat : n = Len(p) /\ m = Len(q)
        BY <1>1
      <4>2. i \in 1..m /\ Len(t) = n + m
        BY <1>1, <4>1
      <4>3. n + i \in 1..(n + m)
        BY <4>2
      <4>4. t[Len(p) + i] = q[i]
        BY <1>1, Zenon
      <4> QED BY <4>1, <4>2, <4>3, <4>4
    <3>2. ASSUME NEW j \in 1..Len(t), t[j].to = e PROVE j = Len(p) + i
      <4>1. j \notin 1..Len(p)
        BY <1>2, <1>5, <3>2 DEF Avoids
      <4>2. j - Len(p) \in 1..Len(q) /\ t[j] = q[j - Len(p)]
        BY <1>2, <4>1, Zenon
      <4>3. j - Len(p) = i
        BY <2>2, <3>2, <4>2, Zenon
      <4> QED BY <1>1, <4>3
    <3> QED BY <2>2, <3>1, <3>2 DEF Due
  <2> QED BY <1>5, <2>1, <2>2 DEF Due
<1> QED BY <1>3, <1>4, <1>5 DEF t

\* One request, or none.
LEMMA DueOne ==
  ASSUME NEW c \in AgentCall, NEW a, NEW s
  PROVE  /\ <<c>> \in Seq(AgentCall) /\ <<>> \in Seq(AgentCall)
         /\ \A e : Avoids(<<>>, e) /\ (At(e, a, s) => Due(e, a, <<>>, s))
         /\ \A e : e # c.to => Avoids(<<c>>, e) /\ (At(e, a, s) => Due(e, a, <<c>>, s))
         /\ (CanDo(a, c.do) => At(c.to, Done(a, c.do, c.hash, AlwaysOn(c.to)), s))
              => Due(c.to, a, <<c>>, s)
<1>0. <<c>> \in Seq(AgentCall) /\ <<>> \in Seq(AgentCall)
  OBVIOUS
<1>1. PICK q \in Seq(AgentCall) : q = <<c>>
  BY <1>0, Zenon
<1>2. Len(q) = 1 /\ q[1] = c
  BY <1>1
<1>3. PICK z \in Seq(AgentCall) : z = <<>>
  BY <1>0, Zenon
<1>4. Len(z) = 0
  BY <1>3
<1>5. \A e : Avoids(z, e) /\ (At(e, a, s) => Due(e, a, z, s))
  BY <1>4 DEF Avoids, Due
<1>6. \A e : e # c.to => Avoids(q, e) /\ (At(e, a, s) => Due(e, a, q, s))
  BY <1>2 DEF Avoids, Due
<1>7. ASSUME CanDo(a, c.do) => At(c.to, Done(a, c.do, c.hash, AlwaysOn(c.to)), s)
      PROVE  Due(c.to, a, q, s)
  <2>1. 1 \in 1..Len(q) /\ \A j \in 1..Len(q) : j = 1
    BY <1>2
  <2> QED BY <1>2, <1>7, <2>1 DEF Due
<1> QED BY <1>1, <1>3, <1>5, <1>6, <1>7

\* How the requests marked in did leave the proxy engines, so that they can be taken
\* back to version old: switched from the old one to the new one; the old one on another
\* release, over its own; as they were.
ProxyBack(a, did, old, new) ==
    \/ /\ {"switch", "start", "stop"} \subseteq did /\ new.pe # old.pe
       /\ Asleep(a[old.pe]) /\ a[old.pe].store.current = old.ph
    \/ /\ "switch" \notin did /\ "swap" \in did /\ new.pe = old.pe
       /\ Previous(a[old.pe].store) = old.ph /\ \A e \in Proxies \ {old.pe} : Asleep(a[e])
    \/ "switch" \notin did /\ "swap" \notin did /\ \A e \in Proxies : At(e, a[e], old)

\* The same for the load balancers, which run before and after.
LbBack(a, did, old, new) ==
    \/ {"lbSwitch", "lbStart", "lbStop"} \subseteq did /\ new.le # old.le
    \/ /\ "lbSwitch" \notin did /\ "lbChange" \in did /\ new.le = old.le
       /\ Previous(a[old.le].store) = old.lh /\ \A e \in Balancers \ {old.le} : Asleep(a[e])
    \/ "lbSwitch" \notin did /\ "lbChange" \notin did /\ \A e \in Balancers : At(e, a[e], old)

\* And for the tunnel engine.
TunBack(a, did, old) ==
    \/ "tunnel" \in did /\ old.tun /\ Previous(a["tunnel"].store) = old.th
    \/ "tunnel" \notin did /\ At("tunnel", a["tunnel"], old)

\* Whether a request is sent.
LEMMA OnlyFacts ==
  ASSUME NEW c
  PROVE  /\ \A x : x => Only(x, c) = <<c>>
         /\ \A x : ~x => Only(x, c) = <<>>
BY DEF Only

\* Then the requests of the undoing, answered OK, take every engine back.
LEMMA BackDue ==
  ASSUME TypeInv, job.live = Live, Live # 0, stopped = {}, NEW did \in SUBSET Marks,
         NEW a \in [Engine -> AgentState],
         LiveSnap.run,
         ProxyBack(a, did, LiveSnap, job.snap), LbBack(a, did, LiveSnap, job.snap),
         TunBack(a, did, LiveSnap)
  PROVE  \A e \in Engine : Due(e, a[e], Undo(did), LiveSnap)
<1> DEFINE new == job.snap
           old == LiveSnap
           P == IF "switch" \in did
                THEN Only("start" \in did, Call("applyStop", new.pe, new.ph))
                     \o Only("stop" \in did, Call("start", old.pe, None))
                ELSE Only("swap" \in did, Call("rollback", new.pe, None))
           B == IF "lbSwitch" \in did
                THEN Only("lbStart" \in did, Call("applyStop", new.le, new.lh))
                     \o Only("lbStop" \in did, Call("apply", old.le, old.lh))
                ELSE Only("lbChange" \in did, Call("rollback", new.le, None))
           T == Only("tunnel" \in did, Call("rollback", "tunnel", None))
<1>s. /\ new.pe \in Proxies /\ new.le \in Balancers /\ {new.ph, new.lh} \subseteq Hash
      /\ old.pe \in Proxies /\ old.le \in Balancers /\ {old.ph, old.lh, old.th} \subseteq Hash
      /\ old.run /\ old.tun \in BOOLEAN
  <2>1. new \in Snapshot
    BY DEF TypeInv, TypeOK, Job
  <2> QED BY <2>1, LiveSnapFacts DEF TypeInv, Snapshot
<1>n. None \notin Hash
  BY ReleaseAssumption
<1>e. /\ Proxies \subseteq Engine /\ Balancers \subseteq Engine /\ "tunnel" \in Engine
      /\ Proxies \cap Balancers = {} /\ "tunnel" \notin Proxies \cup Balancers
      /\ Engine = Proxies \cup Balancers \cup {"tunnel"}
      /\ \A x, y, z \in Proxies : x # y => z = x \/ z = y
      /\ \A x, y, z \in Balancers : x # y => z = x \/ z = y
  BY DEF Engine, Proxies, Balancers
<1>c. \A e \in Engine, h \in Hash :
        /\ Call("applyStop", e, h) \in AgentCall /\ Call("apply", e, h) \in AgentCall
        /\ Call("start", e, None) \in AgentCall /\ Call("rollback", e, None) \in AgentCall
  BY DEF Call, AgentCall, Calls
<1>f. \A do, e, h : /\ Call(do, e, h).do = do /\ Call(do, e, h).to = e
                   /\ Call(do, e, h).hash = h
  BY DEF Call
<1>a. \A e \in Engine : a[e] \in AgentState /\ AlwaysOn(e) \in BOOLEAN
  BY DEF AlwaysOn
<1>z. <<>> \in Seq(AgentCall)
  OBVIOUS
<1>U. Undo(did) = (P \o B) \o T
  <2>1. OldProxy(job.live) = old.pe
    BY LiveSnapFacts DEF TypeInv
  <2>2. rows[job.live].snap = old
    BY LiveSnapFacts DEF TypeInv
  <2>3. Install(old.le, old.lh, LbWanted(old)) = Call("apply", old.le, old.lh)
    BY <1>s DEF Install, LbWanted
  <2>4. ("lbStop" \in did /\ job.live # 0) <=> "lbStop" \in did
    OBVIOUS
  <2>5. Only("lbStop" \in did /\ job.live # 0, Install(old.le, old.lh, LbWanted(old)))
          = Only("lbStop" \in did, Call("apply", old.le, old.lh))
    BY <2>3, <2>4 DEF Only
  <2> HIDE DEF new, old
  <2> QED BY <2>1, <2>2, <2>5, Zenon DEF Undo, new
<1>P. /\ P \in Seq(AgentCall) /\ \A e \in Engine \ Proxies : Avoids(P, e)
      /\ \A e \in Proxies : Due(e, a[e], P, old)
  <2>1. CASE /\ {"switch", "start", "stop"} \subseteq did /\ new.pe # old.pe
             /\ Asleep(a[old.pe]) /\ a[old.pe].store.current = old.ph
    <3> DEFINE c == Call("applyStop", new.pe, new.ph)
               d == Call("start", old.pe, None)
    <3>1. P = <<c>> \o <<d>>
      BY <2>1, OnlyFacts
    <3>2. c \in AgentCall /\ d \in AgentCall /\ c.to = new.pe /\ d.to = old.pe
      BY <1>c, <1>e, <1>f, <1>s
    <3>3. <<c>> \in Seq(AgentCall) /\ <<d>> \in Seq(AgentCall)
      BY <3>2, DueOne
    <3>4. At(new.pe, Done(a[new.pe], c.do, c.hash, AlwaysOn(new.pe)), old)
      <4>1. Asleep(Done(a[new.pe], "applyStop", new.ph, AlwaysOn(new.pe)))
        BY <1>a, <1>e, <1>s, Stopped
      <4> QED BY <4>1, <1>e, <1>f, <1>s, <2>1 DEF At
    <3>5. At(old.pe, Done(a[old.pe], d.do, d.hash, AlwaysOn(old.pe)), old)
      <4>1. Runs(Done(a[old.pe], "start", None, AlwaysOn(old.pe)), old.ph)
        BY <1>a, <1>e, <1>n, <1>s, <2>1, StartedUp
      <4> QED BY <4>1, <1>e, <1>f, <1>s DEF At
    <3> HIDE DEF c, d, P, old, new
    <3>6. /\ \A e : e # c.to => Avoids(<<c>>, e)
          /\ \A e : e # d.to => Avoids(<<d>>, e)
          /\ Due(c.to, a[new.pe], <<c>>, old) /\ Due(d.to, a[old.pe], <<d>>, old)
      BY <3>2, <3>4, <3>5, DueOne
    <3>7. P \in Seq(AgentCall)
      BY <3>1, <3>3, ConcatFacts
    <3>8. \A e \in Engine \ Proxies : Avoids(P, e)
      BY <1>s, <3>1, <3>2, <3>3, <3>6, DueJoin
    <3>9. Due(new.pe, a[new.pe], P, old) /\ Due(old.pe, a[old.pe], P, old)
      BY <2>1, <3>1, <3>2, <3>3, <3>6, DueJoin
    <3> QED BY SMTT(60), <1>e, <1>s, <2>1, <3>7, <3>8, <3>9
  <2>2. CASE /\ "switch" \notin did /\ "swap" \in did /\ new.pe = old.pe
             /\ Previous(a[old.pe].store) = old.ph /\ \A e \in Proxies \ {old.pe} : Asleep(a[e])
    <3> DEFINE c == Call("rollback", new.pe, None)
    <3>1. P = <<c>>
      BY <2>2, OnlyFacts
    <3>2. c \in AgentCall /\ c.to = old.pe
      BY <1>c, <1>e, <1>f, <1>s, <2>2
    <3>3. At(old.pe, Done(a[old.pe], c.do, c.hash, AlwaysOn(old.pe)), old)
      <4>1. Runs(Done(a[old.pe], "rollback", None, AlwaysOn(old.pe)), old.ph)
        BY <1>a, <1>e, <1>n, <1>s, <2>2, WentBack
      <4> QED BY <4>1, <1>e, <1>f, <1>s DEF At
    <3>4. \A e \in Proxies \ {old.pe} : At(e, a[e], old)
      BY <1>e, <2>2 DEF At
    <3> HIDE DEF c, P, old, new
    <3> QED BY <1>s, <3>1, <3>2, <3>3, <3>4, DueOne
  <2>3. CASE "switch" \notin did /\ "swap" \notin did /\ \A e \in Proxies : At(e, a[e], old)
    <3>1. P = <<>>
      BY <2>3, OnlyFacts
    <3> HIDE DEF P, old, new
    <3>2. PICK c \in AgentCall : TRUE
      BY <1>c, <1>e, <1>s
    <3> QED BY <1>z, <2>3, <3>1, DueOne
  <2> QED BY <2>1, <2>2, <2>3 DEF ProxyBack
<1>B. /\ B \in Seq(AgentCall) /\ \A e \in Engine \ Balancers : Avoids(B, e)
      /\ \A e \in Balancers : Due(e, a[e], B, old)
  <2>1. CASE {"lbSwitch", "lbStart", "lbStop"} \subseteq did /\ new.le # old.le
    <3> DEFINE c == Call("applyStop", new.le, new.lh)
               d == Call("apply", old.le, old.lh)
    <3>1. B = <<c>> \o <<d>>
      BY <2>1, OnlyFacts
    <3>2. c \in AgentCall /\ d \in AgentCall /\ c.to = new.le /\ d.to = old.le
      BY <1>c, <1>e, <1>f, <1>s
    <3>3. <<c>> \in Seq(AgentCall) /\ <<d>> \in Seq(AgentCall)
      BY <3>2, DueOne
    <3>4. At(new.le, Done(a[new.le], c.do, c.hash, AlwaysOn(new.le)), old)
      <4>1. Asleep(Done(a[new.le], "applyStop", new.lh, AlwaysOn(new.le)))
        BY <1>a, <1>e, <1>s, Stopped
      <4> QED BY <4>1, <1>e, <1>f, <1>s, <2>1 DEF At
    <3>5. At(old.le, Done(a[old.le], d.do, d.hash, AlwaysOn(old.le)), old)
      <4>1. Runs(Done(a[old.le], "apply", old.lh, AlwaysOn(old.le)), old.lh)
        BY <1>a, <1>e, <1>s, <2>1, Installed
      <4> QED BY <4>1, <1>e, <1>f, <1>s DEF At
    <3> HIDE DEF c, d, B, old, new
    <3>6. /\ \A e : e # c.to => Avoids(<<c>>, e)
          /\ \A e : e # d.to => Avoids(<<d>>, e)
          /\ Due(c.to, a[new.le], <<c>>, old) /\ Due(d.to, a[old.le], <<d>>, old)
      BY <3>2, <3>4, <3>5, DueOne
    <3>7. B \in Seq(AgentCall)
      BY <3>1, <3>3, ConcatFacts
    <3>8. \A e \in Engine \ Balancers : Avoids(B, e)
      BY <1>s, <3>1, <3>2, <3>3, <3>6, DueJoin
    <3>9. Due(new.le, a[new.le], B, old) /\ Due(old.le, a[old.le], B, old)
      BY ZenonT(60), <2>1, <3>1, <3>2, <3>3, <3>6, DueJoin
    <3> QED BY SMTT(60), <1>e, <1>s, <2>1, <3>7, <3>8, <3>9
  <2>2. CASE /\ "lbSwitch" \notin did /\ "lbChange" \in did /\ new.le = old.le
             /\ Previous(a[old.le].store) = old.lh /\ \A e \in Balancers \ {old.le} : Asleep(a[e])
    <3> DEFINE c == Call("rollback", new.le, None)
    <3>1. B = <<c>>
      BY <2>2, OnlyFacts
    <3>2. c \in AgentCall /\ c.to = old.le
      BY <1>c, <1>e, <1>f, <1>s, <2>2
    <3>3. At(old.le, Done(a[old.le], c.do, c.hash, AlwaysOn(old.le)), old)
      <4>1. Runs(Done(a[old.le], "rollback", None, AlwaysOn(old.le)), old.lh)
        BY <1>a, <1>e, <1>n, <1>s, <2>2, WentBack
      <4> QED BY <4>1, <1>e, <1>f, <1>s DEF At
    <3>4. \A e \in Balancers \ {old.le} : At(e, a[e], old)
      BY <1>e, <2>2 DEF At
    <3> HIDE DEF c, B, old, new
    <3> QED BY <1>s, <3>1, <3>2, <3>3, <3>4, DueOne
  <2>3. CASE "lbSwitch" \notin did /\ "lbChange" \notin did /\ \A e \in Balancers : At(e, a[e], old)
    <3>1. B = <<>>
      BY <2>3, OnlyFacts
    <3> HIDE DEF B, old, new
    <3>2. PICK c \in AgentCall : TRUE
      BY <1>c, <1>e, <1>s
    <3> QED BY <1>z, <2>3, <3>1, DueOne
  <2> QED BY <2>1, <2>2, <2>3 DEF LbBack
<1>T. /\ T \in Seq(AgentCall) /\ \A e \in Engine \ {"tunnel"} : Avoids(T, e)
      /\ Due("tunnel", a["tunnel"], T, old)
  <2> DEFINE c == Call("rollback", "tunnel", None)
  <2>1. c \in AgentCall /\ c.to = "tunnel" /\ c.do = "rollback" /\ c.hash = None
    BY <1>c, <1>e, <1>f, <1>s
  <2>2. CASE "tunnel" \in did /\ old.tun /\ Previous(a["tunnel"].store) = old.th
    <3>1. T = <<c>>
      BY <2>2, OnlyFacts
    <3>2. At("tunnel", Done(a["tunnel"], c.do, c.hash, AlwaysOn("tunnel")), old)
      <4>1. Runs(Done(a["tunnel"], "rollback", None, AlwaysOn("tunnel")), old.th)
        BY <1>a, <1>e, <1>n, <1>s, <2>2, WentBack
      <4> QED BY <4>1, <1>e, <2>1, <2>2 DEF At
    <3> HIDE DEF c, T, old, new
    <3> QED BY <2>1, <3>1, <3>2, DueOne
  <2>3. CASE "tunnel" \notin did /\ At("tunnel", a["tunnel"], old)
    <3>1. T = <<>>
      BY <2>3, OnlyFacts
    <3> HIDE DEF c, T, old, new
    <3> QED BY <1>z, <2>1, <2>3, <3>1, DueOne
  <2> QED BY <2>2, <2>3 DEF TunBack
<1> HIDE DEF P, B, T, old, new
<1>1. P \o B \in Seq(AgentCall)
  BY <1>P, <1>B, ConcatFacts
<1>2. \A e \in Proxies : Due(e, a[e], P \o B, old) /\ Avoids(T, e)
  BY <1>e, <1>P, <1>B, <1>T, DueJoin
<1>3. \A e \in Balancers : Due(e, a[e], P \o B, old) /\ Avoids(T, e)
  BY <1>e, <1>P, <1>B, <1>T, DueJoin
<1>4. Avoids(P \o B, "tunnel")
  BY <1>e, <1>P, <1>B, DueJoin
<1>5. \A e \in Engine : Due(e, a[e], (P \o B) \o T, old)
  <2> DEFINE q == P \o B
  <2> HIDE DEF q
  <2>1. \A e : Due(e, a[e], q, old) /\ Avoids(T, e) => Due(e, a[e], q \o T, old)
    BY <1>1, <1>T, DueJoin DEF q
  <2>2. Due("tunnel", a["tunnel"], q \o T, old)
    BY <1>1, <1>4, <1>T, DueJoin DEF q
  <2>3. \A e \in Proxies \cup Balancers : Due(e, a[e], q, old) /\ Avoids(T, e)
    BY <1>2, <1>3 DEF q
  <2> QED BY <1>e, <2>1, <2>2, <2>3 DEF q
<1> QED BY <1>U, <1>5 DEF old

-----------------------------------------------------------------------------
(* Where the engines are while nothing has gone wrong *)

\* What a reconcile asks for, of a version it finds live.
Keeps(c, s) ==
    \/ c.do = "stopOnly" /\ c.to \in (Proxies \ {s.pe}) \cup (Balancers \ {s.le})
    \/ c = Install(s.pe, s.ph, TRUE)
    \/ c = Install(s.le, s.lh, s.run)
    \/ c = Install("tunnel", s.th, s.tun)

\* Nothing has gone wrong: no fault, and no version failed but the one being applied may.
Succeeded ==
    /\ faults = 0
    /\ \A i \in 1..Len(rows) :
         rows[i].status \in {"live", "superseded"} \/ (i = Len(rows) /\ job.pc \in Inserted)

ProxiesAt(a, s)  == \A e \in Proxies : At(e, a[e], s)
BalancersAt(a, s) == \A e \in Balancers : At(e, a[e], s)

\* An engine that is not to run has no other release than the version's, if any.
TunnelAt(a, s) ==
    /\ At("tunnel", a["tunnel"], s)
    /\ ~s.tun => a["tunnel"].store.current \in {s.th, None}

\* The versions that are to be taken back completely.
Changes(old, new) == Live # 0 /\ Steady(old, new) /\ <<new.pe, new.ph>> # <<old.pe, old.ph>>

\* What an agent answered is still so.
Seen(st, a) == st.reach /\ st.hash = a.store.current /\ st.running = Running(a)

\* The proxy engines, from the live version to the new one.
ProxyStage(a, j, old) ==
    LET new == j.snap
    IN  /\ j.pc \in ToSwap \cup {"lbApply", "stop"} =>
             ProxiesAt(a, old) /\ "switch" \notin j.did /\ "swap" \notin j.did
        /\ j.pc = "apply" =>
             IF old.pe = new.pe
             THEN ProxiesAt(a, old) /\ "switch" \notin j.did /\ "swap" \notin j.did
             ELSE /\ Down(a, Proxies) /\ {"switch", "start", "stop"} \subseteq j.did
                  /\ Live # 0 => a[old.pe].store.current = old.ph
        /\ j.pc \in {"follow", "health", "promote"} =>
             /\ ProxiesAt(a, new)
             /\ Changes(old, new) => ProxyBack(a, j.did, old, new)

\* The load balancers.
LbStage(a, j, old) ==
    LET new == j.snap
    IN  /\ j.pc \in ToSwap => BalancersAt(a, old) /\ "lbSwitch" \notin j.did /\ "lbChange" \notin j.did
        /\ j.pc \in {"tunnel", "insert", "lbStop", "lbApply"} => Seen(j.lbSeen, a[new.le])
        /\ j.pc = "lbApply" =>
             IF old.le = new.le
             THEN BalancersAt(a, old) /\ "lbSwitch" \notin j.did /\ "lbChange" \notin j.did
             ELSE Down(a, Balancers) /\ {"lbSwitch", "lbStop"} \subseteq j.did
        /\ j.pc \in {"stop", "apply", "follow", "health", "promote"} =>
             /\ BalancersAt(a, new)
             /\ Changes(old, new) => LbBack(a, j.did, old, new)

\* The tunnel engine.
TunnelStage(a, j, old) ==
    LET new == j.snap
    IN  /\ j.pc \in ToSwap \cup {"lbApply", "stop", "apply", "follow"} =>
             TunnelAt(a, old) /\ "tunnel" \notin j.did
        /\ j.pc \in {"insert", "lbStop", "lbApply", "stop", "apply", "follow"} =>
             Seen(j.tunSeen, a["tunnel"])
        /\ j.pc \in {"health", "promote"} =>
             /\ TunnelAt(a, new)
             /\ Changes(old, new) => TunBack(a, j.did, old)

\* Requests not sent yet undo what was changed.
UndoStage(a, j, old) ==
    j.pc = "undo" /\ ~j.problems /\ Changes(old, j.snap) =>
        \A e \in Engine : Due(e, a[e], j.undo, old)

\* Where the engines are while nothing has gone wrong.
BackGood ==
    /\ \A e \in Engine : Settled(ag[e])
    /\ job.pc # "undo" => \A e \in Engine : Topped(ag[e].store)
    /\ ProxyStage(ag, job, LiveSnap)
    /\ LbStage(ag, job, LiveSnap)
    /\ TunnelStage(ag, job, LiveSnap)
    /\ UndoStage(ag, job, LiveSnap)

BackBase ==
    /\ HistoryInv /\ Plain
    /\ \A e \in Engine : up[e]
    /\ stopped = {}
    /\ job.pc \notin {"idle", "read"} => job.live = Live
    /\ job.pc = "lbStop" => LbSwitching
    /\ job.pc = "stop" => Switching
    /\ rec.pc = "run" =>
         Live # 0 /\ \A i \in 1..Len(rec.todo) : rec.todo[i] \in AgentCall /\ Keeps(rec.todo[i], LiveSnap)

BackInv == BackBase /\ (Succeeded => BackGood)

\* A reconcile asks only for what the live version has already.
LEMMA RepairsKeep ==
  ASSUME TypeOK, Live # 0, stopped = {}, NEW c \in Repairs(rows[Live].snap)
  PROVE  c \in AgentCall /\ Keeps(c, LiveSnap)
<1> DEFINE s == rows[Live].snap
<1>1. s \in Snapshot /\ LiveSnap = s
  BY LiveFacts DEF LiveSnap
<1>2. /\ s.pe \in Proxies /\ s.le \in Balancers /\ {s.pe, s.le, "tunnel"} \subseteq Engine
      /\ {s.ph, s.lh, s.th} \subseteq Hash
  BY <1>1 DEF Snapshot, Engine
<1>3. OtherProxy(s.pe) \in Proxies \ {s.pe} /\ OtherLb(s.le) \in Balancers \ {s.le}
  BY <1>2 DEF Proxies, OtherProxy, Balancers, OtherLb
<1>4. Install(s.le, s.lh, LbWanted(s)) = Install(s.le, s.lh, s.run)
      /\ Install("tunnel", s.th, TunWanted(s)) = Install("tunnel", s.th, s.tun)
  BY Zenon DEF LbWanted, TunWanted, Install
<1>5. \A e \in {s.pe, s.le, "tunnel"}, h \in Hash : \A run : Install(e, h, run) \in AgentCall
  BY <1>2, InstallFacts
<1>6. \A e \in Engine : /\ Call("stopOnly", e, None) \in AgentCall
                       /\ Call("stopOnly", e, None).do = "stopOnly"
                       /\ Call("stopOnly", e, None).to = e
  BY DEF Call, AgentCall, Calls
<1>7. OtherProxy(s.pe) \in Engine /\ OtherLb(s.le) \in Engine
  BY <1>3, EngineSorts
<1>8. c \in {Call("stopOnly", OtherProxy(s.pe), None), Call("stopOnly", OtherLb(s.le), None)}
      \/ c \in {Install(s.pe, s.ph, TRUE), Install(s.le, s.lh, s.run), Install("tunnel", s.th, s.tun)}
  BY <1>4, Zenon DEF Repairs
<1> HIDE DEF s
<1>9. CASE c \in {Call("stopOnly", OtherProxy(s.pe), None), Call("stopOnly", OtherLb(s.le), None)}
  BY <1>1, <1>3, <1>6, <1>7, <1>9 DEF Keeps
<1>10. CASE c \in {Install(s.pe, s.ph, TRUE), Install(s.le, s.lh, s.run), Install("tunnel", s.th, s.tun)}
  BY <1>1, <1>2, <1>5, <1>10 DEF Keeps
<1> QED BY <1>8, <1>9, <1>10

\* Answered OK, it changes nothing that counts.
LEMMA KeptStep ==
  ASSUME NEW s \in Snapshot, NEW c \in AgentCall, Keeps(c, s), NEW a \in AgentState,
         Settled(a), Topped(a.store), At(c.to, a, s), NEW ao \in BOOLEAN
  PROVE  LET b == Done(a, c.do, c.hash, ao)
         IN  /\ Settled(b) /\ Topped(b.store) /\ At(c.to, b, s)
             /\ c.to = "tunnel" /\ a.store.current \in {s.th, None} => b.store.current \in {s.th, None}
<1>s. /\ s.pe \in Proxies /\ s.le \in Balancers /\ {s.ph, s.lh, s.th} \subseteq Hash
      /\ s.run \in BOOLEAN /\ s.tun \in BOOLEAN
  BY DEF Snapshot
<1>1. PICK b : b = Done(a, c.do, c.hash, ao)
  OBVIOUS
<1>i. \A e, h : /\ Install(e, h, TRUE).do = "apply" /\ Install(e, h, FALSE).do = "applyStop"
               /\ \A run \in BOOLEAN : Install(e, h, run).to = e /\ Install(e, h, run).hash = h
  BY DEF Install, Call
<1>2. CASE c.do = "stopOnly" /\ c.to \in (Proxies \ {s.pe}) \cup (Balancers \ {s.le})
  <2>1. Asleep(b) /\ Settled(b) /\ Topped(b.store)
    BY <1>1, <1>2, Stopped
  <2>2. c.to # "tunnel"
    BY <1>2, EngineSorts
  <2>3. At(c.to, b, s)
    BY <1>2, <2>1, <2>2, EngineSorts DEF At
  <2> QED BY <1>1, <2>1, <2>2, <2>3
<1>3. ASSUME NEW e, NEW h \in Hash, c = Install(e, h, TRUE), Runs(a, h) PROVE b = a
  <2>1. c.do = "apply" /\ c.hash = h
    BY ZenonT(60), <1>3, <1>i
  <2> QED BY <1>1, <1>3, <2>1, Installed
<1>4. ASSUME NEW e, NEW h \in Hash, c = Install(e, h, FALSE)
      PROVE  Asleep(b) /\ Settled(b) /\ Topped(b.store) /\ b.store.current = h
  <2>1. c.do = "applyStop" /\ c.hash = h
    BY ZenonT(60), <1>4, <1>i
  <2> QED BY <1>1, <2>1, Stopped
<1>5. CASE c = Install(s.pe, s.ph, TRUE)
  <2>1. c.to = s.pe
    BY ZenonT(60), <1>5, <1>i
  <2>2. Runs(a, s.ph)
    BY <1>s, <2>1 DEF At
  <2> QED BY <1>1, <1>3, <1>5, <1>s, <2>2
<1>6. CASE c = Install(s.le, s.lh, s.run)
  <2>1. c.to = s.le /\ c.to # "tunnel" /\ c.to \notin Proxies
    BY <1>6, <1>i, <1>s, EngineSorts
  <2>2. CASE s.run
    <3>1. Runs(a, s.lh) /\ s.run = TRUE
      BY <1>s, <2>1, <2>2 DEF At
    <3> QED BY <1>1, <1>3, <1>6, <1>s, <3>1
  <2>3. CASE ~s.run
    <3>1. Asleep(b) /\ Settled(b) /\ Topped(b.store)
      BY <1>4, <1>6, <1>s, <2>3
    <3>2. At(c.to, b, s)
      BY <2>1, <2>3, <3>1 DEF At
    <3> QED BY <1>1, <2>1, <3>1, <3>2
  <2> QED BY <2>2, <2>3
<1>7. CASE c = Install("tunnel", s.th, s.tun)
  <2>1. c.to = "tunnel" /\ c.to \notin Proxies /\ c.to \notin Balancers
    BY <1>7, <1>i, <1>s, EngineSorts
  <2>2. CASE s.tun
    <3>1. Runs(a, s.th) /\ s.tun = TRUE
      BY <1>s, <2>1, <2>2 DEF At
    <3> QED BY <1>1, <1>3, <1>7, <1>s, <3>1
  <2>3. CASE ~s.tun
    <3>1. Asleep(b) /\ Settled(b) /\ Topped(b.store) /\ b.store.current = s.th
      BY <1>4, <1>7, <1>s, <2>3
    <3>2. At(c.to, b, s)
      BY <2>1, <2>3, <3>1 DEF At
    <3> QED BY <1>1, <3>1, <3>2
  <2> QED BY <2>2, <2>3
<1> QED BY <1>2, <1>5, <1>6, <1>7 DEF Keeps

\* Nothing has been done yet.
LEMMA BackInit == Plain /\ Init => BackInv
<1> SUFFICES ASSUME Plain, Init PROVE BackInv
  OBVIOUS
<1>1. /\ HistoryInv /\ rows = <<>> /\ up = [e \in Engine |-> TRUE]
      /\ ag = [e \in Engine |-> Fresh(e)] /\ stopped = {}
      /\ job.pc = "idle" /\ job.did = {} /\ rec.pc = "idle"
  BY HistoryInit DEF Init, NoJob, NoRec
<1>2. Live = 0 /\ LiveSnap = FirstSnap
  <2>1. LiveRows = {}
    BY <1>1 DEF LiveRows
  <2> QED BY <2>1 DEF Live, LiveSnap
<1>3. /\ FirstSnap.pe = "nginx" /\ FirstSnap.ph = Boot /\ ~FirstSnap.run /\ ~FirstSnap.tun
      /\ FirstSnap.th = None
  BY DEF FirstSnap
<1> DEFINE boot == [EmptyStore EXCEPT !.dirs = {Boot}, !.current = Boot]
<1>4. /\ EmptyStore \in Store /\ EmptyStore.current = None /\ EmptyStore.history = <<>>
      /\ boot \in Store /\ boot.current = Boot /\ boot.history = <<>> /\ Boot # None
  <2>1. EmptyStore \in Store /\ EmptyStore.current = None /\ EmptyStore.history = <<>>
    BY DEF Release, EmptyStore, Store
  <2>2. {Boot} \in SUBSET Release /\ Boot \in Release \cup {None}
    BY DEF Release
  <2> QED BY <2>1, <2>2, ReleaseAssumption DEF Store
<1> HIDE DEF boot
<1>5. Topped(EmptyStore) /\ Topped(boot)
  BY <1>4 DEF Topped
<1>6. PICK m : m = Marked(boot, TRUE)
  OBVIOUS
<1>7. m \in Store /\ Topped(m) /\ m.stopped
  <2>1. Marked(boot, TRUE) \in Store /\ Topped(Marked(boot, TRUE))
    BY <1>4, <1>5, MarkedTopped, Zenon
  <2>2. Marked(boot, TRUE).stopped = TRUE
    BY <1>4 DEF Marked, Store
  <2> QED BY <1>6, <2>1, <2>2
<1>8. Fresh("nginx") = Serving(boot) /\ Fresh("edge") = Halted(m)
      /\ \A e \in Engine \ Proxies : Fresh(e) = Halted(EmptyStore)
  BY <1>6 DEF Fresh, boot, Proxies
<1>9. \A s : s.current = None \/ s.stopped => Asleep(Halted(s))
  BY DEF Halted, Asleep
<1>10. Runs(Fresh("nginx"), Boot) /\ \A e \in Engine : Settled(Fresh(e)) /\ Topped(Fresh(e).store)
  <2>1. Engine = (Engine \ Proxies) \cup {"nginx", "edge"}
    BY DEF Engine, Proxies
  <2> QED BY <1>4, <1>5, <1>7, <1>8, <2>1, ShapeFacts
<1>11. Asleep(Fresh("edge")) /\ \A e \in Engine \ Proxies : Asleep(Fresh(e))
  BY <1>4, <1>7, <1>8, <1>9
<1>12. Fresh("tunnel").store.current = None
  BY <1>4, <1>8, EngineSorts, ShapeFacts
<1>13. ProxiesAt(ag, LiveSnap) /\ BalancersAt(ag, LiveSnap) /\ TunnelAt(ag, LiveSnap)
  <2>1. Proxies = {"nginx", "edge"}
    BY DEF Proxies
  <2>2. \A e \in Engine : ag[e] = Fresh(e)
    BY <1>1
  <2>3. ProxiesAt(ag, LiveSnap)
    BY <1>2, <1>3, <1>10, <1>11, <2>1, <2>2, EngineSorts DEF ProxiesAt, At
  <2>4. BalancersAt(ag, LiveSnap)
    BY <1>2, <1>3, <1>11, <2>2, EngineSorts DEF BalancersAt, At
  <2>5. TunnelAt(ag, LiveSnap)
    BY <1>2, <1>3, <1>11, <1>12, <2>2, EngineSorts DEF TunnelAt, At
  <2> QED BY <2>3, <2>4, <2>5
<1>14. BackGood
  BY <1>1, <1>10, <1>13 DEF BackGood, ProxyStage, LbStage, TunnelStage, UndoStage, ToSwap
<1>15. BackBase
  BY <1>1 DEF BackBase
<1> QED BY <1>14, <1>15 DEF BackInv

\* The versions and the locks, whatever the agents answer.
LEMMA BackBaseNext == BackBase /\ [Next]_vars => BackBase'
<1> SUFFICES ASSUME BackBase, [Next]_vars PROVE BackBase'
  OBVIOUS
<1>t. /\ HistoryInv /\ HistoryInv' /\ TypeInv /\ TypeOK /\ Plain /\ ~Docker /\ Managed = {}
      /\ job \in Job /\ rec \in Rec
  BY HistoryNext DEF BackBase, HistoryInv, TypeInv, TypeOK, Plain
<1>e. ASSUME EndJob PROVE job'.pc = "idle"
  BY <1>e DEF EndJob, NoJob
<1>l. ASSUME \/ rows' = rows
             \/ \E st \in {"draft", "failed"} : rows' = Append(rows, NewRow(st))
             \/ RecordFailure
      PROVE  /\ Live' = Live /\ OldProxy(Live)' = OldProxy(Live) /\ OldLb(Live)' = OldLb(Live)
             /\ LiveSnap' = LiveSnap
  <2>1. /\ Live' = Live /\ OldProxy(Live)' = OldProxy(Live) /\ OldLb(Live)' = OldLb(Live)
        /\ Live # 0 => rows'[Live].snap = rows[Live].snap
    BY <1>l, <1>t, LiveSame
  <2> QED BY <2>1 DEF LiveSnap
<1>idle. ASSUME job'.pc \in {"idle", "read"}, up' = up, stopped' = {}, rec'.pc # "run" PROVE BackBase'
  BY <1>idle, <1>t DEF BackBase, Plain
<1>same. ASSUME UNCHANGED <<job, rows, up, stopped>>,
                \/ rec' = rec
                \/ rec'.pc = "run" => Live # 0 /\ \A i \in 1..Len(rec'.todo) :
                                        rec'.todo[i] \in AgentCall /\ Keeps(rec'.todo[i], LiveSnap)
         PROVE  BackBase'
  <2>1. /\ Live' = Live /\ OldProxy(Live)' = OldProxy(Live) /\ OldLb(Live)' = OldLb(Live)
        /\ LiveSnap' = LiveSnap
    BY <1>same, <1>l
  <2>2. /\ (job.pc = "lbStop" => LbSwitching)'
        /\ (job.pc = "stop" => Switching)'
    BY <1>same, <2>1 DEF BackBase, LbSwitching, Switching, OldProxy, OldLb
  <2>3. rec'.pc = "run" => Live # 0 /\ \A i \in 1..Len(rec'.todo) :
                             rec'.todo[i] \in AgentCall /\ Keeps(rec'.todo[i], LiveSnap)
    BY <1>same DEF BackBase
  <2> HIDE DEF LiveSnap
  <2> QED BY <1>same, <1>t, <2>1, <2>2, <2>3 DEF BackBase, Plain
<1>go. ASSUME up' = up, stopped' = {}, rec' = rec, job.pc # "idle",
              \/ rows' = rows \/ \E st \in {"draft", "failed"} : rows' = Append(rows, NewRow(st)),
              job'.live = Live,
              job'.pc = "lbStop" => OldLb(Live) # job'.snap.le,
              job'.pc = "stop" => OldProxy(Live) # job'.snap.pe
       PROVE  BackBase'
  <2>1. /\ Live' = Live /\ OldProxy(Live)' = OldProxy(Live) /\ OldLb(Live)' = OldLb(Live)
        /\ LiveSnap' = LiveSnap
    BY <1>go, <1>l
  <2>2. rec'.pc # "run"
    BY <1>go, <1>t DEF HistoryInv
  <2>3. /\ (job.pc = "lbStop" => LbSwitching)'
        /\ (job.pc = "stop" => Switching)'
    BY <1>go, <2>1 DEF LbSwitching, Switching
  <2> QED BY <1>go, <1>t, <2>1, <2>2, <2>3 DEF BackBase, Plain
<1>1. CASE Begin
  <2>1. /\ UNCHANGED <<up, stopped, rec>> /\ rec.pc # "run" /\ job'.pc = "read"
    BY <1>1 DEF Begin, ApplyBegin, RollbackBegin, Unlocked, NoJob
  <2> QED BY <2>1, <1>idle DEF BackBase
<1>r. JobStep => rec.pc # "run" /\ rec' = rec /\ job.pc # "idle"
  BY <1>t, JobStepFacts DEF HistoryInv
<1>2. ASSUME JobStep, EndJob, UNCHANGED <<up, stopped>> PROVE BackBase'
  BY <1>2, <1>e, <1>r, <1>idle DEF BackBase
<1>3. CASE ReadDraft
  <2>1. UNCHANGED <<rows, up, stopped>> /\ JobStep
    BY <1>3 DEF ReadDraft, JobStep
  <2>2. CASE job' = [job EXCEPT !.pc = "proxy", !.snap = draft, !.live = Live]
    <3>1. job'.pc = "proxy" /\ job'.live = Live
      BY <1>t, <2>2 DEF Job
    <3> QED BY <1>go, <1>r, <2>1, <3>1 DEF BackBase
  <2> QED BY <1>2, <1>3, <2>1, <2>2 DEF ReadDraft
<1>4. ASSUME CheckProxy \/ CheckLb \/ CheckTunnel PROVE BackBase'
  <2>1. /\ UNCHANGED <<rows, up, stopped>> /\ job.pc \in {"proxy", "lb", "tunnel"}
        /\ job'.pc \in {"lb", "tunnel", "insert"} /\ job'.live = job.live
    BY <1>4, <1>t DEF CheckProxy, CheckLb, CheckTunnel, Goto, Job
  <2>2. JobStep
    BY <1>4 DEF JobStep
  <2>3. job.live = Live
    BY <2>1 DEF BackBase
  <2> QED BY <1>go, <1>r, <2>1, <2>2, <2>3 DEF BackBase
<1>5. CASE InsertDraft
  <2>1. /\ UNCHANGED <<up, stopped>> /\ job.pc = "insert" /\ rows' = Append(rows, NewRow("draft"))
        /\ job'.pc = IF LbSwitching THEN "lbStop" ELSE "lbApply"
        /\ job'.live = job.live /\ job'.snap = job.snap /\ JobStep
    BY <1>5, <1>t DEF InsertDraft, Goto, Job, JobStep
  <2>2. job.live = Live
    BY <2>1 DEF BackBase
  <2>3. job'.pc = "lbStop" => OldLb(Live) # job'.snap.le
    BY <2>1, <2>2 DEF LbSwitching
  <2>4. job'.pc # "stop"
    BY <2>1
  <2>5. \E st \in {"draft", "failed"} : rows' = Append(rows, NewRow(st))
    BY <2>1
  <2> QED BY <1>go, <1>r, <2>1, <2>2, <2>3, <2>4, <2>5 DEF BackBase
<1>6. ASSUME \E e \in Engine : EnsureEngine(e) PROVE FALSE
  BY <1>6, <1>t DEF EnsureEngine, Bring
<1>7. ASSUME NEW r \in {"refused", "unavailable"}, ValidateFails(r) PROVE BackBase'
  <2>1. EndJob /\ UNCHANGED <<up, stopped>> /\ JobStep
    BY <1>7 DEF ValidateFails, JobStep
  <2> QED BY <1>2, <2>1
<1>8. ASSUME Promote \/ RecordFailure PROVE BackBase'
  <2>1. EndJob /\ UNCHANGED <<up, stopped>> /\ JobStep
    BY <1>8, Zenon DEF Promote, RecordFailure, JobStep
  <2> QED BY <1>2, <2>1
<1>9. ASSUME NEW r \in Replies, UndoStep(r) PROVE BackBase'
  <2>1. /\ UNCHANGED <<rows, up, stopped>> /\ job.pc = "undo" /\ JobStep
        /\ job' = [job EXCEPT !.undo = Tail(@), !.problems = @ \/ r # "ok"]
    BY <1>9, Zenon DEF UndoStep, JobStep
  <2>2. job'.pc = "undo" /\ job'.live = job.live
    BY <1>t, <2>1 DEF Job
  <2>3. job.live = Live
    BY <2>1 DEF BackBase
  <2> QED BY <1>go, <1>r, <2>1, <2>2, <2>3 DEF BackBase
<1>10. CASE SwapStep
  <2>1. /\ rows' = rows /\ rec' = rec /\ up' = up /\ job.pc \in Inserted /\ job'.snap = job.snap
    BY <1>10, <1>t, SwapFacts
  <2>2. job.live = Live /\ job.pc # "idle" /\ stopped = {}
    BY <2>1 DEF BackBase, Inserted
  <2>3. stopped' = {}
    BY <1>10, <2>2 DEF SwapStep, StopOldLb, StopOldProxy, ApplyLb, ApplyProxy, ApplyTunnel, PassLb,
                       PassTunnel, HealthPasses, HealthFails
  <2>4. \/ \E did : FailWith(did)
        \/ \E pc \in {"lbApply", AfterLb, "apply", "follow", "health", "promote"} :
             Goto(pc) \/ \E did : Advance(pc, did)
    BY SMTT(60), <1>10 DEF SwapStep, StopOldLb, StopOldProxy, ApplyLb, ApplyProxy, ApplyTunnel, PassLb,
                 PassTunnel, HealthPasses, HealthFails
  <2>5. job'.live = Live /\ job'.pc \in {"undo", "lbApply", AfterLb, "apply", "follow", "health", "promote"}
    BY <1>t, <2>2, <2>4 DEF FailWith, Goto, Advance, Job
  <2>6. job'.pc # "lbStop" /\ (job'.pc = "stop" => OldProxy(Live) # job'.snap.pe)
    BY <2>1, <2>2, <2>5 DEF AfterLb, Switching
  <2> QED BY <1>go, <2>1, <2>2, <2>3, <2>5, <2>6
<1>11. CASE JobStep
  BY <1>3, <1>4, <1>5, <1>6, <1>7, <1>8, <1>9, <1>10, <1>11 DEF JobStep, SwapStep
<1>n. NoRec.pc = "idle"
  BY DEF NoRec
<1>12. CASE ReconcileStatus
  <2>1. rec'.pc = "lock" /\ UNCHANGED <<rows, stopped, up, job>>
    BY <1>12, <1>t DEF ReconcileStatus, Rec
  <2> QED BY <1>same, <2>1
<1>13. CASE ReconcileLock
  <2>1. UNCHANGED <<rows, stopped, up, job>>
    BY <1>13 DEF ReconcileLock
  <2>2. ASSUME rec'.pc = "run"
        PROVE  Live # 0 /\ \A i \in 1..Len(rec'.todo) :
                             rec'.todo[i] \in AgentCall /\ Keeps(rec'.todo[i], LiveSnap)
    <3> DEFINE todo == Corrections(rec.seen)
    <3>1. Live # 0 /\ rec'.todo = todo
      <4>1. rec' # NoRec
        BY <1>n, <2>2
      <4>2. Unlocked /\ Live # 0 /\ rec' = [NoRec EXCEPT !.pc = "run", !.todo = Corrections(rec.seen)]
        BY <1>13, <4>1 DEF ReconcileLock
      <4> QED BY <4>2 DEF NoRec
    <3>2. todo \in Seq(Repairs(rows[Live].snap))
      BY <1>t, CorrectionsAre
    <3>3. \A c \in Repairs(rows[Live].snap) : c \in AgentCall /\ Keeps(c, LiveSnap)
      BY <1>t, <3>1, RepairsKeep DEF BackBase
    <3> HIDE DEF todo
    <3>4. \A i \in 1..Len(todo) : todo[i] \in Repairs(rows[Live].snap)
      BY <3>2
    <3> QED BY <3>1, <3>3, <3>4
  <2> QED BY <1>same, <2>1, <2>2
<1>14. ASSUME NEW r \in {"ok", "unavailable"}, ReconcileCall(r) PROVE BackBase'
  <2>1. rec.pc = "run" /\ UNCHANGED <<rows, up, stopped, job>>
    BY <1>14 DEF ReconcileCall
  <2>2. rec.todo # <<>> /\ rec.todo \in Seq(AgentCall \cup ContainerCall)
    BY <1>t, <2>1 DEF TypeInv
  <2>3. ASSUME rec'.pc = "run" PROVE rec'.todo = Tail(rec.todo)
    BY <1>14, <1>n, <1>t, <2>3 DEF ReconcileCall, NextCall, Rec
  <2>4. /\ Len(rec.todo) \in Nat /\ Len(Tail(rec.todo)) = Len(rec.todo) - 1
        /\ \A i \in 1..Len(Tail(rec.todo)) : Tail(rec.todo)[i] = rec.todo[i + 1]
    BY <2>2
  <2>5. /\ Live # 0
        /\ \A i \in 1..Len(rec.todo) : rec.todo[i] \in AgentCall /\ Keeps(rec.todo[i], LiveSnap)
    BY <2>1 DEF BackBase
  <2>6. \A i \in 1..Len(Tail(rec.todo)) :
          Tail(rec.todo)[i] \in AgentCall /\ Keeps(Tail(rec.todo)[i], LiveSnap)
    BY <2>4, <2>5
  <2> QED BY <1>same, <2>1, <2>3, <2>5, <2>6
<1>15. ASSUME ReconcileContainer PROVE FALSE
  <2>1. rec.pc = "run" /\ Head(rec.todo).do \in {"ctrStart", "ctrStop"}
    BY <1>15 DEF ReconcileContainer
  <2>2. rec.todo # <<>> /\ rec.todo \in Seq(AgentCall \cup ContainerCall)
    BY <1>t, <2>1 DEF TypeInv
  <2>3. Head(rec.todo) = rec.todo[1] /\ 1 \in 1..Len(rec.todo)
    BY <2>2
  <2>4. Head(rec.todo) \in AgentCall
    BY <2>1, <2>3 DEF BackBase
  <2> QED BY <2>1, <2>4 DEF AgentCall
<1>16. ASSUME Discard \/ (\E s \in Snapshots : Edit(s)) \/ UNCHANGED vars PROVE BackBase'
  <2>1. UNCHANGED <<job, rows, up, stopped, rec>>
    BY <1>16 DEF Discard, Edit, vars
  <2> QED BY <1>same, <2>1
<1>17. ASSUME NEW e \in Engine, EngineExits(e) \/ EngineReturns(e) \/ AgentRestarts(e) PROVE BackBase'
  <2>1. UNCHANGED <<job, rows, up, stopped, rec>>
    BY <1>17 DEF EngineExits, EngineReturns, AgentRestarts
  <2> QED BY <1>same, <2>1
<1>18. CASE Crash
  <2>1. EndJob /\ UNCHANGED <<up, stopped>> /\ rec' = NoRec
    BY <1>18 DEF Crash
  <2> QED BY <1>e, <1>idle, <1>n, <2>1 DEF BackBase
<1>19. ~AdminAction
  BY <1>t DEF AdminAction
<1> QED BY SMTT(60), <1>1, <1>11, <1>12, <1>13, <1>14, <1>15, <1>16, <1>17, <1>18, <1>19
        DEF Next, Environment, Reconcile

\* A request adds at most one fault.
LEMMA SendCounts ==
  ASSUME NEW c, NEW r \in Replies, Send(c, r)
  PROVE  faults' \in {faults, faults + 1}
BY DEF Send, Fault, Replies

\* What has not gone wrong by now had not gone wrong before.
LEMMA SucceededBefore ==
  ASSUME HistoryInv, faults' \in {faults, faults + 1}, Succeeded',
         \/ rows' = rows /\ (job'.pc \in Inserted => job.pc \in Inserted)
         \/ \E st \in Statuses : rows' = Append(rows, NewRow(st))
         \/ Promote
  PROVE  Succeeded /\ faults = 0 /\ faults' = 0
<1>t. TypeOK /\ Len(rows) \in Nat /\ faults \in Nat
  BY RowFacts DEF HistoryInv, TypeInv, TypeOK
<1>1. faults = 0 /\ faults' = 0
  BY <1>t DEF Succeeded
<1>2. \A i \in 1..Len(rows') : rows'[i].status \in {"live", "superseded"} \/ (i = Len(rows') /\ job'.pc \in Inserted)
  BY DEF Succeeded
<1>3. CASE rows' = rows /\ (job'.pc \in Inserted => job.pc \in Inserted)
  BY <1>1, <1>2, <1>3 DEF Succeeded
<1>4. ASSUME NEW st \in Statuses, rows' = Append(rows, NewRow(st)) PROVE Succeeded
  <2>1. Len(rows') = Len(rows) + 1 /\ \A i \in 1..Len(rows) : rows'[i] = rows[i]
    BY <1>4, <1>t, AppendRowFacts
  <2>2. \A i \in 1..Len(rows) : i \in 1..Len(rows') /\ i # Len(rows')
    BY <1>t, <2>1
  <2> QED BY <1>1, <1>2, <2>1, <2>2 DEF Succeeded
<1>5. CASE Promote
  <2>1. /\ job.pc \in Inserted
        /\ rows' = [ i \in 1..Len(rows) |->
                   IF i = Len(rows) THEN [rows[i] EXCEPT !.status = "live"]
                   ELSE IF i \in LiveRows THEN [rows[i] EXCEPT !.status = "superseded"]
                   ELSE rows[i] ]
    BY <1>5 DEF Promote, Inserted
  <2>2. Len(rows') = Len(rows)
    BY <1>t, <2>1
  <2>3. ASSUME NEW i \in 1..Len(rows), i # Len(rows) PROVE rows[i].status \in {"live", "superseded"}
    <3>1. i \in LiveRows => rows[i].status = "live"
      BY DEF LiveRows
    <3>2. i \notin LiveRows => rows'[i] = rows[i]
      BY <2>1, <2>3
    <3> QED BY <1>2, <2>2, <2>3, <3>1, <3>2
  <2> QED BY <1>1, <2>1, <2>3 DEF Succeeded
<1> QED BY <1>1, <1>3, <1>4, <1>5

\* A request, while nothing goes wrong.
LEMMA GoodSend ==
  ASSUME BackBase, \A e \in Engine : Settled(ag[e]),
         NEW c \in AgentCall, NEW r \in Replies, Send(c, r), faults' = 0
  PROVE  /\ r # "unavailable" /\ ag' \in [Engine -> AgentState] /\ c.to \in Engine
         /\ \A e \in Engine : e # c.to => ag'[e] = ag[e]
         /\ r = "ok" => /\ CanDo(ag[c.to], c.do)
                        /\ ag'[c.to] = Done(ag[c.to], c.do, c.hash, AlwaysOn(c.to))
         /\ r = "refused" => /\ c.do \notin {"applyStop", "stopOnly"}
                             /\ \A h : h # None /\ Runs(ag[c.to], h) => Runs(ag'[c.to], h)
         /\ \A e \in Engine : Settled(ag'[e])
<1>1. TypeOK /\ c.to \in Engine /\ up[c.to]
  BY DEF BackBase, HistoryInv, TypeInv, AgentCall, Calls
<1>2. /\ r # "unavailable" /\ ag' \in [Engine -> AgentState]
      /\ \A e \in Engine : e # c.to => ag'[e] = ag[e]
      /\ r = "ok" => /\ CanDo(ag[c.to], c.do)
                     /\ ag'[c.to] = Done(ag[c.to], c.do, c.hash, AlwaysOn(c.to))
      /\ r = "refused" => ag'[c.to] \in Refusals(ag[c.to], c.do, c.hash, AlwaysOn(c.to))
  BY <1>1, PlainSend
<1> DEFINE a == ag[c.to]
           b == ag'[c.to]
<1>3. a \in AgentState /\ Settled(a) /\ AlwaysOn(c.to) \in BOOLEAN
  BY <1>1 DEF TypeOK, AlwaysOn
<1> HIDE DEF a, b
<1>4. ASSUME r = "refused"
      PROVE  /\ c.do \notin {"applyStop", "stopOnly"}
             /\ Settled(b) /\ \A h : h # None /\ Runs(a, h) => Runs(b, h)
  <2>1. b \in Refusals(a, c.do, c.hash, AlwaysOn(c.to))
    BY <1>2, <1>4 DEF a, b
  <2>2. c.do \notin {"applyStop", "stopOnly"}
    BY <2>1 DEF Refusals, CanDo
  <2> QED BY <1>3, <2>1, <2>2, RefusalKeeps
<1>5. ASSUME r = "ok" PROVE Settled(b)
  <2>1. CanDo(a, c.do) /\ b = Done(a, c.do, c.hash, AlwaysOn(c.to))
    BY <1>2, <1>5 DEF a, b
  <2>2. c.do \in {"apply", "applyStop", "stopOnly", "rollback", "start"}
        /\ (c.do \in {"apply", "applyStop"} => c.hash \in Hash)
    BY DEF AgentCall, Calls
  <2>3. CASE c.do = "apply"
    BY <1>3, <2>1, <2>2, <2>3, Installed
  <2>4. CASE c.do \in {"applyStop", "stopOnly"}
    BY <1>3, <2>1, <2>2, <2>4, Stopped
  <2>5. CASE c.do = "rollback"
    BY <1>3, <2>1, <2>5, WentBack DEF CanDo
  <2>6. CASE c.do = "start"
    <3>1. a.store \in Store /\ a.store.current # None
      BY <1>3, <2>1, <2>6 DEF CanDo, AgentState
    <3>2. CASE Running(a)
      BY <1>3, <2>1, <2>6, <3>2 DEF Done
    <3>3. CASE ~Running(a)
      <4>1. PICK s : s = Marked(a.store, FALSE)
        OBVIOUS
      <4>2. Marked(a.store, FALSE) \in Store /\ Marked(a.store, FALSE).current = a.store.current
        BY <3>1, MarkedTopped, Zenon
      <4>3. b = Serving(s)
        BY <2>1, <2>6, <3>3, <4>1 DEF Done
      <4> QED BY <3>1, <4>1, <4>2, <4>3, ShapeFacts
    <3> QED BY <3>2, <3>3
  <2> QED BY <2>2, <2>3, <2>4, <2>5, <2>6
<1>6. Settled(b)
  BY <1>2, <1>4, <1>5 DEF Replies
<1>7. \A e \in Engine : Settled(ag'[e])
  BY <1>2, <1>6 DEF b
<1> QED BY <1>1, <1>2, <1>4, <1>7 DEF a, b

\* A release is given to an engine, to run or not.
LEMMA InstallSent ==
  ASSUME BackBase, \A e \in Engine : Settled(ag[e]) /\ Topped(ag[e].store),
         NEW x \in Engine, NEW h \in Hash, NEW run \in BOOLEAN, NEW r \in Replies,
         Send(Install(x, h, run), r), faults' = 0
  PROVE  /\ r # "unavailable" /\ ag' \in [Engine -> AgentState]
         /\ \A e \in Engine : e # x => ag'[e] = ag[e]
         /\ \A e \in Engine : Settled(ag'[e])
         /\ r = "ok" => /\ \A e \in Engine : Topped(ag'[e].store)
                        /\ ag'[x].store.current = h
                        /\ IF run THEN Runs(ag'[x], h) ELSE Asleep(ag'[x])
                        /\ \A old \in Hash : run /\ old # h /\ Runs(ag[x], old) =>
                                               Previous(ag'[x].store) = old
         /\ r = "refused" => /\ run
                             /\ \A g : g # None /\ Runs(ag[x], g) => Runs(ag'[x], g)
<1> DEFINE c == Install(x, h, run)
           a == ag[x]
           b == ag'[x]
           ao == AlwaysOn(x)
<1>1. /\ c \in AgentCall /\ c.to = x /\ c.hash = h /\ c.do = IF run THEN "apply" ELSE "applyStop"
      /\ ao \in BOOLEAN
  <2>1. c.do = IF run THEN "apply" ELSE "applyStop"
    BY DEF Install, Call
  <2> QED BY <2>1, InstallFacts DEF AlwaysOn
<1>2. a \in AgentState /\ Settled(a) /\ Topped(a.store)
  BY DEF BackBase, HistoryInv, TypeInv, TypeOK
<1>3. Send(c, r)
  OBVIOUS
<1> HIDE DEF c, a, b, ao
<1>4. /\ r # "unavailable" /\ ag' \in [Engine -> AgentState]
      /\ \A e \in Engine : e # x => ag'[e] = ag[e]
      /\ r = "ok" => b = Done(a, c.do, h, ao)
      /\ r = "refused" => run /\ \A g : g # None /\ Runs(a, g) => Runs(b, g)
      /\ \A e \in Engine : Settled(ag'[e])
  BY <1>1, <1>3, GoodSend DEF a, b, ao
<1>5. ASSUME r = "ok"
      PROVE  /\ Topped(b.store) /\ b.store.current = h
             /\ IF run THEN Runs(b, h) ELSE Asleep(b)
             /\ \A old \in Hash : run /\ old # h /\ Runs(a, old) => Previous(b.store) = old
  <2>1. CASE run
    <3>1. b = Done(a, "apply", h, ao)
      BY <1>1, <1>4, <1>5, <2>1
    <3>2. Runs(b, h) /\ Topped(b.store)
      BY <1>1, <1>2, <3>1, Installed
    <3>3. \A old \in Hash : old # h /\ Runs(a, old) => Previous(b.store) = old
      BY <1>1, <1>2, <3>1, InstalledOver DEF BackBase, Runs
    <3> QED BY <2>1, <3>2, <3>3 DEF Runs
  <2>2. CASE ~run
    <3>1. b = Done(a, "applyStop", h, ao)
      BY <1>1, <1>4, <1>5, <2>2
    <3> QED BY <1>1, <1>2, <2>2, <3>1, Stopped
  <2> QED BY <2>1, <2>2
<1>6. r = "ok" => \A e \in Engine : Topped(ag'[e].store)
  BY <1>4, <1>5 DEF b
<1> QED BY <1>4, <1>5, <1>6 DEF a, b

\* An engine is stopped, on a release or as it is.
LEMMA StopSent ==
  ASSUME BackBase, \A e \in Engine : Settled(ag[e]) /\ Topped(ag[e].store),
         NEW x \in Engine, NEW h, NEW r \in {"ok", "unavailable"},
         Send(IF h = None THEN Call("stopOnly", x, None) ELSE Call("applyStop", x, h), r),
         h = None \/ h \in Hash, faults' = 0
  PROVE  /\ r = "ok"
         /\ \A e \in Engine : e # x => ag'[e] = ag[e]
         /\ \A e \in Engine : Settled(ag'[e]) /\ Topped(ag'[e].store)
         /\ Asleep(ag'[x]) /\ (h # None => ag'[x].store.current = h)
<1> DEFINE c == IF h = None THEN Call("stopOnly", x, None) ELSE Call("applyStop", x, h)
           a == ag[x]
           b == ag'[x]
           ao == AlwaysOn(x)
<1>1. /\ c \in AgentCall /\ c.to = x /\ ao \in BOOLEAN
      /\ IF h = None THEN c.do = "stopOnly" /\ c.hash = None ELSE c.do = "applyStop" /\ c.hash = h
  <2>1. \A g \in Hash : /\ Call("stopOnly", x, None) \in AgentCall /\ Call("stopOnly", x, None).to = x
                       /\ Call("stopOnly", x, None).do = "stopOnly" /\ Call("stopOnly", x, None).hash = None
                       /\ Call("applyStop", x, g) \in AgentCall /\ Call("applyStop", x, g).to = x
                       /\ Call("applyStop", x, g).do = "applyStop" /\ Call("applyStop", x, g).hash = g
    BY DEF Call, AgentCall, Calls
  <2>2. Call("stopOnly", x, None) \in AgentCall /\ Call("stopOnly", x, None).to = x
        /\ Call("stopOnly", x, None).do = "stopOnly" /\ Call("stopOnly", x, None).hash = None
    BY DEF Call, AgentCall, Calls
  <2> QED BY <2>1, <2>2 DEF AlwaysOn
<1>2. a \in AgentState /\ Settled(a) /\ Topped(a.store) /\ r \in Replies
  BY DEF BackBase, HistoryInv, TypeInv, TypeOK, Replies
<1>3. Send(c, r)
  OBVIOUS
<1> HIDE DEF c, a, b, ao
<1>4. /\ r = "ok"
      /\ \A e \in Engine : e # x => ag'[e] = ag[e]
      /\ b = Done(a, c.do, c.hash, ao)
      /\ \A e \in Engine : Settled(ag'[e])
  BY <1>1, <1>2, <1>3, GoodSend DEF a, b, ao
<1>5. Asleep(b) /\ Topped(b.store) /\ (h # None => b.store.current = h)
  BY <1>1, <1>2, <1>4, Stopped
<1>6. \A e \in Engine : Topped(ag'[e].store)
  BY <1>4, <1>5 DEF b
<1> QED BY <1>4, <1>5, <1>6 DEF b

\* No apply is under way, or one has just begun: the engines are where the live version
\* has them.
LEMMA BackRest ==
  ASSUME job'.pc \in {"idle", "read"},
         {"switch", "swap", "lbSwitch", "lbChange", "tunnel"} \cap job'.did = {},
         \A e \in Engine : Settled(ag'[e]) /\ Topped(ag'[e].store),
         ProxiesAt(ag', LiveSnap'), BalancersAt(ag', LiveSnap'), TunnelAt(ag', LiveSnap')
  PROVE  BackGood'
BY DEF BackGood, ProxyStage, LbStage, TunnelStage, UndoStage, ToSwap

\* A step of an apply that has not changed an engine yet.
LEMMA BackBefore ==
  ASSUME BackGood, ag' = ag, LiveSnap' = LiveSnap,
         job.pc \in ToSwap, job'.pc \in ToSwap \cup {"lbApply"}, job'.did = job.did,
         job'.pc = "lbApply" => LiveSnap.le = job'.snap.le,
         job'.pc \in {"tunnel", "insert", "lbStop", "lbApply"} =>
             Seen(job'.lbSeen, ag[job'.snap.le]),
         job'.pc \in {"insert", "lbStop", "lbApply"} => Seen(job'.tunSeen, ag["tunnel"])
  PROVE  BackGood'
<1>1. /\ ProxiesAt(ag, LiveSnap) /\ BalancersAt(ag, LiveSnap) /\ TunnelAt(ag, LiveSnap)
      /\ {"switch", "swap", "lbSwitch", "lbChange", "tunnel"} \cap job.did = {}
      /\ \A e \in Engine : Settled(ag[e]) /\ Topped(ag[e].store)
  BY DEF BackGood, ProxyStage, LbStage, TunnelStage, ToSwap
<1>2. ProxyStage(ag, job, LiveSnap)'
  BY <1>1 DEF ProxyStage, ToSwap
<1>3. LbStage(ag, job, LiveSnap)'
  BY <1>1 DEF LbStage, ToSwap
<1>4. TunnelStage(ag, job, LiveSnap)'
  BY <1>1 DEF TunnelStage, ToSwap
<1>5. UndoStage(ag, job, LiveSnap)'
  BY DEF UndoStage, ToSwap
<1> QED BY <1>1, <1>2, <1>3, <1>4, <1>5 DEF BackGood

\* What a step of the swap begins with, while nothing goes wrong.
LEMMA SwapStart ==
  ASSUME BackInv, SwapStep, Succeeded'
  PROVE  /\ BackBase /\ BackBase' /\ BackGood /\ faults = 0 /\ faults' = 0
         /\ rows' = rows /\ job.live = Live /\ Live' = Live /\ LiveSnap' = LiveSnap
         /\ job.pc # "undo" => \A e \in Engine : Settled(ag[e]) /\ Topped(ag[e].store)
         /\ Switching <=> LiveSnap.pe # job.snap.pe
         /\ LbSwitching <=> LiveSnap.le # job.snap.le
         /\ job \in Job /\ job.snap \in Snapshot /\ job.did \in SUBSET Marks
         /\ {job.snap.ph, job.snap.lh, job.snap.th} \subseteq Hash
         /\ job.snap.pe \in Proxies /\ job.snap.le \in Balancers
         /\ job.snap.run \in BOOLEAN /\ job.snap.tun \in BOOLEAN
         /\ LiveSnap.pe \in Proxies /\ LiveSnap.le \in Balancers
         /\ Live # 0 => {LiveSnap.ph, LiveSnap.lh, LiveSnap.th} \subseteq Hash
<1>1. BackBase /\ BackBase' /\ HistoryInv /\ TypeInv /\ TypeOK
  BY BackBaseNext DEF BackInv, BackBase, HistoryInv, TypeInv, Next, JobStep, SwapStep
<1>2. rows' = rows /\ job.pc \in Inserted /\ job'.pc \in Inserted
  BY <1>1, SwapFacts
<1>3. job.live = Live
  BY <1>1, <1>2 DEF BackBase, Inserted
<1>4. Live' = Live /\ LiveSnap' = LiveSnap
  <2>1. Live' = Live /\ (Live # 0 => rows'[Live].snap = rows[Live].snap)
    BY <1>1, <1>2, LiveSame
  <2> QED BY <2>1 DEF LiveSnap
<1>s. job \in Job /\ job.snap \in Snapshot /\ job.did \in SUBSET Marks
  BY <1>1 DEF TypeOK, Job
<1>5. faults' \in {faults, faults + 1}
  <2>1. \A e, st : Asked(e, st) => faults' \in {faults, faults + 1}
    BY DEF Asked, Fault
  <2>2. \A c : \A r \in Replies : Send(c, r) => faults' \in {faults, faults + 1}
    BY SendCounts
  <2>3. CASE \E c : \E r \in Replies : Send(c, r)
    BY <2>2, <2>3
  <2>4. CASE \E e, st : Asked(e, st)
    BY <2>1, <2>4
  <2>5. CASE faults' = faults
    BY <2>5
  <2>6. \/ \E c : \E r \in Replies : Send(c, r)
        \/ \E e, st : Asked(e, st)
        \/ faults' = faults
    <3>1. ASSUME NEW r \in {"ok", "unavailable"}, StopOldLb(r) \/ StopOldProxy(r)
          PROVE  \E c : \E q \in Replies : Send(c, q)
      <4>1. r \in Replies
        BY DEF Replies
      <4> QED BY <3>1, <4>1, Zenon DEF StopOldLb, StopOldProxy
    <3>2. ASSUME NEW r \in Replies, ApplyLb(r) \/ ApplyProxy(r) \/ ApplyTunnel(r)
          PROVE  \E c : \E q \in Replies : Send(c, q)
      BY <3>2, Zenon DEF ApplyLb, ApplyProxy, ApplyTunnel
    <3>3. PassLb \/ PassTunnel \/ HealthFails => faults' = faults
      BY DEF PassLb, PassTunnel, HealthFails
    <3>4. HealthPasses => \E e, st : Asked(e, st)
      BY Zenon DEF HealthPasses
    <3> QED BY <3>1, <3>2, <3>3, <3>4, Zenon DEF SwapStep
  <2> QED BY <2>3, <2>4, <2>5, <2>6
<1>6. Succeeded /\ faults = 0 /\ faults' = 0
  BY <1>1, <1>2, <1>5, SucceededBefore
<1>7. BackGood
  BY <1>6 DEF BackInv
<1>8. /\ LiveSnap.pe \in Proxies /\ LiveSnap.le \in Balancers
      /\ LiveSnap.pe = OldProxy(Live) /\ LiveSnap.le = OldLb(Live)
      /\ Live # 0 => {LiveSnap.ph, LiveSnap.lh, LiveSnap.th} \subseteq Hash
  BY <1>1, LiveSnapFacts
<1>9. /\ Switching <=> LiveSnap.pe # job.snap.pe
      /\ LbSwitching <=> LiveSnap.le # job.snap.le
  BY <1>3, <1>8 DEF Switching, LbSwitching
<1>10. /\ {job.snap.ph, job.snap.lh, job.snap.th} \subseteq Hash
       /\ job.snap.pe \in Proxies /\ job.snap.le \in Balancers
       /\ job.snap.run \in BOOLEAN /\ job.snap.tun \in BOOLEAN
  BY <1>s DEF Snapshot
<1>11. job.pc # "undo" => \A e \in Engine : Settled(ag[e]) /\ Topped(ag[e].store)
  BY <1>7 DEF BackGood
<1> QED BY <1>1, <1>2, <1>3, <1>4, <1>6, <1>7, <1>8, <1>9, <1>10, <1>11, <1>s

\* The version is given up, and what was changed can be taken back.
LEMMA BackFail ==
  ASSUME BackBase, job.live = Live, Live' = Live, LiveSnap' = LiveSnap, ag' \in [Engine -> AgentState],
         \A e \in Engine : Settled(ag'[e]),
         NEW did \in SUBSET Marks, FailWith(did),
         Changes(LiveSnap, job.snap) =>
           /\ ProxyBack(ag', did, LiveSnap, job.snap) /\ LbBack(ag', did, LiveSnap, job.snap)
           /\ TunBack(ag', did, LiveSnap)
  PROVE  BackGood'
<1>t. TypeInv /\ stopped = {} /\ job \in Job
  BY DEF BackBase, HistoryInv, TypeInv, TypeOK
<1>1. /\ job'.pc = "undo" /\ job'.undo = Undo(did) /\ job'.snap = job.snap
  <2>1. PICK u : u = Undo(did)
    OBVIOUS
  <2>2. job' = [job EXCEPT !.pc = "undo", !.did = did, !.undo = u]
    BY <2>1 DEF FailWith
  <2> QED BY <1>t, <2>1, <2>2 DEF Job
<1>2. Changes(LiveSnap, job.snap) => \A e \in Engine : Due(e, ag'[e], Undo(did), LiveSnap)
  <2> SUFFICES ASSUME Changes(LiveSnap, job.snap)
               PROVE  \A e \in Engine : Due(e, ag'[e], Undo(did), LiveSnap)
    OBVIOUS
  <2>1. LiveSnap.run /\ Live # 0
    BY DEF Changes, Steady
  <2>2. \A a : a = ag' => a \in [Engine -> AgentState]
                         /\ ProxyBack(a, did, LiveSnap, job.snap) /\ LbBack(a, did, LiveSnap, job.snap)
                         /\ TunBack(a, did, LiveSnap)
    OBVIOUS
  <2>3. PICK a : a = ag'
    OBVIOUS
  <2>4. \A e \in Engine : Due(e, a[e], Undo(did), LiveSnap)
    BY <1>t, <2>1, <2>2, <2>3, BackDue
  <2> QED BY <2>3, <2>4
<1>3. Changes(LiveSnap, job.snap)' => Changes(LiveSnap, job.snap)
  BY <1>1 DEF Changes
<1>4. UndoStage(ag, job, LiveSnap)'
  BY <1>1, <1>2, <1>3 DEF UndoStage, Changes
<1>5. ProxyStage(ag, job, LiveSnap)'
  BY <1>1 DEF ProxyStage, ToSwap
<1>6. LbStage(ag, job, LiveSnap)'
  BY <1>1 DEF LbStage, ToSwap
<1>7. TunnelStage(ag, job, LiveSnap)'
  BY <1>1 DEF TunnelStage, ToSwap
<1> QED BY <1>1, <1>4, <1>5, <1>6, <1>7 DEF BackGood

\* One request of the undoing.
LEMMA DueStep ==
  ASSUME NEW q \in Seq(AgentCall), q # <<>>, NEW e, NEW a, NEW b, NEW s, Due(e, a, q, s),
         q[1].to # e => b = a,
         q[1].to = e => CanDo(a, q[1].do) /\ b = Done(a, q[1].do, q[1].hash, AlwaysOn(e))
  PROVE  Due(e, b, Tail(q), s)
<1> DEFINE t == Tail(q)
<1>1. /\ Len(q) \in Nat /\ Len(q) > 0 /\ Len(t) = Len(q) - 1
      /\ \A i \in 1..Len(t) : t[i] = q[i + 1]
  OBVIOUS
<1> HIDE DEF t
<1>2. \A i \in 1..Len(t) : i + 1 \in 1..Len(q) /\ i + 1 # 1 /\ t[i] = q[i + 1]
  BY <1>1
<1>3. CASE Avoids(q, e) /\ At(e, a, s)
  <2>1. q[1].to # e
    BY <1>1, <1>3 DEF Avoids
  <2>2. Avoids(t, e)
    BY <1>2, <1>3 DEF Avoids
  <2> QED BY <1>3, <2>1, <2>2 DEF Due, t
<1>4. ASSUME NEW i \in 1..Len(q),
             q[i].to = e, \A j \in 1..Len(q) : q[j].to = e => j = i,
             CanDo(a, q[i].do) => At(e, Done(a, q[i].do, q[i].hash, AlwaysOn(e)), s)
      PROVE  Due(e, b, t, s)
  <2>1. CASE i = 1
    <3>1. Avoids(t, e)
      BY <1>2, <1>4, <2>1 DEF Avoids
    <3>2. At(e, b, s)
      BY <1>4, <2>1
    <3> QED BY <3>1, <3>2 DEF Due
  <2>2. CASE i # 1
    <3>1. b = a
      BY <1>1, <1>4, <2>2
    <3>2. i - 1 \in 1..Len(t) /\ t[i - 1] = q[i]
      <4>1. i - 1 \in 1..Len(t) /\ (i - 1) + 1 = i
        BY <1>1, <2>2
      <4> QED BY <1>2, <4>1
    <3>3. ASSUME NEW j \in 1..Len(t), t[j].to = e PROVE j = i - 1
      <4>1. j + 1 = i
        BY <1>2, <1>4, <3>3
      <4> QED BY <1>1, <4>1
    <3> QED BY <1>4, <3>1, <3>2, <3>3 DEF Due
  <2> QED BY <2>1, <2>2
<1> QED BY <1>3, <1>4 DEF Due, t

\* The undoing goes on.
LEMMA BackUndo ==
  ASSUME BackInv, NEW r \in Replies, UndoStep(r), Succeeded'
  PROVE  BackGood'
<1> DEFINE c == Head(job.undo)
           q == job.undo
<1>1. /\ BackBase /\ HistoryInv /\ TypeInv /\ TypeOK /\ job \in Job /\ q \in Seq(AgentCall)
  BY DEF BackInv, BackBase, HistoryInv, TypeInv, TypeOK
<1>2. /\ job.pc = "undo" /\ q # <<>> /\ Send(c, r) /\ rows' = rows
      /\ job' = [job EXCEPT !.undo = Tail(@), !.problems = @ \/ r # "ok"]
  BY Zenon DEF UndoStep
<1>3. /\ job'.pc = "undo" /\ job'.snap = job.snap /\ job'.undo = Tail(q)
      /\ (~job'.problems => ~job.problems /\ r = "ok")
  <2>1. PICK p \in BOOLEAN : p = (job.problems \/ r # "ok")
    OBVIOUS
  <2>2. job' = [job EXCEPT !.undo = Tail(q), !.problems = p]
    BY <1>2, <2>1
  <2>3. job'.pc = "undo" /\ job'.snap = job.snap /\ job'.undo = Tail(q) /\ job'.problems = p
    BY <1>1, <1>2, <2>2 DEF Job
  <2> QED BY <2>1, <2>3
<1>4. c \in AgentCall /\ c = q[1]
  BY <1>1, <1>2
<1> HIDE DEF c
<1>5. Succeeded /\ faults' = 0
  <2>1. faults' \in {faults, faults + 1}
    BY <1>2, SendCounts
  <2>2. job'.pc \in Inserted => job.pc \in Inserted
    BY <1>2, <1>3
  <2> QED BY <1>1, <1>2, <2>1, <2>2, SucceededBefore
<1>6. BackGood
  BY <1>5 DEF BackInv
<1>7. \A e \in Engine : Settled(ag[e])
  BY <1>6 DEF BackGood
<1>8. /\ \A e \in Engine : Settled(ag'[e])
      /\ \A e \in Engine : e # c.to => ag'[e] = ag[e]
      /\ r = "ok" => /\ CanDo(ag[c.to], c.do)
                     /\ ag'[c.to] = Done(ag[c.to], c.do, c.hash, AlwaysOn(c.to))
  BY <1>1, <1>2, <1>4, <1>5, <1>7, GoodSend
<1>9. Live' = Live /\ LiveSnap' = LiveSnap
  <2>1. Live' = Live /\ (Live # 0 => rows'[Live].snap = rows[Live].snap)
    BY <1>1, <1>2, LiveSame
  <2> QED BY <2>1 DEF LiveSnap
<1>10. UndoStage(ag, job, LiveSnap)'
  <2>1. ASSUME ~job'.problems, Changes(LiveSnap, job.snap), NEW e \in Engine
        PROVE  Due(e, ag'[e], job'.undo, LiveSnap)
    <3>1. Due(e, ag[e], q, LiveSnap)
      BY <1>2, <1>3, <1>6, <2>1 DEF BackGood, UndoStage
    <3>2. r = "ok"
      BY <1>3, <2>1
    <3>3. Due(e, ag'[e], Tail(q), LiveSnap)
      <4>1. PICK a, b : a = ag[e] /\ b = ag'[e]
        OBVIOUS
      <4>2. /\ q[1].to # e => b = a
            /\ q[1].to = e => CanDo(a, q[1].do) /\ b = Done(a, q[1].do, q[1].hash, AlwaysOn(e))
        BY <1>4, <1>8, <3>2, <4>1
      <4> HIDE DEF q
      <4>3. Due(e, a, q, LiveSnap)
        BY <3>1, <4>1
      <4>4. Due(e, b, Tail(q), LiveSnap)
        BY <1>1, <1>2, <4>2, <4>3, DueStep
      <4> QED BY <4>1, <4>4
    <3> QED BY <1>3, <3>3
  <2> QED BY <1>3, <1>9, <2>1 DEF UndoStage, Changes
<1>11. ProxyStage(ag, job, LiveSnap)'
  BY <1>3 DEF ProxyStage, ToSwap
<1>12. LbStage(ag, job, LiveSnap)'
  BY <1>3 DEF LbStage, ToSwap
<1>13. TunnelStage(ag, job, LiveSnap)'
  BY <1>3 DEF TunnelStage, ToSwap
<1> QED BY <1>3, <1>8, <1>10, <1>11, <1>12, <1>13 DEF BackGood

\* The load balancer of the live version is stopped.
LEMMA BackStopLb ==
  ASSUME BackInv, NEW r \in {"ok", "unavailable"}, StopOldLb(r), Succeeded'
  PROVE  BackGood'
<1>0. /\ BackBase /\ BackGood /\ faults' = 0 /\ job.live = Live /\ LiveSnap' = LiveSnap
      /\ LbSwitching <=> LiveSnap.le # job.snap.le
      /\ job \in Job /\ job.snap.le \in Balancers /\ LiveSnap.le \in Balancers
      /\ Live # 0 => LiveSnap.lh \in Hash
  BY SwapStart DEF SwapStep
<1>t. TypeOK /\ None \notin Hash
  BY <1>0, ReleaseAssumption DEF BackBase, HistoryInv, TypeInv
<1>1. /\ job.pc = "lbStop"
      /\ Send(IF job.live = 0 THEN Call("stopOnly", OldLb(job.live), None)
              ELSE Call("applyStop", OldLb(job.live), rows[job.live].snap.lh), r)
      /\ Advance("lbApply", IF r = "ok" THEN {"lbSwitch", "lbStop"} ELSE {"lbSwitch"})
  BY DEF StopOldLb
<1>2. PICK h : h = IF Live = 0 THEN None ELSE LiveSnap.lh
  OBVIOUS
<1>3. /\ LiveSnap.le = OldLb(Live) /\ (Live # 0 => LiveSnap = rows[Live].snap)
      /\ LiveSnap.le # job.snap.le
  BY <1>0, <1>1, <1>t, LiveSnapFacts DEF BackBase
<1>4. Send(IF h = None THEN Call("stopOnly", LiveSnap.le, None) ELSE Call("applyStop", LiveSnap.le, h), r)
  BY <1>0, <1>1, <1>2, <1>3, <1>t
<1>5. \A e \in Engine : Settled(ag[e]) /\ Topped(ag[e].store)
  BY <1>0, <1>1 DEF BackGood
<1>6. /\ r = "ok"
      /\ \A e \in Engine : e # LiveSnap.le => ag'[e] = ag[e]
      /\ \A e \in Engine : Settled(ag'[e]) /\ Topped(ag'[e].store)
      /\ Asleep(ag'[LiveSnap.le])
  <2>1. LiveSnap.le \in Engine /\ (h = None \/ h \in Hash)
    BY <1>0, <1>2, EngineSorts
  <2> QED BY SMTT(60), <1>0, <1>4, <1>5, <2>1, StopSent
<1>7. /\ job'.pc = "lbApply" /\ job'.snap = job.snap /\ job'.did = {"lbSwitch", "lbStop"}
      /\ job'.lbSeen = job.lbSeen /\ job'.tunSeen = job.tunSeen
  BY <1>0, <1>1, <1>6 DEF Advance, Job
<1>8. /\ ProxiesAt(ag, LiveSnap) /\ BalancersAt(ag, LiveSnap) /\ TunnelAt(ag, LiveSnap)
      /\ Seen(job.lbSeen, ag[job.snap.le]) /\ Seen(job.tunSeen, ag["tunnel"])
  BY <1>0, <1>1 DEF BackGood, ProxyStage, LbStage, TunnelStage, ToSwap
<1>9. ProxiesAt(ag', LiveSnap) /\ TunnelAt(ag', LiveSnap)
  BY <1>0, <1>6, <1>8, EngineSorts DEF ProxiesAt, TunnelAt
<1>10. Down(ag', Balancers)
  BY <1>0, <1>6, <1>8, EngineSorts DEF BalancersAt, At, Down
<1>11. ag'[job.snap.le] = ag[job.snap.le] /\ ag'["tunnel"] = ag["tunnel"]
  BY <1>0, <1>3, <1>6, EngineSorts
<1>12. ProxyStage(ag, job, LiveSnap)'
  BY <1>0, <1>7, <1>9 DEF ProxyStage, ToSwap
<1>13. LbStage(ag, job, LiveSnap)'
  BY <1>0, <1>3, <1>7, <1>8, <1>10, <1>11 DEF LbStage, ToSwap
<1>14. TunnelStage(ag, job, LiveSnap)'
  BY <1>0, <1>7, <1>8, <1>9, <1>11 DEF TunnelStage, ToSwap
<1>15. UndoStage(ag, job, LiveSnap)'
  BY <1>7 DEF UndoStage
<1> QED BY <1>6, <1>12, <1>13, <1>14, <1>15 DEF BackGood

\* The proxy engine of the live version is stopped.
LEMMA BackStopProxy ==
  ASSUME BackInv, NEW r \in {"ok", "unavailable"}, StopOldProxy(r), Succeeded'
  PROVE  BackGood'
<1>0. /\ BackBase /\ BackGood /\ faults' = 0 /\ job.live = Live
      /\ Live' = Live /\ LiveSnap' = LiveSnap
      /\ Switching <=> LiveSnap.pe # job.snap.pe
      /\ job \in Job /\ job.snap.pe \in Proxies /\ LiveSnap.pe \in Proxies
      /\ job.snap.le \in Balancers /\ LiveSnap.le \in Balancers
      /\ Live # 0 => LiveSnap.ph \in Hash
  BY SwapStart DEF SwapStep
<1>t. TypeOK /\ None \notin Hash
  BY <1>0, ReleaseAssumption DEF BackBase, HistoryInv, TypeInv
<1>1. /\ job.pc = "stop"
      /\ Send(IF job.live = 0 THEN Call("stopOnly", OldProxy(job.live), None)
              ELSE Call("applyStop", OldProxy(job.live), rows[job.live].snap.ph), r)
      /\ Advance("apply", job.did \cup (IF r = "ok" THEN {"switch", "stop", "start"}
                                          ELSE {"switch", "start"}))
  BY DEF StopOldProxy
<1>2. PICK h : h = IF Live = 0 THEN None ELSE LiveSnap.ph
  OBVIOUS
<1>3. /\ LiveSnap.pe = OldProxy(Live) /\ (Live # 0 => LiveSnap = rows[Live].snap)
      /\ LiveSnap.pe # job.snap.pe
  BY <1>0, <1>1, <1>t, LiveSnapFacts DEF BackBase
<1>4. Send(IF h = None THEN Call("stopOnly", LiveSnap.pe, None) ELSE Call("applyStop", LiveSnap.pe, h), r)
  BY <1>0, <1>1, <1>2, <1>3, <1>t
<1>5. \A e \in Engine : Settled(ag[e]) /\ Topped(ag[e].store)
  BY <1>0, <1>1 DEF BackGood
<1>6. /\ r = "ok"
      /\ \A e \in Engine : e # LiveSnap.pe => ag'[e] = ag[e]
      /\ \A e \in Engine : Settled(ag'[e]) /\ Topped(ag'[e].store)
      /\ Asleep(ag'[LiveSnap.pe]) /\ (h # None => ag'[LiveSnap.pe].store.current = h)
  <2>1. LiveSnap.pe \in Engine /\ (h = None \/ h \in Hash)
    BY <1>0, <1>2, EngineSorts
  <2> QED BY <1>0, <1>4, <1>5, <2>1, StopSent
<1>7. /\ job'.pc = "apply" /\ job'.snap = job.snap
      /\ job'.did = job.did \cup {"switch", "stop", "start"}
      /\ job'.lbSeen = job.lbSeen /\ job'.tunSeen = job.tunSeen
  BY <1>0, <1>1, <1>6 DEF Advance, Job
<1>8. /\ ProxiesAt(ag, LiveSnap) /\ TunnelAt(ag, LiveSnap) /\ "tunnel" \notin job.did
      /\ Seen(job.tunSeen, ag["tunnel"])
      /\ BalancersAt(ag, job.snap)
      /\ Changes(LiveSnap, job.snap) => LbBack(ag, job.did, LiveSnap, job.snap)
  BY <1>0, <1>1 DEF BackGood, ProxyStage, LbStage, TunnelStage
<1>9. \A e \in Engine \ Proxies : ag'[e] = ag[e]
  BY <1>0, <1>6
<1>10. Down(ag', Proxies)
  BY <1>0, <1>6, <1>8, EngineSorts DEF ProxiesAt, At, Down
<1>11. TunnelAt(ag', LiveSnap) /\ BalancersAt(ag', job.snap)
  BY <1>8, <1>9, EngineSorts DEF TunnelAt, BalancersAt
<1>12. Changes(LiveSnap, job.snap) => LbBack(ag', job'.did, LiveSnap, job.snap)
  <2>1. \A e \in Balancers : ag'[e] = ag[e]
    BY <1>9, EngineSorts
  <2>2. \A m \in {"lbSwitch", "lbStart", "lbStop", "lbChange"} : m \in job'.did <=> m \in job.did
    BY <1>7
  <2> QED BY <1>0, <1>8, <2>1, <2>2 DEF LbBack
<1>13. ProxyStage(ag, job, LiveSnap)'
  <2>1. Live # 0 => ag'[LiveSnap.pe].store.current = LiveSnap.ph
    BY <1>0, <1>2, <1>6, <1>t
  <2>2. {"switch", "start", "stop"} \subseteq job'.did
    BY <1>7
  <2> QED BY <1>0, <1>3, <1>7, <1>10, <2>1, <2>2 DEF ProxyStage, ToSwap
<1>14. LbStage(ag, job, LiveSnap)'
  BY <1>0, <1>7, <1>11, <1>12 DEF LbStage, ToSwap, Changes
<1>15. TunnelStage(ag, job, LiveSnap)'
  <2>1. ag'["tunnel"] = ag["tunnel"]
    BY <1>9, EngineSorts
  <2> QED BY <1>0, <1>7, <1>8, <1>11, <2>1 DEF TunnelStage, ToSwap
<1>16. UndoStage(ag, job, LiveSnap)'
  BY <1>7 DEF UndoStage
<1> QED BY <1>6, <1>13, <1>14, <1>15, <1>16 DEF BackGood

\* The load balancer gets its release.
LEMMA BackApplyLb ==
  ASSUME BackInv, NEW r \in Replies, ApplyLb(r), Succeeded'
  PROVE  BackGood'
<1> DEFINE before == IF LbSwitching THEN job.did \cup {"lbStart"} ELSE job.did
           after  == IF LbSwitching THEN before ELSE job.did \cup {"lbChange"}
<1>0. /\ BackBase /\ BackGood /\ faults' = 0 /\ job.live = Live
      /\ Live' = Live /\ LiveSnap' = LiveSnap
      /\ Switching <=> LiveSnap.pe # job.snap.pe
      /\ LbSwitching <=> LiveSnap.le # job.snap.le
      /\ job \in Job /\ job.did \in SUBSET Marks /\ job.snap.lh \in Hash /\ job.snap.run \in BOOLEAN
      /\ LiveSnap.pe \in Proxies /\ job.snap.le \in Balancers /\ LiveSnap.le \in Balancers
      /\ Live # 0 => LiveSnap.lh \in Hash
  BY SwapStart DEF SwapStep
<1>t. TypeOK /\ None \notin Hash
  BY <1>0, ReleaseAssumption DEF BackBase, HistoryInv, TypeInv
<1>1. /\ job.pc = "lbApply" /\ LbToDo
      /\ Send(Install(job.snap.le, job.snap.lh, job.snap.run), r)
      /\ IF r = "ok" THEN Advance(AfterLb, after) ELSE FailWith(before)
  BY DEF ApplyLb
<1>2. /\ ProxiesAt(ag, LiveSnap) /\ "switch" \notin job.did /\ "swap" \notin job.did
      /\ IF LiveSnap.le = job.snap.le
         THEN BalancersAt(ag, LiveSnap) /\ "lbSwitch" \notin job.did /\ "lbChange" \notin job.did
         ELSE Down(ag, Balancers) /\ {"lbSwitch", "lbStop"} \subseteq job.did
      /\ Seen(job.lbSeen, ag[job.snap.le])
      /\ TunnelAt(ag, LiveSnap) /\ "tunnel" \notin job.did /\ Seen(job.tunSeen, ag["tunnel"])
      /\ \A e \in Engine : Settled(ag[e]) /\ Topped(ag[e].store)
  BY <1>0, <1>1 DEF BackGood, ProxyStage, LbStage, TunnelStage
<1>e. job.snap.le \in Engine /\ \A e \in Engine \ Balancers : e # job.snap.le
  BY <1>0, EngineSorts
<1>3. /\ r # "unavailable" /\ ag' \in [Engine -> AgentState]
      /\ \A e \in Engine : e # job.snap.le => ag'[e] = ag[e]
      /\ \A e \in Engine : Settled(ag'[e])
      /\ r = "ok" => /\ \A e \in Engine : Topped(ag'[e].store)
                     /\ IF job.snap.run THEN Runs(ag'[job.snap.le], job.snap.lh)
                        ELSE Asleep(ag'[job.snap.le])
                     /\ \A g \in Hash : job.snap.run /\ g # job.snap.lh /\ Runs(ag[job.snap.le], g) =>
                                            Previous(ag'[job.snap.le].store) = g
      /\ r = "refused" => \A g : g # None /\ Runs(ag[job.snap.le], g) => Runs(ag'[job.snap.le], g)
  BY <1>0, <1>1, <1>2, <1>e, InstallSent
<1>4. /\ before \in SUBSET Marks /\ after \in SUBSET Marks
      /\ \A m \in {"switch", "swap", "lbSwitch", "lbStop", "tunnel"} :
           (m \in before <=> m \in job.did) /\ (m \in after <=> m \in job.did)
      /\ LbSwitching => "lbStart" \in before /\ "lbStart" \in after
      /\ ~LbSwitching => before = job.did /\ "lbChange" \in after
  BY <1>0 DEF Marks
<1> HIDE DEF before, after
<1>5. \A e \in Engine \ Balancers : ag'[e] = ag[e]
  BY <1>3, <1>e
<1>6. ProxiesAt(ag', LiveSnap) /\ TunnelAt(ag', LiveSnap) /\ Seen(job.tunSeen, ag'["tunnel"])
  BY <1>2, <1>5, EngineSorts DEF ProxiesAt, TunnelAt
<1>7. ASSUME Changes(LiveSnap, job.snap), ~LbSwitching
      PROVE  /\ LiveSnap.lh \in Hash /\ LiveSnap.lh # job.snap.lh /\ job.snap.run
             /\ Runs(ag[LiveSnap.le], LiveSnap.lh)
             /\ \A e \in Balancers \ {LiveSnap.le} : Asleep(ag'[e])
  <2>1. /\ Live # 0 /\ LiveSnap.run /\ job.snap.run /\ LiveSnap.le = job.snap.le
        /\ BalancersAt(ag, LiveSnap)
    BY <1>0, <1>2, <1>7 DEF Changes, Steady
  <2>2. Runs(ag[LiveSnap.le], LiveSnap.lh)
    BY <1>0, <2>1 DEF BalancersAt, At
  <2>3. LiveSnap.lh # job.snap.lh
    <3>1. job.lbSeen.hash # job.snap.lh \/ job.lbSeen.running # job.snap.run
      BY <1>0, <1>1, <2>1 DEF LbToDo
    <3>2. job.lbSeen.hash = LiveSnap.lh /\ (job.lbSeen.running <=> TRUE)
          /\ job.lbSeen.running \in BOOLEAN
      BY <1>2, <2>1, <2>2 DEF Seen, Runs, Running
    <3> QED BY <1>0, <2>1, <3>1, <3>2
  <2>4. \A e \in Balancers \ {LiveSnap.le} : Asleep(ag[e]) /\ ag'[e] = ag[e]
    BY <1>3, <2>1, EngineSorts DEF BalancersAt, At
  <2> QED BY <1>0, <2>1, <2>2, <2>3, <2>4
<1>8. CASE r = "ok"
  <2>1. /\ job'.pc = AfterLb /\ job'.snap = job.snap /\ job'.did = after
        /\ job'.tunSeen = job.tunSeen
    BY <1>0, <1>1, <1>8 DEF Advance, Job
  <2>2. AfterLb = IF LiveSnap.pe # job.snap.pe THEN "stop" ELSE "apply"
    BY <1>0 DEF AfterLb
  <2>3. ProxyStage(ag, job, LiveSnap)'
    <3>1. "switch" \notin after /\ "swap" \notin after
      BY <1>2, <1>4
    <3> QED BY <1>0, <1>6, <2>1, <2>2, <3>1 DEF ProxyStage, ToSwap
  <2>4. BalancersAt(ag', job.snap)
    <3>1. \A e \in Balancers \ {job.snap.le} : Asleep(ag[e]) /\ ag'[e] = ag[e]
      <4>1. CASE LiveSnap.le = job.snap.le
        BY <1>2, <1>3, <4>1, EngineSorts DEF BalancersAt, At
      <4>2. CASE LiveSnap.le # job.snap.le
        BY <1>2, <1>3, <4>2, EngineSorts DEF Down
      <4> QED BY <4>1, <4>2
    <3> QED BY <1>3, <1>8, <3>1, EngineSorts DEF BalancersAt, At
  <2>5. ASSUME Changes(LiveSnap, job.snap) PROVE LbBack(ag', after, LiveSnap, job.snap)
    <3>1. CASE LbSwitching
      BY <1>0, <1>2, <1>4, <3>1 DEF LbBack
    <3>2. CASE ~LbSwitching
      <4>1. Previous(ag'[LiveSnap.le].store) = LiveSnap.lh
        BY <1>0, <1>3, <1>7, <1>8, <2>5, <3>2
      <4>2. "lbSwitch" \notin after /\ "lbChange" \in after /\ job.snap.le = LiveSnap.le
        BY <1>0, <1>2, <1>4, <3>2
      <4> QED BY <1>7, <2>5, <3>2, <4>1, <4>2 DEF LbBack
    <3> QED BY <3>1, <3>2
  <2>6. LbStage(ag, job, LiveSnap)'
    BY <1>0, <2>1, <2>2, <2>4, <2>5 DEF LbStage, ToSwap, Changes
  <2>7. TunnelStage(ag, job, LiveSnap)'
    <3>1. "tunnel" \notin after
      BY <1>2, <1>4
    <3> QED BY <1>0, <1>6, <2>1, <2>2, <3>1 DEF TunnelStage, ToSwap
  <2>8. UndoStage(ag, job, LiveSnap)'
    BY <2>1, <2>2 DEF UndoStage
  <2> QED BY <1>3, <1>8, <2>3, <2>6, <2>7, <2>8 DEF BackGood
<1>9. CASE r # "ok"
  <2>1. FailWith(before) /\ r = "refused"
    BY <1>1, <1>3, <1>9 DEF Replies
  <2>2. ASSUME Changes(LiveSnap, job.snap)
        PROVE  /\ ProxyBack(ag', before, LiveSnap, job.snap) /\ LbBack(ag', before, LiveSnap, job.snap)
               /\ TunBack(ag', before, LiveSnap)
    <3>1. ProxyBack(ag', before, LiveSnap, job.snap)
      BY <1>2, <1>4, <1>6 DEF ProxyBack, ProxiesAt
    <3>2. TunBack(ag', before, LiveSnap)
      BY <1>2, <1>4, <1>6 DEF TunBack, TunnelAt
    <3>3. CASE LbSwitching
      BY <1>0, <1>2, <1>4, <3>1, <3>2, <3>3 DEF LbBack
    <3>4. CASE ~LbSwitching
      <4>1. Runs(ag'[LiveSnap.le], LiveSnap.lh)
        BY <1>0, <1>3, <1>7, <1>t, <2>1, <2>2, <3>4
      <4>2. \A e \in Balancers : At(e, ag'[e], LiveSnap)
        BY <1>7, <2>2, <3>4, <4>1, EngineSorts DEF At, Changes, Steady
      <4>3. "lbSwitch" \notin before /\ "lbChange" \notin before
        BY <1>0, <1>2, <1>4, <3>4
      <4> QED BY <3>1, <3>2, <4>2, <4>3 DEF LbBack
    <3> QED BY <3>3, <3>4
  <2> QED BY <1>0, <1>3, <1>4, <2>1, <2>2, BackFail
<1> QED BY <1>8, <1>9

\* The load balancer has its release already.
LEMMA BackPassLb ==
  ASSUME BackInv, PassLb, Succeeded'
  PROVE  BackGood'
<1>0. /\ BackBase /\ BackGood /\ faults' = 0 /\ job.live = Live
      /\ Live' = Live /\ LiveSnap' = LiveSnap
      /\ Switching <=> LiveSnap.pe # job.snap.pe
      /\ LbSwitching <=> LiveSnap.le # job.snap.le
      /\ job \in Job /\ job.snap.le \in Balancers
  BY SwapStart DEF SwapStep
<1>1. job.pc = "lbApply" /\ ~LbToDo /\ ag' = ag
  BY DEF PassLb
<1>2. /\ ProxiesAt(ag, LiveSnap) /\ "switch" \notin job.did /\ "swap" \notin job.did
      /\ IF LiveSnap.le = job.snap.le
         THEN BalancersAt(ag, LiveSnap) /\ "lbSwitch" \notin job.did /\ "lbChange" \notin job.did
         ELSE Down(ag, Balancers) /\ {"lbSwitch", "lbStop"} \subseteq job.did
      /\ Seen(job.lbSeen, ag[job.snap.le])
      /\ TunnelAt(ag, LiveSnap) /\ "tunnel" \notin job.did /\ Seen(job.tunSeen, ag["tunnel"])
      /\ \A e \in Engine : Settled(ag[e]) /\ Topped(ag[e].store)
  BY <1>0, <1>1 DEF BackGood, ProxyStage, LbStage, TunnelStage
<1>3. /\ LiveSnap.le = job.snap.le
      /\ job.lbSeen.hash = job.snap.lh /\ job.lbSeen.running = job.snap.run
      /\ ag[job.snap.le].store.current = job.snap.lh
      /\ Running(ag[job.snap.le]) = job.snap.run
  BY <1>0, <1>1, <1>2 DEF LbToDo, Seen
<1>4. Goto(AfterLb)
  BY <1>2 DEF PassLb, Seen
<1>5. /\ job'.pc = AfterLb /\ job'.snap = job.snap /\ job'.did = job.did
      /\ job'.tunSeen = job.tunSeen
      /\ AfterLb = IF LiveSnap.pe # job.snap.pe THEN "stop" ELSE "apply"
  BY <1>0, <1>4 DEF Goto, Job, AfterLb
<1>6. BalancersAt(ag, job.snap)
  <2>1. \A e \in Balancers \ {job.snap.le} : Asleep(ag[e])
    BY <1>2, <1>3, EngineSorts DEF BalancersAt, At
  <2>2. job.snap.run => Runs(ag[job.snap.le], job.snap.lh)
    BY <1>3 DEF Runs
  <2>3. ~job.snap.run => Asleep(ag[job.snap.le])
    <3>1. ~job.snap.run => ~Runs(ag[job.snap.le], LiveSnap.lh)
      BY <1>3 DEF Runs
    <3>2. At(job.snap.le, ag[job.snap.le], LiveSnap)
      BY <1>0, <1>2, <1>3 DEF BalancersAt
    <3> QED BY <1>0, <1>3, <3>1, <3>2 DEF At
  <2> QED BY <2>1, <2>2, <2>3, EngineSorts DEF BalancersAt, At
<1>7. ProxyStage(ag, job, LiveSnap)'
  BY <1>0, <1>1, <1>2, <1>5 DEF ProxyStage, ToSwap
<1>8. LbStage(ag, job, LiveSnap)'
  <2>1. LbBack(ag, job.did, LiveSnap, job.snap)
    BY <1>2, <1>3 DEF LbBack, BalancersAt
  <2> QED BY <1>0, <1>1, <1>5, <1>6, <2>1 DEF LbStage, ToSwap
<1>9. TunnelStage(ag, job, LiveSnap)'
  BY <1>0, <1>1, <1>2, <1>5 DEF TunnelStage, ToSwap
<1>10. UndoStage(ag, job, LiveSnap)'
  BY <1>5 DEF UndoStage
<1> QED BY <1>1, <1>2, <1>7, <1>8, <1>9, <1>10 DEF BackGood

\* The proxy engine gets its release.
LEMMA BackApplyProxy ==
  ASSUME BackInv, NEW r \in Replies, ApplyProxy(r), Succeeded'
  PROVE  BackGood'
<1>0. /\ BackBase /\ BackGood /\ faults' = 0 /\ job.live = Live
      /\ Live' = Live /\ LiveSnap' = LiveSnap
      /\ job \in Job /\ job.did \in SUBSET Marks /\ job.snap.ph \in Hash
      /\ LiveSnap.pe \in Proxies /\ job.snap.pe \in Proxies
      /\ Live # 0 => {LiveSnap.ph, LiveSnap.lh, LiveSnap.th} \subseteq Hash
  BY SwapStart DEF SwapStep
<1>t. TypeOK /\ None \notin Hash
  BY <1>0, ReleaseAssumption DEF BackBase, HistoryInv, TypeInv
<1>1. /\ job.pc = "apply"
      /\ Send(Install(job.snap.pe, job.snap.ph, TRUE), r)
      /\ IF r = "ok" THEN Advance("follow", job.did \cup {"swap"}) ELSE FailWith(job.did)
  BY DEF ApplyProxy, Install
<1>2. /\ IF LiveSnap.pe = job.snap.pe
         THEN ProxiesAt(ag, LiveSnap) /\ "switch" \notin job.did /\ "swap" \notin job.did
         ELSE /\ Down(ag, Proxies) /\ {"switch", "start", "stop"} \subseteq job.did
              /\ Live # 0 => ag[LiveSnap.pe].store.current = LiveSnap.ph
      /\ BalancersAt(ag, job.snap)
      /\ Changes(LiveSnap, job.snap) => LbBack(ag, job.did, LiveSnap, job.snap)
      /\ TunnelAt(ag, LiveSnap) /\ "tunnel" \notin job.did /\ Seen(job.tunSeen, ag["tunnel"])
      /\ \A e \in Engine : Settled(ag[e]) /\ Topped(ag[e].store)
  BY <1>0, <1>1 DEF BackGood, ProxyStage, LbStage, TunnelStage
<1>e. job.snap.pe \in Engine /\ \A e \in Engine \ Proxies : e # job.snap.pe
  BY <1>0, EngineSorts
<1>3. /\ r # "unavailable" /\ ag' \in [Engine -> AgentState]
      /\ \A e \in Engine : e # job.snap.pe => ag'[e] = ag[e]
      /\ \A e \in Engine : Settled(ag'[e])
      /\ r = "ok" => /\ \A e \in Engine : Topped(ag'[e].store)
                     /\ Runs(ag'[job.snap.pe], job.snap.ph)
                     /\ \A g \in Hash : g # job.snap.ph /\ Runs(ag[job.snap.pe], g) =>
                                            Previous(ag'[job.snap.pe].store) = g
      /\ r = "refused" => \A g : g # None /\ Runs(ag[job.snap.pe], g) => Runs(ag'[job.snap.pe], g)
  <2>1. PICK t \in BOOLEAN : t = TRUE
    OBVIOUS
  <2>2. Send(Install(job.snap.pe, job.snap.ph, t), r)
    BY <1>1, <2>1
  <2>3. PICK x \in Engine, h \in Hash : x = job.snap.pe /\ h = job.snap.ph
    BY <1>0, <1>e
  <2>4. Send(Install(x, h, t), r)
    BY <2>2, <2>3
  <2>5. BackBase /\ faults' = 0 /\ \A e \in Engine : Settled(ag[e]) /\ Topped(ag[e].store)
    BY <1>0, <1>2
  <2>6. /\ r # "unavailable" /\ ag' \in [Engine -> AgentState]
        /\ \A e \in Engine : e # x => ag'[e] = ag[e]
        /\ \A e \in Engine : Settled(ag'[e])
        /\ r = "ok" => /\ \A e \in Engine : Topped(ag'[e].store)
                       /\ ag'[x].store.current = h
                       /\ IF t THEN Runs(ag'[x], h) ELSE Asleep(ag'[x])
                       /\ \A old \in Hash : t /\ old # h /\ Runs(ag[x], old) =>
                                              Previous(ag'[x].store) = old
        /\ r = "refused" => /\ t
                            /\ \A g : g # None /\ Runs(ag[x], g) => Runs(ag'[x], g)
    BY ZenonT(60), <2>4, <2>5, InstallSent
  <2>7. /\ r = "ok" => /\ Runs(ag'[x], h)
                       /\ \A old \in Hash : old # h /\ Runs(ag[x], old) =>
                                              Previous(ag'[x].store) = old
    BY <2>1, <2>6
  <2> QED BY <2>3, <2>6, <2>7
<1>5. \A e \in Engine \ Proxies : ag'[e] = ag[e]
  BY <1>3, <1>e
<1>6. /\ BalancersAt(ag', job.snap) /\ TunnelAt(ag', LiveSnap)
      /\ Seen(job.tunSeen, ag'["tunnel"])
  BY <1>2, <1>5, EngineSorts DEF BalancersAt, TunnelAt
<1>7. ASSUME NEW did, \A m \in {"lbSwitch", "lbStart", "lbStop", "lbChange"} : m \in did <=> m \in job.did,
             Changes(LiveSnap, job.snap)
      PROVE  LbBack(ag', did, LiveSnap, job.snap)
  <2>1. \A e \in Balancers : ag'[e] = ag[e]
    BY <1>5, EngineSorts
  <2>2. LiveSnap.le \in Balancers
    BY <1>0, SwapStart DEF SwapStep
  <2> QED BY <1>2, <1>7, <2>1, <2>2 DEF LbBack
<1>8. CASE r = "ok"
  <2>1. /\ job'.pc = "follow" /\ job'.snap = job.snap /\ job'.did = job.did \cup {"swap"}
        /\ job'.tunSeen = job.tunSeen
    BY <1>0, <1>1, <1>8 DEF Advance, Job
  <2>2. \A e \in Proxies \ {job.snap.pe} : Asleep(ag'[e]) /\ ag'[e] = ag[e]
    <3>1. CASE LiveSnap.pe = job.snap.pe
      BY <1>2, <1>3, <3>1, EngineSorts DEF ProxiesAt, At
    <3>2. CASE LiveSnap.pe # job.snap.pe
      BY <1>2, <1>3, <3>2, EngineSorts DEF Down
    <3> QED BY <3>1, <3>2
  <2>3. ProxiesAt(ag', job.snap)
    BY <1>3, <1>8, <2>2, EngineSorts DEF ProxiesAt, At
  <2>4. ASSUME Changes(LiveSnap, job.snap) PROVE ProxyBack(ag', job'.did, LiveSnap, job.snap)
    <3>1. CASE LiveSnap.pe # job.snap.pe
      <4>1. {"switch", "start", "stop"} \subseteq job'.did
        BY <1>2, <2>1, <3>1
      <4>2. Asleep(ag'[LiveSnap.pe]) /\ ag'[LiveSnap.pe].store.current = LiveSnap.ph
        BY <1>0, <1>2, <2>2, <2>4, <3>1 DEF Changes
      <4> QED BY <3>1, <4>1, <4>2 DEF ProxyBack
    <3>2. CASE LiveSnap.pe = job.snap.pe
      <4>1. LiveSnap.ph # job.snap.ph /\ LiveSnap.ph \in Hash
        BY <1>0, <2>4, <3>2 DEF Changes
      <4>2. Runs(ag[LiveSnap.pe], LiveSnap.ph)
        BY <1>0, <1>2, <3>2 DEF ProxiesAt, At
      <4>3. Previous(ag'[LiveSnap.pe].store) = LiveSnap.ph
        BY <1>3, <1>8, <3>2, <4>1, <4>2
      <4>4. "switch" \notin job'.did /\ "swap" \in job'.did
        BY <1>2, <2>1, <3>2
      <4> QED BY <2>2, <3>2, <4>3, <4>4 DEF ProxyBack
    <3> QED BY <3>1, <3>2
  <2>5. ProxyStage(ag, job, LiveSnap)'
    BY <1>0, <2>1, <2>3, <2>4 DEF ProxyStage, ToSwap, Changes
  <2>6. LbStage(ag, job, LiveSnap)'
    <3>1. \A m \in {"lbSwitch", "lbStart", "lbStop", "lbChange"} : m \in job'.did <=> m \in job.did
      BY <2>1
    <3>2. Changes(LiveSnap, job.snap) => LbBack(ag', job'.did, LiveSnap, job.snap)
      BY <1>7, <3>1
    <3> QED BY <1>0, <1>6, <2>1, <3>2 DEF LbStage, ToSwap, Changes
  <2>7. TunnelStage(ag, job, LiveSnap)'
    BY <1>0, <1>2, <1>6, <2>1 DEF TunnelStage, ToSwap
  <2>8. UndoStage(ag, job, LiveSnap)'
    BY <2>1 DEF UndoStage
  <2> QED BY <1>3, <1>8, <2>5, <2>6, <2>7, <2>8 DEF BackGood
<1>9. CASE r # "ok"
  <2>1. FailWith(job.did) /\ r = "refused"
    BY <1>1, <1>3, <1>9 DEF Replies
  <2>2. ASSUME Changes(LiveSnap, job.snap)
        PROVE  /\ ProxyBack(ag', job.did, LiveSnap, job.snap) /\ LbBack(ag', job.did, LiveSnap, job.snap)
               /\ TunBack(ag', job.did, LiveSnap)
    <3>1. TunBack(ag', job.did, LiveSnap)
      BY <1>2, <1>6 DEF TunBack, TunnelAt
    <3>2. LbBack(ag', job.did, LiveSnap, job.snap)
      BY <1>7, <2>2
    <3>3. ProxyBack(ag', job.did, LiveSnap, job.snap)
      <4>1. CASE LiveSnap.pe # job.snap.pe
        <5>1. ag'[LiveSnap.pe] = ag[LiveSnap.pe]
          BY <1>0, <1>3, <4>1, EngineSorts
        <5> QED BY <1>0, <1>2, <2>2, <4>1, <5>1 DEF ProxyBack, Changes, Down
      <4>2. CASE LiveSnap.pe = job.snap.pe
        <5>1. Runs(ag[LiveSnap.pe], LiveSnap.ph) /\ LiveSnap.ph # None
          BY <1>0, <1>2, <1>t, <2>2, <4>2 DEF ProxiesAt, At, Changes
        <5>2. Runs(ag'[LiveSnap.pe], LiveSnap.ph)
          BY <1>3, <2>1, <4>2, <5>1
        <5>3. \A e \in Proxies \ {LiveSnap.pe} : At(e, ag'[e], LiveSnap)
          BY <1>2, <1>3, <4>2, EngineSorts DEF ProxiesAt
        <5>4. At(LiveSnap.pe, ag'[LiveSnap.pe], LiveSnap)
          BY <1>0, <5>2, EngineSorts DEF At
        <5> QED BY <1>2, <4>2, <5>3, <5>4 DEF ProxyBack
      <4> QED BY <4>1, <4>2
    <3> QED BY <3>1, <3>2, <3>3
  <2> QED BY <1>0, <1>3, <2>1, <2>2, BackFail
<1> QED BY <1>8, <1>9

\* What the tunnel engine is given, or has already.
LEMMA TunnelDue ==
  ASSUME BackGood, job.pc = "follow", Live # 0 => LiveSnap.th \in Hash,
         LiveSnap.tun \in BOOLEAN, job.snap.tun \in BOOLEAN
  PROVE  /\ ProxiesAt(ag, job.snap) /\ BalancersAt(ag, job.snap) /\ TunnelAt(ag, LiveSnap)
         /\ "tunnel" \notin job.did /\ Seen(job.tunSeen, ag["tunnel"])
         /\ Changes(LiveSnap, job.snap) => /\ ProxyBack(ag, job.did, LiveSnap, job.snap)
                                           /\ LbBack(ag, job.did, LiveSnap, job.snap)
         /\ \A e \in Engine : Settled(ag[e]) /\ Topped(ag[e].store)
         /\ TunnelToDo /\ Changes(LiveSnap, job.snap) =>
              /\ LiveSnap.tun /\ job.snap.tun /\ LiveSnap.th # job.snap.th
              /\ Runs(ag["tunnel"], LiveSnap.th)
         /\ ~TunnelToDo => TunnelAt(ag, job.snap)
<1>1. /\ ProxiesAt(ag, job.snap) /\ BalancersAt(ag, job.snap) /\ TunnelAt(ag, LiveSnap)
      /\ "tunnel" \notin job.did /\ Seen(job.tunSeen, ag["tunnel"])
      /\ Changes(LiveSnap, job.snap) => /\ ProxyBack(ag, job.did, LiveSnap, job.snap)
                                        /\ LbBack(ag, job.did, LiveSnap, job.snap)
      /\ \A e \in Engine : Settled(ag[e]) /\ Topped(ag[e].store)
  BY DEF BackGood, ProxyStage, LbStage, TunnelStage
<1> DEFINE a == ag["tunnel"]
<1>2. /\ IF LiveSnap.tun THEN Runs(a, LiveSnap.th) ELSE Asleep(a)
      /\ ~LiveSnap.tun => a.store.current \in {LiveSnap.th, None}
  BY <1>1 DEF TunnelAt, At
<1>3. job.tunSeen.reach /\ job.tunSeen.hash = a.store.current /\ job.tunSeen.running = Running(a)
  BY <1>1 DEF Seen
<1>4. Asleep(a) => ~Running(a)
  BY DEF Asleep, Running
<1> HIDE DEF a
<1>5. ASSUME TunnelToDo, Changes(LiveSnap, job.snap)
      PROVE  /\ LiveSnap.tun /\ job.snap.tun /\ LiveSnap.th # job.snap.th
             /\ Runs(a, LiveSnap.th)
  <2>1. LiveSnap.tun = job.snap.tun /\ (LiveSnap.tun \/ LiveSnap.th = job.snap.th)
    BY <1>5 DEF Changes, Steady
  <2>2. \/ a.store.current # job.snap.th /\ (job.snap.tun \/ a.store.current # None)
        \/ Running(a) # job.snap.tun
    BY <1>3, <1>5 DEF TunnelToDo
  <2>3. LiveSnap.tun
    <3> SUFFICES ASSUME ~LiveSnap.tun PROVE FALSE
      OBVIOUS
    <3>1. a.store.current \in {job.snap.th, None} /\ ~Running(a) /\ ~job.snap.tun
      BY <1>2, <1>4, <2>1
    <3> QED BY <2>2, <3>1 DEF Running
  <2>4. Runs(a, LiveSnap.th)
    BY <1>2, <2>3
  <2>5. LiveSnap.th # job.snap.th
    BY <2>1, <2>2, <2>3, <2>4 DEF Runs, Running
  <2> QED BY <2>1, <2>3, <2>4, <2>5
<1>6. ASSUME ~TunnelToDo PROVE TunnelAt(ag, job.snap)
  <2>1. /\ a.store.current = job.snap.th \/ (~job.snap.tun /\ a.store.current = None)
        /\ Running(a) = job.snap.tun
    BY <1>3, <1>6 DEF TunnelToDo
  <2>2. CASE job.snap.tun
    <3>1. Runs(a, job.snap.th)
      BY <2>1, <2>2 DEF Runs
    <3> QED BY <2>2, <3>1, EngineSorts DEF TunnelAt, At, a
  <2>3. CASE ~job.snap.tun
    <3>1. ~Running(a)
      BY <2>1, <2>3
    <3>2. Asleep(a) /\ a.store.current \in {job.snap.th, None}
      BY <1>2, <2>1, <3>1 DEF Runs
    <3> QED BY <2>3, <3>2, EngineSorts DEF TunnelAt, At, a
  <2> QED BY <2>2, <2>3
<1> QED BY <1>1, <1>5, <1>6 DEF a

\* The tunnel engine gets its release.
LEMMA BackApplyTunnel ==
  ASSUME BackInv, NEW r \in Replies, ApplyTunnel(r), Succeeded'
  PROVE  BackGood'
<1>0. /\ BackBase /\ BackGood /\ faults' = 0 /\ job.live = Live
      /\ Live' = Live /\ LiveSnap' = LiveSnap
      /\ job \in Job /\ job.did \in SUBSET Marks /\ job.snap.th \in Hash
      /\ job.snap.tun \in BOOLEAN
      /\ LiveSnap.pe \in Proxies /\ LiveSnap.le \in Balancers
      /\ Live # 0 => {LiveSnap.ph, LiveSnap.lh, LiveSnap.th} \subseteq Hash
  BY SwapStart DEF SwapStep
<1>t. TypeOK /\ None \notin Hash /\ LiveSnap.tun \in BOOLEAN
  BY <1>0, LiveSnapFacts, ReleaseAssumption DEF BackBase, HistoryInv, TypeInv
<1>1. /\ job.pc = "follow" /\ TunnelToDo
      /\ Send(Install("tunnel", job.snap.th, job.snap.tun), r)
      /\ IF r = "ok" THEN Advance("health", job.did \cup {"tunnel"}) ELSE FailWith(job.did)
  BY DEF ApplyTunnel
<1>2. /\ ProxiesAt(ag, job.snap) /\ BalancersAt(ag, job.snap) /\ TunnelAt(ag, LiveSnap)
      /\ "tunnel" \notin job.did
      /\ Changes(LiveSnap, job.snap) => /\ ProxyBack(ag, job.did, LiveSnap, job.snap)
                                        /\ LbBack(ag, job.did, LiveSnap, job.snap)
      /\ \A e \in Engine : Settled(ag[e]) /\ Topped(ag[e].store)
      /\ Changes(LiveSnap, job.snap) =>
           /\ LiveSnap.tun /\ job.snap.tun /\ LiveSnap.th # job.snap.th
           /\ Runs(ag["tunnel"], LiveSnap.th)
  BY <1>0, <1>1, <1>t, TunnelDue
<1>e. "tunnel" \in Engine /\ \A e \in Proxies \cup Balancers : e \in Engine /\ e # "tunnel"
  BY EngineSorts
<1>3. /\ r # "unavailable" /\ ag' \in [Engine -> AgentState]
      /\ \A e \in Engine : e # "tunnel" => ag'[e] = ag[e]
      /\ \A e \in Engine : Settled(ag'[e])
      /\ r = "ok" => /\ \A e \in Engine : Topped(ag'[e].store)
                     /\ ag'["tunnel"].store.current = job.snap.th
                     /\ IF job.snap.tun THEN Runs(ag'["tunnel"], job.snap.th)
                        ELSE Asleep(ag'["tunnel"])
                     /\ \A g \in Hash : job.snap.tun /\ g # job.snap.th /\ Runs(ag["tunnel"], g) =>
                                            Previous(ag'["tunnel"].store) = g
      /\ r = "refused" => \A g : g # None /\ Runs(ag["tunnel"], g) => Runs(ag'["tunnel"], g)
  BY SMTT(60), <1>0, <1>1, <1>2, <1>e, InstallSent
<1>5. \A e \in Proxies \cup Balancers : ag'[e] = ag[e]
  BY <1>3, <1>e
<1>6. ProxiesAt(ag', job.snap) /\ BalancersAt(ag', job.snap)
  BY <1>2, <1>5 DEF ProxiesAt, BalancersAt
<1>7. ASSUME NEW did, \A m \in Marks \ {"tunnel"} : m \in did <=> m \in job.did,
             Changes(LiveSnap, job.snap)
      PROVE  ProxyBack(ag', did, LiveSnap, job.snap) /\ LbBack(ag', did, LiveSnap, job.snap)
  <2>1. \A m \in {"switch", "start", "stop", "swap", "lbSwitch", "lbStart", "lbStop", "lbChange"} :
          m \in did <=> m \in job.did
    BY <1>7 DEF Marks
  <2>2. ProxyBack(ag', did, LiveSnap, job.snap)
    BY <1>0, <1>2, <1>5, <1>7, <2>1 DEF ProxyBack
  <2>3. LbBack(ag', did, LiveSnap, job.snap)
    BY <1>0, <1>2, <1>5, <1>7, <2>1 DEF LbBack
  <2> QED BY <2>2, <2>3
<1>8. CASE r = "ok"
  <2>1. /\ job'.pc = "health" /\ job'.snap = job.snap /\ job'.did = job.did \cup {"tunnel"}
    BY <1>0, <1>1, <1>8 DEF Advance, Job
  <2>2. \A m \in Marks \ {"tunnel"} : m \in job'.did <=> m \in job.did
    BY <2>1
  <2>3. Changes(LiveSnap, job.snap) =>
          /\ ProxyBack(ag', job'.did, LiveSnap, job.snap)
          /\ LbBack(ag', job'.did, LiveSnap, job.snap)
    BY <1>7, <2>2
  <2>4. TunnelAt(ag', job.snap)
    BY <1>3, <1>8, <1>e, EngineSorts DEF TunnelAt, At
  <2>5. ASSUME Changes(LiveSnap, job.snap) PROVE TunBack(ag', job'.did, LiveSnap)
    <3>1. LiveSnap.th \in Hash
      BY <1>0, <2>5 DEF Changes
    <3>2. Previous(ag'["tunnel"].store) = LiveSnap.th
      BY <1>2, <1>3, <1>8, <2>5, <3>1
    <3>3. "tunnel" \in job'.did /\ LiveSnap.tun
      BY <1>2, <2>1, <2>5
    <3> QED BY <3>2, <3>3 DEF TunBack
  <2>6. ProxyStage(ag, job, LiveSnap)'
    BY <1>0, <1>6, <2>1, <2>3 DEF ProxyStage, ToSwap, Changes
  <2>7. LbStage(ag, job, LiveSnap)'
    BY <1>0, <1>6, <2>1, <2>3 DEF LbStage, ToSwap, Changes
  <2>8. TunnelStage(ag, job, LiveSnap)'
    BY <1>0, <2>1, <2>4, <2>5 DEF TunnelStage, ToSwap, Changes
  <2>9. UndoStage(ag, job, LiveSnap)'
    BY <2>1 DEF UndoStage
  <2> QED BY <1>3, <1>8, <2>6, <2>7, <2>8, <2>9 DEF BackGood
<1>9. CASE r # "ok"
  <2>1. FailWith(job.did) /\ r = "refused"
    BY <1>1, <1>3, <1>9 DEF Replies
  <2>2. ASSUME Changes(LiveSnap, job.snap)
        PROVE  /\ ProxyBack(ag', job.did, LiveSnap, job.snap) /\ LbBack(ag', job.did, LiveSnap, job.snap)
               /\ TunBack(ag', job.did, LiveSnap)
    <3>1. ProxyBack(ag', job.did, LiveSnap, job.snap) /\ LbBack(ag', job.did, LiveSnap, job.snap)
      BY <1>7, <2>2
    <3>2. LiveSnap.th # None
      BY <1>0, <1>t, <2>2 DEF Changes
    <3>3. Runs(ag'["tunnel"], LiveSnap.th)
      BY <1>2, <1>3, <2>1, <2>2, <3>2
    <3>4. At("tunnel", ag'["tunnel"], LiveSnap)
      BY <1>2, <2>2, <3>3, EngineSorts DEF At
    <3> QED BY <1>2, <3>1, <3>4 DEF TunBack
  <2> QED BY <1>0, <1>3, <2>1, <2>2, BackFail
<1> QED BY <1>8, <1>9

\* The tunnel engine has its release already.
LEMMA BackPassTunnel ==
  ASSUME BackInv, PassTunnel, Succeeded'
  PROVE  BackGood'
<1>0. /\ BackBase /\ BackGood /\ faults' = 0 /\ job.live = Live
      /\ Live' = Live /\ LiveSnap' = LiveSnap
      /\ job \in Job /\ job.snap.tun \in BOOLEAN
      /\ Live # 0 => {LiveSnap.ph, LiveSnap.lh, LiveSnap.th} \subseteq Hash
  BY SwapStart DEF SwapStep
<1>t. TypeOK /\ LiveSnap.tun \in BOOLEAN
  BY <1>0, LiveSnapFacts DEF BackBase, HistoryInv, TypeInv
<1>1. job.pc = "follow" /\ ~TunnelToDo /\ ag' = ag
  BY DEF PassTunnel
<1>2. /\ ProxiesAt(ag, job.snap) /\ BalancersAt(ag, job.snap) /\ TunnelAt(ag, LiveSnap)
      /\ "tunnel" \notin job.did /\ Seen(job.tunSeen, ag["tunnel"])
      /\ Changes(LiveSnap, job.snap) => /\ ProxyBack(ag, job.did, LiveSnap, job.snap)
                                        /\ LbBack(ag, job.did, LiveSnap, job.snap)
      /\ \A e \in Engine : Settled(ag[e]) /\ Topped(ag[e].store)
      /\ TunnelAt(ag, job.snap)
  BY <1>0, <1>1, <1>t, TunnelDue
<1>3. Goto("health")
  BY <1>2 DEF PassTunnel, Seen
<1>4. job'.pc = "health" /\ job'.snap = job.snap /\ job'.did = job.did
  BY <1>0, <1>3 DEF Goto, Job
<1>5. TunBack(ag, job.did, LiveSnap)
  BY <1>2 DEF TunBack, TunnelAt
<1>6. ProxyStage(ag, job, LiveSnap)'
  BY <1>0, <1>1, <1>2, <1>4 DEF ProxyStage, ToSwap, Changes
<1>7. LbStage(ag, job, LiveSnap)'
  BY <1>0, <1>1, <1>2, <1>4 DEF LbStage, ToSwap, Changes
<1>8. TunnelStage(ag, job, LiveSnap)'
  BY <1>0, <1>1, <1>2, <1>4, <1>5 DEF TunnelStage, ToSwap
<1>9. UndoStage(ag, job, LiveSnap)'
  BY <1>4 DEF UndoStage
<1> QED BY <1>1, <1>2, <1>6, <1>7, <1>8, <1>9 DEF BackGood

\* The engines are watched, and the version is kept or given up.
LEMMA BackHealth ==
  ASSUME BackInv, HealthPasses \/ HealthFails, Succeeded'
  PROVE  BackGood'
<1>0. /\ BackBase /\ BackGood /\ faults' = 0 /\ job.live = Live
      /\ Live' = Live /\ LiveSnap' = LiveSnap
      /\ job \in Job /\ job.did \in SUBSET Marks
  BY SwapStart DEF SwapStep
<1>t. ag \in [Engine -> AgentState]
  BY <1>0 DEF BackBase, HistoryInv, TypeInv, TypeOK
<1>1. job.pc = "health" /\ ag' = ag /\ (Goto("promote") \/ FailWith(job.did))
  BY Zenon DEF HealthPasses, HealthFails
<1>2. /\ ProxiesAt(ag, job.snap) /\ BalancersAt(ag, job.snap) /\ TunnelAt(ag, job.snap)
      /\ Changes(LiveSnap, job.snap) => /\ ProxyBack(ag, job.did, LiveSnap, job.snap)
                                        /\ LbBack(ag, job.did, LiveSnap, job.snap)
                                        /\ TunBack(ag, job.did, LiveSnap)
      /\ \A e \in Engine : Settled(ag[e]) /\ Topped(ag[e].store)
  BY <1>0, <1>1 DEF BackGood, ProxyStage, LbStage, TunnelStage
<1>3. CASE Goto("promote")
  <2>1. job'.pc = "promote" /\ job'.snap = job.snap /\ job'.did = job.did
    BY <1>0, <1>3 DEF Goto, Job
  <2>2. ProxyStage(ag, job, LiveSnap)'
    BY <1>0, <1>1, <1>2, <2>1 DEF ProxyStage, ToSwap, Changes
  <2>3. LbStage(ag, job, LiveSnap)'
    BY <1>0, <1>1, <1>2, <2>1 DEF LbStage, ToSwap, Changes
  <2>4. TunnelStage(ag, job, LiveSnap)'
    BY <1>0, <1>1, <1>2, <2>1 DEF TunnelStage, ToSwap, Changes
  <2>5. UndoStage(ag, job, LiveSnap)'
    BY <2>1 DEF UndoStage
  <2> QED BY <1>1, <1>2, <2>2, <2>3, <2>4, <2>5 DEF BackGood
<1>4. CASE FailWith(job.did)
  <2>1. /\ Changes(LiveSnap, job.snap) =>
             /\ ProxyBack(ag', job.did, LiveSnap, job.snap) /\ LbBack(ag', job.did, LiveSnap, job.snap)
             /\ TunBack(ag', job.did, LiveSnap)
        /\ ag' \in [Engine -> AgentState] /\ \A e \in Engine : Settled(ag'[e])
    BY <1>1, <1>2, <1>t
  <2> QED BY <1>0, <1>4, <2>1, BackFail
<1> QED BY <1>1, <1>3, <1>4

\* A step of the swap.
LEMMA BackSwap ==
  ASSUME BackInv, SwapStep, Succeeded'
  PROVE  BackGood'
<1>1. ASSUME NEW r \in {"ok", "unavailable"}, StopOldLb(r) \/ StopOldProxy(r)
      PROVE  BackGood'
  BY <1>1, BackStopLb, BackStopProxy
<1>2. ASSUME NEW r \in Replies, ApplyLb(r) \/ ApplyProxy(r) \/ ApplyTunnel(r)
      PROVE  BackGood'
  BY <1>2, BackApplyLb, BackApplyProxy, BackApplyTunnel
<1>3. CASE PassLb \/ PassTunnel \/ HealthPasses \/ HealthFails
  BY <1>3, BackPassLb, BackPassTunnel, BackHealth
<1> QED BY <1>1, <1>2, <1>3, Zenon DEF SwapStep

\* No apply is under way, before or after.
LEMMA BackStays ==
  ASSUME BackGood, ag' = ag, LiveSnap' = LiveSnap,
         job.pc \in ToSwap, job'.pc \in {"idle", "read"}, job'.did = {}
  PROVE  BackGood'
<1>1. /\ ProxiesAt(ag, LiveSnap) /\ BalancersAt(ag, LiveSnap) /\ TunnelAt(ag, LiveSnap)
      /\ \A e \in Engine : Settled(ag[e]) /\ Topped(ag[e].store)
  BY DEF BackGood, ProxyStage, LbStage, TunnelStage, ToSwap
<1>2. /\ ProxiesAt(ag', LiveSnap') /\ BalancersAt(ag', LiveSnap') /\ TunnelAt(ag', LiveSnap')
      /\ \A e \in Engine : Settled(ag'[e]) /\ Topped(ag'[e].store)
  BY <1>1
<1> QED BY <1>2, BackRest

\* The steps that only look.
LEMMA BackChecks ==
  ASSUME BackInv, ReadDraft \/ CheckProxy \/ CheckLb \/ CheckTunnel, Succeeded'
  PROVE  BackGood'
<1>t. HistoryInv /\ TypeOK /\ job \in Job /\ BackBase /\ (\A e \in Engine : up[e])
      /\ job.snap.le \in Engine
  BY EngineSorts DEF BackInv, BackBase, HistoryInv, TypeInv, TypeOK, Job, Snapshot
<1>1. /\ rows' = rows /\ ag' = ag
      /\ faults' \in {faults, faults + 1}
      /\ job'.pc \notin Inserted
  <2>1. CASE ReadDraft
    <3>1. rows' = rows /\ ag' = ag /\ faults' = faults
          /\ (EndJob \/ job' = [job EXCEPT !.pc = "proxy", !.snap = draft, !.live = Live])
      BY <2>1, Zenon DEF ReadDraft
    <3>2. EndJob => job'.pc = "idle"
      BY DEF EndJob, NoJob
    <3>3. job' = [job EXCEPT !.pc = "proxy", !.snap = draft, !.live = Live] => job'.pc = "proxy"
      BY <1>t DEF Job
    <3> QED BY <3>1, <3>2, <3>3 DEF Inserted
  <2>2. CASE CheckProxy
    BY <1>t, <2>2 DEF CheckProxy, Goto, Job, Inserted
  <2>3. CASE CheckLb
    BY <1>t, <2>3 DEF CheckLb, Asked, Fault, Job, Inserted
  <2>4. CASE CheckTunnel
    BY <1>t, <2>4 DEF CheckTunnel, Asked, Fault, Job, Inserted
  <2> QED BY <2>1, <2>2, <2>3, <2>4
<1>2. Succeeded /\ faults = 0 /\ faults' = 0
  BY <1>t, <1>1, SucceededBefore
<1>3. BackGood
  BY <1>2 DEF BackInv
<1>4. LiveSnap' = LiveSnap
  <2>1. Live' = Live /\ (Live # 0 => rows'[Live].snap = rows[Live].snap)
    BY <1>t, <1>1, LiveSame
  <2> QED BY <2>1 DEF LiveSnap
<1>5. \A e \in Engine : \A st : Asked(e, st) => st = Answered(e) /\ Seen(st, ag[e])
  BY <1>t, <1>2 DEF Asked, Fault, Answered, Seen
<1>6. CASE ReadDraft
  <2>1. CASE EndJob
    <3>1. job.pc \in ToSwap /\ job'.pc = "idle" /\ job'.did = {}
      BY <1>6, <2>1 DEF ReadDraft, ToSwap, EndJob, NoJob
    <3> QED BY <1>1, <1>3, <1>4, <3>1, BackStays
  <2>2. CASE job' = [job EXCEPT !.pc = "proxy", !.snap = draft, !.live = Live]
    <3>1. job.pc = "read" /\ job'.pc = "proxy" /\ job'.did = job.did
      BY <1>t, <1>6, <2>2 DEF ReadDraft, Job
    <3> QED BY <1>1, <1>3, <1>4, <3>1, BackBefore DEF ToSwap
  <2> QED BY <1>6, <2>1, <2>2 DEF ReadDraft
<1>7. CASE CheckProxy
  <2>1. job.pc = "proxy" /\ job'.pc = "lb" /\ job'.did = job.did
    BY <1>t, <1>7 DEF CheckProxy, Goto, Job
  <2> QED BY <1>1, <1>3, <1>4, <2>1, BackBefore DEF ToSwap
<1>8. CASE CheckLb
  <2>1. PICK st : Asked(job.snap.le, st) /\ job' = [job EXCEPT !.lbSeen = st, !.pc = "tunnel"]
    BY <1>8, Zenon DEF CheckLb
  <2>2. job.pc = "lb" /\ job'.pc = "tunnel" /\ job'.did = job.did /\ job'.snap = job.snap
        /\ job'.lbSeen = st
    BY <1>t, <1>8, <2>1 DEF CheckLb, Job
  <2>3. Seen(job'.lbSeen, ag[job'.snap.le])
    BY <1>t, <1>5, <2>1, <2>2
  <2> QED BY <1>1, <1>3, <1>4, <2>2, <2>3, BackBefore DEF ToSwap
<1>9. CASE CheckTunnel
  <2>1. PICK st : Asked("tunnel", st) /\ job' = [job EXCEPT !.tunSeen = st, !.pc = "insert"]
    BY <1>9, Zenon DEF CheckTunnel
  <2>2. job.pc = "tunnel" /\ job'.pc = "insert" /\ job'.did = job.did /\ job'.snap = job.snap
        /\ job'.tunSeen = st /\ job'.lbSeen = job.lbSeen
    BY <1>t, <1>9, <2>1 DEF CheckTunnel, Job
  <2>3. Seen(job'.tunSeen, ag["tunnel"])
    BY <1>5, <2>1, <2>2, EngineSorts
  <2>4. Seen(job.lbSeen, ag[job.snap.le])
    BY <1>3, <2>2 DEF BackGood, LbStage
  <2> QED BY <1>1, <1>3, <1>4, <2>2, <2>3, <2>4, BackBefore DEF ToSwap
<1> QED BY <1>6, <1>7, <1>8, <1>9

\* The version is recorded, as a draft; or as live, at the end.
LEMMA BackRecord ==
  ASSUME BackInv, InsertDraft \/ Promote, Succeeded'
  PROVE  BackGood'
<1>t. HistoryInv /\ TypeOK /\ job \in Job /\ BackBase
  BY DEF BackInv, BackBase, HistoryInv, TypeInv, TypeOK
<1>1. CASE InsertDraft
  <2>1. /\ job.pc = "insert" /\ rows' = Append(rows, NewRow("draft")) /\ ag' = ag /\ faults' = faults
        /\ job' = [job EXCEPT !.pc = IF LbSwitching THEN "lbStop" ELSE "lbApply"]
    BY <1>1 DEF InsertDraft, Goto
  <2>2. Succeeded
    <3>1. "draft" \in Statuses
      BY DEF Statuses
    <3> QED BY <1>t, <2>1, <3>1, SucceededBefore
  <2>3. BackGood
    BY <2>2 DEF BackInv
  <2>4. LiveSnap' = LiveSnap
    <3>1. Live' = Live /\ (Live # 0 => rows'[Live].snap = rows[Live].snap)
      BY <1>t, <2>1, LiveSame
    <3> QED BY <3>1 DEF LiveSnap
  <2>5. /\ job'.pc = IF LbSwitching THEN "lbStop" ELSE "lbApply"
        /\ job'.snap = job.snap /\ job'.did = job.did
        /\ job'.lbSeen = job.lbSeen /\ job'.tunSeen = job.tunSeen
    BY <1>t, <2>1 DEF Job
  <2>6. ~LbSwitching => LiveSnap.le = job.snap.le
    <3>1. job.live = Live /\ LiveSnap.le = OldLb(Live)
      BY <1>t, <2>1, LiveSnapFacts DEF BackBase
    <3> QED BY <3>1 DEF LbSwitching
  <2>7. Seen(job.lbSeen, ag[job.snap.le]) /\ Seen(job.tunSeen, ag["tunnel"])
    BY <2>1, <2>3 DEF BackGood, LbStage, TunnelStage
  <2>8. job.pc \in ToSwap /\ job'.pc \in ToSwap \cup {"lbApply"}
        /\ (job'.pc = "lbApply" => LiveSnap.le = job'.snap.le)
    BY <2>1, <2>5, <2>6 DEF ToSwap
  <2> QED BY <2>1, <2>3, <2>4, <2>5, <2>7, <2>8, BackBefore
<1>2. CASE Promote
  <2>1. job.pc = "promote" /\ ag' = ag /\ faults' = faults /\ job'.pc = "idle" /\ job'.did = {}
    BY <1>2 DEF Promote, EndJob, NoJob
  <2>2. Succeeded
    BY <1>2, <1>t, <2>1, SucceededBefore
  <2>3. BackGood
    BY <2>2 DEF BackInv
  <2>4. LiveSnap' = job.snap
    <3>1. Live' # 0 /\ rows'[Live'].snap = job.snap
      BY <1>2, <1>t, LivePromoted
    <3> QED BY <3>1 DEF LiveSnap
  <2>5. /\ ProxiesAt(ag, job.snap) /\ BalancersAt(ag, job.snap) /\ TunnelAt(ag, job.snap)
        /\ \A e \in Engine : Settled(ag[e]) /\ Topped(ag[e].store)
    BY <2>1, <2>3 DEF BackGood, ProxyStage, LbStage, TunnelStage
  <2>6. /\ ProxiesAt(ag', LiveSnap') /\ BalancersAt(ag', LiveSnap') /\ TunnelAt(ag', LiveSnap')
        /\ \A e \in Engine : Settled(ag'[e]) /\ Topped(ag'[e].store)
    BY <2>1, <2>4, <2>5
  <2> QED BY <2>1, <2>6, BackRest
<1> QED BY <1>1, <1>2

\* A version that fails is not a success.
LEMMA BackLost ==
  ASSUME BackInv, NEW r, ValidateFails(r) \/ RecordFailure
  PROVE  ~Succeeded'
<1>t. HistoryInv /\ TypeOK /\ rows \in Seq(Row) /\ Len(rows) \in Nat /\ faults \in Nat
  BY RowFacts DEF BackInv, BackBase, HistoryInv, TypeInv, TypeOK
<1>1. job'.pc = "idle"
  BY DEF ValidateFails, RecordFailure, EndJob, NoJob
<1>2. SUFFICES \/ faults' # 0
               \/ \E i \in 1..Len(rows') : rows'[i].status \in {"failed", "rolled_back"}
  BY <1>1 DEF Succeeded, Inserted
<1>3. CASE ValidateFails(r)
  <2>1. Fault("unreachable") \/ rows' = Append(rows, NewRow("failed"))
    BY <1>3 DEF ValidateFails
  <2>2. CASE Fault("unreachable")
    BY <1>t, <2>2 DEF Fault
  <2>3. CASE rows' = Append(rows, NewRow("failed"))
    <3>1. Len(rows') = Len(rows) + 1 /\ rows'[Len(rows) + 1] = NewRow("failed")
      BY <1>t, <2>3
    <3> QED BY <1>t, <3>1 DEF NewRow
  <2> QED BY <2>1, <2>2, <2>3
<1>4. CASE RecordFailure
  <2>1. Len(rows) \in 1..Len(rows) /\ rows[Len(rows)] \in Row
    BY <1>4, <1>t, RowFacts DEF RecordFailure, HistoryInv, Inserted
  <2>2. Len(rows') = Len(rows) /\ rows'[Len(rows)].status \in {"failed", "rolled_back"}
    BY <1>4, <1>t, <2>1 DEF RecordFailure, Row
  <2> QED BY <2>1, <2>2
<1> QED BY <1>3, <1>4

\* Every step of an apply.
LEMMA BackJob ==
  ASSUME BackInv, JobStep, Succeeded'
  PROVE  BackGood'
<1>1. ~Docker
  BY DEF BackInv, BackBase, Plain
<1>2. \A e : ~EnsureEngine(e)
  BY <1>1 DEF EnsureEngine, Bring
<1>3. \A r : ~ValidateFails(r) /\ ~RecordFailure
  BY BackLost, Zenon
<1>4. \A r \in Replies : UndoStep(r) => BackGood'
  BY BackUndo
<1>5. SwapStep => BackGood'
  BY BackSwap
<1>6. ReadDraft \/ CheckProxy \/ CheckLb \/ CheckTunnel \/ InsertDraft \/ Promote => BackGood'
  BY BackChecks, BackRecord
<1> QED BY <1>2, <1>3, <1>4, <1>5, <1>6, Zenon DEF JobStep, SwapStep

\* A request of a reconcile changes nothing that counts.
LEMMA BackReconcile ==
  ASSUME BackInv, Reconcile, Succeeded'
  PROVE  BackGood'
<1>t. HistoryInv /\ TypeInv /\ TypeOK /\ job \in Job /\ BackBase /\ ~Docker /\ faults \in Nat
      /\ ag \in [Engine -> AgentState]
  BY DEF BackInv, BackBase, HistoryInv, TypeInv, TypeOK, Plain
<1>1. rows' = rows /\ job' = job
  BY ZenonT(60) DEF Reconcile, ReconcileStatus, ReconcileLock, ReconcileCall, ReconcileContainer
<1>2. faults' \in {faults, faults + 1}
  <2>1. ASSUME NEW r \in {"ok", "unavailable"}, ReconcileCall(r) PROVE faults' \in {faults, faults + 1}
    <3>1. r \in Replies /\ \E c : Send(c, r)
      BY <2>1, Zenon DEF ReconcileCall, Replies
    <3> QED BY <3>1, SendCounts
  <2>2. ReconcileStatus => faults' \in {faults, faults + 1}
    BY DEF ReconcileStatus, Fault
  <2>3. ReconcileLock \/ ReconcileContainer => faults' = faults
    BY DEF ReconcileLock, ReconcileContainer
  <2> QED BY <2>1, <2>2, <2>3, Zenon DEF Reconcile
<1>3. Succeeded /\ faults = 0 /\ faults' = 0
  BY <1>t, <1>1, <1>2, SucceededBefore
<1>4. BackGood
  BY <1>3 DEF BackInv
<1>5. Live' = Live /\ LiveSnap' = LiveSnap
  <2>1. Live' = Live /\ (Live # 0 => rows'[Live].snap = rows[Live].snap)
    BY <1>t, <1>1, LiveSame
  <2> QED BY <2>1 DEF LiveSnap
<1>6. CASE ag' = ag
  <2>1. ProxyStage(ag, job, LiveSnap)' /\ LbStage(ag, job, LiveSnap)'
        /\ TunnelStage(ag, job, LiveSnap)' /\ UndoStage(ag, job, LiveSnap)'
    BY <1>1, <1>4, <1>5, <1>6 DEF BackGood, ProxyStage, LbStage, TunnelStage, UndoStage, Changes
  <2> QED BY <1>1, <1>4, <1>6, <2>1 DEF BackGood
<1>7. ASSUME NEW r \in {"ok", "unavailable"}, ReconcileCall(r) PROVE BackGood'
  <2> DEFINE c == Head(rec.todo)
  <2>1. rec.pc = "run" /\ Send(c, r) /\ r \in Replies
    BY <1>7 DEF ReconcileCall, Replies
  <2>2. rec.todo # <<>> /\ rec.todo \in Seq(AgentCall \cup ContainerCall) /\ job.pc = "idle"
    BY <1>t, <2>1 DEF HistoryInv, TypeInv
  <2>3. c \in AgentCall /\ Keeps(c, LiveSnap) /\ Live # 0
    <3>1. 1 \in 1..Len(rec.todo) /\ c = rec.todo[1]
      BY <2>2
    <3> HIDE DEF c
    <3> QED BY <1>t, <2>1, <3>1 DEF BackBase
  <2> HIDE DEF c
  <2>4. /\ ProxiesAt(ag, LiveSnap) /\ BalancersAt(ag, LiveSnap) /\ TunnelAt(ag, LiveSnap)
        /\ {"switch", "swap", "lbSwitch", "lbChange", "tunnel"} \cap job.did = {}
        /\ \A e \in Engine : Settled(ag[e]) /\ Topped(ag[e].store)
    BY <1>4, <2>2 DEF BackGood, ProxyStage, LbStage, TunnelStage, ToSwap
  <2>5. \A e \in Engine : At(e, ag[e], LiveSnap)
    BY <2>4 DEF ProxiesAt, BalancersAt, TunnelAt, Engine
  <2>6. /\ r # "unavailable" /\ c.to \in Engine
        /\ \A e \in Engine : e # c.to => ag'[e] = ag[e]
        /\ r = "ok" => ag'[c.to] = Done(ag[c.to], c.do, c.hash, AlwaysOn(c.to))
    BY <1>t, <1>3, <2>1, <2>3, <2>4, GoodSend
  <2>7. /\ Settled(ag'[c.to]) /\ Topped(ag'[c.to].store) /\ At(c.to, ag'[c.to], LiveSnap)
        /\ c.to = "tunnel" /\ ag[c.to].store.current \in {LiveSnap.th, None} =>
             ag'[c.to].store.current \in {LiveSnap.th, None}
    <3>1. LiveSnap \in Snapshot
      BY <1>t, <2>3, LiveSnapFacts
    <3>2. PICK a : a = ag[c.to]
      OBVIOUS
    <3>3. PICK ao \in BOOLEAN : ao = AlwaysOn(c.to)
      <4>1. AlwaysOn(c.to) \in BOOLEAN
        BY DEF AlwaysOn
      <4> QED BY <4>1, Zenon
    <3>4. PICK s : s = LiveSnap
      OBVIOUS
    <3>5. /\ a \in AgentState /\ Settled(a) /\ Topped(a.store) /\ At(c.to, a, s) /\ s \in Snapshot
          /\ Keeps(c, s)
      BY <1>t, <2>3, <2>4, <2>5, <2>6, <3>1, <3>2, <3>4
    <3>6. ag'[c.to] = Done(a, c.do, c.hash, ao)
      BY <2>6, <3>2, <3>3
    <3>7. PICK b : b = Done(a, c.do, c.hash, ao)
      OBVIOUS
    <3>8. /\ Settled(b) /\ Topped(b.store) /\ At(c.to, b, s)
          /\ c.to = "tunnel" /\ a.store.current \in {s.th, None} => b.store.current \in {s.th, None}
      BY <2>3, <3>5, <3>7, KeptStep
    <3> QED BY <3>2, <3>4, <3>6, <3>7, <3>8
  <2>8. \A e \in Engine : Settled(ag'[e]) /\ Topped(ag'[e].store) /\ At(e, ag'[e], LiveSnap)
    BY <2>4, <2>5, <2>6, <2>7
  <2>9. ProxiesAt(ag', LiveSnap) /\ BalancersAt(ag', LiveSnap)
    BY <2>8, EngineSorts DEF ProxiesAt, BalancersAt
  <2>10. TunnelAt(ag', LiveSnap)
    <3>1. ~LiveSnap.tun => ag["tunnel"].store.current \in {LiveSnap.th, None}
      BY <2>4 DEF TunnelAt
    <3>2. ~LiveSnap.tun => ag'["tunnel"].store.current \in {LiveSnap.th, None}
      <4>1. CASE c.to = "tunnel"
        BY <2>7, <3>1, <4>1
      <4>2. CASE c.to # "tunnel"
        BY <2>6, <3>1, <4>2, EngineSorts
      <4> QED BY <4>1, <4>2
    <3> QED BY <2>8, <3>2, EngineSorts DEF TunnelAt
  <2>11. /\ ProxiesAt(ag', LiveSnap') /\ BalancersAt(ag', LiveSnap') /\ TunnelAt(ag', LiveSnap')
         /\ \A e \in Engine : Settled(ag'[e]) /\ Topped(ag'[e].store)
         /\ job'.pc \in {"idle", "read"}
         /\ {"switch", "swap", "lbSwitch", "lbChange", "tunnel"} \cap job'.did = {}
    BY <1>1, <1>5, <2>2, <2>4, <2>8, <2>9, <2>10
  <2> QED BY <2>11, BackRest
<1>8. ReconcileStatus \/ ReconcileLock => ag' = ag
  BY Zenon DEF ReconcileStatus, ReconcileLock
<1>9. ReconcileContainer => ag' = ag
  <2> SUFFICES ASSUME ReconcileContainer PROVE ag' = ag
    OBVIOUS
  <2>1. rec.pc = "run" /\ Head(rec.todo).do \in {"ctrStart", "ctrStop"}
    BY DEF ReconcileContainer
  <2>2. rec.todo # <<>> /\ rec.todo \in Seq(AgentCall \cup ContainerCall)
    BY <1>t, <2>1 DEF HistoryInv, TypeInv
  <2>3. Head(rec.todo) = rec.todo[1] /\ 1 \in 1..Len(rec.todo)
    BY <2>2
  <2>4. rec.todo[1] \in AgentCall
    BY <1>t, <2>1, <2>3 DEF BackBase
  <2> QED BY <2>1, <2>3, <2>4 DEF AgentCall
<1> QED BY <1>6, <1>7, <1>8, <1>9, Zenon DEF Reconcile

\* So the engines are where they should be, whatever happens next.
LEMMA BackNext == BackInv /\ [Next]_vars => BackInv'
<1> SUFFICES ASSUME BackInv, [Next]_vars, Succeeded' PROVE BackGood'
  BY BackBaseNext DEF BackInv
<1>t. HistoryInv /\ TypeOK /\ BackBase /\ Managed = {} /\ faults \in Nat
  <2>1. BackBase /\ HistoryInv /\ Plain
    BY DEF BackInv, BackBase
  <2>2. TypeOK
    BY <2>1 DEF HistoryInv, TypeInv
  <2>3. faults \in Nat
    BY <2>2 DEF TypeOK
  <2> QED BY <2>1, <2>2, <2>3 DEF Plain
<1>1. ASSUME rows' = rows, ag' = ag, faults' = faults, job' = job PROVE BackGood'
  <2>1. Succeeded
    BY <1>t, <1>1, SucceededBefore
  <2>2. BackGood
    BY <2>1 DEF BackInv
  <2>3. Live' = Live /\ LiveSnap' = LiveSnap
    <3>1. Live' = Live /\ (Live # 0 => rows'[Live].snap = rows[Live].snap)
      BY <1>t, <1>1, LiveSame
    <3> QED BY <3>1 DEF LiveSnap
  <2>4. ProxyStage(ag, job, LiveSnap)' /\ LbStage(ag, job, LiveSnap)'
        /\ TunnelStage(ag, job, LiveSnap)' /\ UndoStage(ag, job, LiveSnap)'
    BY <1>1, <2>2, <2>3 DEF BackGood, ProxyStage, LbStage, TunnelStage, UndoStage, Changes
  <2> QED BY <1>1, <2>2, <2>4 DEF BackGood
<1>2. CASE Begin
  <2>1. \E s : job' = [NoJob(s) EXCEPT !.pc = "read"]
               \/ job' = [NoJob(s) EXCEPT !.pc = "read", !.force = TRUE]
    BY <1>2, Zenon DEF Begin, ApplyBegin, RollbackBegin
  <2>2. job'.pc = "read" /\ job'.did = {}
    BY <2>1 DEF NoJob
  <2>3. rows' = rows /\ ag' = ag /\ faults' = faults /\ job.pc = "idle"
    BY <1>2, Zenon DEF Begin, ApplyBegin, RollbackBegin, Unlocked
  <2>4. Succeeded
    BY <1>t, <2>2, <2>3, SucceededBefore DEF Inserted
  <2>5. BackGood
    BY <2>4 DEF BackInv
  <2>6. LiveSnap' = LiveSnap
    <3>1. Live' = Live /\ (Live # 0 => rows'[Live].snap = rows[Live].snap)
      BY <1>t, <2>3, LiveSame
    <3> QED BY <3>1 DEF LiveSnap
  <2> QED BY <2>2, <2>3, <2>5, <2>6, BackStays DEF ToSwap
<1>3. CASE Environment
  <2>1. ASSUME NEW kind, Fault(kind) PROVE FALSE
    BY <1>t, <2>1 DEF Fault, Succeeded
  <2>2. ASSUME NEW e \in Engine, EngineReturns(e) PROVE FALSE
    <3>1. rows' = rows /\ faults' = faults /\ job' = job /\ ag[e].want /\ ~Running(ag[e])
      BY <2>2 DEF EngineReturns
    <3>2. Succeeded
      BY <1>t, <3>1, SucceededBefore
    <3> QED BY <3>1, <3>2 DEF BackInv, BackGood, Settled
  <2>3. Crash => Fault("crash")
    BY DEF Crash
  <2>4. \A e : (EngineExits(e) => Fault("exit")) /\ (AgentRestarts(e) => Fault("restart"))
    BY DEF EngineExits, AgentRestarts
  <2> QED BY <1>3, <2>1, <2>2, <2>3, <2>4, Zenon DEF Environment
<1>4. CASE JobStep
  BY <1>4, BackJob
<1>5. CASE Reconcile
  BY <1>5, BackReconcile
<1>6. CASE AdminAction
  BY <1>6, <1>t DEF AdminAction
<1>7. CASE (\E s \in Snapshots : Edit(s)) \/ Discard \/ UNCHANGED vars
  BY <1>1, <1>7, Zenon DEF Edit, Discard, vars
<1> QED BY <1>2, <1>3, <1>4, <1>5, <1>6, <1>7, Zenon DEF Next

\* A version is taken back by the step that records it.
LEMMA WhoTakesBack ==
  ASSUME HistoryInv, [Next]_vars, NEW i \in 1..Len(rows), TakenBack(i)
  PROVE  RecordFailure /\ i = Len(rows) /\ job.live # 0 /\ ~job.problems
<1>t. TypeOK /\ rows \in Seq(Row) /\ Len(rows) \in Nat /\ rows[i] \in Row
  BY RowFacts DEF HistoryInv, TypeInv, TypeOK
<1>1. rows[i].status = "draft" /\ rows'[i].status = "rolled_back" /\ ~rows'[i].problems
  BY DEF TakenBack
<1>2. ASSUME NEW st \in Statuses, rows' = Append(rows, NewRow(st)) PROVE FALSE
  <2>1. rows'[i] = rows[i]
    BY <1>2, <1>t, AppendRowFacts
  <2> QED BY <1>1, <2>1
<1>3. Promote => FALSE
  <2> SUFFICES ASSUME Promote PROVE rows'[i].status \in {"live", "superseded", rows[i].status}
    BY <1>1
  <2> QED BY <1>t DEF Promote, Row
<1>4. RecordFailure
  BY <1>1, <1>2, <1>3, RowsChange
<1>5. i = Len(rows)
  <2>1. i # Len(rows) => rows'[i] = rows[i]
    BY <1>4, <1>t DEF RecordFailure
  <2> QED BY <1>1, <2>1
<1>6. /\ rows'[i].status = IF job.live = 0 THEN "failed" ELSE "rolled_back"
      /\ rows'[i].problems = job.problems
  BY <1>4, <1>5, <1>t DEF RecordFailure, Row
<1> QED BY <1>1, <1>4, <1>5, <1>6

\* Engines that are as the live version has them serve it.
LEMMA AtServes ==
  ASSUME TypeOK, Live # 0, stopped = {}, \A e \in Engine : At(e, ag[e], LiveSnap)
  PROVE  Serves(Live)
<1> DEFINE s == rows[Live].snap
<1>1. /\ s = LiveSnap /\ s.pe \in Proxies /\ s.le \in Balancers
      /\ s.run \in BOOLEAN /\ s.tun \in BOOLEAN
  BY LiveSnapFacts
<1>2. At(s.pe, ag[s.pe], s) /\ At(s.le, ag[s.le], s) /\ At("tunnel", ag["tunnel"], s)
  BY <1>1, EngineSorts
<1>3. (LbWanted(s) <=> s.run) /\ (TunWanted(s) <=> s.tun)
  BY DEF LbWanted, TunWanted
<1>4. \A a : Asleep(a) => ~Running(a)
  BY DEF Asleep, Running
<1> HIDE DEF s
<1>5. Runs(ag[s.pe], s.ph)
  BY <1>1, <1>2 DEF At
<1>6. IF s.run THEN Runs(ag[s.le], s.lh) ELSE ~Running(ag[s.le])
  BY <1>1, <1>2, <1>4 DEF At
<1>7. IF s.tun THEN Runs(ag["tunnel"], s.th) ELSE ~Running(ag["tunnel"])
  BY <1>1, <1>2, <1>4 DEF At
<1> QED BY <1>3, <1>5, <1>6, <1>7 DEF Serves, Has, Runs, s

\* The first version that fails, when no engine failed, changes the proxy engine or its
\* release, and is taken back without a problem noted, leaves the engines serving the live
\* version: while nothing has gone wrong BackInv says where every engine is, at every step
\* of the swap, and which requests, answered OK, bring it back.
\* (failAfterSwap, when Relay starts no containers and no admin stops an engine)
THEOREM ChangesAreTakenBack == Plain /\ Spec => ChangeIsTakenBack
<1> DEFINE Back(i) ==
      LET new == rows[i].snap
          old == rows[Live].snap
      IN  /\ TakenBack(i) /\ faults = 0 /\ stopped = {}
          /\ \A j \in 1..(i - 1) : rows[j].status \in {"live", "superseded"}
          /\ Steady(old, new) /\ <<new.pe, new.ph>> # <<old.pe, old.ph>>
          => Serves(Live)
<1>1. ASSUME BackInv, [Next]_vars PROVE \A i \in 1..Len(rows) : Back(i)
  <2> SUFFICES ASSUME NEW i \in 1..Len(rows),
                      TakenBack(i), faults = 0, stopped = {},
                      \A j \in 1..(i - 1) : rows[j].status \in {"live", "superseded"},
                      Steady(rows[Live].snap, rows[i].snap),
                      <<rows[i].snap.pe, rows[i].snap.ph>> # <<rows[Live].snap.pe, rows[Live].snap.ph>>
               PROVE  Serves(Live)
    BY Zenon
  <2>t. BackBase /\ HistoryInv /\ TypeOK /\ rows \in Seq(Row) /\ Len(rows) \in Nat
    BY <1>1, RowFacts DEF BackInv, BackBase, HistoryInv, TypeInv, TypeOK
  <2>1. RecordFailure /\ i = Len(rows) /\ job.live # 0 /\ ~job.problems
    BY <1>1, <2>t, WhoTakesBack
  <2>2. job.pc = "undo" /\ job.undo = <<>>
    BY <2>1 DEF RecordFailure
  <2>3. job.live = Live /\ Live # 0 /\ rows[i].snap = job.snap /\ LiveSnap = rows[Live].snap
    BY <2>1, <2>2, <2>t DEF BackBase, HistoryInv, Inserted, LiveSnap
  <2>4. Succeeded
    <3>1. \A j \in 1..Len(rows) : j = Len(rows) \/ j \in 1..(i - 1)
      BY <2>1, <2>t
    <3> QED BY <2>2, <3>1 DEF Succeeded, Inserted
  <2>5. UndoStage(ag, job, LiveSnap)
    BY <1>1, <2>4 DEF BackInv, BackGood
  <2>6. \A e \in Engine : Due(e, ag[e], <<>>, LiveSnap)
    BY <2>1, <2>2, <2>3, <2>5 DEF UndoStage, Changes
  <2>7. \A e \in Engine : At(e, ag[e], LiveSnap)
    <3>1. 1..Len(<<>>) = {}
      OBVIOUS
    <3> QED BY <2>6, <3>1 DEF Due
  <2> QED BY <2>3, <2>7, <2>t, AtServes
<1>2. Plain /\ Init => BackInv
  BY BackInit
<1>3. Plain /\ Spec => []BackInv
  BY <1>2, BackNext, PTL DEF Spec
<1>4. BackInv /\ [Next]_vars => [\A i \in 1..Len(rows) : Back(i)]_vars
  BY <1>1
<1> QED BY <1>1, <1>3, <1>4, PTL DEF Spec, ChangeIsTakenBack
-----------------------------------------------------------------------------
(* The engines an admin has stopped *)

\* Relay starts and stops no containers, no request takes effect that is not answered,
\* and every version runs the engines an admin may have stopped.
Heard ==
    /\ ~Docker /\ "lost" \notin Faults
    /\ \A s \in Snapshots : s.run /\ ("tunnel" \in Managed => s.tun)

\* the requests that wake no engine of X
Sparing(X) == { c \in AgentCall : Wakes(c) => c.to \notin X }

\* Every configuration there is came from an edit.
EditedInv ==
    /\ HistoryInv
    /\ draft \in Snapshots /\ job.snap \in Snapshots
    /\ \A i \in 1..Len(rows) : rows[i].snap \in Snapshots

\* What an admin stopped is asleep, the undoing and the reconcile in progress wake none
\* of it, and what the apply has changed so far it has taken off the list.
LeftDown ==
    /\ stopped \cap Proxies = {}
    /\ "tunnel" \in stopped => "tunnel" \in Managed
    /\ Down(ag, stopped)
    /\ job.pc = "read" => job.did = {}
    /\ job.pc # "idle" => /\ "lbChange" \in job.did => job.snap.le \notin stopped
                          /\ "tunnel" \in job.did => "tunnel" \notin stopped
    /\ job.pc = "undo" => job.undo \in Seq(Sparing(stopped))
    /\ rec.pc = "run" => rec.todo \in Seq(Sparing(stopped))

StopInv ==
    /\ EditedInv /\ Heard
    /\ \A e \in Engine : up[e]
    /\ LeftDown

\* A request wakes nobody but its own engine, and that only when it is answered OK.
LEMMA HeardSend ==
  ASSUME TypeOK, "lost" \notin Faults, NEW c \in AgentCall, NEW r \in Replies, Send(c, r),
         NEW e \in Engine, Asleep(ag[e]), e = c.to /\ Wakes(c) => r # "ok"
  PROVE  Asleep(ag'[e])
<1> DEFINE a == ag[c.to]
           done == Done(a, c.do, c.hash, AlwaysOn(c.to))
           refusals == Refusals(a, c.do, c.hash, AlwaysOn(c.to))
<1>t. c.to \in Engine /\ a \in AgentState /\ AlwaysOn(c.to) \in BOOLEAN
  BY DEF AgentCall, Calls, TypeOK, AlwaysOn
<1>1. CASE e # c.to
  <2>1. ag'[e] = ag[e]
    BY <1>1, SendFacts
  <2> QED BY <2>1
<1>2. CASE e = c.to
  <2>1. /\ ~Wakes(c) => Asleep(done)
        /\ \A b \in refusals : Asleep(b)
    BY <1>2, <1>t, SleepFacts
  <2>2. \A b : ag' = [ag EXCEPT ![c.to] = b] => ag'[c.to] = b
    BY <1>t DEF TypeOK
  <2>3. CASE r = "ok"
    <3>1. ag' = [ag EXCEPT ![c.to] = done]
      BY <2>3 DEF Send
    <3> HIDE DEF done
    <3> QED BY <1>2, <2>1, <2>2, <2>3, <3>1
  <2>4. CASE r = "refused"
    <3>1. \E b \in refusals : ag' = [ag EXCEPT ![c.to] = b]
      BY <2>4 DEF Send
    <3> HIDE DEF refusals
    <3> QED BY <1>2, <2>1, <2>2, <3>1
  <2>5. CASE r = "unavailable"
    <3>1. ag' = ag
      BY <2>5 DEF Send, Fault
    <3> QED BY <3>1
  <2> QED BY <2>3, <2>4, <2>5 DEF Replies
<1> QED BY <1>1, <1>2

\* The undoing of an apply wakes nothing an admin stopped.
LEMMA SparingUndo ==
  ASSUME TypeInv, stopped \cap Proxies = {}, NEW did \in SUBSET Marks,
         "lbChange" \in did => job.snap.le \notin stopped,
         "tunnel" \in did => "tunnel" \notin stopped
  PROVE  Undo(did) \in Seq(Sparing(stopped))
<1> DEFINE new == job.snap
           old == IF job.live = 0 THEN new ELSE rows[job.live].snap
           Q   == Sparing(stopped)
<1>1. new \in Snapshot /\ old \in Snapshot
  BY RowFacts DEF TypeInv, TypeOK, Job
<1>2. OldProxy(job.live) \in Proxies
  BY RowFacts DEF TypeInv, TypeOK, Snapshot, OldProxy, Proxies
<1>3. \A s \in Snapshot : /\ s.pe \in Proxies /\ s.le \in Balancers
                          /\ {s.ph, s.lh, s.th} \subseteq Hash
  BY DEF Snapshot
<1>4. \A e \in Engine, h \in Hash : Call("applyStop", e, h) \in Q
  BY InstallFacts DEF Call, Sparing, Wakes
<1>5. \A e \in Engine : e \notin stopped => Call("start", e, None) \in Q /\ Call("rollback", e, None) \in Q
  BY DEF Call, AgentCall, Calls, Sparing
<1>6. Install(old.le, old.lh, LbWanted(old)) \in Q
  <2>1. old.le \in Engine /\ old.lh \in Hash
    BY <1>1, <1>3, EngineSorts
  <2>2. Install(old.le, old.lh, LbWanted(old)) \in AgentCall
        /\ Install(old.le, old.lh, LbWanted(old)).to = old.le
    BY <2>1, InstallFacts
  <2>3. ~LbWanted(old) => ~Wakes(Install(old.le, old.lh, LbWanted(old)))
    BY DEF Install, Call, Wakes
  <2>4. LbWanted(old) => old.le \notin stopped
    BY DEF LbWanted
  <2> QED BY <2>2, <2>3, <2>4 DEF Sparing
<1>7. /\ new.pe \in Engine /\ new.le \in Engine /\ OldProxy(job.live) \in Engine /\ "tunnel" \in Engine
      /\ new.pe \notin stopped /\ OldProxy(job.live) \notin stopped
      /\ new.ph \in Hash /\ new.lh \in Hash
  BY <1>1, <1>2, <1>3, EngineSorts
<1>8. \A c \in Q : <<c>> \in Seq(Q)
  <2> HIDE DEF Q
  <2> QED OBVIOUS
<1>9. <<>> \in Seq(Q) /\ \A p, q \in Seq(Q) : p \o q \in Seq(Q)
  <2> HIDE DEF Q
  <2> QED OBVIOUS
<1> HIDE DEF Q, new, old
<1>10. /\ Only("start" \in did, Call("applyStop", new.pe, new.ph)) \in Seq(Q)
       /\ Only("stop" \in did, Call("start", OldProxy(job.live), None)) \in Seq(Q)
       /\ Only("swap" \in did, Call("rollback", new.pe, None)) \in Seq(Q)
  <2>1. Call("applyStop", new.pe, new.ph) \in Q /\ Call("start", OldProxy(job.live), None) \in Q
        /\ Call("rollback", new.pe, None) \in Q
    BY <1>4, <1>5, <1>7
  <2> QED BY <1>8, <1>9, <2>1 DEF Only
<1>11. /\ Only("lbStart" \in did, Call("applyStop", new.le, new.lh)) \in Seq(Q)
       /\ Only("lbStop" \in did /\ job.live # 0, Install(old.le, old.lh, LbWanted(old))) \in Seq(Q)
       /\ Only("lbChange" \in did, Call("rollback", new.le, None)) \in Seq(Q)
  <2>1. Call("applyStop", new.le, new.lh) \in Q
    BY <1>4, <1>7
  <2>2. "lbChange" \in did => Call("rollback", new.le, None) \in Q
    BY <1>5, <1>7 DEF new
  <2> QED BY <1>6, <1>8, <1>9, <2>1, <2>2 DEF Only
<1>12. Only("tunnel" \in did, Call("rollback", "tunnel", None)) \in Seq(Q)
  <2>1. "tunnel" \in did => Call("rollback", "tunnel", None) \in Q
    BY <1>5, <1>7
  <2> QED BY <1>8, <1>9, <2>1 DEF Only
<1>13. (IF "switch" \in did
        THEN Only("start" \in did, Call("applyStop", new.pe, new.ph))
             \o Only("stop" \in did, Call("start", OldProxy(job.live), None))
        ELSE Only("swap" \in did, Call("rollback", new.pe, None))) \in Seq(Q)
  BY <1>9, <1>10, ZenonT(60)
<1>14. (IF "lbSwitch" \in did
        THEN Only("lbStart" \in did, Call("applyStop", new.le, new.lh))
             \o Only("lbStop" \in did /\ job.live # 0, Install(old.le, old.lh, LbWanted(old)))
        ELSE Only("lbChange" \in did, Call("rollback", new.le, None))) \in Seq(Q)
  BY <1>9, <1>11, ZenonT(60)
<1>15. Undo(did) \in Seq(Q)
  BY <1>9, <1>12, <1>13, <1>14, ZenonT(60) DEF Undo, new, old
<1> QED BY <1>15 DEF Q

\* Nor does a reconcile.
LEMMA SparingCorrections ==
  ASSUME TypeOK, ~Docker, Live # 0, stopped \cap Proxies = {}, NEW seen
  PROVE  Corrections(seen) \in Seq(Sparing(stopped))
<1> DEFINE s == rows[Live].snap
           q == Corrections(seen)
           Q == Sparing(stopped)
<1>1. s \in Snapshot /\ q \in Seq(Repairs(s))
  BY LiveFacts, CorrectionsAre
<1>2. /\ s.pe \in Proxies /\ s.le \in Balancers /\ {s.pe, s.le, "tunnel"} \subseteq Engine
      /\ {s.ph, s.lh, s.th} \subseteq Hash
  BY <1>1, EngineSorts DEF Snapshot
<1>3. OtherProxy(s.pe) \in Engine /\ OtherLb(s.le) \in Engine
  <2>1. OtherProxy(s.pe) \in Proxies
    BY DEF Proxies, OtherProxy
  <2>2. OtherLb(s.le) \in Balancers
    BY DEF Balancers, OtherLb
  <2> QED BY <2>1, <2>2 DEF Engine
<1> HIDE DEF s
<1>4. \A e \in Engine : Call("stopOnly", e, None) \in Q
  BY DEF Call, AgentCall, Calls, Sparing, Wakes
<1>5. ASSUME NEW e \in Engine, NEW h \in Hash, NEW wanted, wanted => e \notin stopped
      PROVE  Install(e, h, wanted) \in Q
  <2>1. Install(e, h, wanted) \in AgentCall /\ Install(e, h, wanted).to = e
    BY InstallFacts
  <2>2. ~wanted => ~Wakes(Install(e, h, wanted))
    BY DEF Install, Call, Wakes
  <2> QED BY <1>5, <2>1, <2>2 DEF Sparing
<1>6. /\ Install(s.pe, s.ph, TRUE) \in Q
      /\ Install(s.le, s.lh, LbWanted(s)) \in Q
      /\ Install("tunnel", s.th, TunWanted(s)) \in Q
  <2>1. s.pe \notin stopped
    BY <1>2
  <2>2. (LbWanted(s) => s.le \notin stopped) /\ (TunWanted(s) => "tunnel" \notin stopped)
    BY DEF LbWanted, TunWanted
  <2>3. /\ s.pe \in Engine /\ s.le \in Engine /\ "tunnel" \in Engine
        /\ s.ph \in Hash /\ s.lh \in Hash /\ s.th \in Hash
    BY <1>2
  <2> HIDE DEF Q
  <2> QED BY <1>5, <2>1, <2>2, <2>3, ZenonT(60)
<1>7. Repairs(s) \subseteq Q
  <2> HIDE DEF Q
  <2> QED BY <1>3, <1>4, <1>6 DEF Repairs
<1> HIDE DEF q, Q
<1>8. q \in Seq(Q)
  BY <1>1, <1>7
<1> QED BY <1>8 DEF q, Q

\* What an edit may produce is all that is ever recorded or applied.
LEMMA EditedNext == EditedInv /\ [Next]_vars => EditedInv'
<1> SUFFICES ASSUME EditedInv, [Next]_vars PROVE EditedInv'
  OBVIOUS
<1>t. HistoryInv /\ HistoryInv' /\ TypeInv /\ TypeOK /\ job \in Job /\ Len(rows) \in Nat
  BY HistoryNext, RowFacts DEF EditedInv, HistoryInv, TypeInv, TypeOK
<1>a. AnySnapshot \in Snapshots
  BY PipelineAssumption DEF AnySnapshot
<1>e. EndJob => job'.snap \in Snapshots
  BY <1>a DEF EndJob, NoJob
<1>l. Live # 0 => rows[Live].snap \in Snapshots
  BY <1>t, LiveFacts DEF EditedInv
<1>r. \A i \in 1..Len(rows') : rows'[i].snap \in Snapshots
  <2>1. ASSUME NEW st \in Statuses, rows' = Append(rows, NewRow(st))
        PROVE  \A i \in 1..Len(rows') : rows'[i].snap \in Snapshots
    <3>1. /\ Len(rows') = Len(rows) + 1 /\ \A i \in 1..Len(rows) : rows'[i] = rows[i]
          /\ rows'[Len(rows')].snap = job.snap
      BY <1>t, <2>1, AppendRowFacts DEF NewRow
    <3> QED BY <1>t, <3>1 DEF EditedInv
  <2>2. ASSUME RecordFailure \/ Promote
        PROVE  \A i \in 1..Len(rows') : rows'[i].snap \in Snapshots
    <3>r. \A i \in 1..Len(rows) : rows[i] \in Row
      BY <1>t, RowFacts DEF TypeOK
    <3>1. CASE RecordFailure
      <4>1. Len(rows') = Len(rows) /\ \A i \in 1..Len(rows) : rows'[i].snap = rows[i].snap
        BY <1>t, <3>r, <3>1 DEF RecordFailure, TypeOK, Row
      <4> QED BY <4>1 DEF EditedInv
    <3>2. CASE Promote
      <4>1. rows' = [ i \in 1..Len(rows) |->
                        IF i = Len(rows) THEN [rows[i] EXCEPT !.status = "live"]
                        ELSE IF i \in LiveRows THEN [rows[i] EXCEPT !.status = "superseded"]
                        ELSE rows[i] ]
        BY <3>2 DEF Promote
      <4>2. \A i \in 1..Len(rows), st \in Statuses : [rows[i] EXCEPT !.status = st].snap = rows[i].snap
        BY <3>r DEF Row
      <4>3. Len(rows') = Len(rows) /\ \A i \in 1..Len(rows) : rows'[i].snap = rows[i].snap
        BY <1>t, <4>1, <4>2 DEF Statuses
      <4> QED BY <4>3 DEF EditedInv
    <3> QED BY <2>2, <3>1, <3>2
  <2>3. CASE rows' = rows
    BY <2>3 DEF EditedInv
  <2> QED BY <1>t, <2>1, <2>2, <2>3, RowsChange
<1>d. draft' \in Snapshots /\ job'.snap \in Snapshots
  <2>1. CASE Begin
    <3>1. /\ draft' = draft \/ \E i \in 1..Len(rows) : draft' = rows[i].snap
          /\ job'.snap = draft
      BY <2>1 DEF Begin, ApplyBegin, RollbackBegin, NoJob
    <3> QED BY <3>1 DEF EditedInv
  <2>2. CASE JobStep
    <3>1. ASSUME SwapStep PROVE job'.snap = job.snap /\ draft' = draft
      <4>1. draft' = draft
        BY <3>1 DEF SwapStep, StopOldLb, StopOldProxy, ApplyLb, ApplyProxy, ApplyTunnel, PassLb,
                    PassTunnel, HealthPasses, HealthFails
      <4> QED BY <1>t, <3>1, <4>1, SwapFacts
    <3>2. ASSUME \/ ReadDraft \/ CheckProxy \/ CheckLb \/ CheckTunnel \/ InsertDraft
                 \/ \E e \in Engine : EnsureEngine(e)
                 \/ \E r \in {"refused", "unavailable"} : ValidateFails(r)
                 \/ Promote \/ RecordFailure \/ \E r \in Replies : UndoStep(r)
          PROVE  draft' = draft /\ (EndJob \/ job'.snap \in {job.snap, draft})
      BY ZenonT(60), <1>t, <3>2 DEF ReadDraft, CheckProxy, CheckLb, CheckTunnel, InsertDraft, ValidateFails,
                        EnsureEngine, Promote, RecordFailure, UndoStep, Goto, Job
    <3> QED BY <1>e, <2>2, <3>1, <3>2 DEF JobStep, SwapStep, EditedInv
  <2>3. ASSUME NEW s \in Snapshots, Edit(s) PROVE draft' \in Snapshots /\ job'.snap \in Snapshots
    BY <2>3 DEF Edit, EditedInv
  <2>4. CASE Discard
    BY <1>l, <2>4 DEF Discard, EditedInv
  <2>5. CASE Crash
    BY <1>e, <2>5 DEF Crash, EditedInv
  <2>6. ASSUME Reconcile \/ AdminAction \/ UNCHANGED vars
               \/ \E e \in Engine : EngineExits(e) \/ EngineReturns(e) \/ AgentRestarts(e)
        PROVE  draft' = draft /\ job' = job
    BY ZenonT(60), <2>6 DEF Reconcile, ReconcileStatus, ReconcileLock, ReconcileCall, ReconcileContainer,
            AdminAction, AdminStart, AdminStop, EngineExits, EngineReturns, AgentRestarts, vars
  <2> QED BY <2>1, <2>2, <2>3, <2>4, <2>5, <2>6 DEF Next, Environment, EditedInv
<1> QED BY <1>t, <1>r, <1>d DEF EditedInv

\* A step that leaves an apply and a reconcile as they are, or ends or begins one.
LEMMA LeftRest ==
  ASSUME LeftDown, stopped' = stopped, Down(ag', stopped),
         job' = job \/ (job'.pc # "undo" /\ job'.did = {}),
         rec' = rec \/ rec'.pc # "run"
  PROVE  LeftDown'
BY DEF LeftDown

\* The version is given up.
LEMMA LeftFail ==
  ASSUME StopInv, stopped' = stopped, Down(ag', stopped), rec' = rec, job.pc \in Inserted,
         NEW did \in SUBSET Marks, FailWith(did),
         "lbChange" \in did => job.snap.le \notin stopped,
         "tunnel" \in did => "tunnel" \notin stopped
  PROVE  LeftDown'
<1>t. HistoryInv /\ TypeInv /\ job \in Job /\ rec.pc # "run"
  BY DEF StopInv, EditedInv, HistoryInv, TypeInv, TypeOK, Inserted
<1>1. Undo(did) \in Seq(Sparing(stopped))
  BY <1>t, SparingUndo DEF StopInv, LeftDown
<1>2. job'.pc = "undo" /\ job'.snap = job.snap
  BY <1>t, FailFacts
<1>3. job'.undo = Undo(did) /\ job'.did = did
  BY <1>t DEF FailWith, Job
<1> QED BY <1>t, <1>1, <1>2, <1>3 DEF StopInv, LeftDown

\* The swap goes on.
LEMMA LeftOn ==
  ASSUME StopInv, stopped' \subseteq stopped, Down(ag', stopped'), rec' = rec, job.pc \in Inserted,
         job'.pc \notin {"read", "undo"}, job'.snap = job.snap,
         "lbChange" \in job'.did => job.snap.le \notin stopped',
         "tunnel" \in job'.did => "tunnel" \notin stopped'
  PROVE  LeftDown'
<1>t. HistoryInv /\ rec.pc # "run"
  BY DEF StopInv, EditedInv, HistoryInv, Inserted
<1> QED BY <1>t DEF StopInv, LeftDown

\* A step of the swap starts what the version has to run, and takes it off the list.
LEMMA LeftSwap ==
  ASSUME StopInv, SwapStep
  PROVE  LeftDown'
<1>t. HistoryInv /\ TypeInv /\ TypeOK /\ job \in Job /\ job.snap \in Snapshot /\ job.snap \in Snapshots
      /\ job.did \in SUBSET Marks /\ stopped \in SUBSET Engine
  BY DEF StopInv, EditedInv, HistoryInv, TypeInv, TypeOK, Job
<1>1. /\ UNCHANGED <<rows, rec, up>> /\ job.pc \in Inserted
  BY <1>t, SwapFacts
<1>s. /\ job.snap.pe \in Proxies /\ job.snap.le \in Balancers
      /\ {job.snap.pe, job.snap.le, "tunnel", OldProxy(job.live), OldLb(job.live)} \subseteq Engine
      /\ OldProxy(job.live) \in Proxies
      /\ {job.snap.ph, job.snap.lh, job.snap.th} \subseteq Hash
      /\ job.live # 0 => {rows[job.live].snap.ph, rows[job.live].snap.lh} \subseteq Hash
  <2>1. job.live \in 0..Len(rows)
    BY <1>t DEF TypeInv
  <2>2. OldProxy(job.live) \in Proxies /\ OldLb(job.live) \in Balancers
    BY <1>t, <2>1, OldFacts
  <2>3. job.live # 0 => rows[job.live].snap \in Snapshot
    BY <1>t, <2>1, RowFacts DEF TypeOK
  <2> QED BY <1>t, <2>2, <2>3, EngineSorts DEF Snapshot
<1>h. /\ job.snap.run /\ ("tunnel" \in stopped => job.snap.tun)
      /\ "lost" \notin Faults
  BY <1>t DEF StopInv, LeftDown, Heard
<1>d. /\ "lbChange" \in job.did => job.snap.le \notin stopped
      /\ "tunnel" \in job.did => "tunnel" \notin stopped
  BY <1>1 DEF StopInv, LeftDown, Inserted
<1>p. stopped \cap Proxies = {} /\ Down(ag, stopped)
  BY DEF StopInv, LeftDown
<1>c. ASSUME NEW c \in AgentCall, NEW r \in Replies, Send(c, r)
      PROVE  \A e \in stopped : (e = c.to /\ Wakes(c) => r # "ok") => Asleep(ag'[e])
  BY <1>t, <1>h, <1>p, <1>c, HeardSend DEF Down
<1>a. ASSUME NEW pc \in JobSteps, NEW did \in SUBSET Marks, Advance(pc, did)
      PROVE  job'.pc = pc /\ job'.snap = job.snap /\ job'.did = did
  BY <1>a, <1>t DEF Advance, Job
<1>g. ASSUME NEW pc \in JobSteps, Goto(pc)
      PROVE  job'.pc = pc /\ job'.snap = job.snap /\ job'.did = job.did
  BY <1>g, <1>t DEF Goto, Job
<1>l. /\ {"lbApply", "stop", "apply", "follow", "health", "promote"} \subseteq JobSteps
      /\ AfterLb \in {"stop", "apply"}
  BY DEF JobSteps, AfterLb
<1>2. ASSUME NEW r \in {"ok", "unavailable"}, StopOldLb(r) PROVE LeftDown'
  <2> DEFINE c == IF job.live = 0 THEN Call("stopOnly", OldLb(job.live), None)
                  ELSE Call("applyStop", OldLb(job.live), rows[job.live].snap.lh)
  <2>1. c \in AgentCall /\ ~Wakes(c) /\ r \in Replies
    BY ZenonT(60), <1>s, InstallFacts DEF Call, Wakes, Replies
  <2>2. Send(c, r) /\ stopped' = stopped
        /\ \E X \in {{"lbSwitch", "lbStop"}, {"lbSwitch"}} : Advance("lbApply", X)
    BY <1>2 DEF StopOldLb
  <2> HIDE DEF c
  <2>3. Down(ag', stopped')
    BY <1>c, <2>1, <2>2 DEF Down
  <2>4. job'.pc = "lbApply" /\ job'.snap = job.snap /\ job'.did \in {{"lbSwitch", "lbStop"}, {"lbSwitch"}}
    BY <1>a, <1>l, <2>2 DEF Marks
  <2> QED BY <1>1, <2>2, <2>3, <2>4, LeftOn
<1>3. ASSUME NEW r \in {"ok", "unavailable"}, StopOldProxy(r) PROVE LeftDown'
  <2> DEFINE c == IF job.live = 0 THEN Call("stopOnly", OldProxy(job.live), None)
                  ELSE Call("applyStop", OldProxy(job.live), rows[job.live].snap.ph)
  <2>1. c \in AgentCall /\ ~Wakes(c) /\ r \in Replies
    BY ZenonT(60), <1>s, InstallFacts DEF Call, Wakes, Replies
  <2>2. Send(c, r) /\ stopped' = stopped
        /\ \E X \in {{"switch", "stop", "start"}, {"switch", "start"}} : Advance("apply", job.did \cup X)
    BY <1>3 DEF StopOldProxy
  <2> HIDE DEF c
  <2>3. Down(ag', stopped')
    BY <1>c, <2>1, <2>2 DEF Down
  <2>4. /\ job'.pc = "apply" /\ job'.snap = job.snap
        /\ \E X \in {{"switch", "stop", "start"}, {"switch", "start"}} : job'.did = job.did \cup X
    <3>1. \A X \in {{"switch", "stop", "start"}, {"switch", "start"}} : job.did \cup X \in SUBSET Marks
      BY <1>t DEF Marks
    <3> QED BY <1>a, <1>l, <2>2, <3>1
  <2>5. /\ "lbChange" \in job'.did => job.snap.le \notin stopped'
        /\ "tunnel" \in job'.did => "tunnel" \notin stopped'
    BY <1>d, <2>2, <2>4
  <2> QED BY <1>1, <2>2, <2>3, <2>4, <2>5, LeftOn
<1>4. ASSUME NEW r \in Replies, ApplyLb(r) PROVE LeftDown'
  <2> DEFINE c == Install(job.snap.le, job.snap.lh, job.snap.run)
             before == IF LbSwitching THEN job.did \cup {"lbStart"} ELSE job.did
             after  == IF LbSwitching THEN before ELSE job.did \cup {"lbChange"}
  <2>1. c \in AgentCall /\ c.to = job.snap.le
    BY <1>s, InstallFacts
  <2>2. /\ Send(c, r)
        /\ IF r = "ok"
           THEN Advance(AfterLb, after) /\ stopped' = stopped \ {job.snap.le}
           ELSE FailWith(before) /\ stopped' = stopped
    BY <1>4, <1>h DEF ApplyLb
  <2> HIDE DEF c
  <2>3. /\ before \in SUBSET Marks /\ after \in SUBSET Marks
        /\ "lbChange" \in before => "lbChange" \in job.did
        /\ "tunnel" \in before => "tunnel" \in job.did
        /\ "tunnel" \in after => "tunnel" \in job.did
    BY <1>t DEF Marks
  <2> HIDE DEF before, after
  <2>4. Down(ag', stopped')
    BY <1>c, <2>1, <2>2 DEF Down
  <2>5. CASE r = "ok"
    <3>1. job'.pc = AfterLb /\ job'.snap = job.snap /\ job'.did = after
      BY <1>a, <1>l, <2>2, <2>3, <2>5
    <3> QED BY <1>1, <1>d, <1>l, <2>2, <2>3, <2>4, <2>5, <3>1, LeftOn
  <2>6. CASE r # "ok"
    BY <1>1, <1>d, <2>2, <2>3, <2>4, <2>6, LeftFail
  <2> QED BY <2>5, <2>6
<1>5. ASSUME NEW r \in Replies, ApplyProxy(r) PROVE LeftDown'
  <2> DEFINE c == Call("apply", job.snap.pe, job.snap.ph)
  <2>1. c \in AgentCall /\ c.to \notin stopped
    BY <1>p, <1>s, InstallFacts DEF Call
  <2>2. /\ Send(c, r) /\ stopped' = stopped
        /\ IF r = "ok" THEN Advance("follow", job.did \cup {"swap"}) ELSE FailWith(job.did)
    BY <1>5 DEF ApplyProxy
  <2> HIDE DEF c
  <2>3. Down(ag', stopped')
    BY <1>c, <2>1, <2>2 DEF Down
  <2>4. CASE r = "ok"
    <3>1. job.did \cup {"swap"} \in SUBSET Marks
      BY <1>t DEF Marks
    <3>2. job'.pc = "follow" /\ job'.snap = job.snap /\ job'.did = job.did \cup {"swap"}
      BY <1>a, <1>l, <2>2, <2>4, <3>1
    <3> QED BY <1>1, <1>d, <2>2, <2>3, <3>2, LeftOn
  <2>5. CASE r # "ok"
    BY <1>1, <1>d, <1>t, <2>2, <2>3, <2>5, LeftFail
  <2> QED BY <2>4, <2>5
<1>6. ASSUME NEW r \in Replies, ApplyTunnel(r) PROVE LeftDown'
  <2> DEFINE c == Install("tunnel", job.snap.th, job.snap.tun)
  <2>1. c \in AgentCall /\ c.to = "tunnel"
    BY <1>s, InstallFacts
  <2>2. /\ Send(c, r)
        /\ IF r = "ok"
           THEN Advance("health", job.did \cup {"tunnel"})
                /\ stopped' = IF job.snap.tun THEN stopped \ {"tunnel"} ELSE stopped
           ELSE FailWith(job.did) /\ stopped' = stopped
    BY <1>6 DEF ApplyTunnel
  <2> HIDE DEF c
  <2>3. r = "ok" => stopped' \subseteq stopped /\ "tunnel" \notin stopped'
    BY <1>h, <2>2
  <2>4. Down(ag', stopped')
    BY <1>c, <2>1, <2>2, <2>3 DEF Down
  <2>5. CASE r = "ok"
    <3>1. job.did \cup {"tunnel"} \in SUBSET Marks
      BY <1>t DEF Marks
    <3>2. job'.pc = "health" /\ job'.snap = job.snap /\ job'.did = job.did \cup {"tunnel"}
      BY <1>a, <1>l, <2>2, <2>5, <3>1
    <3> QED BY <1>1, <1>d, <2>3, <2>4, <2>5, <3>2, LeftOn
  <2>6. CASE r # "ok"
    BY <1>1, <1>d, <1>t, <2>2, <2>4, <2>6, LeftFail
  <2> QED BY <2>5, <2>6
<1>7. ASSUME PassLb \/ PassTunnel \/ HealthPasses \/ HealthFails PROVE LeftDown'
  <2>1. /\ stopped' = stopped /\ ag' = ag
        /\ FailWith(job.did) \/ \E pc \in {"stop", "apply", "health", "promote"} : Goto(pc)
    BY <1>7, <1>l DEF PassLb, PassTunnel, HealthPasses, HealthFails
  <2>2. Down(ag', stopped')
    BY <1>p, <2>1
  <2>3. CASE FailWith(job.did)
    BY <1>1, <1>d, <1>t, <2>1, <2>2, <2>3, LeftFail
  <2>4. ASSUME NEW pc \in {"stop", "apply", "health", "promote"}, Goto(pc) PROVE LeftDown'
    <3>1. job'.pc = pc /\ job'.snap = job.snap /\ job'.did = job.did
      BY <1>g, <1>l, <2>4
    <3> QED BY <1>1, <1>d, <2>1, <2>2, <3>1, LeftOn
  <2> QED BY <2>1, <2>3, <2>4
<1> QED BY <1>2, <1>3, <1>4, <1>5, <1>6, <1>7 DEF SwapStep

\* The steps of an apply.
LEMMA LeftJob ==
  ASSUME StopInv, JobStep
  PROVE  LeftDown'
<1>t. HistoryInv /\ TypeInv /\ TypeOK /\ job \in Job /\ job.undo \in Seq(AgentCall) /\ ~Docker
      /\ "lost" \notin Faults /\ stopped \in SUBSET Engine
  BY DEF StopInv, EditedInv, HistoryInv, TypeInv, TypeOK, Heard
<1>p. Down(ag, stopped) /\ LeftDown
  BY DEF StopInv, LeftDown
<1>e. EndJob => job'.pc = "idle" /\ job'.did = {}
  BY DEF EndJob, NoJob
<1>1. CASE SwapStep
  BY <1>1, LeftSwap
<1>2. ASSUME \/ ReadDraft \/ Promote \/ RecordFailure
             \/ \E r \in {"refused", "unavailable"} : ValidateFails(r)
      PROVE  LeftDown'
  <2>1. UNCHANGED <<ag, stopped, rec>>
    BY <1>2 DEF ReadDraft, Promote, RecordFailure, ValidateFails
  <2>2. CASE EndJob
    BY <1>e, <1>p, <2>1, <2>2, LeftRest
  <2>3. CASE ~EndJob
    <3>1. job.pc = "read" /\ job' = [job EXCEPT !.pc = "proxy", !.snap = draft, !.live = Live]
      BY <1>2, <2>3 DEF ReadDraft, Promote, RecordFailure, ValidateFails
    <3>2. job'.pc = "proxy" /\ job'.did = {}
      BY <1>p, <1>t, <3>1 DEF LeftDown, Job
    <3> QED BY <1>p, <2>1, <3>2, LeftRest
  <2> QED BY <2>2, <2>3
<1>3. ASSUME CheckProxy \/ CheckLb \/ CheckTunnel \/ InsertDraft
      PROVE  LeftDown'
  <2>1. /\ UNCHANGED <<ag, stopped, rec>>
        /\ job'.did = job.did /\ job'.snap = job.snap /\ job.pc # "idle" /\ job'.pc \notin {"read", "undo"}
    BY ZenonT(60), <1>3, <1>t DEF CheckProxy, CheckLb, CheckTunnel, InsertDraft, Goto, Job
  <2> QED BY <2>1, <1>p DEF LeftDown
<1>4. ASSUME NEW e \in Engine, EnsureEngine(e) PROVE FALSE
  BY <1>4, <1>t DEF EnsureEngine, Bring
<1>5. ASSUME NEW r \in Replies, UndoStep(r) PROVE LeftDown'
  <2> DEFINE c == Head(job.undo)
             Q == Sparing(stopped)
  <2>1. /\ Send(c, r) /\ UNCHANGED <<stopped, rec>> /\ job.pc = "undo" /\ job.undo # <<>>
        /\ job'.pc = "undo" /\ job'.snap = job.snap /\ job'.did = job.did /\ job'.undo = Tail(job.undo)
    BY <1>5, <1>t DEF UndoStep, Job
  <2>2. job.undo \in Seq(Q)
    BY <2>1, <1>p DEF LeftDown
  <2>3. c \in Q /\ Tail(job.undo) \in Seq(Q)
    <3> HIDE DEF Q
    <3> QED BY <2>1, <2>2
  <2>4. c \in AgentCall /\ (Wakes(c) => c.to \notin stopped)
    BY <2>3 DEF Sparing
  <2> HIDE DEF c
  <2>5. Down(ag', stopped)
    BY <1>p, <1>t, <2>1, <2>4, HeardSend DEF Down
  <2> QED BY <1>p, <2>1, <2>3, <2>5 DEF LeftDown
<1> QED BY <1>1, <1>2, <1>3, <1>4, <1>5 DEF JobStep, SwapStep

\* The steps of a reconcile.
LEMMA LeftReconcile ==
  ASSUME StopInv, Reconcile
  PROVE  LeftDown'
<1>t. HistoryInv /\ TypeInv /\ TypeOK /\ rec \in Rec /\ rec.todo \in Seq(AgentCall \cup ContainerCall) /\ ~Docker
      /\ "lost" \notin Faults /\ stopped \in SUBSET Engine
  BY DEF StopInv, EditedInv, HistoryInv, TypeInv, TypeOK, Heard
<1>p. Down(ag, stopped) /\ LeftDown /\ stopped \cap Proxies = {}
  BY DEF StopInv, LeftDown
<1>n. NoRec.pc = "idle"
  BY DEF NoRec
<1>r. ASSUME rec.pc = "run"
      PROVE  /\ Head(rec.todo) \in AgentCall
             /\ Wakes(Head(rec.todo)) => Head(rec.todo).to \notin stopped
             /\ Tail(rec.todo) \in Seq(Sparing(stopped))
  <2> DEFINE Q == Sparing(stopped)
  <2>1. rec.todo \in Seq(Q) /\ rec.todo # <<>>
    BY <1>p, <1>r, <1>t DEF LeftDown, TypeInv
  <2>2. Head(rec.todo) \in Q /\ Tail(rec.todo) \in Seq(Q)
    <3> HIDE DEF Q
    <3> QED BY <2>1
  <2> QED BY <2>2 DEF Sparing
<1>1. CASE ReconcileStatus
  <2>1. rec'.pc = "lock" /\ UNCHANGED <<stopped, ag, job>>
    BY <1>1, <1>t DEF ReconcileStatus, Rec
  <2> QED BY <1>p, <2>1, LeftRest
<1>2. CASE ReconcileLock
  <2>1. UNCHANGED <<stopped, ag, job>>
    BY <1>2 DEF ReconcileLock
  <2>2. CASE rec' = NoRec
    BY <1>n, <1>p, <2>1, <2>2, LeftRest
  <2>3. CASE rec' # NoRec
    <3>1. Live # 0 /\ rec' = [NoRec EXCEPT !.pc = "run", !.todo = Corrections(rec.seen)]
      BY <1>2, <2>3 DEF ReconcileLock
    <3>2. rec'.todo = Corrections(rec.seen)
      BY <3>1 DEF NoRec
    <3>3. rec'.todo \in Seq(Sparing(stopped))
      BY <1>p, <1>t, <3>1, <3>2, SparingCorrections
    <3> QED BY <1>p, <2>1, <3>3 DEF LeftDown
  <2> QED BY <2>2, <2>3
<1>3. ASSUME NEW r \in {"ok", "unavailable"}, ReconcileCall(r) PROVE LeftDown'
  <2> DEFINE c == Head(rec.todo)
  <2>1. rec.pc = "run" /\ Send(c, r) /\ UNCHANGED <<stopped, job>> /\ r \in Replies
    BY <1>3 DEF ReconcileCall, Replies
  <2>2. rec' = NoRec \/ rec'.todo = Tail(rec.todo)
    BY <1>3, <1>t DEF ReconcileCall, NextCall, Rec
  <2>3. c \in AgentCall /\ (Wakes(c) => c.to \notin stopped) /\ Tail(rec.todo) \in Seq(Sparing(stopped))
    BY <1>r, <2>1
  <2> HIDE DEF c
  <2>4. Down(ag', stopped)
    BY <1>p, <1>t, <2>1, <2>3, HeardSend DEF Down
  <2>5. rec'.pc = "run" => rec'.todo \in Seq(Sparing(stopped))
    BY <1>n, <2>2, <2>3
  <2> QED BY <1>p, <2>1, <2>4, <2>5 DEF LeftDown
<1>4. ASSUME ReconcileContainer PROVE FALSE
  <2>1. rec.pc = "run" /\ Head(rec.todo).do \in {"ctrStart", "ctrStop"}
    BY <1>4 DEF ReconcileContainer
  <2> QED BY <1>r, <2>1 DEF AgentCall
<1> QED BY <1>1, <1>2, <1>3, <1>4 DEF Reconcile

\* An admin starts an engine, which is then not on the list, or stops one.
LEMMA LeftAdmin ==
  ASSUME StopInv, AdminAction
  PROVE  LeftDown'
<1>t. TypeOK /\ ~Docker /\ stopped \in SUBSET Engine /\ Managed \subseteq Engine
  BY PipelineAssumption DEF StopInv, EditedInv, HistoryInv, TypeInv, TypeOK, Heard
<1>p. Down(ag, stopped) /\ LeftDown
  BY DEF StopInv, LeftDown
<1>1. ASSUME NEW e \in Managed, AdminStart(e) PROVE LeftDown'
  <2>1. /\ UNCHANGED <<job, rec>> /\ job.pc = "idle" /\ rec.pc # "run" /\ stopped' = stopped \ {e}
        /\ \E a : ag' = [ag EXCEPT ![e] = a]
    BY <1>1 DEF AdminStart, Unlocked
  <2>2. \A x \in Engine : x # e => ag'[x] = ag[x]
    BY <1>t, <2>1 DEF TypeOK
  <2>3. Down(ag', stopped')
    BY <1>p, <1>t, <2>1, <2>2 DEF Down
  <2> QED BY <1>p, <2>1, <2>3 DEF LeftDown
<1>2. ASSUME NEW e \in Managed, AdminStop(e) PROVE LeftDown'
  <2>1. /\ UNCHANGED <<job, rec>> /\ job.pc = "idle" /\ rec.pc # "run"
        /\ stopped' = IF e \in Proxies THEN stopped ELSE stopped \cup {e}
    BY <1>2 DEF AdminStop, Unlocked
  <2>2. up[e] /\ e \in Engine
    BY <1>t DEF StopInv
  <2>3. ag' = [ag EXCEPT ![e] = Done(ag[e], "stop", None, AlwaysOn(e))]
    BY <1>2, <2>2, <1>t DEF AdminStop, TypeOK
  <2>4. ag[e] \in AgentState /\ AlwaysOn(e) \in BOOLEAN /\ ag[e].store \in Store
    BY <1>t, <2>2 DEF TypeOK, AlwaysOn, AgentState
  <2>5. Asleep(ag[e]) => Asleep(Done(ag[e], "stop", None, AlwaysOn(e)))
    BY <2>4, SleepFacts
  <2>6. e \notin Proxies => Asleep(Done(ag[e], "stop", None, AlwaysOn(e)))
    <3>1. Marked(ag[e].store, TRUE).stopped
      BY <2>4, StoppedStore DEF Marked, Store
    <3> QED BY <3>1 DEF Done, AlwaysOn, Halted, Asleep
  <2>7. \A x \in Engine : x # e => ag'[x] = ag[x]
    BY <1>t, <2>3 DEF TypeOK
  <2>8. ag'[e] = Done(ag[e], "stop", None, AlwaysOn(e))
    BY <1>t, <2>2, <2>3 DEF TypeOK
  <2>9. Down(ag', stopped')
    BY <1>p, <1>t, <2>1, <2>5, <2>6, <2>7, <2>8 DEF Down
  <2>10. stopped' \cap Proxies = {} /\ ("tunnel" \in stopped' => "tunnel" \in Managed)
    BY <1>p, <2>1 DEF LeftDown
  <2> QED BY <1>p, <2>1, <2>9, <2>10 DEF LeftDown
<1> QED BY <1>1, <1>2 DEF AdminAction

\* At first nothing has been stopped.
LEMMA StopInit == Heard /\ Init => StopInv
<1> SUFFICES ASSUME Heard, Init PROVE StopInv
  OBVIOUS
<1>1. AnySnapshot \in Snapshots
  BY PipelineAssumption DEF AnySnapshot
<1>2. EditedInv
  BY <1>1, HistoryInit DEF EditedInv, Init, NoJob
<1>3. LeftDown
  BY DEF LeftDown, Down, Init, NoJob, NoRec
<1> QED BY <1>2, <1>3 DEF StopInv, Init

\* Every step leaves down what an admin stopped.
LEMMA StopNext == StopInv /\ [Next]_vars => StopInv'
<1> SUFFICES ASSUME StopInv, [Next]_vars PROVE StopInv'
  OBVIOUS
<1>t. EditedInv' /\ TypeInv /\ TypeOK /\ ~Docker /\ stopped \in SUBSET Engine
  BY EditedNext DEF StopInv, EditedInv, HistoryInv, TypeInv, TypeOK, Heard
<1>p. Down(ag, stopped) /\ LeftDown
  BY DEF StopInv, LeftDown
<1>h. Heard'
  BY DEF StopInv, Heard
<1>u. \A e \in Engine : up'[e]
  <2>1. CASE JobStep
    BY <1>t, <2>1, JobStepFacts DEF StopInv
  <2>2. ASSUME NEW e \in Managed, AdminStart(e) \/ AdminStop(e) PROVE \A x \in Engine : up'[x]
    <3>1. up' = up \/ up' = [up EXCEPT ![e] = TRUE]
      BY <1>t, <2>2 DEF AdminStart, AdminStop
    <3> QED BY <1>t, <3>1 DEF StopInv, TypeOK
  <2>3. CASE ReconcileContainer
    <3>1. /\ rec.pc = "run" /\ Head(rec.todo).do \in {"ctrStart", "ctrStop"}
          /\ rec.todo \in Seq(Sparing(stopped)) /\ rec.todo # <<>>
      BY <1>p, <1>t, <2>3 DEF ReconcileContainer, LeftDown, TypeInv
    <3> DEFINE Q == Sparing(stopped)
    <3>2. rec.todo \in Seq(Q)
      BY <3>1
    <3>3. Head(rec.todo) \in Q
      <4> HIDE DEF Q
      <4> QED BY <3>1, <3>2
    <3> QED BY <3>1, <3>3 DEF Sparing, AgentCall
  <2>4. ASSUME \/ Begin \/ Discard \/ Crash \/ ReconcileStatus \/ ReconcileLock
               \/ \E r \in {"ok", "unavailable"} : ReconcileCall(r)
               \/ \E s \in Snapshots : Edit(s)
               \/ \E e \in Engine : EngineExits(e) \/ EngineReturns(e) \/ AgentRestarts(e)
               \/ UNCHANGED vars
        PROVE  up' = up
    BY ZenonT(60), <2>4 DEF Begin, ApplyBegin, RollbackBegin, Discard, Crash, ReconcileStatus,
                ReconcileLock, ReconcileCall, Edit, EngineExits, EngineReturns, AgentRestarts, vars
  <2> QED BY <2>1, <2>2, <2>3, <2>4 DEF Next, Reconcile, AdminAction, Environment, StopInv
<1>1. CASE Begin
  <2>1. UNCHANGED <<ag, stopped, rec>> /\ job'.pc = "read" /\ job'.did = {}
    BY <1>1 DEF Begin, ApplyBegin, RollbackBegin, NoJob
  <2>2. LeftDown'
    BY <1>p, <2>1, LeftRest
  <2> QED BY <1>h, <1>t, <1>u, <2>2 DEF StopInv
<1>2. CASE JobStep
  BY <1>2, <1>h, <1>t, <1>u, LeftJob DEF StopInv
<1>3. CASE Reconcile
  BY <1>3, <1>h, <1>t, <1>u, LeftReconcile DEF StopInv
<1>4. CASE AdminAction
  BY <1>4, <1>h, <1>t, <1>u, LeftAdmin DEF StopInv
<1>5. ASSUME Discard \/ (\E s \in Snapshots : Edit(s)) \/ UNCHANGED vars PROVE StopInv'
  <2>1. UNCHANGED <<job, ag, stopped, rec>>
    BY <1>5 DEF Discard, Edit, vars
  <2>2. LeftDown'
    BY <1>p, <2>1, LeftRest
  <2> QED BY <1>h, <1>t, <1>u, <2>2 DEF StopInv
<1>6. ASSUME NEW e \in Engine, EngineExits(e) \/ EngineReturns(e) \/ AgentRestarts(e)
      PROVE  StopInv'
  <2>1. UNCHANGED <<job, stopped, rec>>
    BY <1>6 DEF EngineExits, EngineReturns, AgentRestarts
  <2>2. ag[e] \in AgentState
    BY <1>t DEF TypeOK
  <2>3. \/ ag' = [ag EXCEPT ![e].proc = None]
        \/ ag[e].want /\ ag' = [ag EXCEPT ![e].proc = ag[e].store.current]
        \/ ag' = [ag EXCEPT ![e] = Booted(ag[e])]
    BY <1>6, <1>t DEF EngineExits, EngineReturns, AgentRestarts, TypeOK
  <2>4. Asleep(ag[e]) => Asleep(Booted(ag[e]))
    BY <2>2, SleepFacts
  <2>5. Asleep(ag[e]) => Asleep(ag'[e])
    BY <2>2, <2>3, <2>4, <1>t DEF Asleep, AgentState, TypeOK
  <2>6. \A x \in Engine : x # e => ag'[x] = ag[x]
    BY <2>3, <1>t DEF TypeOK
  <2>7. Down(ag', stopped)
    BY <1>p, <1>t, <2>5, <2>6 DEF Down
  <2>8. LeftDown'
    BY <1>p, <2>1, <2>7, LeftRest
  <2> QED BY <1>h, <1>t, <1>u, <2>8 DEF StopInv
<1>7. CASE Crash
  <2>1. UNCHANGED <<ag, stopped>> /\ job'.pc = "idle" /\ job'.did = {} /\ rec'.pc = "idle"
    BY <1>7 DEF Crash, EndJob, NoJob, NoRec
  <2>2. LeftDown'
    BY <1>p, <2>1, LeftRest
  <2> QED BY <1>h, <1>t, <1>u, <2>2 DEF StopInv
<1> QED BY <1>1, <1>2, <1>3, <1>4, <1>5, <1>6, <1>7 DEF Next, Environment

\* Heard /\ Spec => []AdminStopHolds: an engine an admin stopped is down until an admin or
\* a new version starts it, whatever fails, exits, restarts, is taken back or reconciled
\* meanwhile, and when the relay app crashes in an apply or a reconcile.
\* (kvStoppedEngines, LbWanted, failAfterSwap, reconcile)
THEOREM StopsHold == Heard /\ Spec => []AdminStopHolds
<1>1. StopInv => AdminStopHolds
  BY DEF StopInv, LeftDown, Down, Asleep, Running, AdminStopHolds
<1> QED BY StopInit, StopNext, <1>1, PTL DEF Spec
=============================================================================
