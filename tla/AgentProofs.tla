---------------------------- MODULE AgentProofs ----------------------------
(***************************************************************************)
(* Agent, for every set of releases, every bound of the release store and  *)
(* kills of the agent at any step.  For every combination of faults:       *)
(*                                                                         *)
(*   TypeCorrect         Spec => []TypeOK                                  *)
(*   BootFindsIt         Spec => []CurrentPresent                          *)
(*   StopHolds           Spec => []StoppedStaysDown                        *)
(*                                                                         *)
(* as long as starting the engine process does not fail:                   *)
(*                                                                         *)
(*   RestartIsScheduled  Spec => []WantedIsRestarted                       *)
(*                                                                         *)
(* and as long as no file operation fails and a release that was loaded    *)
(* before is not rejected later (a failed file operation leaves an apply   *)
(* where it stands, and the code goes on from there):                      *)
(*                                                                         *)
(*   AnswersHold              Spec => []AnswerHolds                        *)
(*   AgentImplementsContract  Spec => RequestsAreAtomic                    *)
(*                                                                         *)
(* and, when the agent is not killed either and a store keeps the release  *)
(* before the active one:                                                  *)
(*                                                                         *)
(*   RollbackGoesBack         Spec => []RollbackUndoes                     *)
(***************************************************************************)
EXTENDS Agent, ReleasesProofs

\* the steps of a request that belong to a release: before its load, and after
\* a failed one
Applying  == {"write", "validate", "swap", "record", "mark"}
Reverting == {"unswap", "unrecord", "resume"}
Returning == {"rewind", "rerecord", "unmark"}
Loading   == {"load", "spawn", "settle"}
Booting   == {"boot", "bootSwap", "bootMark", "bootStart"}

\* an apply that may still have to go back to the release it found
Undoable == op.pc \in Applying \cup {"unswap"} \/ (op.pc \in Loading /\ op.phase = "new")

\* A request at work knows its kind, and which release it writes.
OpKnown ==
    /\ op.pc \notin Booting \cup {"idle"} => op.req \in Requests
    /\ op.pc \in Applying => op.phase = "new"
    /\ op.pc \in Returning => op.phase = "rollback"
    /\ op.pc \in Applying \cup Reverting \cup Returning => op.hash \in Release
    /\ op.pc \in Loading /\ op.phase = "new" => op.hash \in Release

TypeInv == TypeOK /\ OpKnown

\* supervisor.op when no request holds it.
LEMMA IdleFacts ==
  /\ IdleOp \in Op
  /\ IdleOp.pc = "idle" /\ IdleOp.died = FALSE /\ IdleOp.phase = "manual"
<1>1. EmptyStore \in Store
  BY DEF EmptyStore, Store
<1> QED BY <1>1 DEF IdleOp, Op, Steps, Phases

\* Going on to the next step of a request changes nothing else about it.
LEMMA GotoFacts ==
  ASSUME op \in Op, NEW pc \in Steps, Goto(pc)
  PROVE  /\ op' \in Op
         /\ op'.pc = pc /\ op'.req = op.req /\ op'.hash = op.hash /\ op'.phase = op.phase
         /\ op'.before = op.before /\ op'.died = op.died /\ op'.wanted = op.wanted
BY DEF Op, Goto

\* A handler that takes supervisor.op starts a well-formed request.
LEMMA BeginFacts ==
  ASSUME store \in Store, want \in BOOLEAN, NEW req \in Requests,
         NEW h \in Release \cup {None}, NEW pc \in Steps, NEW phase \in Phases,
         Begin(req, h, pc, phase)
  PROVE  /\ op' \in Op
         /\ op'.pc = pc /\ op'.hash = h /\ op'.phase = phase /\ op'.before = store
         /\ op'.req = req /\ op'.died = FALSE
BY DEF Op, Begin

\* What an operation in progress looks like to the typing of its answer.
LEMMA FinishFacts ==
  ASSUME op \in Op, op.req \in Requests, NEW ok \in BOOLEAN, Finish(ok)
  PROVE  op' = IdleOp /\ answer' \in Answer \cup {None}
<1>1. op.before.current \in Release \cup {None}
  BY DEF Op, Store
<1> QED BY <1>1 DEF Finish, Answer, Op, Prev

\* A start that fails makes an apply go back, and ends any other request.
LEMMA StartFailedFacts ==
  ASSUME op \in Op, op.req \in Requests, StartFailed
  PROVE  \/ /\ op.phase = "new" /\ op' \in Op /\ op'.pc = "unswap" /\ op'.phase = "new"
            /\ op'.req = op.req /\ op'.hash = op.hash /\ op'.before = op.before
            /\ answer' = answer
         \/ op.phase # "new" /\ op' = IdleOp /\ answer' \in Answer \cup {None}
<1>1. CASE op.phase = "new"
  <2>1. op' = [op EXCEPT !.pc = "unswap", !.died = TRUE] /\ answer' = answer
    BY <1>1 DEF StartFailed
  <2>2. "unswap" \in Steps
    BY DEF Steps
  <2> QED BY <1>1, <2>1, <2>2 DEF Op
<1>2. CASE op.phase # "new"
  BY <1>2, FinishFacts DEF StartFailed
<1> QED BY <1>1, <1>2

\* A load that worked lets an apply go on, and ends any other request.
LEMMA LoadWorkedFacts ==
  ASSUME op \in Op, op.req \in Requests, LoadWorked
  PROVE  \/ /\ op.phase = "new" /\ op' \in Op /\ op'.pc = "prune" /\ op'.phase = "new"
            /\ op'.req = op.req /\ op'.hash = op.hash /\ op'.before = op.before
            /\ answer' = answer
         \/ op.phase # "new" /\ op' = IdleOp /\ answer' \in Answer \cup {None}
<1>1. CASE op.phase = "new"
  <2>1. "prune" \in Steps
    BY DEF Steps
  <2> QED BY <1>1, <2>1, GotoFacts DEF LoadWorked
<1>2. CASE op.phase # "new"
  <2>1. (op.phase # "revert") \in BOOLEAN
    OBVIOUS
  <2> QED BY <1>2, <2>1, FinishFacts DEF LoadWorked
<1> QED BY <1>1, <1>2

\* The agent starts in a well-formed state, at the first step of boot.
LEMMA TypeInit == Init => TypeInv
<1> SUFFICES ASSUME Init PROVE TypeInv
  OBVIOUS
<1>1. EmptyStore \in Store
  BY DEF EmptyStore, Store
<1>2. op \in Op /\ op.pc = "boot"
  BY IdleFacts DEF Init, Op, Steps
<1> QED
  BY <1>1, <1>2 DEF Init, TypeInv, TypeOK, OpKnown, Applying, Reverting, Returning, Loading, Booting

\* No step of a request, of the supervisor or of boot leaves the typed states.
LEMMA TypeNext == TypeInv /\ [Next]_vars => TypeInv'
<1> SUFFICES ASSUME TypeInv, [Next]_vars PROVE TypeInv'
  OBVIOUS
<1> USE DEF TypeInv, TypeOK, OpKnown, Applying, Reverting, Returning, Loading, Booting,
            Idle, Running
<1>s. /\ store.current \in Release \cup {None}
      /\ store.stopped \in BOOLEAN
      /\ Prev \in Release \cup {None}
      /\ Hash \subseteq Release
      /\ Boot \in Release
  BY DEF Store, Op, Prev, Release
<1>p. Previous(store) \in Release \cup {None}
  BY PreviousOnDisk DEF Store
<1>l. /\ {"apply", "applyStop", "stopOnly", "rollback", "start", "stop", "reload"} \subseteq Requests
      /\ {"write", "validate", "swap", "record", "mark", "prune", "trim", "load",
          "spawn", "settle", "unswap", "unrecord", "resume", "halt", "halted",
          "rewind", "rerecord", "unmark"} \subseteq Steps
      /\ {"idle", "boot", "bootSwap", "bootMark", "bootStart"} \subseteq Steps
      /\ {"new", "revert", "rollback", "manual"} \subseteq Phases
  BY DEF Requests, Steps, Phases
<1>i. op' = IdleOp => op' \in Op /\ op'.pc = "idle"
  BY IdleFacts
<1>1. ASSUME NEW h \in Hash, ApplyUnusable(h) PROVE TypeInv'
  BY <1>1, <1>s, <1>l DEF ApplyUnusable, Reply, Answer
<1>2. ASSUME NEW h \in Hash, ApplyActive(h) PROVE TypeInv'
  BY <1>2, <1>s, <1>l DEF ApplyActive, Reply, Answer
<1>3. ASSUME NEW h \in Hash, ApplyBegin(h) PROVE TypeInv'
  <2>1. /\ op' \in Op /\ op'.pc = "write" /\ op'.hash = h
        /\ op'.phase = "new" /\ op'.req = "apply"
    BY ZenonT(60), <1>3, <1>l, <1>s, BeginFacts DEF ApplyBegin
  <2> QED BY <2>1, <1>3, <1>s, <1>l DEF ApplyBegin
<1>4. ASSUME NEW h \in Hash, ApplyStopBegin(h) PROVE TypeInv'
  <2>1. /\ op' \in Op /\ op'.pc = "write" /\ op'.hash = h
        /\ op'.phase = "new" /\ op'.req = "applyStop"
    BY ZenonT(60), <1>4, <1>l, <1>s, BeginFacts DEF ApplyStopBegin
  <2> QED BY <2>1, <1>4, <1>s, <1>l DEF ApplyStopBegin
<1>5. ASSUME StopOnlyBegin PROVE TypeInv'
  <2>1. /\ op' \in Op /\ op'.pc = "halt" /\ op'.hash = None
        /\ op'.phase = "new" /\ op'.req = "stopOnly"
    <3>1. Begin("stopOnly", None, "halt", "new") /\ store \in Store /\ want \in BOOLEAN
      BY <1>5 DEF StopOnlyBegin
    <3> QED BY ONLY <3>1, <1>l, BeginFacts
  <2>2. store' \in Store
    <3>1. store' = Marked(store, TRUE) /\ store \in Store
      BY <1>5 DEF StopOnlyBegin
    <3> QED BY ONLY <3>1 DEF Marked, Store
  <2>3. want' = FALSE /\ timer' = FALSE /\ proc' = proc /\ answer' = answer
    BY <1>5 DEF StopOnlyBegin, Unwant
  <2>4. TypeOK'
    BY <2>1, <2>2, <2>3
  <2>5. OpKnown'
    BY ONLY <2>1, <1>l DEF OpKnown, Applying, Reverting, Returning, Loading, Booting
  <2> QED BY <2>4, <2>5
<1>6. ASSUME RollbackNone PROVE TypeInv'
  BY <1>6, <1>s, <1>l DEF RollbackNone, Reply, Answer
<1>7. ASSUME RollbackBegin PROVE TypeInv'
  <2>1. /\ op' \in Op /\ op'.pc = "rewind" /\ op'.hash = Previous(store)
        /\ op'.phase = "rollback" /\ op'.req = "rollback"
    BY ZenonT(60), <1>7, <1>l, <1>p, BeginFacts DEF RollbackBegin
  <2> QED BY <2>1, <1>7, <1>p, <1>l DEF RollbackBegin
<1>8. ASSUME StartNothing PROVE TypeInv'
  BY <1>8, <1>s, <1>l DEF StartNothing, Reply, Answer
<1>9. ASSUME StartBegin PROVE TypeInv'
  <2>1. /\ op' \in Op /\ op'.pc = "spawn" /\ op'.hash = None
        /\ op'.phase = "manual" /\ op'.req = "start"
    BY ZenonT(60), <1>9, <1>l, BeginFacts DEF StartBegin
  <2> QED BY <2>1, <1>9, <1>l, StoreOperations, <1>s DEF StartBegin
<1>10. ASSUME StopBegin PROVE TypeInv'
  <2>1. /\ op' \in Op /\ op'.pc = "halt" /\ op'.hash = None
        /\ op'.phase = "manual" /\ op'.req = "stop"
    BY ZenonT(60), <1>10, <1>l, BeginFacts DEF StopBegin
  <2> QED BY <2>1, <1>10, <1>l DEF StopBegin, Unwant
<1>11. ASSUME ReloadDown PROVE TypeInv'
  BY <1>11, <1>s, <1>l DEF ReloadDown, Reply, Answer
<1>12. ASSUME ReloadBegin PROVE TypeInv'
  <2>1. /\ op' \in Op /\ op'.pc = "load" /\ op'.hash = None
        /\ op'.phase = "manual" /\ op'.req = "reload"
    BY ZenonT(60), <1>12, <1>l, BeginFacts DEF ReloadBegin
  <2> QED BY <2>1, <1>12, <1>l DEF ReloadBegin
<1>13. ASSUME Write PROVE TypeInv'
  BY ZenonT(60), <1>13, <1>s, <1>l, GotoFacts, StoreOperations DEF Write
<1>14. ASSUME NEW ok \in BOOLEAN, Validate(ok) PROVE TypeInv'
  BY <1>14, <1>s, <1>l, GotoFacts, <1>i, FinishFacts, StoreOperations DEF Validate
<1>15. ASSUME Swap PROVE TypeInv'
  BY SMTT(60), <1>15, <1>s, <1>l, GotoFacts, StoreOperations DEF Swap
<1>16. ASSUME Record PROVE TypeInv'
  BY SMTT(60), <1>16, <1>s, <1>l, GotoFacts, StoreOperations DEF Record
<1>17. ASSUME Mark PROVE TypeInv'
  <2>1. op.pc = "mark" /\ op.req \in Requests /\ op.hash \in Release /\ op.phase = "new"
    BY <1>17 DEF Mark
  <2>2. store' \in Store /\ proc' = proc /\ answer' = answer
    BY <1>17, StoreOperations DEF Mark
  <2>3. want' \in BOOLEAN /\ timer' \in BOOLEAN
    BY <1>17 DEF Mark, Unwant
  <2>4. /\ op' \in Op /\ op'.pc \in {"halt", "load", "spawn"} /\ op'.req = op.req
        /\ op'.hash = op.hash /\ op'.phase = op.phase
    <3>1. CASE op.req = "applyStop"
      BY <3>1, <1>17, <1>l, GotoFacts DEF Mark
    <3>2. CASE op.req # "applyStop"
      <4>1. /\ op' = [op EXCEPT !.wanted = want, !.pc = IF Running THEN "load" ELSE "spawn"]
            /\ op \in Op /\ want \in BOOLEAN
        BY <3>2, <1>17 DEF Mark
      <4> QED BY ONLY <4>1, <1>l DEF Op
    <3> QED BY <3>1, <3>2
  <2>5. TypeOK'
    BY <2>2, <2>3, <2>4
  <2>6. OpKnown'
    BY ONLY <2>1, <2>4 DEF OpKnown, Applying, Reverting, Returning, Loading, Booting
  <2> QED BY <2>5, <2>6
<1>18. ASSUME ApplyFault PROVE TypeInv'
  <2>1. op.pc \in {"write", "swap", "record"} /\ Finish(FALSE)
    BY ONLY <1>18 DEF ApplyFault
  <2>2. op.req \in Requests
    BY <2>1
  <2>3. op' = IdleOp /\ answer' \in Answer \cup {None}
    BY <2>1, <2>2, FinishFacts
  <2>4. UNCHANGED <<store, proc, want, timer>>
    BY ONLY <1>18 DEF ApplyFault
  <2>5. TypeOK'
    BY <2>3, <2>4, <1>i
  <2>6. op'.pc = "idle"
    BY <2>3, <1>i
  <2>7. OpKnown'
    BY ONLY <2>6 DEF OpKnown, Applying, Reverting, Returning, Loading, Booting
  <2> QED BY <2>5, <2>7
<1>19. ASSUME Prune PROVE TypeInv'
  BY <1>19, <1>s, <1>l, GotoFacts, StoreOperations DEF Prune
<1>20. ASSUME Trim PROVE TypeInv'
  BY <1>20, <1>s, <1>l, <1>i, FinishFacts, StoreOperations DEF Trim
<1>21. ASSUME LoadAccepted PROVE TypeInv'
  BY <1>21, <1>s, <1>l, GotoFacts, <1>i, FinishFacts DEF LoadAccepted, LoadWorked
<1>22. ASSUME LoadRejected PROVE TypeInv'
  BY <1>22, <1>s, <1>l, GotoFacts, <1>i, FinishFacts DEF LoadRejected, LoadFailed
<1>23. ASSUME LoadLate PROVE TypeInv'
  BY <1>23, <1>s, <1>l, GotoFacts, <1>i, FinishFacts DEF LoadLate, LoadFailed
<1>24. ASSUME LoadGone PROVE TypeInv'
  BY ZenonT(60), <1>24, <1>s, <1>l, GotoFacts, <1>i, FinishFacts DEF LoadGone, LoadFailed
<1>25. ASSUME Spawn PROVE TypeInv'
  BY ZenonT(60), <1>25, <1>s, <1>l, GotoFacts DEF Spawn
<1>26. ASSUME SpawnError PROVE TypeInv'
  <2>1. /\ op.req \in Requests /\ StartFailed
        /\ op.phase = "new" => op.hash \in Release
    BY <1>26 DEF SpawnError
  <2>2. want' = FALSE /\ timer' = FALSE /\ store' = store /\ proc' = proc
    BY <1>26 DEF SpawnError, Unwant
  <2> QED BY <2>1, <2>2, StartFailedFacts, <1>i
<1>27. ASSUME Settle PROVE TypeInv'
  <2>1. /\ op.req \in Requests /\ (LoadWorked \/ StartFailed)
        /\ op.phase = "new" => op.hash \in Release
        /\ want' \in BOOLEAN /\ timer' \in BOOLEAN /\ store' = store /\ proc' = proc
    BY <1>27 DEF Settle, Unwant
  <2> QED BY <2>1, StartFailedFacts, LoadWorkedFacts, <1>i
<1>28. ASSUME Unswap PROVE TypeInv'
  BY ZenonT(60), <1>28, <1>s, <1>l, GotoFacts, StoreOperations DEF Unswap
<1>29. ASSUME Unrecord PROVE TypeInv'
  BY SMTT(60), <1>29, <1>s, <1>l, GotoFacts, StoreOperations DEF Unrecord
<1>30. ASSUME RevertFault PROVE TypeInv'
  BY <1>30, <1>s, <1>l, GotoFacts DEF RevertFault
<1>31. ASSUME ResumeLoaded PROVE TypeInv'
  BY ZenonT(60), <1>31, <1>s, <1>l DEF ResumeLoaded, Revert, Op
<1>32. ASSUME ResumeStarted PROVE TypeInv'
  BY ZenonT(60), <1>32, <1>s, <1>l DEF ResumeStarted, Revert, Op
<1>33. ASSUME ResumeDown PROVE TypeInv'
  BY <1>33, <1>s, <1>l, <1>i, FinishFacts, StoreOperations DEF ResumeDown, Unwant
<1>34. ASSUME Rewind PROVE TypeInv'
  BY <1>34, <1>s, <1>l, GotoFacts, StoreOperations DEF Rewind
<1>35. ASSUME Rerecord PROVE TypeInv'
  BY <1>35, <1>s, <1>l, GotoFacts, StoreOperations DEF Rerecord
<1>36. ASSUME RollbackFault PROVE TypeInv'
  BY <1>36, <1>s, <1>l, <1>i, FinishFacts DEF RollbackFault
<1>37. ASSUME Unmark PROVE TypeInv'
  BY ZenonT(60), <1>37, <1>s, <1>l, GotoFacts, StoreOperations DEF Unmark
<1>38. ASSUME Halt PROVE TypeInv'
  BY <1>38, <1>s, <1>l, GotoFacts DEF Halt
<1>39. ASSUME Halted PROVE TypeInv'
  BY <1>39, <1>s, <1>l, <1>i, FinishFacts, StoreOperations DEF Halted
<1>40. ASSUME Boots PROVE TypeInv'
  BY SMTT(60), <1>40, <1>s, <1>l, GotoFacts, StoreOperations DEF Boots
<1>41. ASSUME BootSwap PROVE TypeInv'
  BY ZenonT(60), <1>41, <1>s, <1>l, GotoFacts, StoreOperations DEF BootSwap
<1>42. ASSUME BootMark PROVE TypeInv'
  BY ZenonT(60), <1>42, <1>s, <1>l, GotoFacts, StoreOperations DEF BootMark
<1>43. ASSUME BootStart PROVE TypeInv'
  BY <1>43, <1>s, <1>l, <1>i DEF BootStart
<1>44. ASSUME EngineExits PROVE TypeInv'
  BY <1>44, <1>s, <1>l DEF EngineExits
<1>45. ASSUME Retry PROVE TypeInv'
  BY <1>45, <1>s, <1>l DEF Retry
<1>46. ASSUME Kill PROVE TypeInv'
  BY ZenonT(60), <1>46, <1>s, <1>l, IdleFacts DEF Kill, Unwant, Op
<1>47. ASSUME BootFault PROVE TypeInv'
  BY <1>47, <1>s, <1>l, <1>i DEF BootFault
<1>u. ASSUME UNCHANGED vars PROVE TypeInv'
  BY <1>u DEF vars
<1> QED
  BY <1>1, <1>2, <1>3, <1>4, <1>5, <1>6, <1>7, <1>8, <1>9, <1>10, <1>11, <1>12, <1>13, <1>14, <1>15, <1>16, <1>17, <1>18, <1>19, <1>20, <1>21, <1>22, <1>23, <1>24, <1>25, <1>26, <1>27, <1>28, <1>29, <1>30, <1>31, <1>32, <1>33, <1>34, <1>35, <1>36, <1>37, <1>38, <1>39, <1>40, <1>41, <1>42, <1>43, <1>44, <1>45, <1>46, <1>47, <1>u DEF Next, Request, Work

\* Spec => []TypeOK: every reachable state of the agent is well formed.
THEOREM TypeCorrect == Spec => []TypeOK
<1>1. TypeInv => TypeOK
  BY DEF TypeInv
<1> QED BY TypeInit, TypeNext, <1>1, PTL DEF Spec

-----------------------------------------------------------------------------
(* The two safety invariants, strengthened until they are inductive *)

\* What a request is about to point the current link at is on disk.
DiskKnown ==
    /\ op.pc \in {"validate", "swap", "rewind"} => op.hash \in store.dirs
    /\ Undoable /\ Prev # None => Prev \in store.dirs
    /\ op.pc = "bootSwap" => Boot \in store.dirs

\* An engine marked stopped is down or going down, and only a request that has
\* cleared the marker starts or reloads one.
StopKnown ==
    /\ store.stopped => ~want /\ (Running => op.pc = "halt")
    /\ op.pc \in Loading \cup Reverting => ~store.stopped
    /\ op.died /\ op.pc \in Reverting => ~Running
    /\ op.died /\ op.phase = "new" => op.pc \in Reverting
    /\ op.pc \in {"halt", "halted"} \cup Booting => ~want
    /\ op.pc \in {"halted"} \cup Booting => ~Running

AgentInv == TypeInv /\ CurrentPresent /\ DiskKnown /\ StopKnown

\* Which fields each file operation touches: write() adds a directory.
LEMMA WrittenFields ==
  ASSUME NEW s \in Store, NEW h
  PROVE  /\ Written(s, h).dirs = s.dirs \cup {h}
         /\ Written(s, h).current = s.current /\ Written(s, h).stopped = s.stopped
BY DEF Store, Written

\* remove() spares the directory of the current release.
LEMMA RemovedFields ==
  ASSUME NEW s \in Store, NEW h
  PROVE  /\ s.current \in s.dirs => s.current \in Removed(s, h).dirs
         /\ Removed(s, h).current = s.current /\ Removed(s, h).stopped = s.stopped
BY DEF Store, Removed

\* swap() moves the link and nothing else.
LEMMA SwappedFields ==
  ASSUME NEW s \in Store, NEW p
  PROVE  /\ Swapped(s, p).dirs = s.dirs /\ Swapped(s, p).current = p
         /\ Swapped(s, p).stopped = s.stopped
BY DEF Store, Swapped

\* saveHistory() in activate, revert, rollback and prune writes history.json only.
LEMMA HistoryFields ==
  ASSUME NEW s \in Store, NEW h, NEW p
  PROVE  /\ Recorded(s, h).dirs = s.dirs /\ Recorded(s, h).current = s.current
         /\ Recorded(s, h).stopped = s.stopped
         /\ Unrecorded(s, h, p).dirs = s.dirs /\ Unrecorded(s, h, p).current = s.current
         /\ Unrecorded(s, h, p).stopped = s.stopped
         /\ RewoundTo(s, h).dirs = s.dirs /\ RewoundTo(s, h).current = s.current
         /\ RewoundTo(s, h).stopped = s.stopped
         /\ Trimmed(s).dirs = s.dirs /\ Trimmed(s).current = s.current
         /\ Trimmed(s).stopped = s.stopped
BY DEF Store, Recorded, Unrecorded, RewoundTo, Trimmed

\* prune() spares the directory of the current release.
LEMMA PrunedFields ==
  ASSUME NEW s \in Store
  PROVE  /\ s.current \in s.dirs => s.current \in Pruned(s).dirs
         /\ Pruned(s).current = s.current /\ Pruned(s).stopped = s.stopped
BY DEF Store, Pruned, Kept

\* setMarker() writes the marker and nothing else.
LEMMA MarkedFields ==
  ASSUME NEW s \in Store, NEW on
  PROVE  /\ Marked(s, on).dirs = s.dirs /\ Marked(s, on).current = s.current
         /\ Marked(s, on).stopped = on
BY DEF Store, Marked

\* The strengthened invariant holds of a fresh config root.
LEMMA AgentInvInit == Init => AgentInv
<1> SUFFICES ASSUME Init PROVE AgentInv
  OBVIOUS
<1>1. op.pc = "boot" /\ op.died = FALSE
  BY SMTT(60), IdleFacts DEF Init, IdleOp
<1> QED
  BY <1>1, TypeInit DEF Init, AgentInv, CurrentPresent, DiskKnown, StopKnown, EmptyStore,
     Undoable, Applying, Reverting, Loading, Booting, Running

\* Every step of the agent preserves the strengthened invariant.
LEMMA AgentInvNext == AgentInv /\ [Next]_vars => AgentInv'
<1> SUFFICES ASSUME AgentInv, [Next]_vars PROVE CurrentPresent' /\ DiskKnown' /\ StopKnown'
  BY TypeNext DEF AgentInv
<1> DEFINE Safe == CurrentPresent /\ DiskKnown /\ StopKnown
<1> USE DEF CurrentPresent, DiskKnown, StopKnown, Undoable, Prev,
            Applying, Reverting, Returning, Loading, Booting, Idle, Running
<1>s. /\ store \in Store /\ op \in Op
      /\ want \in BOOLEAN
      /\ op.pc \in Applying \cup Reverting \cup Returning => op.hash \in Release
      /\ op.pc \in Applying => op.phase = "new"
      /\ op.pc \in Returning => op.phase = "rollback"
      /\ CurrentPresent /\ DiskKnown /\ StopKnown
  BY DEF AgentInv, TypeInv, TypeOK, OpKnown
<1>p. Previous(store) = None \/ Previous(store) \in store.dirs
  BY <1>s, PreviousOnDisk
<1>n. /\ \A h \in Hash : h \in Release
      /\ None \notin Release
  BY ReleaseAssumption DEF Release
<1>l. /\ {"apply", "applyStop", "stopOnly", "rollback", "start", "stop", "reload"} \subseteq Requests
      /\ {"write", "validate", "swap", "record", "mark", "prune", "trim", "load",
          "spawn", "settle", "unswap", "unrecord", "resume", "halt", "halted",
          "rewind", "rerecord", "unmark"} \subseteq Steps
      /\ {"idle", "boot", "bootSwap", "bootMark", "bootStart"} \subseteq Steps
      /\ {"new", "revert", "rollback", "manual"} \subseteq Phases
  BY DEF Requests, Steps, Phases
<1>i. op' = IdleOp => op'.pc = "idle" /\ op'.died = FALSE /\ op'.phase = "manual"
  BY IdleFacts
<1>1. ASSUME NEW h \in Hash, ApplyUnusable(h) PROVE Safe'
  BY <1>1, <1>s, <1>l DEF ApplyUnusable
<1>2. ASSUME NEW h \in Hash, ApplyActive(h) PROVE Safe'
  BY <1>2, <1>s, <1>l DEF ApplyActive
<1>3. ASSUME NEW h \in Hash, ApplyBegin(h) PROVE Safe'
  <2>1. /\ op'.pc = "write" /\ op'.hash = h /\ op'.phase = "new"
        /\ op'.before = store /\ op'.died = FALSE
    BY <1>3 DEF ApplyBegin, Begin
  <2> QED BY <2>1, <1>3, <1>s, <1>l, <1>n DEF ApplyBegin
<1>4. ASSUME NEW h \in Hash, ApplyStopBegin(h) PROVE Safe'
  <2>1. /\ op'.pc = "write" /\ op'.hash = h /\ op'.phase = "new"
        /\ op'.before = store /\ op'.died = FALSE
    BY <1>4 DEF ApplyStopBegin, Begin
  <2> QED BY <2>1, <1>4, <1>s, <1>l, <1>n DEF ApplyStopBegin
<1>5. ASSUME StopOnlyBegin PROVE Safe'
  <2>1. /\ op'.pc = "halt" /\ op'.hash = None /\ op'.phase = "new"
        /\ op'.before = store /\ op'.died = FALSE
    BY <1>5 DEF StopOnlyBegin, Begin
  <2> QED BY ZenonT(60), <2>1, <1>5, <1>s, <1>l, MarkedFields DEF StopOnlyBegin, Unwant
<1>6. ASSUME RollbackNone PROVE Safe'
  BY <1>6, <1>s, <1>l DEF RollbackNone
<1>7. ASSUME RollbackBegin PROVE Safe'
  <2>1. /\ op'.pc = "rewind" /\ op'.hash = Previous(store) /\ op'.phase = "rollback"
        /\ op'.before = store /\ op'.died = FALSE
    BY <1>7 DEF RollbackBegin, Begin
  <2> QED BY <2>1, <1>7, <1>s, <1>l, <1>p DEF RollbackBegin
<1>8. ASSUME StartNothing PROVE Safe'
  BY <1>8, <1>s, <1>l DEF StartNothing
<1>9. ASSUME StartBegin PROVE Safe'
  <2>1. /\ op'.pc = "spawn" /\ op'.hash = None /\ op'.phase = "manual"
        /\ op'.before = store /\ op'.died = FALSE
    BY <1>9 DEF StartBegin, Begin
  <2> QED BY ZenonT(60), <2>1, <1>9, <1>s, <1>l, MarkedFields DEF StartBegin
<1>10. ASSUME StopBegin PROVE Safe'
  <2>1. /\ op'.pc = "halt" /\ op'.hash = None /\ op'.phase = "manual"
        /\ op'.before = store /\ op'.died = FALSE
    BY <1>10 DEF StopBegin, Begin
  <2> QED BY <2>1, <1>10, <1>s, <1>l DEF StopBegin, Unwant
<1>11. ASSUME ReloadDown PROVE Safe'
  BY <1>11, <1>s, <1>l DEF ReloadDown
<1>12. ASSUME ReloadBegin PROVE Safe'
  <2>1. /\ op'.pc = "load" /\ op'.hash = None /\ op'.phase = "manual"
        /\ op'.before = store /\ op'.died = FALSE
    BY <1>12 DEF ReloadBegin, Begin
  <2> QED BY <2>1, <1>12, <1>s, <1>l DEF ReloadBegin
<1>13. ASSUME Write PROVE Safe'
  BY <1>13, <1>s, <1>l, GotoFacts, WrittenFields DEF Write
<1>14. ASSUME NEW ok \in BOOLEAN, Validate(ok) PROVE Safe'
  BY <1>14, <1>s, <1>l, GotoFacts, <1>i, RemovedFields DEF Validate, Finish, Created
<1>15. ASSUME Swap PROVE Safe'
  BY <1>15, <1>s, <1>l, GotoFacts, SwappedFields DEF Swap
<1>16. ASSUME Record PROVE Safe'
  BY <1>16, <1>s, <1>l, GotoFacts, HistoryFields DEF Record
<1>17. ASSUME Mark PROVE Safe'
  <2>1. store'.dirs = store.dirs /\ store'.current = store.current
        /\ store'.stopped = (op.req = "applyStop")
    BY <1>17, <1>s, MarkedFields DEF Mark
  <2>2. /\ op'.phase = op.phase /\ op'.died = op.died /\ op'.before = op.before
        /\ IF op.req = "applyStop" THEN op'.pc = "halt" ELSE op'.pc \in {"load", "spawn"}
    BY ZenonT(60), <1>17, <1>s DEF Mark, Goto, Op
  <2>3. CASE op.req = "applyStop"
    BY <2>1, <2>2, <2>3, <1>17, <1>s DEF Mark, Unwant
  <2>4. CASE op.req # "applyStop"
    BY <2>1, <2>2, <2>4, <1>17, <1>s DEF Mark
  <2> QED BY <2>3, <2>4
<1>18. ASSUME ApplyFault PROVE Safe'
  BY <1>18, <1>s, <1>l, <1>i DEF ApplyFault, Finish
<1>19. ASSUME Prune PROVE Safe'
  BY <1>19, <1>s, <1>l, GotoFacts, PrunedFields DEF Prune
<1>20. ASSUME Trim PROVE Safe'
  BY <1>20, <1>s, <1>l, <1>i, HistoryFields DEF Trim, Finish
<1>21. ASSUME LoadAccepted PROVE Safe'
  BY <1>21, <1>s, <1>l, GotoFacts, <1>i DEF LoadAccepted, Finish, LoadWorked
<1>22. ASSUME LoadRejected PROVE Safe'
  BY <1>22, <1>s, <1>l, GotoFacts, <1>i DEF LoadRejected, Finish, LoadFailed
<1>23. ASSUME LoadLate PROVE Safe'
  BY <1>23, <1>s, <1>l, GotoFacts, <1>i DEF LoadLate, Finish, LoadFailed
<1>24. ASSUME LoadGone PROVE Safe'
  BY <1>24, <1>s, <1>l, GotoFacts, <1>i DEF LoadGone, Finish, LoadFailed
<1>25. ASSUME Spawn PROVE Safe'
  BY <1>25, <1>s, <1>l, GotoFacts DEF Spawn
<1>26. ASSUME SpawnError PROVE Safe'
  BY ZenonT(60), <1>26, <1>s, <1>l, GotoFacts, <1>i DEF SpawnError, Unwant, Finish, StartFailed, Op
<1>27. ASSUME Settle PROVE Safe'
  BY ZenonT(60), <1>27, <1>s, <1>l, GotoFacts, <1>i DEF Settle, Unwant, Finish, LoadWorked, StartFailed, Op
<1>28. ASSUME Unswap PROVE Safe'
  BY <1>28, <1>s, <1>l, GotoFacts, SwappedFields DEF Unswap
<1>29. ASSUME Unrecord PROVE Safe'
  BY <1>29, <1>s, <1>l, GotoFacts, HistoryFields DEF Unrecord
<1>30. ASSUME RevertFault PROVE Safe'
  BY <1>30, <1>s, <1>l, GotoFacts DEF RevertFault
<1>31. ASSUME ResumeLoaded PROVE Safe'
  BY <1>31, <1>s, <1>l DEF ResumeLoaded, Revert, Op
<1>32. ASSUME ResumeStarted PROVE Safe'
  BY <1>32, <1>s, <1>l DEF ResumeStarted, Revert, Op
<1>33. ASSUME ResumeDown PROVE Safe'
  BY ZenonT(60), <1>33, <1>s, <1>l, <1>i, MarkedFields DEF ResumeDown, Unwant, Finish
<1>34. ASSUME Rewind PROVE Safe'
  BY <1>34, <1>s, <1>l, <1>p, GotoFacts, SwappedFields DEF Rewind
<1>35. ASSUME Rerecord PROVE Safe'
  BY <1>35, <1>s, <1>l, <1>p, GotoFacts, HistoryFields DEF Rerecord
<1>36. ASSUME RollbackFault PROVE Safe'
  BY <1>36, <1>s, <1>l, <1>i DEF RollbackFault, Finish
<1>37. ASSUME Unmark PROVE Safe'
  <2>1. /\ op'.pc \in {"load", "spawn"} /\ op'.phase = op.phase /\ op'.died = op.died
        /\ op'.before = op.before
    BY <1>37, <1>s DEF Unmark, Goto, Op
  <2>2. op'.pc \notin {"validate", "swap", "rewind", "bootSwap"}
    BY <2>1
  <2> QED BY ZenonT(60), <2>1, <2>2, <1>37, <1>s, MarkedFields DEF Unmark
<1>38. ASSUME Halt PROVE Safe'
  BY <1>38, <1>s, <1>l, GotoFacts DEF Halt
<1>39. ASSUME Halted PROVE Safe'
  BY ZenonT(60), <1>39, <1>s, <1>l, <1>i, MarkedFields DEF Halted, Finish
<1>40. ASSUME Boots PROVE Safe'
  BY <1>40, <1>s, <1>l, GotoFacts, WrittenFields DEF Boots
<1>41. ASSUME BootSwap PROVE Safe'
  BY <1>41, <1>s, <1>l, GotoFacts, SwappedFields DEF BootSwap
<1>42. ASSUME BootMark PROVE Safe'
  BY <1>42, <1>s, <1>l, GotoFacts, MarkedFields DEF BootMark
<1>43. ASSUME BootStart PROVE Safe'
  BY <1>43, <1>s, <1>l, <1>i DEF BootStart
<1>44. ASSUME EngineExits PROVE Safe'
  BY <1>44, <1>s, <1>l DEF EngineExits
<1>45. ASSUME Retry PROVE Safe'
  BY <1>45, <1>s, <1>l DEF Retry
<1>46. ASSUME Kill PROVE Safe'
  BY <1>46, <1>s, <1>l, IdleFacts DEF Kill, Unwant, Op
<1>47. ASSUME BootFault PROVE Safe'
  BY <1>47, <1>s, <1>l, <1>i DEF BootFault
<1>u. ASSUME UNCHANGED vars PROVE Safe'
  BY <1>s, <1>u DEF vars
<1> QED
  BY <1>1, <1>2, <1>3, <1>4, <1>5, <1>6, <1>7, <1>8, <1>9, <1>10, <1>11, <1>12, <1>13, <1>14, <1>15, <1>16, <1>17, <1>18, <1>19, <1>20, <1>21, <1>22, <1>23, <1>24, <1>25, <1>26, <1>27, <1>28, <1>29, <1>30, <1>31, <1>32, <1>33, <1>34, <1>35, <1>36, <1>37, <1>38, <1>39, <1>40, <1>41, <1>42, <1>43, <1>44, <1>45, <1>46, <1>47, <1>u DEF Next, Request, Work

\* Spec => []CurrentPresent: whatever the step at which the agent is killed,
\* the current link it finds when it boots names a release that is on disk.
THEOREM BootFindsIt == Spec => []CurrentPresent
<1>1. AgentInv => CurrentPresent
  BY DEF AgentInv
<1> QED BY AgentInvInit, AgentInvNext, <1>1, PTL DEF Spec

\* Spec => []StoppedStaysDown: an engine stopped on purpose is started neither
\* by the restart timer, nor by boot, nor by an apply that fails.
THEOREM StopHolds == Spec => []StoppedStaysDown
<1>1. AgentInv => StoppedStaysDown
  BY DEF AgentInv, StopKnown, StoppedStaysDown, Idle
<1> QED BY AgentInvInit, AgentInvNext, <1>1, PTL DEF Spec

-----------------------------------------------------------------------------
(* The engine is restarted as long as it is wanted, unless its process     *)
(* cannot be started at all                                                *)

\* An engine runs, is wanted or is being started only where a release is active;
\* an apply that found none goes back to none, with the engine down.
WantKnown ==
    /\ want /\ ~Running => timer
    /\ want \/ Running => store.current # None
    /\ op.pc \in Loading \cup {"record", "mark", "unswap", "rerecord", "unmark"} => store.current # None
    /\ op.pc \in {"unrecord", "resume"} /\ Prev # None => store.current # None
    /\ op.pc \in Applying \/ (op.pc = "load" /\ op.phase = "new") => (want \/ Running => Prev # None)
    /\ op.pc = "load" /\ op.phase = "new" => Prev # None
    /\ op.pc \in Reverting /\ Prev = None => ~want /\ ~Running

WantInv == AgentInv /\ WantKnown

\* An agent that boots a fresh config root wants no engine yet.
LEMMA WantInit == Init => WantInv
<1> SUFFICES ASSUME Init PROVE WantInv
  OBVIOUS
<1>1. op.pc = "boot" /\ op.before.current = None
  BY SMTT(60), IdleFacts DEF Init, IdleOp, EmptyStore
<1> QED
  BY <1>1, AgentInvInit DEF Init, WantInv, WantKnown, Running, Prev, Applying, Reverting, Loading

\* Every step keeps what is wanted scheduled.
LEMMA WantNext == ASSUME ~ExecFails PROVE WantInv /\ [Next]_vars => WantInv'
<1> SUFFICES ASSUME WantInv, [Next]_vars PROVE WantKnown'
  BY AgentInvNext DEF WantInv
<1> USE DEF WantKnown, Prev, Applying, Reverting, Returning, Loading, Booting, Idle, Running
<1>s. /\ store \in Store /\ op \in Op
      /\ want \in BOOLEAN /\ timer \in BOOLEAN
      /\ op.pc \in Applying \cup Reverting \cup Returning => op.hash \in Release
      /\ op.pc \in Applying => op.phase = "new"
      /\ op.pc \in Returning => op.phase = "rollback"
      /\ op.pc \in {"halt", "halted"} \cup Booting => ~want
      /\ op.pc \in {"halted"} \cup Booting => ~Running
      /\ op.died /\ op.pc \in Reverting => ~Running
      /\ WantKnown
  BY DEF WantInv, AgentInv, TypeInv, TypeOK, OpKnown, StopKnown
<1>n. None \notin Release
  BY ReleaseAssumption DEF Release
<1>l. /\ {"write", "validate", "swap", "record", "mark", "prune", "trim", "load",
          "spawn", "settle", "unswap", "unrecord", "resume", "halt", "halted",
          "rewind", "rerecord", "unmark"} \subseteq Steps
      /\ {"idle", "boot", "bootSwap", "bootMark", "bootStart"} \subseteq Steps
  BY DEF Steps
<1>i. op' = IdleOp => op'.pc = "idle" /\ op'.phase = "manual"
  BY IdleFacts
<1>1. ASSUME NEW h \in Hash, ApplyUnusable(h) PROVE WantKnown'
  BY <1>1, <1>s, <1>n, <1>l, <1>i DEF ApplyUnusable
<1>2. ASSUME NEW h \in Hash, ApplyActive(h) PROVE WantKnown'
  BY <1>2, <1>s, <1>n, <1>l, <1>i DEF ApplyActive
<1>3. ASSUME NEW h \in Hash, ApplyBegin(h) PROVE WantKnown'
  BY <1>3, <1>s, <1>n, <1>l, <1>i DEF ApplyBegin, Begin
<1>4. ASSUME NEW h \in Hash, ApplyStopBegin(h) PROVE WantKnown'
  BY <1>4, <1>s, <1>n, <1>l, <1>i DEF ApplyStopBegin, Begin
<1>5. ASSUME StopOnlyBegin PROVE WantKnown'
  BY <1>5, <1>s, <1>n, <1>l, <1>i, MarkedFields DEF StopOnlyBegin, Begin, Unwant
<1>6. ASSUME RollbackNone PROVE WantKnown'
  BY <1>6, <1>s, <1>n, <1>l, <1>i DEF RollbackNone
<1>7. ASSUME RollbackBegin PROVE WantKnown'
  BY <1>7, <1>s, <1>n, <1>l, <1>i DEF RollbackBegin, Begin
<1>8. ASSUME StartNothing PROVE WantKnown'
  BY <1>8, <1>s, <1>n, <1>l, <1>i DEF StartNothing
<1>9. ASSUME StartBegin PROVE WantKnown'
  BY ZenonT(60), <1>9, <1>s, <1>n, <1>l, <1>i, MarkedFields DEF StartBegin, Begin
<1>10. ASSUME StopBegin PROVE WantKnown'
  BY <1>10, <1>s, <1>n, <1>l, <1>i DEF StopBegin, Begin, Unwant
<1>11. ASSUME ReloadDown PROVE WantKnown'
  BY <1>11, <1>s, <1>n, <1>l, <1>i DEF ReloadDown
<1>12. ASSUME ReloadBegin PROVE WantKnown'
  BY <1>12, <1>s, <1>n, <1>l, <1>i DEF ReloadBegin, Begin
<1>13. ASSUME Write PROVE WantKnown'
  BY <1>13, <1>s, <1>n, <1>l, <1>i, WrittenFields, GotoFacts DEF Write
<1>14. ASSUME NEW ok \in BOOLEAN, Validate(ok) PROVE WantKnown'
  BY <1>14, <1>s, <1>n, <1>l, <1>i, RemovedFields, GotoFacts DEF Validate, Finish
<1>15. ASSUME Swap PROVE WantKnown'
  BY <1>15, <1>s, <1>n, <1>l, <1>i, SwappedFields, GotoFacts DEF Swap
<1>16. ASSUME Record PROVE WantKnown'
  BY <1>16, <1>s, <1>n, <1>l, <1>i, HistoryFields, GotoFacts DEF Record
<1>17. ASSUME Mark PROVE WantKnown'
  <2>1. store'.current = store.current
    BY <1>17, <1>s, MarkedFields DEF Mark
  <2>2. /\ op'.phase = op.phase /\ op'.before = op.before
        /\ IF op.req = "applyStop" THEN op'.pc = "halt" ELSE op'.pc = IF Running THEN "load" ELSE "spawn"
    BY <1>17, <1>s DEF Mark, Goto, Op
  <2>3. CASE op.req = "applyStop"
    BY <2>1, <2>2, <2>3, <1>17, <1>s DEF Mark, Unwant
  <2>4. CASE op.req # "applyStop"
    BY <2>1, <2>2, <2>4, <1>17, <1>s DEF Mark
  <2> QED BY <2>3, <2>4
<1>18. ASSUME ApplyFault PROVE WantKnown'
  BY <1>18, <1>s, <1>n, <1>l, <1>i DEF ApplyFault, Finish
<1>19. ASSUME Prune PROVE WantKnown'
  BY <1>19, <1>s, <1>n, <1>l, <1>i, PrunedFields, GotoFacts DEF Prune
<1>20. ASSUME Trim PROVE WantKnown'
  BY <1>20, <1>s, <1>n, <1>l, <1>i, HistoryFields DEF Trim, Finish
<1>21. ASSUME LoadAccepted PROVE WantKnown'
  BY <1>21, <1>s, <1>n, <1>l, <1>i, GotoFacts DEF LoadAccepted, LoadWorked, Finish
<1>22. ASSUME LoadRejected PROVE WantKnown'
  BY <1>22, <1>s, <1>n, <1>l, <1>i, GotoFacts DEF LoadRejected, LoadFailed, Finish
<1>23. ASSUME LoadLate PROVE WantKnown'
  BY <1>23, <1>s, <1>n, <1>l, <1>i, GotoFacts DEF LoadLate, LoadFailed, Finish
<1>24. ASSUME LoadGone PROVE WantKnown'
  BY <1>24, <1>s, <1>n, <1>l, <1>i, GotoFacts DEF LoadGone, LoadFailed, Finish
<1>25. ASSUME Spawn PROVE WantKnown'
  BY <1>25, <1>s, <1>n, <1>l, <1>i, GotoFacts DEF Spawn
<1>26. ASSUME SpawnError PROVE WantKnown'
  BY <1>26, <1>s, <1>n, <1>l, <1>i DEF SpawnError
<1>27. ASSUME Settle PROVE WantKnown'
  BY ZenonT(60), <1>27, <1>s, <1>n, <1>l, <1>i, GotoFacts DEF Settle, LoadWorked, StartFailed, Unwant, Finish, Op
<1>28. ASSUME Unswap PROVE WantKnown'
  BY <1>28, <1>s, <1>n, <1>l, <1>i, SwappedFields, GotoFacts DEF Unswap
<1>29. ASSUME Unrecord PROVE WantKnown'
  BY <1>29, <1>s, <1>n, <1>l, <1>i, HistoryFields, GotoFacts DEF Unrecord
<1>30. ASSUME RevertFault PROVE WantKnown'
  BY <1>30, <1>s, <1>n, <1>l, <1>i, GotoFacts DEF RevertFault
<1>31. ASSUME ResumeLoaded PROVE WantKnown'
  BY <1>31, <1>s, <1>n, <1>l, <1>i DEF ResumeLoaded, Revert, Op
<1>32. ASSUME ResumeStarted PROVE WantKnown'
  BY <1>32, <1>s, <1>n, <1>l, <1>i DEF ResumeStarted, Revert, Op
<1>33. ASSUME ResumeDown PROVE WantKnown'
  BY <1>33, <1>s, <1>n, <1>l, <1>i, MarkedFields DEF ResumeDown, Unwant, Finish
<1>34. ASSUME Rewind PROVE WantKnown'
  BY <1>34, <1>s, <1>n, <1>l, <1>i, SwappedFields, GotoFacts DEF Rewind
<1>35. ASSUME Rerecord PROVE WantKnown'
  BY <1>35, <1>s, <1>n, <1>l, <1>i, HistoryFields, GotoFacts DEF Rerecord
<1>36. ASSUME RollbackFault PROVE WantKnown'
  BY <1>36, <1>s, <1>n, <1>l, <1>i DEF RollbackFault, Finish
<1>37. ASSUME Unmark PROVE WantKnown'
  BY ZenonT(60), <1>37, <1>s, <1>n, <1>l, <1>i, MarkedFields, GotoFacts DEF Unmark
<1>38. ASSUME Halt PROVE WantKnown'
  BY <1>38, <1>s, <1>n, <1>l, <1>i, GotoFacts DEF Halt
<1>39. ASSUME Halted PROVE WantKnown'
  BY <1>39, <1>s, <1>n, <1>l, <1>i, MarkedFields DEF Halted, Finish
<1>40. ASSUME Boots PROVE WantKnown'
  BY <1>40, <1>s, <1>n, <1>l, <1>i, WrittenFields, GotoFacts DEF Boots
<1>41. ASSUME BootSwap PROVE WantKnown'
  BY <1>41, <1>s, <1>n, <1>l, <1>i, SwappedFields, GotoFacts DEF BootSwap
<1>42. ASSUME BootMark PROVE WantKnown'
  BY <1>42, <1>s, <1>n, <1>l, <1>i, MarkedFields, GotoFacts DEF BootMark
<1>43. ASSUME BootStart PROVE WantKnown'
  BY <1>43, <1>s, <1>n, <1>l, <1>i DEF BootStart
<1>44. ASSUME BootFault PROVE WantKnown'
  BY <1>44, <1>s, <1>n, <1>l, <1>i DEF BootFault
<1>45. ASSUME EngineExits PROVE WantKnown'
  BY <1>45, <1>s, <1>n, <1>l, <1>i DEF EngineExits
<1>46. ASSUME Retry PROVE WantKnown'
  BY <1>46, <1>s, <1>n, <1>l, <1>i DEF Retry
<1>47. ASSUME Kill PROVE WantKnown'
  BY <1>47, <1>s, <1>n, <1>l, <1>i, IdleFacts DEF Kill, Unwant, IdleOp, Op
<1>48. ASSUME UNCHANGED vars PROVE WantKnown'
  BY <1>48, <1>s, <1>n, <1>l, <1>i DEF vars
<1> QED
  BY <1>1, <1>2, <1>3, <1>4, <1>5, <1>6, <1>7, <1>8, <1>9, <1>10, <1>11, <1>12, <1>13, <1>14, <1>15, <1>16, <1>17, <1>18, <1>19, <1>20, <1>21, <1>22, <1>23, <1>24, <1>25, <1>26, <1>27, <1>28, <1>29, <1>30, <1>31, <1>32, <1>33, <1>34, <1>35, <1>36, <1>37, <1>38, <1>39, <1>40, <1>41, <1>42, <1>43, <1>44, <1>45, <1>46, <1>47, <1>48 DEF Next, Request, Work

\* A wanted engine that is down has a restart scheduled, unless starting it may fail:
\* WantedIsRestarted of Agent, with failing file operations and rejected releases.
\* (supervisor.go watch and retry against the requests that stop the engine)
THEOREM RestartIsScheduled ==
  ASSUME ~ExecFails
  PROVE  Spec => []WantedIsRestarted
<1>1. WantInv => WantedIsRestarted
  BY DEF WantInv, WantKnown, WantedIsRestarted
<1>2. (Init => WantInv) /\ (WantInv /\ [Next]_vars => WantInv')
  BY SMTT(60), WantInit, WantNext
<1> QED BY <1>1, <1>2, PTL DEF Spec

-----------------------------------------------------------------------------
(* Requests are atomic, as long as no file operation fails and a release    *)
(* that was loaded before is not rejected later                             *)

\* A request knows what it was asked for and which phase it is in.
PhaseKnown ==
    /\ op.pc \in Applying => op.req \in {"apply", "applyStop"}
    /\ op.pc = "validate" => op.req = "apply"
    /\ op.pc \in Loading =>
         \/ op.phase \in {"new", "revert"} /\ op.req = "apply"
         \/ op.phase = "rollback" /\ op.req = "rollback"
         \/ op.phase = "manual" /\ op.req = IF op.pc = "load" THEN "reload" ELSE "start"
    /\ op.pc \in {"prune", "trim"} => op.req \in {"apply", "applyStop"} /\ op.phase = "new"
    /\ op.pc \in Reverting => op.req = "apply" /\ op.phase = "new"
    /\ op.pc \in Returning => op.req = "rollback"
    /\ op.pc \in Returning \/ (op.pc \in Loading /\ op.phase = "rollback") =>
         op.hash = Previous(op.before) /\ op.hash # None
    /\ op.pc = "halt" => op.req \in {"applyStop", "stopOnly", "stop"}
    /\ op.pc = "halt" /\ op.req = "applyStop" => op.phase = "new"
    /\ op.pc = "halted" => op.req \in {"stopOnly", "stop"}
    /\ op.req \in {"apply", "applyStop"} => op.hash \in Hash
    /\ op.req \in {"stopOnly", "stop", "start", "reload"} => op.hash = None
    /\ op.pc \in Booting => answer = None
    /\ op.pc \in {"prune", "trim"} /\ op.req = "applyStop" => ~Running

\* What the store has become since a request took the lock
Before == op.before
Mine   == op.hash

StoreApplied ==
    /\ op.pc = "write" => store = Before
    /\ op.pc \in {"validate", "swap"} => store = Written(Before, Mine)
    /\ op.pc = "record" => store = Swapped(Written(Before, Mine), Mine)
    /\ op.pc = "mark" => store = Activated(Before, Mine)
    /\ op.pc = "unswap" \/ (op.pc \in Loading /\ op.phase = "new") => store = Marked(Activated(Before, Mine), FALSE)
    /\ op.pc = "prune" \/ (op.pc = "halt" /\ op.req = "applyStop") =>
         store = Marked(Activated(Before, Mine), op.req = "applyStop")
    /\ op.pc = "trim" => store = Pruned(Marked(Activated(Before, Mine), op.req = "applyStop"))
    /\ op.pc = "unrecord" => store = Swapped(Marked(Activated(Before, Mine), FALSE), Prev)
    /\ op.pc = "resume" \/ (op.pc \in Loading /\ op.phase = "revert") => store = Marked(Undone(Before, Mine), FALSE)

StoreElse ==
    /\ op.pc \in {"rewind", "boot"} => store = Before
    /\ op.pc = "rerecord" => store = Swapped(Before, Mine)
    /\ op.pc = "unmark" => store = RolledBack(Before)
    /\ op.pc \in Loading /\ op.phase = "rollback" => store = Marked(RolledBack(Before), FALSE)
    /\ op.pc \in Loading /\ op.phase = "manual" =>
         store = IF op.req = "start" THEN Marked(Before, FALSE) ELSE Before
    /\ op.pc \in {"halt", "halted"} /\ op.req = "stopOnly" => store = Marked(Before, TRUE)
    /\ op.pc \in {"halt", "halted"} /\ op.req = "stop" => store = Before
    /\ op.pc \in {"bootSwap", "bootMark"} => Prev = None /\ AlwaysOn
    /\ op.pc = "bootSwap" => store = Written(Before, Boot)
    /\ op.pc = "bootMark" => store = Swapped(Written(Before, Boot), Boot)
    /\ op.pc = "bootStart" =>
         store = IF Prev = None /\ AlwaysOn THEN Marked(Swapped(Written(Before, Boot), Boot), ~Selected) ELSE Before

StoreKnown == StoreApplied /\ StoreElse

\* Which release the engine runs, and what an apply goes back to
ServeKnown ==
    /\ op.pc \in {"idle", "write", "validate", "swap", "rewind", "settle", "prune", "trim"}
         => (Running => proc = store.current)
    /\ op.pc = "spawn" => ~Running
    /\ op.pc \in {"record", "mark"} => (Running => Prev # None)
    /\ op.pc \in Applying /\ Before.stopped => ~want /\ ~Running
    /\ op.pc \in Loading \cup Reverting /\ op.phase = "new" /\ Before.stopped => ~op.wanted
    /\ op.pc = "load" /\ op.phase = "new" => ~Before.stopped /\ Prev # None
    /\ op.pc \in Reverting /\ ~op.died => ~Before.stopped /\ Prev # None
    /\ op.pc \in Loading /\ op.phase = "revert" => ~Before.stopped

AtomicInv == AgentInv /\ PhaseKnown /\ StoreKnown /\ ServeKnown /\ AnswerHolds

\* No step of a request forgets what the request is: an apply that fails goes on
\* to the revert with its own release, a rollback with the release it goes back to.
LEMMA PhaseNext == AgentInv /\ PhaseKnown /\ [Next]_vars => PhaseKnown'
<1> SUFFICES ASSUME AgentInv, PhaseKnown, [Next]_vars PROVE PhaseKnown'
  OBVIOUS
<1> USE DEF PhaseKnown, Applying, Reverting, Returning, Loading, Booting, Idle, Running
<1>s. /\ store \in Store /\ op \in Op
      /\ op.pc \in Applying => op.phase = "new"
      /\ op.pc \in Returning => op.phase = "rollback"
      /\ PhaseKnown
  BY DEF AgentInv, TypeInv, TypeOK, OpKnown
<1>l. /\ {"write", "validate", "swap", "record", "mark", "prune", "trim", "load",
          "spawn", "settle", "unswap", "unrecord", "resume", "halt", "halted",
          "rewind", "rerecord", "unmark"} \subseteq Steps
      /\ {"idle", "boot", "bootSwap", "bootMark", "bootStart"} \subseteq Steps
  BY DEF Steps
<1>i. op' = IdleOp => op'.pc = "idle" /\ op'.req = "none"
  BY DEF IdleOp
<1>1. ASSUME NEW h \in Hash, ApplyUnusable(h) PROVE PhaseKnown'
  BY <1>1, <1>s, <1>l, <1>i DEF ApplyUnusable
<1>2. ASSUME NEW h \in Hash, ApplyActive(h) PROVE PhaseKnown'
  BY <1>2, <1>s, <1>l, <1>i DEF ApplyActive
<1>3. ASSUME NEW h \in Hash, ApplyBegin(h) PROVE PhaseKnown'
  BY <1>3, <1>s, <1>l, <1>i DEF ApplyBegin, Begin
<1>4. ASSUME NEW h \in Hash, ApplyStopBegin(h) PROVE PhaseKnown'
  BY <1>4, <1>s, <1>l, <1>i DEF ApplyStopBegin, Begin
<1>5. ASSUME StopOnlyBegin PROVE PhaseKnown'
  BY <1>5, <1>s, <1>l, <1>i DEF StopOnlyBegin, Begin, Unwant
<1>6. ASSUME RollbackNone PROVE PhaseKnown'
  BY <1>6, <1>s, <1>l, <1>i DEF RollbackNone
<1>7. ASSUME RollbackBegin PROVE PhaseKnown'
  BY <1>7, <1>s, <1>l, <1>i DEF RollbackBegin, Begin
<1>8. ASSUME StartNothing PROVE PhaseKnown'
  BY <1>8, <1>s, <1>l, <1>i DEF StartNothing
<1>9. ASSUME StartBegin PROVE PhaseKnown'
  BY <1>9, <1>s, <1>l, <1>i DEF StartBegin, Begin
<1>10. ASSUME StopBegin PROVE PhaseKnown'
  BY <1>10, <1>s, <1>l, <1>i DEF StopBegin, Begin, Unwant
<1>11. ASSUME ReloadDown PROVE PhaseKnown'
  BY <1>11, <1>s, <1>l, <1>i DEF ReloadDown
<1>12. ASSUME ReloadBegin PROVE PhaseKnown'
  BY <1>12, <1>s, <1>l, <1>i DEF ReloadBegin, Begin
<1>13. ASSUME Write PROVE PhaseKnown'
  BY <1>13, <1>s, <1>l, <1>i, GotoFacts DEF Write
<1>14. ASSUME NEW ok \in BOOLEAN, Validate(ok) PROVE PhaseKnown'
  BY <1>14, <1>s, <1>l, <1>i, GotoFacts DEF Validate, Finish
<1>15. ASSUME Swap PROVE PhaseKnown'
  BY <1>15, <1>s, <1>l, <1>i, GotoFacts DEF Swap
<1>16. ASSUME Record PROVE PhaseKnown'
  BY <1>16, <1>s, <1>l, <1>i, GotoFacts DEF Record
<1>17. ASSUME Mark PROVE PhaseKnown'
  <2>1. /\ op'.phase = op.phase /\ op'.hash = op.hash /\ op'.req = op.req /\ op'.before = op.before
        /\ IF op.req = "applyStop" THEN op'.pc = "halt" ELSE op'.pc \in {"load", "spawn"}
    BY ZenonT(60), <1>17, <1>s DEF Mark, Goto, Op
  <2> QED BY <2>1, <1>17, <1>s DEF Mark
<1>18. ASSUME ApplyFault PROVE PhaseKnown'
  BY <1>18, <1>s, <1>l, <1>i DEF ApplyFault, Finish
<1>19. ASSUME Prune PROVE PhaseKnown'
  BY <1>19, <1>s, <1>l, <1>i, GotoFacts DEF Prune
<1>20. ASSUME Trim PROVE PhaseKnown'
  BY <1>20, <1>s, <1>l, <1>i DEF Trim, Finish
<1>21. ASSUME LoadAccepted PROVE PhaseKnown'
  BY <1>21, <1>s, <1>l, <1>i, GotoFacts DEF LoadAccepted, LoadWorked, Finish
<1>22. ASSUME LoadRejected PROVE PhaseKnown'
  BY <1>22, <1>s, <1>l, <1>i, GotoFacts DEF LoadRejected, LoadFailed, Finish
<1>23. ASSUME LoadLate PROVE PhaseKnown'
  BY <1>23, <1>s, <1>l, <1>i, GotoFacts DEF LoadLate, LoadFailed, Finish
<1>24. ASSUME LoadGone PROVE PhaseKnown'
  BY <1>24, <1>s, <1>l, <1>i, GotoFacts DEF LoadGone, LoadFailed, Finish
<1>25. ASSUME Spawn PROVE PhaseKnown'
  BY <1>25, <1>s, <1>l, <1>i, GotoFacts DEF Spawn
<1>26. ASSUME SpawnError PROVE PhaseKnown'
  <2>1. /\ op.pc = "spawn" /\ op.req \in Requests /\ StartFailed /\ proc' = proc
    BY <1>26 DEF SpawnError, Requests
  <2>2. CASE op.phase = "new"
    <3>1. op' \in Op /\ op'.pc = "unswap" /\ op'.phase = "new" /\ op'.req = op.req /\ op'.hash = op.hash
      BY <2>1, <2>2, <1>s, StartFailedFacts
    <3> QED BY <3>1, <2>1, <2>2
  <2>3. CASE op.phase # "new"
    BY <2>1, <2>3, <1>s, <1>i, StartFailedFacts
  <2> QED BY <2>2, <2>3
<1>27. ASSUME Settle PROVE PhaseKnown'
  <2>1. /\ op.pc = "settle" /\ op.req \in Requests /\ (LoadWorked \/ StartFailed) /\ proc' = proc
    BY <1>27 DEF Settle, Requests
  <2>2. CASE op.phase = "new"
    <3>1. /\ op'.pc \in {"unswap", "prune"} /\ op'.phase = "new"
          /\ op'.req = op.req /\ op'.hash = op.hash
      BY <2>1, <2>2, <1>s, StartFailedFacts, LoadWorkedFacts
    <3> QED BY <3>1, <2>1, <2>2
  <2>3. CASE op.phase # "new"
    BY <2>1, <2>3, <1>s, <1>i, StartFailedFacts, LoadWorkedFacts
  <2> QED BY <2>2, <2>3
<1>28. ASSUME Unswap PROVE PhaseKnown'
  BY <1>28, <1>s, <1>l, <1>i, GotoFacts DEF Unswap
<1>29. ASSUME Unrecord PROVE PhaseKnown'
  BY <1>29, <1>s, <1>l, <1>i, GotoFacts DEF Unrecord
<1>30. ASSUME RevertFault PROVE PhaseKnown'
  BY <1>30, <1>s, <1>l, <1>i, GotoFacts DEF RevertFault
<1>31. ASSUME ResumeLoaded PROVE PhaseKnown'
  BY <1>31, <1>s, <1>l, <1>i DEF ResumeLoaded, Revert, Op
<1>32. ASSUME ResumeStarted PROVE PhaseKnown'
  BY <1>32, <1>s, <1>l, <1>i DEF ResumeStarted, Revert, Op
<1>33. ASSUME ResumeDown PROVE PhaseKnown'
  BY <1>33, <1>s, <1>l, <1>i DEF ResumeDown, Unwant, Finish
<1>34. ASSUME Rewind PROVE PhaseKnown'
  BY <1>34, <1>s, <1>l, <1>i, GotoFacts DEF Rewind
<1>35. ASSUME Rerecord PROVE PhaseKnown'
  BY <1>35, <1>s, <1>l, <1>i, GotoFacts DEF Rerecord
<1>36. ASSUME RollbackFault PROVE PhaseKnown'
  BY <1>36, <1>s, <1>l, <1>i DEF RollbackFault, Finish
<1>37. ASSUME Unmark PROVE PhaseKnown'
  BY <1>37, <1>s, <1>l, <1>i, GotoFacts DEF Unmark
<1>38. ASSUME Halt PROVE PhaseKnown'
  BY <1>38, <1>s, <1>l, <1>i, GotoFacts DEF Halt
<1>39. ASSUME Halted PROVE PhaseKnown'
  BY <1>39, <1>s, <1>l, <1>i DEF Halted, Finish
<1>40. ASSUME Boots PROVE PhaseKnown'
  BY <1>40, <1>s, <1>l, <1>i, GotoFacts DEF Boots
<1>41. ASSUME BootSwap PROVE PhaseKnown'
  BY <1>41, <1>s, <1>l, <1>i, GotoFacts DEF BootSwap
<1>42. ASSUME BootMark PROVE PhaseKnown'
  BY <1>42, <1>s, <1>l, <1>i, GotoFacts DEF BootMark
<1>43. ASSUME BootStart PROVE PhaseKnown'
  BY <1>43, <1>s, <1>l, <1>i DEF BootStart
<1>44. ASSUME BootFault PROVE PhaseKnown'
  BY <1>44, <1>s, <1>l, <1>i DEF BootFault
<1>45. ASSUME EngineExits PROVE PhaseKnown'
  BY <1>45, <1>s, <1>l, <1>i DEF EngineExits
<1>46. ASSUME Retry PROVE PhaseKnown'
  BY <1>46, <1>s, <1>l, <1>i DEF Retry
<1>47. ASSUME Kill PROVE PhaseKnown'
  BY <1>47, <1>s, <1>l, <1>i DEF Kill, Unwant, IdleOp, Op
<1>48. ASSUME UNCHANGED vars PROVE PhaseKnown'
  BY <1>48, <1>s, <1>l, <1>i DEF vars
<1> QED
  BY <1>1, <1>2, <1>3, <1>4, <1>5, <1>6, <1>7, <1>8, <1>9, <1>10, <1>11, <1>12, <1>13,
     <1>14, <1>15, <1>16, <1>17, <1>18, <1>19, <1>20, <1>21, <1>22, <1>23, <1>24, <1>25,
     <1>26, <1>27, <1>28, <1>29, <1>30, <1>31, <1>32, <1>33, <1>34, <1>35, <1>36, <1>37,
     <1>38, <1>39, <1>40, <1>41, <1>42, <1>43, <1>44, <1>45, <1>46, <1>47, <1>48 DEF Next, Request, Work

\* The fields of the store as activate() leaves them
LEMMA ActivatedFields ==
  ASSUME NEW s \in Store, NEW h \in Release
  PROVE  /\ Activated(s, h) \in Store /\ Activated(s, h).current = h /\ Activated(s, h).stopped = s.stopped
<1>1. Written(s, h) \in Store /\ Written(s, h).stopped = s.stopped
  BY StoreOperations, WrittenFields
<1>2. Swapped(Written(s, h), h) \in Store /\ Swapped(Written(s, h), h).current = h
      /\ Swapped(Written(s, h), h).stopped = s.stopped
  BY <1>1, StoreOperations, SwappedFields
<1> QED BY ZenonT(60), <1>2, StoreOperations, HistoryFields DEF Activated

\* The marker and the link are files of their own: the order in which an apply
\* clears the one and its revert moves the other does not matter.
LEMMA MarkersCommute ==
  ASSUME NEW s \in Store, NEW h \in Release, NEW p \in Release \cup {None}, NEW on \in BOOLEAN
  PROVE  Unrecorded(Swapped(Marked(s, on), p), h, p) = Marked(Unrecorded(Swapped(s, p), h, p), on)
BY DEF Store, Unrecorded, Swapped, Marked

\* What is known of the store holds as long as neither it nor the request changes.
LEMMA StoreKept ==
  ASSUME StoreKnown, UNCHANGED <<store, op>>
  PROVE  StoreKnown'
<1>1. StoreApplied'
  BY ZenonT(60) DEF StoreKnown, StoreApplied, Before, Mine, Prev
<1>2. StoreElse'
  BY ZenonT(60) DEF StoreKnown, StoreElse, Before, Mine, Prev
<1> QED BY <1>1, <1>2 DEF StoreKnown

\* Each file operation takes the store from what it was before it to what it is
\* after it, counted from the store the request found.
LEMMA StoreNext ==
  ASSUME ~IOErrors
  PROVE  AgentInv /\ PhaseKnown /\ StoreKnown /\ [Next]_vars => StoreKnown'
<1> SUFFICES ASSUME AgentInv, PhaseKnown, StoreKnown, [Next]_vars PROVE StoreKnown'
  OBVIOUS
<1> USE DEF StoreKnown, StoreApplied, StoreElse, Before, Mine, Prev, Applying, Reverting, Returning, Loading, Booting, Idle, Running
<1>s. /\ store \in Store /\ op \in Op
      /\ op.pc \in Applying => op.phase = "new"
      /\ op.pc \in Returning => op.phase = "rollback"
      /\ op.pc \in Applying \cup Reverting \cup Returning => op.hash \in Release
      /\ StoreKnown
  BY DEF AgentInv, TypeInv, TypeOK, OpKnown
<1>q. /\ op.pc \in Applying => op.req \in {"apply", "applyStop"}
      /\ op.pc \in Loading => op.phase \in {"new", "revert", "rollback", "manual"}
      /\ op.pc \in Loading /\ op.phase = "new" => op.req = "apply"
      /\ op.pc \in Loading /\ op.phase = "manual" => op.req = IF op.pc = "load" THEN "reload" ELSE "start"
      /\ op.pc \in {"prune", "trim"} => op.phase = "new"
      /\ op.pc \in Reverting => op.phase = "new"
      /\ op.pc \in Returning => op.hash = Previous(op.before)
      /\ op.pc \in {"halt", "halted"} => op.req \in {"applyStop", "stopOnly", "stop"}
      /\ op.pc = "halted" => op.req # "applyStop"
  BY DEF PhaseKnown
<1>b. /\ op.before \in Store /\ op.before.current \in Release \cup {None}
  BY <1>s DEF Op, Store
<1>m. op.req # "applyStop" =>
        Marked(Activated(op.before, op.hash), op.req = "applyStop") = Marked(Activated(op.before, op.hash), FALSE)
  OBVIOUS
<1>l. /\ {"write", "validate", "swap", "record", "mark", "prune", "trim", "load",
          "spawn", "settle", "unswap", "unrecord", "resume", "halt", "halted",
          "rewind", "rerecord", "unmark"} \subseteq Steps
      /\ {"idle", "boot", "bootSwap", "bootMark", "bootStart"} \subseteq Steps
  BY DEF Steps
<1>i. op' = IdleOp => op'.pc = "idle" /\ op'.req = "none"
  BY DEF IdleOp
<1>1. ASSUME NEW h \in Hash, ApplyUnusable(h) PROVE StoreKnown'
  BY <1>1, <1>s, <1>q, <1>b, <1>m, <1>l, <1>i DEF ApplyUnusable
<1>2. ASSUME NEW h \in Hash, ApplyActive(h) PROVE StoreKnown'
  BY <1>2, <1>s, <1>q, <1>b, <1>m, <1>l, <1>i DEF ApplyActive
<1>3. ASSUME NEW h \in Hash, ApplyBegin(h) PROVE StoreKnown'
  BY <1>3, <1>s, <1>q, <1>b, <1>m, <1>l, <1>i DEF ApplyBegin, Begin
<1>4. ASSUME NEW h \in Hash, ApplyStopBegin(h) PROVE StoreKnown'
  BY <1>4, <1>s, <1>q, <1>b, <1>m, <1>l, <1>i DEF ApplyStopBegin, Begin
<1>5. ASSUME StopOnlyBegin PROVE StoreKnown'
  BY <1>5, <1>s, <1>q, <1>b, <1>m, <1>l, <1>i DEF StopOnlyBegin, Begin, Unwant
<1>6. ASSUME RollbackNone PROVE StoreKnown'
  BY <1>6, <1>s, <1>q, <1>b, <1>m, <1>l, <1>i DEF RollbackNone
<1>7. ASSUME RollbackBegin PROVE StoreKnown'
  BY <1>7, <1>s, <1>q, <1>b, <1>m, <1>l, <1>i DEF RollbackBegin, Begin
<1>8. ASSUME StartNothing PROVE StoreKnown'
  BY <1>8, <1>s, <1>q, <1>b, <1>m, <1>l, <1>i DEF StartNothing
<1>9. ASSUME StartBegin PROVE StoreKnown'
  BY <1>9, <1>s, <1>q, <1>b, <1>m, <1>l, <1>i DEF StartBegin, Begin
<1>10. ASSUME StopBegin PROVE StoreKnown'
  BY <1>10, <1>s, <1>q, <1>b, <1>m, <1>l, <1>i DEF StopBegin, Begin, Unwant
<1>11. ASSUME ReloadDown PROVE StoreKnown'
  BY <1>11, <1>s, <1>q, <1>b, <1>m, <1>l, <1>i DEF ReloadDown
<1>12. ASSUME ReloadBegin PROVE StoreKnown'
  BY <1>12, <1>s, <1>q, <1>b, <1>m, <1>l, <1>i DEF ReloadBegin, Begin
<1>13. ASSUME Write PROVE StoreKnown'
  BY ZenonT(60), <1>13, <1>s, <1>q, <1>b, <1>m, <1>l, <1>i, GotoFacts DEF Write
<1>14. ASSUME NEW ok \in BOOLEAN, Validate(ok) PROVE StoreKnown'
  BY ZenonT(60), <1>14, <1>s, <1>q, <1>b, <1>m, <1>l, <1>i, GotoFacts DEF Validate, Finish
<1>15. ASSUME Swap PROVE StoreKnown'
  BY <1>15, <1>s, <1>q, <1>b, <1>m, <1>l, <1>i, GotoFacts DEF Swap
<1>16. ASSUME Record PROVE StoreKnown'
  BY <1>16, <1>s, <1>q, <1>b, <1>m, <1>l, <1>i, GotoFacts DEF Record, Activated
<1>17. ASSUME Mark PROVE StoreKnown'
  <2>1. /\ op'.phase = op.phase /\ op'.hash = op.hash /\ op'.req = op.req /\ op'.before = op.before
        /\ IF op.req = "applyStop" THEN op'.pc = "halt" ELSE op'.pc \in {"load", "spawn"}
    BY <1>17, <1>s DEF Mark, Goto, Op
  <2>2. store' = Marked(Activated(op.before, op.hash), op.req = "applyStop")
    BY <1>17, <1>s DEF Mark
  <2> QED BY <2>1, <2>2, <1>17, <1>s, <1>q, <1>m DEF Mark
<1>18. ASSUME ApplyFault PROVE StoreKnown'
  BY <1>18, <1>s, <1>q, <1>b, <1>m, <1>l, <1>i DEF ApplyFault, Finish
<1>19. ASSUME Prune PROVE StoreKnown'
  BY <1>19, <1>s, <1>q, <1>b, <1>m, <1>l, <1>i, GotoFacts DEF Prune
<1>20. ASSUME Trim PROVE StoreKnown'
  BY <1>20, <1>s, <1>q, <1>b, <1>m, <1>l, <1>i DEF Trim, Finish
<1>21. ASSUME LoadAccepted PROVE StoreKnown'
  BY ZenonT(60), <1>21, <1>s, <1>q, <1>b, <1>m, <1>l, <1>i, GotoFacts DEF LoadAccepted, LoadWorked, Finish
<1>22. ASSUME LoadRejected PROVE StoreKnown'
  BY ZenonT(60), <1>22, <1>s, <1>q, <1>b, <1>m, <1>l, <1>i, GotoFacts DEF LoadRejected, LoadFailed, Finish
<1>23. ASSUME LoadLate PROVE StoreKnown'
  BY ZenonT(60), <1>23, <1>s, <1>q, <1>b, <1>m, <1>l, <1>i, GotoFacts DEF LoadLate, LoadFailed, Finish
<1>24. ASSUME LoadGone PROVE StoreKnown'
  BY ZenonT(60), <1>24, <1>s, <1>q, <1>b, <1>m, <1>l, <1>i, GotoFacts DEF LoadGone, LoadFailed, Finish
<1>25. ASSUME Spawn PROVE StoreKnown'
  BY ZenonT(60), <1>25, <1>s, <1>q, <1>b, <1>m, <1>l, <1>i, GotoFacts DEF Spawn
<1>26. ASSUME SpawnError PROVE StoreKnown'
  BY ZenonT(60), <1>26, <1>s, <1>q, <1>b, <1>m, <1>l, <1>i, GotoFacts DEF SpawnError, StartFailed, Unwant, Finish, Op
<1>27. ASSUME Settle PROVE StoreKnown'
  <2>1. /\ op.pc = "settle" /\ op.req \in Requests /\ (LoadWorked \/ StartFailed) /\ store' = store
    BY <1>27 DEF Settle, AgentInv, TypeInv, OpKnown
  <2>2. CASE op.phase = "new"
    <3>1. op.req = "apply"
      BY <2>1, <2>2, <1>q
    <3>2. /\ op'.pc \in {"unswap", "prune"} /\ op'.phase = "new"
          /\ op'.req = op.req /\ op'.hash = op.hash /\ op'.before = op.before
      BY <2>1, <2>2, <1>s, StartFailedFacts, LoadWorkedFacts
    <3>3. store = Marked(Activated(op.before, op.hash), FALSE)
      BY <2>1, <2>2, <1>s
    <3>4. store' = Marked(Activated(op'.before, op'.hash), FALSE)
      BY <3>2, <3>3, <2>1
    <3> QED BY <3>1, <3>2, <3>4, <1>m
  <2>3. CASE op.phase # "new"
    BY <2>1, <2>3, <1>i, <1>s, StartFailedFacts, LoadWorkedFacts
  <2> QED BY <2>2, <2>3
<1>28. ASSUME Unswap PROVE StoreKnown'
  BY <1>28, <1>s, <1>q, <1>b, <1>m, <1>l, <1>i, GotoFacts DEF Unswap
<1>29. ASSUME Unrecord PROVE StoreKnown'
  <2>1. Activated(op.before, op.hash) \in Store
    BY <1>29, <1>s, <1>b, ActivatedFields DEF Unrecord
  <2>2. store' = Marked(Undone(op.before, op.hash), FALSE)
    BY ZenonT(60), <2>1, <1>29, <1>s, <1>b, MarkersCommute DEF Unrecord, Undone
  <2>3. op'.pc = "resume"
    BY <1>29, <1>s, <1>l, GotoFacts DEF Unrecord
  <2> QED BY <2>2, <2>3, <1>29, <1>s, <1>l, GotoFacts DEF Unrecord
<1>30. ASSUME RevertFault PROVE StoreKnown'
  BY <1>30, <1>s, <1>q, <1>b, <1>m, <1>l, <1>i, GotoFacts DEF RevertFault
<1>31. ASSUME ResumeLoaded PROVE StoreKnown'
  BY <1>31, <1>s, <1>q, <1>b, <1>m, <1>l, <1>i DEF ResumeLoaded, Revert, Op
<1>32. ASSUME ResumeStarted PROVE StoreKnown'
  BY <1>32, <1>s, <1>q, <1>b, <1>m, <1>l, <1>i DEF ResumeStarted, Revert, Op
<1>33. ASSUME ResumeDown PROVE StoreKnown'
  BY <1>33, <1>s, <1>q, <1>b, <1>m, <1>l, <1>i DEF ResumeDown, Unwant, Finish
<1>34. ASSUME Rewind PROVE StoreKnown'
  BY <1>34, <1>s, <1>q, <1>b, <1>m, <1>l, <1>i, GotoFacts DEF Rewind
<1>35. ASSUME Rerecord PROVE StoreKnown'
  BY <1>35, <1>s, <1>q, <1>b, <1>m, <1>l, <1>i, GotoFacts DEF Rerecord, RolledBack
<1>36. ASSUME RollbackFault PROVE StoreKnown'
  BY <1>36, <1>s, <1>q, <1>b, <1>m, <1>l, <1>i DEF RollbackFault, Finish
<1>37. ASSUME Unmark PROVE StoreKnown'
  BY ZenonT(60), <1>37, <1>s, <1>q, <1>b, <1>m, <1>l, <1>i, GotoFacts DEF Unmark
<1>38. ASSUME Halt PROVE StoreKnown'
  BY ZenonT(60), <1>38, <1>s, <1>q, <1>b, <1>m, <1>l, <1>i, GotoFacts DEF Halt
<1>39. ASSUME Halted PROVE StoreKnown'
  BY <1>39, <1>s, <1>q, <1>b, <1>m, <1>l, <1>i DEF Halted, Finish
<1>40. ASSUME Boots PROVE StoreKnown'
  BY ZenonT(60), <1>40, <1>s, <1>q, <1>b, <1>m, <1>l, <1>i, GotoFacts DEF Boots
<1>41. ASSUME BootSwap PROVE StoreKnown'
  BY <1>41, <1>s, <1>q, <1>b, <1>m, <1>l, <1>i, GotoFacts DEF BootSwap
<1>42. ASSUME BootMark PROVE StoreKnown'
  BY <1>42, <1>s, <1>q, <1>b, <1>m, <1>l, <1>i, GotoFacts DEF BootMark
<1>43. ASSUME BootStart PROVE StoreKnown'
  BY <1>43, <1>s, <1>q, <1>b, <1>m, <1>l, <1>i DEF BootStart
<1>44. ASSUME BootFault PROVE StoreKnown'
  BY <1>44, <1>s, <1>q, <1>b, <1>m, <1>l, <1>i DEF BootFault
<1>45. ASSUME EngineExits PROVE StoreKnown'
  BY <1>45, StoreKept DEF EngineExits
<1>46. ASSUME Retry PROVE StoreKnown'
  BY <1>46, <1>s, <1>q, <1>b, <1>m, <1>l, <1>i DEF Retry
<1>47. ASSUME Kill PROVE StoreKnown'
  BY <1>47, <1>s, <1>q, <1>b, <1>m, <1>l, <1>i DEF Kill, Unwant, IdleOp, Op
<1>48. ASSUME UNCHANGED vars PROVE StoreKnown'
  BY <1>48, StoreKept DEF vars
<1> QED
  BY ZenonT(60), <1>1, <1>2, <1>3, <1>4, <1>5, <1>6, <1>7, <1>8, <1>9, <1>10, <1>11, <1>12, <1>13,
     <1>14, <1>15, <1>16, <1>17, <1>18, <1>19, <1>20, <1>21, <1>22, <1>23, <1>24, <1>25,
     <1>26, <1>27, <1>28, <1>29, <1>30, <1>31, <1>32, <1>33, <1>34, <1>35, <1>36, <1>37,
     <1>38, <1>39, <1>40, <1>41, <1>42, <1>43, <1>44, <1>45, <1>46, <1>47, <1>48 DEF Next, Request, Work

\* The engine serves what the request's phase says it serves: an apply that goes
\* back to the release it found knows whether the engine may serve that one.
LEMMA ServeNext ==
  ASSUME ~IOErrors, ~OldRejected
  PROVE  AgentInv /\ PhaseKnown /\ StoreKnown /\ ServeKnown /\ [Next]_vars => ServeKnown'
<1> SUFFICES ASSUME AgentInv, PhaseKnown, StoreKnown, ServeKnown, [Next]_vars PROVE ServeKnown'
  OBVIOUS
<1> USE DEF ServeKnown, Before, Prev, Applying, Reverting, Returning, Loading, Booting, Idle, Running
<1>s. /\ store \in Store /\ op \in Op
      /\ op.pc \in Applying => op.phase = "new"
      /\ op.pc \in Returning => op.phase = "rollback"
      /\ op.pc \in Reverting => op.phase = "new"
      /\ op.pc \in {"prune", "trim"} => op.phase = "new"
      /\ op.pc \in Loading => op.phase \in {"new", "revert", "rollback", "manual"}
      /\ op.pc \in Applying \cup Reverting \cup Returning => op.hash \in Release
      /\ store.stopped => ~want /\ (Running => op.pc = "halt")
      /\ op.died /\ op.pc \in Reverting => ~Running
      /\ op.pc \in {"halted"} \cup Booting => ~Running
      /\ op.died \in BOOLEAN /\ op.wanted \in BOOLEAN /\ op.before.stopped \in BOOLEAN
      /\ want \in BOOLEAN
      /\ ServeKnown
  BY DEF AgentInv, TypeInv, TypeOK, OpKnown, StopKnown, PhaseKnown, Op, Store
<1>w. op.pc = "swap" => store.current = op.before.current
  BY <1>s, WrittenFields DEF StoreKnown, StoreApplied, Op
<1>l. /\ {"write", "validate", "swap", "record", "mark", "prune", "trim", "load",
          "spawn", "settle", "unswap", "unrecord", "resume", "halt", "halted",
          "rewind", "rerecord", "unmark"} \subseteq Steps
      /\ {"idle", "boot", "bootSwap", "bootMark", "bootStart"} \subseteq Steps
  BY DEF Steps
<1>i. op' = IdleOp => op'.pc = "idle" /\ op'.phase = "manual"
  BY DEF IdleOp
<1>1. ASSUME NEW h \in Hash, ApplyUnusable(h) PROVE ServeKnown'
  BY <1>1, <1>s, <1>l, <1>i DEF ApplyUnusable
<1>2. ASSUME NEW h \in Hash, ApplyActive(h) PROVE ServeKnown'
  BY <1>2, <1>s, <1>l, <1>i DEF ApplyActive
<1>3. ASSUME NEW h \in Hash, ApplyBegin(h) PROVE ServeKnown'
  BY <1>3, <1>s, <1>l, <1>i DEF ApplyBegin, Begin
<1>4. ASSUME NEW h \in Hash, ApplyStopBegin(h) PROVE ServeKnown'
  BY <1>4, <1>s, <1>l, <1>i DEF ApplyStopBegin, Begin
<1>5. ASSUME StopOnlyBegin PROVE ServeKnown'
  BY <1>5, <1>s, <1>l, <1>i, MarkedFields DEF StopOnlyBegin, Begin, Unwant
<1>6. ASSUME RollbackNone PROVE ServeKnown'
  BY <1>6, <1>s, <1>l, <1>i DEF RollbackNone
<1>7. ASSUME RollbackBegin PROVE ServeKnown'
  BY <1>7, <1>s, <1>l, <1>i DEF RollbackBegin, Begin
<1>8. ASSUME StartNothing PROVE ServeKnown'
  BY <1>8, <1>s, <1>l, <1>i DEF StartNothing
<1>9. ASSUME StartBegin PROVE ServeKnown'
  BY <1>9, <1>s, <1>l, <1>i, MarkedFields DEF StartBegin, Begin
<1>10. ASSUME StopBegin PROVE ServeKnown'
  BY <1>10, <1>s, <1>l, <1>i DEF StopBegin, Begin, Unwant
<1>11. ASSUME ReloadDown PROVE ServeKnown'
  BY <1>11, <1>s, <1>l, <1>i DEF ReloadDown
<1>12. ASSUME ReloadBegin PROVE ServeKnown'
  BY <1>12, <1>s, <1>l, <1>i DEF ReloadBegin, Begin
<1>13. ASSUME Write PROVE ServeKnown'
  BY <1>13, <1>s, <1>l, <1>i, GotoFacts, WrittenFields DEF Write
<1>14. ASSUME NEW ok \in BOOLEAN, Validate(ok) PROVE ServeKnown'
  BY <1>14, <1>s, <1>l, <1>i, GotoFacts, RemovedFields DEF Validate, Finish
<1>15. ASSUME Swap PROVE ServeKnown'
  BY <1>15, <1>s, <1>l, <1>i, GotoFacts, SwappedFields, <1>w DEF Swap
<1>16. ASSUME Record PROVE ServeKnown'
  BY <1>16, <1>s, <1>l, <1>i, GotoFacts, HistoryFields DEF Record
<1>17. ASSUME Mark PROVE ServeKnown'
  <2>1. /\ op'.phase = op.phase /\ op'.before = op.before /\ op'.died = op.died
        /\ IF op.req = "applyStop" THEN op'.pc = "halt"
           ELSE op'.pc = (IF Running THEN "load" ELSE "spawn") /\ op'.wanted = want
    BY <1>17, <1>s DEF Mark, Goto, Op
  <2>2. CASE op.req = "applyStop"
    BY <2>1, <2>2, <1>17, <1>s DEF Mark
  <2>3. CASE op.req # "applyStop" /\ Running
    BY <2>1, <2>3, <1>17, <1>s DEF Mark
  <2>4. CASE op.req # "applyStop" /\ ~Running
    BY <2>1, <2>4, <1>17, <1>s DEF Mark
  <2> QED BY <2>2, <2>3, <2>4
<1>18. ASSUME ApplyFault PROVE ServeKnown'
  BY <1>18, <1>s, <1>l, <1>i DEF ApplyFault, Finish
<1>19. ASSUME Prune PROVE ServeKnown'
  BY <1>19, <1>s, <1>l, <1>i, GotoFacts, PrunedFields DEF Prune
<1>20. ASSUME Trim PROVE ServeKnown'
  BY <1>20, <1>s, <1>l, <1>i, HistoryFields DEF Trim, Finish
<1>21. ASSUME LoadAccepted PROVE ServeKnown'
  BY <1>21, <1>s, <1>l, <1>i, GotoFacts DEF LoadAccepted, LoadWorked, Finish
<1>22. ASSUME LoadRejected PROVE ServeKnown'
  BY <1>22, <1>s, <1>l, <1>i, GotoFacts DEF LoadRejected, LoadFailed, Finish, MayReject
<1>23. ASSUME LoadLate PROVE ServeKnown'
  BY <1>23, <1>s, <1>l, <1>i, GotoFacts DEF LoadLate, LoadFailed, Finish, MayReject
<1>24. ASSUME LoadGone PROVE ServeKnown'
  BY <1>24, <1>s, <1>l, <1>i, GotoFacts DEF LoadGone, LoadFailed, Finish
<1>25. ASSUME Spawn PROVE ServeKnown'
  BY <1>25, <1>s, <1>l, <1>i, GotoFacts DEF Spawn
<1>26. ASSUME SpawnError PROVE ServeKnown'
  BY ZenonT(60), <1>26, <1>s, <1>l, <1>i, GotoFacts DEF SpawnError, StartFailed, Unwant, Finish, Op
<1>27. ASSUME Settle PROVE ServeKnown'
  BY ZenonT(60), <1>27, <1>s, <1>l, <1>i, GotoFacts DEF Settle, LoadWorked, StartFailed, Unwant, Finish, Op
<1>28. ASSUME Unswap PROVE ServeKnown'
  BY <1>28, <1>s, <1>l, <1>i, GotoFacts DEF Unswap
<1>29. ASSUME Unrecord PROVE ServeKnown'
  BY <1>29, <1>s, <1>l, <1>i, GotoFacts DEF Unrecord
<1>30. ASSUME RevertFault PROVE ServeKnown'
  BY <1>30, <1>s, <1>l, <1>i, GotoFacts DEF RevertFault
<1>31. ASSUME ResumeLoaded PROVE ServeKnown'
  BY <1>31, <1>s, <1>l, <1>i DEF ResumeLoaded, Revert, Op
<1>32. ASSUME ResumeStarted PROVE ServeKnown'
  BY <1>32, <1>s, <1>l, <1>i DEF ResumeStarted, Revert, Op, ShouldRun
<1>33. ASSUME ResumeDown PROVE ServeKnown'
  BY <1>33, <1>s, <1>l, <1>i, MarkedFields DEF ResumeDown, Unwant, Finish
<1>34. ASSUME Rewind PROVE ServeKnown'
  BY <1>34, <1>s, <1>l, <1>i, GotoFacts, SwappedFields DEF Rewind
<1>35. ASSUME Rerecord PROVE ServeKnown'
  BY <1>35, <1>s, <1>l, <1>i, GotoFacts DEF Rerecord
<1>36. ASSUME RollbackFault PROVE ServeKnown'
  BY <1>36, <1>s, <1>l, <1>i DEF RollbackFault, Finish
<1>37. ASSUME Unmark PROVE ServeKnown'
  BY ZenonT(60), <1>37, <1>s, <1>l, <1>i, GotoFacts, MarkedFields DEF Unmark
<1>38. ASSUME Halt PROVE ServeKnown'
  BY <1>38, <1>s, <1>l, <1>i, GotoFacts DEF Halt
<1>39. ASSUME Halted PROVE ServeKnown'
  BY <1>39, <1>s, <1>l, <1>i, MarkedFields DEF Halted, Finish
<1>40. ASSUME Boots PROVE ServeKnown'
  BY <1>40, <1>s, <1>l, <1>i, GotoFacts DEF Boots
<1>41. ASSUME BootSwap PROVE ServeKnown'
  BY <1>41, <1>s, <1>l, <1>i, GotoFacts DEF BootSwap
<1>42. ASSUME BootMark PROVE ServeKnown'
  BY <1>42, <1>s, <1>l, <1>i, GotoFacts DEF BootMark
<1>43. ASSUME BootStart PROVE ServeKnown'
  BY <1>43, <1>s, <1>l, <1>i DEF BootStart
<1>44. ASSUME BootFault PROVE ServeKnown'
  BY <1>44, <1>s, <1>l, <1>i DEF BootFault
<1>45. ASSUME EngineExits PROVE ServeKnown'
  BY <1>45, <1>s, <1>l, <1>i DEF EngineExits
<1>46. ASSUME Retry PROVE ServeKnown'
  BY <1>46, <1>s, <1>l, <1>i DEF Retry
<1>47. ASSUME Kill PROVE ServeKnown'
  BY <1>47, <1>s, <1>l, <1>i DEF Kill, Unwant, IdleOp, Op
<1>48. ASSUME UNCHANGED vars PROVE ServeKnown'
  BY <1>48, <1>s, <1>l, <1>i DEF vars
<1> QED
  BY <1>1, <1>2, <1>3, <1>4, <1>5, <1>6, <1>7, <1>8, <1>9, <1>10, <1>11, <1>12, <1>13,
     <1>14, <1>15, <1>16, <1>17, <1>18, <1>19, <1>20, <1>21, <1>22, <1>23, <1>24, <1>25,
     <1>26, <1>27, <1>28, <1>29, <1>30, <1>31, <1>32, <1>33, <1>34, <1>35, <1>36, <1>37,
     <1>38, <1>39, <1>40, <1>41, <1>42, <1>43, <1>44, <1>45, <1>46, <1>47, <1>48 DEF Next, Request, Work

\* The fields of the store as a reverted apply leaves them
LEMMA UndoneFields ==
  ASSUME NEW s \in Store, NEW h \in Release
  PROVE  /\ Undone(s, h) \in Store /\ Undone(s, h).current = s.current /\ Undone(s, h).stopped = s.stopped
<1>1. s.current \in Release \cup {None}
  BY DEF Store
<1>2. Activated(s, h) \in Store /\ Activated(s, h).stopped = s.stopped
  BY ActivatedFields
<1>3. Swapped(Activated(s, h), s.current) \in Store
  BY <1>1, <1>2, StoreOperations
<1>4. /\ Swapped(Activated(s, h), s.current).current = s.current
      /\ Swapped(Activated(s, h), s.current).stopped = s.stopped
  BY <1>2, SwappedFields
<1> DEFINE t == Swapped(Activated(s, h), s.current)
<1>5. t \in Store /\ t.current = s.current /\ t.stopped = s.stopped
  BY <1>2, <1>3, <1>4
<1>6. Undone(s, h) = Unrecorded(t, h, s.current)
  BY DEF Undone
<1> HIDE DEF t
<1>7. Unrecorded(t, h, s.current) \in Store
  BY <1>1, <1>5, StoreOperations
<1> QED BY <1>5, <1>6, <1>7, HistoryFields

\* Where the link is when an apply is answered.
LEMMA LinkKnown ==
  ASSUME AgentInv, PhaseKnown, StoreKnown
  PROVE  /\ op.pc = "validate" => store.current = Prev
         /\ op.pc = "trim" => store.current = op.hash
         /\ op.pc = "resume" \/ (op.pc \in Loading /\ op.phase = "revert") => store.current = Prev
<1> USE DEF Prev, Before, Mine
<1>1. /\ op.before \in Store /\ op.before.current \in Release \cup {None}
      /\ op.pc = "trim" => op.hash \in Release
      /\ op.pc = "resume" \/ (op.pc \in Loading /\ op.phase = "revert") => op.hash \in Release
  BY DEF AgentInv, TypeInv, TypeOK, Op, Store, PhaseKnown, Release, OpKnown, Reverting
<1>2. op.pc = "validate" => store.current = Prev
  BY <1>1, WrittenFields DEF StoreKnown, StoreApplied
<1>3. ASSUME op.pc = "trim" PROVE store.current = op.hash
  <2> DEFINE s == Activated(op.before, op.hash)
             on == op.req = "applyStop"
  <2>1. s \in Store /\ s.current = op.hash
    BY <1>1, <1>3, ActivatedFields
  <2>2. on \in BOOLEAN
    OBVIOUS
  <2>3. store = Pruned(Marked(s, on))
    BY <1>3 DEF StoreKnown, StoreApplied
  <2> HIDE DEF s, on
  <2>4. Marked(s, on) \in Store /\ Marked(s, on).current = op.hash
    BY <2>1, <2>2, MarkedFields DEF Marked, Store
  <2> QED BY <2>3, <2>4, PrunedFields
<1>4. ASSUME op.pc = "resume" \/ (op.pc \in Loading /\ op.phase = "revert") PROVE store.current = Prev
  <2>1. store = Marked(Undone(op.before, op.hash), FALSE)
    BY <1>4 DEF StoreKnown, StoreApplied
  <2>2. Undone(op.before, op.hash) \in Store /\ Undone(op.before, op.hash).current = op.before.current
    BY SMTT(60), <1>1, <1>4, UndoneFields
  <2> QED BY <2>1, <2>2, MarkedFields
<1> QED BY <1>2, <1>3, <1>4

\* An apply is answered as it went.
LEMMA AnswerNext ==
  ASSUME ~IOErrors, ~OldRejected
  PROVE  AtomicInv /\ [Next]_vars => AnswerHolds'
<1> SUFFICES ASSUME AtomicInv, [Next]_vars PROVE AnswerHolds'
  OBVIOUS
<1> USE DEF AnswerHolds, AppliedIsServed, RefusedIsUndone, Idle, Running
<1>s. /\ store \in Store /\ op \in Op
      /\ op.died /\ op.pc = "resume" => ~Running
      /\ op.pc \in {"halted"} \cup Booting => ~Running
      /\ op.pc \in Loading => op.phase \in {"new", "revert", "rollback", "manual"}
      /\ op.pc \in Loading => (op.req = "apply" <=> op.phase \in {"new", "revert"})
      /\ op.pc \in Booting => answer = None
      /\ op.pc = "halted" => op.req # "apply"
      /\ op.pc \in {"idle", "validate", "settle", "trim"} => (Running => proc = store.current)
      /\ op.pc = "resume" /\ ~op.died => Prev # None
      /\ op.died \in BOOLEAN
      /\ AnswerHolds
  BY DEF AtomicInv, AgentInv, TypeInv, TypeOK, OpKnown, StopKnown, PhaseKnown, ServeKnown, Reverting, Loading, Booting, Op
<1>c. /\ op.pc = "validate" => store.current = Prev
      /\ op.pc = "trim" => store.current = op.hash
      /\ op.pc = "resume" \/ (op.pc \in Loading /\ op.phase = "revert") => store.current = Prev
  BY LinkKnown DEF AtomicInv
<1>l. /\ {"write", "validate", "swap", "record", "mark", "prune", "trim", "load",
          "spawn", "settle", "unswap", "unrecord", "resume", "halt", "halted",
          "rewind", "rerecord", "unmark"} \subseteq Steps
      /\ {"idle", "boot", "bootSwap", "bootMark", "bootStart"} \subseteq Steps
  BY DEF Steps
<1>i. op' = IdleOp => op'.pc = "idle"
  BY DEF IdleOp
<1> USE DEF Loading, Booting
<1>1. ASSUME NEW h \in Hash, ApplyUnusable(h) PROVE AnswerHolds'
  BY <1>1, <1>s, <1>l, <1>i DEF ApplyUnusable, Reply
<1>2. ASSUME NEW h \in Hash, ApplyActive(h) PROVE AnswerHolds'
  BY <1>2, <1>s, <1>l, <1>i DEF ApplyActive, Reply
<1>3. ASSUME NEW h \in Hash, ApplyBegin(h) PROVE AnswerHolds'
  BY <1>3, <1>s, <1>l, <1>i DEF ApplyBegin, Begin
<1>4. ASSUME NEW h \in Hash, ApplyStopBegin(h) PROVE AnswerHolds'
  BY <1>4, <1>s, <1>l, <1>i DEF ApplyStopBegin, Begin
<1>5. ASSUME StopOnlyBegin PROVE AnswerHolds'
  BY <1>5, <1>s, <1>l, <1>i DEF StopOnlyBegin, Begin, Unwant
<1>6. ASSUME RollbackNone PROVE AnswerHolds'
  BY <1>6, <1>s, <1>l, <1>i DEF RollbackNone, Reply
<1>7. ASSUME RollbackBegin PROVE AnswerHolds'
  BY <1>7, <1>s, <1>l, <1>i DEF RollbackBegin, Begin
<1>8. ASSUME StartNothing PROVE AnswerHolds'
  BY <1>8, <1>s, <1>l, <1>i DEF StartNothing, Reply
<1>9. ASSUME StartBegin PROVE AnswerHolds'
  BY <1>9, <1>s, <1>l, <1>i DEF StartBegin, Begin
<1>10. ASSUME StopBegin PROVE AnswerHolds'
  BY <1>10, <1>s, <1>l, <1>i DEF StopBegin, Begin, Unwant
<1>11. ASSUME ReloadDown PROVE AnswerHolds'
  BY <1>11, <1>s, <1>l, <1>i DEF ReloadDown, Reply
<1>12. ASSUME ReloadBegin PROVE AnswerHolds'
  BY <1>12, <1>s, <1>l, <1>i DEF ReloadBegin, Begin
<1>13. ASSUME Write PROVE AnswerHolds'
  BY <1>13, <1>s, <1>l, <1>i, GotoFacts DEF Write
<1>14. ASSUME NEW ok \in BOOLEAN, Validate(ok) PROVE AnswerHolds'
  BY <1>14, <1>s, <1>l, <1>i, GotoFacts, RemovedFields, <1>c DEF Validate, Finish
<1>15. ASSUME Swap PROVE AnswerHolds'
  BY <1>15, <1>s, <1>l, <1>i, GotoFacts DEF Swap
<1>16. ASSUME Record PROVE AnswerHolds'
  BY <1>16, <1>s, <1>l, <1>i, GotoFacts DEF Record
<1>17. ASSUME Mark PROVE AnswerHolds'
  <2>1. op'.pc \in {"halt", "load", "spawn"}
    BY <1>17, <1>s DEF Mark, Goto, Op
  <2> QED BY <2>1
<1>18. ASSUME ApplyFault PROVE AnswerHolds'
  BY <1>18, <1>s, <1>l, <1>i DEF ApplyFault, Finish
<1>19. ASSUME Prune PROVE AnswerHolds'
  BY <1>19, <1>s, <1>l, <1>i, GotoFacts DEF Prune
<1>20. ASSUME Trim PROVE AnswerHolds'
  BY <1>20, <1>s, <1>l, <1>i, HistoryFields, <1>c DEF Trim, Finish
<1>21. ASSUME LoadAccepted PROVE AnswerHolds'
  <2>1. CASE op.phase = "new"
    BY <2>1, <1>21, <1>s, <1>l, GotoFacts DEF LoadAccepted, LoadWorked, Finish
  <2>2. CASE op.phase = "revert"
    <3>1. (op.phase # "revert") = FALSE
      BY <2>2
    <3>2. Finish(FALSE) /\ store' = store
      BY <2>2, <3>1, <1>21, <1>s DEF LoadAccepted, LoadWorked
    <3>3. op' = IdleOp /\ ~answer'.ok /\ answer'.prev = Prev
      BY <3>2 DEF Finish
    <3>4. Running' => proc' = store.current
      BY <2>2, <1>21, <1>s DEF LoadAccepted
    <3> QED BY <3>2, <3>3, <3>4, <2>2, <1>21, <1>s, <1>c, <1>i DEF LoadAccepted
  <2>3. CASE op.phase \in {"rollback", "manual"}
    BY <2>3, <1>21, <1>s, <1>i DEF LoadAccepted, LoadWorked, Finish
  <2> QED BY <2>1, <2>2, <2>3, <1>21, <1>s DEF LoadAccepted
<1>22. ASSUME LoadRejected PROVE AnswerHolds'
  BY <1>22, <1>s, <1>l, <1>i, GotoFacts, <1>c DEF LoadRejected, LoadFailed, Finish, MayReject
<1>23. ASSUME LoadLate PROVE AnswerHolds'
  BY <1>23, <1>s, <1>l, <1>i, GotoFacts, <1>c DEF LoadLate, LoadFailed, Finish, MayReject
<1>24. ASSUME LoadGone PROVE AnswerHolds'
  BY <1>24, <1>s, <1>l, <1>i, GotoFacts, <1>c DEF LoadGone, LoadFailed, Finish
<1>25. ASSUME Spawn PROVE AnswerHolds'
  BY <1>25, <1>s, <1>l, <1>i, GotoFacts DEF Spawn
<1>26. ASSUME SpawnError PROVE AnswerHolds'
  <2>1. CASE op.phase = "new"
    BY <2>1, <1>26, <1>s, <1>l, GotoFacts DEF SpawnError, StartFailed, Finish, Op
  <2>2. CASE op.phase = "revert"
    BY <2>2, <1>26, <1>s, <1>c, <1>i DEF SpawnError, StartFailed, Finish, Op
  <2>3. CASE op.phase \in {"rollback", "manual"}
    BY <2>3, <1>26, <1>s, <1>i DEF SpawnError, StartFailed, Finish, Op
  <2> QED BY <2>1, <2>2, <2>3, <1>26, <1>s DEF SpawnError
<1>27. ASSUME Settle PROVE AnswerHolds'
  <2>1. CASE op.phase = "new"
    BY ZenonT(60), <2>1, <1>27, <1>s, <1>l, GotoFacts DEF Settle, LoadWorked, StartFailed, Finish, Op
  <2>2. CASE op.phase = "revert"
    <3>1. (op.phase # "revert") = FALSE
      BY <2>2
    <3>2. Finish(FALSE) /\ store' = store
      BY <2>2, <3>1, <1>27, <1>s DEF Settle, LoadWorked, StartFailed, Op
    <3>3. op' = IdleOp /\ ~answer'.ok /\ answer'.prev = Prev
      BY <3>2 DEF Finish
    <3>4. Running' => proc' = store.current
      BY <2>2, <1>27, <1>s DEF Settle
    <3> QED BY <3>2, <3>3, <3>4, <2>2, <1>27, <1>s, <1>c, <1>i DEF Settle
  <2>3. CASE op.phase \in {"rollback", "manual"}
    BY <2>3, <1>27, <1>s, <1>i DEF Settle, LoadWorked, StartFailed, Finish, Op
  <2> QED BY <2>1, <2>2, <2>3, <1>27, <1>s DEF Settle
<1>28. ASSUME Unswap PROVE AnswerHolds'
  BY <1>28, <1>s, <1>l, <1>i, GotoFacts DEF Unswap
<1>29. ASSUME Unrecord PROVE AnswerHolds'
  BY <1>29, <1>s, <1>l, <1>i, GotoFacts DEF Unrecord
<1>30. ASSUME RevertFault PROVE AnswerHolds'
  BY <1>30, <1>s, <1>l, <1>i, GotoFacts DEF RevertFault
<1>31. ASSUME ResumeLoaded PROVE AnswerHolds'
  BY <1>31, <1>s, <1>l, <1>i DEF ResumeLoaded, Revert, Op
<1>32. ASSUME ResumeStarted PROVE AnswerHolds'
  BY <1>32, <1>s, <1>l, <1>i DEF ResumeStarted, Revert, Op
<1>33. ASSUME ResumeDown PROVE AnswerHolds'
  BY ZenonT(60), <1>33, <1>s, <1>l, <1>i, <1>c, MarkedFields DEF ResumeDown, Unwant, Finish
<1>34. ASSUME Rewind PROVE AnswerHolds'
  BY <1>34, <1>s, <1>l, <1>i, GotoFacts DEF Rewind
<1>35. ASSUME Rerecord PROVE AnswerHolds'
  BY <1>35, <1>s, <1>l, <1>i, GotoFacts DEF Rerecord
<1>36. ASSUME RollbackFault PROVE AnswerHolds'
  BY <1>36, <1>s, <1>l, <1>i DEF RollbackFault, Finish
<1>37. ASSUME Unmark PROVE AnswerHolds'
  BY <1>37, <1>s, <1>l, <1>i, GotoFacts DEF Unmark
<1>38. ASSUME Halt PROVE AnswerHolds'
  BY <1>38, <1>s, <1>l, <1>i, GotoFacts DEF Halt
<1>39. ASSUME Halted PROVE AnswerHolds'
  BY <1>39, <1>s, <1>l, <1>i, MarkedFields DEF Halted, Finish
<1>40. ASSUME Boots PROVE AnswerHolds'
  BY <1>40, <1>s, <1>l, <1>i, GotoFacts DEF Boots
<1>41. ASSUME BootSwap PROVE AnswerHolds'
  BY <1>41, <1>s, <1>l, <1>i, GotoFacts DEF BootSwap
<1>42. ASSUME BootMark PROVE AnswerHolds'
  BY <1>42, <1>s, <1>l, <1>i, GotoFacts DEF BootMark
<1>43. ASSUME BootStart PROVE AnswerHolds'
  BY <1>43, <1>s, <1>l, <1>i DEF BootStart
<1>44. ASSUME BootFault PROVE AnswerHolds'
  BY <1>44, <1>s, <1>l, <1>i DEF BootFault
<1>45. ASSUME EngineExits PROVE AnswerHolds'
  BY <1>45, <1>s, <1>l, <1>i DEF EngineExits
<1>46. ASSUME Retry PROVE AnswerHolds'
  BY <1>46, <1>s, <1>l, <1>i DEF Retry
<1>47. ASSUME Kill PROVE AnswerHolds'
  BY <1>47, <1>s, <1>l, <1>i DEF Kill, Unwant, IdleOp, Op
<1>48. ASSUME UNCHANGED vars PROVE AnswerHolds'
  BY <1>48, <1>s, <1>l, <1>i DEF vars
<1> QED
  BY <1>1, <1>2, <1>3, <1>4, <1>5, <1>6, <1>7, <1>8, <1>9, <1>10, <1>11, <1>12, <1>13,
     <1>14, <1>15, <1>16, <1>17, <1>18, <1>19, <1>20, <1>21, <1>22, <1>23, <1>24, <1>25,
     <1>26, <1>27, <1>28, <1>29, <1>30, <1>31, <1>32, <1>33, <1>34, <1>35, <1>36, <1>37,
     <1>38, <1>39, <1>40, <1>41, <1>42, <1>43, <1>44, <1>45, <1>46, <1>47, <1>48 DEF Next, Request, Work

\* A fresh config root boots with no request answered.
LEMMA AtomicInvInit == Init => AtomicInv
<1> SUFFICES ASSUME Init PROVE AtomicInv
  OBVIOUS
<1>1. /\ op.pc = "boot" /\ op.req = "boot" /\ op.before = EmptyStore
      /\ op.died = FALSE /\ op.phase = "manual"
  BY IdleFacts DEF Init, IdleOp
<1>2. PhaseKnown
  BY <1>1 DEF Init, PhaseKnown, Applying, Reverting, Returning, Loading, Booting
<1>3. StoreKnown
  BY <1>1 DEF Init, StoreKnown, StoreApplied, StoreElse, Before, Loading
<1>4. ServeKnown /\ AnswerHolds
  BY <1>1 DEF Init, ServeKnown, AnswerHolds, AppliedIsServed, RefusedIsUndone, Idle,
     Applying, Reverting, Loading, Running
<1> QED BY <1>2, <1>3, <1>4, AgentInvInit DEF AtomicInv

\* Every step preserves what atomicity rests on.
LEMMA AtomicInvNext ==
  ASSUME ~IOErrors, ~OldRejected
  PROVE  AtomicInv /\ [Next]_vars => AtomicInv'
BY AgentInvNext, PhaseNext, StoreNext, ServeNext, AnswerNext DEF AtomicInv

\* Spec => []AnswerHolds, as long as no file operation fails and a release that was
\* loaded before is not rejected later: an apply answered OK left the agent on the
\* release it was given, a refused one on the release it found, whatever the engine
\* process, the restart timer and kills of the agent did meanwhile.
\* (server.go apply, revert and the reload or restart after it)
THEOREM AnswersHold ==
  ASSUME ~IOErrors, ~OldRejected
  PROVE  Spec => []AnswerHolds
<1>1. AtomicInv => AnswerHolds
  BY DEF AtomicInv
<1>2. (Init => AtomicInv) /\ (AtomicInv /\ [Next]_vars => AtomicInv')
  BY AtomicInvInit, AtomicInvNext
<1> QED BY <1>1, <1>2, PTL DEF Spec

\* The contract is stated with the operators of Releases over the same constants.
LEMMA SameOperators ==
  ASSUME NEW s, NEW h, NEW p, NEW on
  PROVE  /\ Contract!Written(s, h) = Written(s, h)
         /\ Contract!Swapped(s, h) = Swapped(s, h)
         /\ Contract!Marked(s, on) = Marked(s, on)
         /\ Contract!Previous(s) = Previous(s)
         /\ Contract!Recorded(s, h) = Recorded(s, h)
         /\ Contract!Unrecorded(s, h, p) = Unrecorded(s, h, p)
         /\ Contract!RewoundTo(s, h) = RewoundTo(s, h)
         /\ Contract!Pruned(s) = Pruned(s)
         /\ Contract!Trimmed(s) = Trimmed(s)
<1>1. /\ Contract!Written(s, h) = Written(s, h)
      /\ Contract!Swapped(s, h) = Swapped(s, h)
      /\ Contract!Marked(s, on) = Marked(s, on)
  BY DEF Written, Contract!Written, Swapped, Contract!Swapped, Marked, Contract!Marked
<1>2. \A x : Contract!Newest(x) = Newest(x)
  BY DEF Newest, Contract!Newest
<1>3. \A x, y : Contract!Push(x, y) = Push(x, y)
  BY <1>2 DEF Push, Contract!Push
<1>4. \A x, y : Contract!Pop(x, y) = Pop(x, y)
  BY <1>2 DEF Pop, Contract!Pop
<1>5. \A x : Contract!Cut(x) = Cut(x)
  BY DEF Cut, Contract!Cut
<1>6. Contract!Recorded(s, h) = Recorded(s, h) /\ Contract!Unrecorded(s, h, p) = Unrecorded(s, h, p)
  BY <1>3, <1>4, <1>5 DEF Recorded, Contract!Recorded, Unrecorded, Contract!Unrecorded
<1>7. \A x, y : Contract!Positions(x, y) = Positions(x, y)
  BY DEF Positions, Contract!Positions
<1>8. \A x : Contract!Latest(x) = Latest(x)
  BY DEF Latest, Contract!Latest
<1>9. Contract!Earlier(s) = Earlier(s)
  BY <1>7, <1>8 DEF Earlier, Contract!Earlier
<1>10. Contract!Previous(s) = Previous(s)
  BY <1>8, <1>9 DEF Previous, Contract!Previous
<1>11. Contract!RewoundTo(s, h) = RewoundTo(s, h)
  BY <1>7, <1>8 DEF RewoundTo, Contract!RewoundTo
<1>12. Contract!Kept(s) = Kept(s)
  BY DEF Kept, Contract!Kept, Cardinality, Contract!Cardinality
<1>13. Contract!Pruned(s) = Pruned(s)
  BY <1>12 DEF Pruned, Contract!Pruned
<1>14. \A x, y : Contract!OnlyIn(x, y) = OnlyIn(x, y)
  BY DEF OnlyIn, Contract!OnlyIn
<1>15. Contract!Trimmed(s) = Trimmed(s)
  BY <1>14 DEF Trimmed, Contract!Trimmed
<1> QED BY <1>1, <1>6, <1>10, <1>11, <1>13, <1>15

\* and so are its whole requests
LEMMA SameRequests ==
  ASSUME NEW s, NEW h, NEW on
  PROVE  /\ Contract!Applied(s, h, on) = Applied(s, h, on)
         /\ Contract!Undone(s, h) = Undone(s, h)
         /\ Contract!RolledBack(s) = RolledBack(s)
<1>1. \A x, y : Contract!Activated(x, y) = Activated(x, y)
  BY SameOperators DEF Activated, Contract!Activated
<1>2. Contract!Applied(s, h, on) = Applied(s, h, on)
  BY <1>1, SameOperators DEF Applied, Contract!Applied
<1>3. Contract!Undone(s, h) = Undone(s, h)
  BY <1>1, SameOperators DEF Undone, Contract!Undone
<1>4. Contract!RolledBack(s) = RolledBack(s)
  BY SameOperators DEF RolledBack, Contract!RolledBack
<1> QED BY <1>2, <1>3, <1>4

\* the store the contract sees
Shown == IF Idle THEN store ELSE op.before

\* What the contract's steps ask, in terms of the agent's own operators
Says(req, ok, h) == answer' = [req |-> req, ok |-> ok, hash |-> h, prev |-> Shown.current]

\* A step of the contract in which the agent is not killed.
Lives ==
    \/ \E h \in Hash : Contract!ApplyDone(h) \/ Contract!ApplyRefused(h) \/ Contract!ApplyStopDone(h)
    \/ Contract!StopDone("stopOnly") \/ Contract!StopDone("stop")
    \/ Contract!RollbackDone \/ Contract!RollbackRefused
    \/ Contract!StartDone \/ Contract!ReloadDone
    \/ Contract!ProcMoves \/ Contract!Booted

\* The engine process moves and nothing is answered
LEMMA ContractMoves ==
  ASSUME Shown' = Shown, answer' = answer, proc' \in Release \cup {None}
  PROVE  Lives
<1>1. Contract!ProcMoves
  BY DEF Contract!ProcMoves, Shown, Contract!Release, Release
<1> QED BY <1>1 DEF Lives

\* An apply answered OK
LEMMA ContractApplies ==
  ASSUME NEW h \in Hash, Says("apply", TRUE, h),
         Shown' = Applied(Shown, h, FALSE) \/ (h = Shown.current /\ Shown' = Shown),
         proc' \in {h, None}
  PROVE  Lives
<1>1. Contract!ApplyDone(h)
  BY SameRequests DEF Contract!ApplyDone, Contract!Ok, Shown, Says
<1> QED BY <1>1 DEF Lives

\* An apply refused, before or after its release was activated
LEMMA ContractRefuses ==
  ASSUME NEW h \in Hash, Says("apply", FALSE, h),
         \/ Shown' \in {Shown, Written(Shown, h)}
         \/ \E m \in BOOLEAN : Shown' = Marked(Undone(Shown, h), m),
         Shown.stopped => Shown'.stopped,
         Shown'.stopped /\ AlwaysOn => Shown.stopped,
         proc' \in {Shown.current, None}
  PROVE  Lives
<1>1. Shown' \in {Shown, Contract!Written(Shown, h)}
                 \cup { Contract!Marked(Contract!Undone(Shown, h), m) : m \in BOOLEAN }
  BY SameRequests, SameOperators
<1>2. Contract!ApplyRefused(h)
  BY <1>1 DEF Contract!ApplyRefused, Contract!Refused, Shown, Says
<1> QED BY <1>2 DEF Lives

\* A stop with a file set
LEMMA ContractAppliesStopped ==
  ASSUME NEW h \in Hash, Says("applyStop", TRUE, h), Shown' = Applied(Shown, h, TRUE), proc' = None
  PROVE  Lives
<1>1. Contract!ApplyStopDone(h)
  BY SameRequests DEF Contract!ApplyStopDone, Contract!Ok, Shown, Says
<1> QED BY <1>1 DEF Lives

\* A stop without one, and /v1/stop
LEMMA ContractStops ==
  ASSUME NEW req \in {"stop", "stopOnly"}, Says(req, TRUE, None), proc' = None,
         Shown' = IF req = "stop" /\ AlwaysOn THEN Shown ELSE Marked(Shown, TRUE)
  PROVE  Lives
<1>1. Contract!StopDone(req)
  BY SameOperators DEF Contract!StopDone, Contract!Ok, Shown, Says
<1> QED BY <1>1 DEF Lives

\* A rollback answered OK
LEMMA ContractRollsBack ==
  ASSUME Previous(Shown) # None, Says("rollback", TRUE, Previous(Shown)),
         Shown' = Marked(RolledBack(Shown), FALSE), proc' \in {Shown'.current, None}
  PROVE  Lives
<1>1. Contract!RollbackDone
  BY SameOperators, SameRequests DEF Contract!RollbackDone, Contract!Ok, Shown, Says
<1> QED BY <1>1 DEF Lives

\* A rollback refused, with its release active if there is one
LEMMA ContractRefusesRollback ==
  ASSUME Says("rollback", FALSE, Previous(Shown)), proc' = proc,
         Shown' = IF Previous(Shown) = None THEN Shown ELSE Marked(RolledBack(Shown), FALSE)
  PROVE  Lives
<1>1. Contract!RollbackRefused
  BY SameOperators, SameRequests DEF Contract!RollbackRefused, Contract!Refused, Shown, Says
<1> QED BY <1>1 DEF Lives

\* /v1/start
LEMMA ContractStarts ==
  ASSUME Shown' \in {Shown, Marked(Shown, FALSE)},
         \/ Says("start", TRUE, None) /\ proc' = proc
         \/ Says("start", FALSE, None) /\ proc' = None
  PROVE  Lives
<1>1. Contract!StartDone
  BY SameOperators DEF Contract!StartDone, Contract!Ok, Contract!Refused, Shown, Says
<1> QED BY <1>1 DEF Lives

\* /v1/reload
LEMMA ContractReloads ==
  ASSUME Shown' = Shown,
         \/ Says("reload", TRUE, None) /\ proc' \in {Shown.current, None}
         \/ Says("reload", FALSE, None) /\ proc' = proc
  PROVE  Lives
<1>1. Contract!ReloadDone
  BY DEF Contract!ReloadDone, Contract!Ok, Contract!Refused, Shown, Says
<1> QED BY <1>1 DEF Lives

\* The agent dies at whatever step it is
LEMMA ContractKills ==
  ASSUME Shown'.current \in {Shown.current, Boot} \cup Hash,
         Shown'.current # None => Shown'.current \in Shown'.dirs,
         proc' = None, answer' = None
  PROVE  Contract!Killed
BY DEF Contract!Killed, Shown

\* boot() is done
LEMMA ContractBoots ==
  ASSUME Shown' = IF Shown.current = None /\ AlwaysOn
                  THEN Marked(Swapped(Written(Shown, Boot), Boot), ~Selected) ELSE Shown,
         proc' \in {Shown'.current, None},
         Shown'.stopped => proc' = None,
         answer' = answer
  PROVE  Lives
<1>1. Contract!Booted
  BY SameOperators DEF Contract!Booted, Shown
<1> QED BY <1>1 DEF Lives

\* The fields of the store as a rollback leaves them
LEMMA RolledBackFields ==
  ASSUME NEW s \in Store, Previous(s) # None
  PROVE  /\ RolledBack(s) \in Store /\ RolledBack(s).current = Previous(s) /\ RolledBack(s).stopped = s.stopped
<1> DEFINE p == Previous(s)
           t == Swapped(s, p)
<1>1. p \in Release
  BY PreviousOnDisk DEF Store
<1> HIDE DEF p
<1>2. t \in Store /\ t.current = p /\ t.stopped = s.stopped
  BY <1>1, StoreOperations, SwappedFields
<1> HIDE DEF t
<1>3. RewoundTo(t, p) \in Store
  BY <1>1, <1>2, StoreOperations
<1>4. RewoundTo(t, p).current = p /\ RewoundTo(t, p).stopped = s.stopped
  BY <1>2, HistoryFields
<1> QED BY <1>3, <1>4 DEF RolledBack, t, p

\* A request under way has an active release, unless it found none.
LEMMA LinkIsKept ==
  ASSUME AgentInv, PhaseKnown, StoreKnown, ~Idle, store.current = None
  PROVE  op.before.current = None
<1> USE DEF Before, Mine, Prev, Idle
<1>1. /\ store \in Store /\ op \in Op /\ op.before \in Store
      /\ op.before.current \in Release \cup {None}
      /\ op.req \in {"apply", "applyStop"} => op.hash \in Release
      /\ None \notin Release /\ Boot \in Release
  BY ReleaseAssumption DEF AgentInv, TypeInv, TypeOK, PhaseKnown, Op, Store, Release
<1>2. CASE op.pc \in {"write", "validate", "swap", "rewind", "boot", "bootSwap"}
  BY <1>1, <1>2, WrittenFields DEF StoreKnown, StoreApplied, StoreElse
<1>3. CASE op.pc = "record"
  <2>1. Written(op.before, op.hash) \in Store /\ op.hash \in Release
    BY <1>1, <1>3, StoreOperations DEF PhaseKnown, Applying
  <2> QED BY <2>1, <1>1, <1>3, SwappedFields DEF StoreKnown, StoreApplied
<1>4. CASE op.pc = "mark" \/ op.pc = "unswap" \/ (op.pc \in Loading /\ op.phase = "new")
           \/ op.pc \in {"prune", "trim"} \/ (op.pc = "halt" /\ op.req = "applyStop")
  <2>1. op.hash \in Release
    BY <1>1, <1>4 DEF PhaseKnown, Applying, Reverting, Loading, AgentInv, TypeInv, OpKnown
  <2>2. Activated(op.before, op.hash) \in Store /\ Activated(op.before, op.hash).current = op.hash
    BY <1>1, <2>1, ActivatedFields
  <2>3. \A on \in BOOLEAN : /\ Marked(Activated(op.before, op.hash), on) \in Store
                            /\ Marked(Activated(op.before, op.hash), on).current = op.hash
    BY <2>2, <2>1, StoreOperations, MarkedFields
  <2>4. PICK on \in BOOLEAN : \/ store = Activated(op.before, op.hash)
                             \/ store = Marked(Activated(op.before, op.hash), on)
                             \/ store = Pruned(Marked(Activated(op.before, op.hash), on))
    <3>1. (op.req = "applyStop") \in BOOLEAN
      OBVIOUS
    <3> QED BY <3>1, <1>4 DEF StoreKnown, StoreApplied
  <2> QED BY <1>1, <2>1, <2>2, <2>3, <2>4, PrunedFields
<1>5. CASE op.pc = "unrecord"
  <2>1. Activated(op.before, op.hash) \in Store
    BY <1>1, <1>5, ActivatedFields DEF PhaseKnown, Reverting
  <2>2. Marked(Activated(op.before, op.hash), FALSE) \in Store
    BY <2>1 DEF Marked, Store
  <2>3. store = Swapped(Marked(Activated(op.before, op.hash), FALSE), op.before.current)
    BY <1>5 DEF StoreKnown, StoreApplied
  <2>4. store.current = op.before.current
    BY ZenonT(60), <2>2, <2>3, SwappedFields
  <2> QED BY <2>4
<1>6. CASE op.pc = "resume" \/ (op.pc \in Loading /\ op.phase = "revert")
  BY <1>6, <1>1, LinkKnown
<1>7. CASE op.pc \in Returning \ {"rewind"} \/ (op.pc \in Loading /\ op.phase = "rollback")
  <2>1. op.hash = Previous(op.before) /\ op.hash # None
    BY <1>7 DEF PhaseKnown, Returning
  <2>2. Swapped(op.before, op.hash).current = op.hash
    BY <1>1, SwappedFields
  <2>3. RolledBack(op.before) \in Store /\ RolledBack(op.before).current = op.hash
    BY <1>1, <2>1, RolledBackFields
  <2>4. Marked(RolledBack(op.before), FALSE).current = op.hash
    BY <2>3, MarkedFields
  <2> QED BY <1>7, <2>1, <2>2, <2>3, <2>4 DEF StoreKnown, StoreElse, Returning
<1>8. CASE (op.pc \in Loading /\ op.phase = "manual") \/ op.pc = "halted"
           \/ (op.pc = "halt" /\ op.req # "applyStop")
  <2>1. \A on \in BOOLEAN : Marked(op.before, on).current = op.before.current
    BY <1>1, MarkedFields
  <2>2. \/ store = op.before
        \/ \E on \in BOOLEAN : store = Marked(op.before, on)
    BY <1>8 DEF StoreKnown, StoreElse, PhaseKnown
  <2> QED BY <2>1, <2>2
<1>9. CASE op.pc \in {"bootMark", "bootStart"}
  <2>1. Written(op.before, Boot) \in Store
    BY <1>1, StoreOperations
  <2>2. Swapped(Written(op.before, Boot), Boot) \in Store /\ Swapped(Written(op.before, Boot), Boot).current = Boot
    BY ZenonT(60), <1>1, <2>1, StoreOperations, SwappedFields
  <2>3. Marked(Swapped(Written(op.before, Boot), Boot), ~Selected).current = Boot
    BY <2>2, MarkedFields
  <2> QED BY <1>1, <1>9, <2>2, <2>3 DEF StoreKnown, StoreElse
<1>10. op.pc \in Loading => op.phase \in {"new", "revert", "rollback", "manual"}
  BY DEF PhaseKnown
<1>11. op.pc \in Steps
  BY <1>1 DEF Op
<1> QED BY <1>2, <1>3, <1>4, <1>5, <1>6, <1>7, <1>8, <1>9, <1>10, <1>11 DEF Steps, Loading, Returning, Idle


\* The contract sees a request when it is answered, with the store it leaves.
LEMMA FinishSays ==
  ASSUME ~Idle, NEW ok, Finish(ok)
  PROVE  Says(op.req, ok, op.hash) /\ Shown = op.before /\ Shown' = store'
<1>1. op'.pc = "idle"
  BY DEF Finish, IdleOp
<1> QED BY <1>1 DEF Finish, Says, Shown, Idle, Prev

\* An apply that went back to the release it found is refused.
LEMMA RevertAnswers ==
  ASSUME AtomicInv, op.pc \in Loading, op.phase = "revert", Finish(FALSE),
         store' = store, proc' \in {store.current, None}
  PROVE  Lives
<1>1. /\ op.req = "apply" /\ op.hash \in Hash /\ op.hash \in Release
      /\ store = Marked(Undone(op.before, op.hash), FALSE) /\ ~op.before.stopped
      /\ ~Idle /\ op.before \in Store
  BY DEF AtomicInv, PhaseKnown, StoreKnown, StoreApplied, ServeKnown, Before, Mine, Loading, Release,
     Idle, AgentInv, TypeInv, TypeOK, Op
<1>2. store.current = op.before.current /\ ~store.stopped
  <2>1. Undone(op.before, op.hash) \in Store /\ Undone(op.before, op.hash).current = op.before.current
    BY <1>1, UndoneFields
  <2> QED BY <1>1, <2>1, MarkedFields
<1>3. Says("apply", FALSE, op.hash) /\ Shown = op.before /\ Shown' = store
  BY <1>1, FinishSays
<1> QED BY <1>1, <1>2, <1>3, ContractRefuses

\* A rollback is answered with the release it went back to active.
LEMMA RollbackAnswers ==
  ASSUME AtomicInv, op.pc \in Loading, op.phase = "rollback", store' = store,
         NEW ok \in BOOLEAN, Finish(ok), IF ok THEN proc' \in {store.current, None} ELSE proc' = proc
  PROVE  Lives
<1>1. /\ op.req = "rollback" /\ op.hash = Previous(op.before) /\ op.hash # None
      /\ store = Marked(RolledBack(op.before), FALSE)
      /\ ~Idle
  BY DEF AtomicInv, PhaseKnown, StoreKnown, StoreElse, Before, Mine, Loading, Idle
<1>2. Says("rollback", ok, op.hash) /\ Shown = op.before /\ Shown' = store
  BY <1>1, FinishSays
<1>3. CASE ok
  <2>1. Says("rollback", TRUE, op.hash)
    BY <1>2, <1>3
  <2> QED BY <1>1, <1>2, <1>3, <2>1, ContractRollsBack
<1>4. CASE ~ok
  <2>1. Says("rollback", FALSE, op.hash)
    BY <1>2, <1>4
  <2> QED BY <1>1, <1>2, <1>4, <2>1, ContractRefusesRollback
<1> QED BY <1>3, <1>4

\* /v1/start and /v1/reload are answered with the store they found, the marker cleared
\* by a start.
LEMMA ManualAnswers ==
  ASSUME AtomicInv, op.pc \in Loading, op.phase = "manual", store' = store,
         NEW ok \in BOOLEAN, Finish(ok),
         IF op.pc = "load" THEN IF ok THEN proc' = store.current ELSE proc' = proc
         ELSE IF ok THEN proc' = proc ELSE proc' = None
  PROVE  Lives
<1>1. /\ op.req = (IF op.pc = "load" THEN "reload" ELSE "start") /\ op.hash = None
      /\ store = IF op.req = "start" THEN Marked(op.before, FALSE) ELSE op.before
      /\ ~Idle
  BY DEF AtomicInv, PhaseKnown, StoreKnown, StoreElse, Before, Loading, Idle
<1>2. Says(op.req, ok, None) /\ Shown = op.before /\ Shown' = store
  BY <1>1, FinishSays
<1>3. CASE op.pc = "load"
  <2>1. CASE ok
    <3>1. Says("reload", TRUE, None)
      BY <1>1, <1>2, <1>3, <2>1
    <3> QED BY <1>1, <1>2, <1>3, <2>1, <3>1, ContractReloads
  <2>2. CASE ~ok
    <3>1. Says("reload", FALSE, None)
      BY <1>1, <1>2, <1>3, <2>2
    <3> QED BY <1>1, <1>2, <1>3, <2>2, <3>1, ContractReloads
  <2> QED BY <2>1, <2>2
<1>4. CASE op.pc # "load"
  <2>1. CASE ok
    <3>1. Says("start", TRUE, None)
      BY <1>1, <1>2, <1>4, <2>1
    <3> QED BY <1>1, <1>2, <1>4, <2>1, <3>1, ContractStarts
  <2>2. CASE ~ok
    <3>1. Says("start", FALSE, None)
      BY <1>1, <1>2, <1>4, <2>2
    <3> QED BY <1>1, <1>2, <1>4, <2>2, <3>1, ContractStarts
  <2> QED BY <2>1, <2>2
<1> QED BY <1>3, <1>4

\* remove() takes back what write() added, or leaves it.
LEMMA RemoveUndoesWrite ==
  ASSUME NEW s \in Store, NEW h, h \notin s.dirs
  PROVE  Removed(Written(s, h), h) \in {s, Written(s, h)}
<1> DEFINE w == Written(s, h)
           r == [w EXCEPT !.dirs = w.dirs \ {h}]
<1>1. Removed(w, h) \in {w, r}
  BY DEF Removed
<1>2. r = s
  <2>1. w.dirs \ {h} = s.dirs
    BY WrittenFields
  <2> QED BY <2>1 DEF Written, Store
<1> QED BY <1>1, <1>2

\* Every step of the agent is a step of its contract; the agent only dies if it is killed.
LEMMA ContractSteps ==
  ASSUME ~IOErrors, ~OldRejected
  PROVE  AtomicInv /\ [Next]_vars => Lives \/ (Kills /\ Contract!Killed)
<1> SUFFICES ASSUME AtomicInv, [Next]_vars PROVE Lives \/ (Kills /\ Contract!Killed)
  OBVIOUS
<1> USE DEF Applying, Reverting, Returning, Loading, Booting, Idle, Running
<1>s. /\ store \in Store /\ op \in Op /\ want \in BOOLEAN
      /\ proc \in Release \cup {None} /\ proc' \in Release \cup {None}
      /\ op.before \in Store
      /\ store.current \in Release \cup {None} /\ store.stopped \in BOOLEAN
      /\ op.before.stopped \in BOOLEAN
      /\ Hash \subseteq Release
  BY TypeNext DEF AtomicInv, AgentInv, TypeInv, TypeOK, Op, Store, Release
<1>q. /\ op.pc \in Loading => op.phase \in {"new", "revert", "rollback", "manual"}
      /\ op.pc \in Booting => ~Running
      /\ op.pc \in {"spawn", "halted"} => ~Running
      /\ op.pc \in {"settle", "idle", "validate", "trim"} => (Running => proc = store.current)
      /\ op.pc \in Loading /\ op.phase = "manual" => op.req = IF op.pc = "load" THEN "reload" ELSE "start"
  BY DEF AtomicInv, AgentInv, StopKnown, PhaseKnown, ServeKnown
<1>c. /\ op.pc = "validate" => store.current = Prev
      /\ op.pc = "trim" => store.current = op.hash
      /\ op.pc = "resume" \/ (op.pc \in Loading /\ op.phase = "revert") => store.current = Prev
  BY LinkKnown DEF AtomicInv
<1>l. /\ {"write", "validate", "swap", "record", "mark", "prune", "trim", "load",
          "spawn", "settle", "unswap", "unrecord", "resume", "halt", "halted",
          "rewind", "rerecord", "unmark"} \subseteq Steps
      /\ {"idle", "boot", "bootSwap", "bootMark", "bootStart"} \subseteq Steps
  BY DEF Steps
<1>i. op' = IdleOp => op'.pc = "idle"
  BY DEF IdleOp
<1>m. Shown' = Shown /\ answer' = answer => Lives
  BY <1>s, ContractMoves
<1>a. ASSUME Idle, op' = op, store' = store PROVE Shown = store /\ Shown' = store
  BY <1>a DEF Shown
<1>b. ASSUME Idle, ~Idle', op'.before = store, answer' = answer PROVE Lives
  BY <1>b, <1>m DEF Shown
<1>g. ASSUME ~Idle, ~Idle', op'.before = op.before, answer' = answer PROVE Lives
  BY <1>g, <1>m DEF Shown
<1>1. ASSUME NEW h \in Hash, ApplyUnusable(h) PROVE Lives
  <2>1. Says("apply", FALSE, h) /\ Shown = store /\ Shown' = store
    BY <1>1, <1>a DEF ApplyUnusable, Reply, Says
  <2> QED BY <2>1, <1>1, <1>s, <1>q, ContractRefuses DEF ApplyUnusable
<1>2. ASSUME NEW h \in Hash, ApplyActive(h) PROVE Lives
  <2>1. Says("apply", TRUE, h) /\ Shown = store /\ Shown' = store
    BY <1>2, <1>a DEF ApplyActive, Reply, Says
  <2> QED BY <2>1, <1>2, <1>s, <1>q, ContractApplies DEF ApplyActive
<1>3. ASSUME NEW h \in Hash, ApplyBegin(h) PROVE Lives
  BY <1>3, <1>b DEF ApplyBegin, Begin
<1>4. ASSUME NEW h \in Hash, ApplyStopBegin(h) PROVE Lives
  BY <1>4, <1>b DEF ApplyStopBegin, Begin
<1>5. ASSUME StopOnlyBegin PROVE Lives
  BY <1>5, <1>b DEF StopOnlyBegin, Begin
<1>6. ASSUME RollbackNone PROVE Lives
  <2>1. Says("rollback", FALSE, Previous(Shown)) /\ Shown = store /\ Shown' = store
    BY <1>6, <1>a DEF RollbackNone, Reply, Says
  <2> QED BY <2>1, <1>6, ContractRefusesRollback DEF RollbackNone
<1>7. ASSUME RollbackBegin PROVE Lives
  BY <1>7, <1>b DEF RollbackBegin, Begin
<1>8. ASSUME StartNothing PROVE Lives
  <2>1. Shown = store /\ Shown' = store /\ proc' = proc
    BY <1>8, <1>a DEF StartNothing
  <2>2. CASE Running
    <3>1. Says("start", TRUE, None)
      BY <2>1, <2>2, <1>8 DEF StartNothing, Reply, Says
    <3> QED BY <2>1, <3>1, ContractStarts
  <2>3. CASE ~Running
    <3>1. Says("start", FALSE, None) /\ proc' = None
      BY <2>1, <2>3, <1>8 DEF StartNothing, Reply, Says
    <3> QED BY <2>1, <3>1, ContractStarts
  <2> QED BY <2>2, <2>3
<1>9. ASSUME StartBegin PROVE Lives
  BY <1>9, <1>b DEF StartBegin, Begin
<1>10. ASSUME StopBegin PROVE Lives
  BY <1>10, <1>b DEF StopBegin, Begin
<1>11. ASSUME ReloadDown PROVE Lives
  <2>1. Says("reload", FALSE, None) /\ Shown = store /\ Shown' = store
    BY <1>11, <1>a DEF ReloadDown, Reply, Says
  <2> QED BY <2>1, <1>11, <1>s, <1>q, ContractReloads DEF ReloadDown
<1>12. ASSUME ReloadBegin PROVE Lives
  BY <1>12, <1>b DEF ReloadBegin, Begin
<1>13. ASSUME Write PROVE Lives
  BY <1>13, <1>s, <1>g, <1>l, GotoFacts DEF Write
<1>14. ASSUME NEW ok \in BOOLEAN, Validate(ok) PROVE Lives
  <2>1. CASE ok
    BY <2>1, <1>14, <1>s, <1>g, <1>l, GotoFacts DEF Validate
  <2>2. CASE ~ok
    <3>1. Finish(FALSE) /\ ~Idle /\ proc' = proc /\ store' = IF Created THEN Removed(store, op.hash) ELSE store
      BY <2>2, <1>14 DEF Validate
    <3>2. /\ op.req = "apply" /\ op.hash \in Hash
          /\ store = Written(op.before, op.hash)
      BY <1>14 DEF Validate, AtomicInv, PhaseKnown, StoreKnown, StoreApplied, Before, Mine
    <3>3. store' \in {op.before, Written(op.before, op.hash)}
      BY <3>1, <3>2, <1>s, RemoveUndoesWrite DEF Created
    <3>4. store'.stopped = op.before.stopped
      BY <3>3, <1>s, WrittenFields
    <3>5. Says("apply", FALSE, op.hash) /\ Shown = op.before /\ Shown' = store'
      BY <3>1, <3>2, FinishSays
    <3>6. proc' \in {op.before.current, None}
      BY <3>1, <1>14, <1>q, <1>c DEF Validate, Prev
    <3> QED BY <3>2, <3>3, <3>4, <3>5, <3>6, ContractRefuses
  <2> QED BY <2>1, <2>2
<1>15. ASSUME Swap PROVE Lives
  BY <1>15, <1>s, <1>g, <1>l, GotoFacts DEF Swap
<1>16. ASSUME Record PROVE Lives
  BY <1>16, <1>s, <1>g, <1>l, GotoFacts DEF Record
<1>17. ASSUME Mark PROVE Lives
  <2>1. op'.before = op.before /\ op'.pc \in {"halt", "load", "spawn"}
    BY <1>17, <1>s DEF Mark, Goto, Op
  <2> QED BY <2>1, <1>17, <1>g DEF Mark
<1>18. ASSUME ApplyFault PROVE Lives
  BY <1>18 DEF ApplyFault
<1>19. ASSUME Prune PROVE Lives
  BY <1>19, <1>s, <1>g, <1>l, GotoFacts DEF Prune
<1>20. ASSUME Trim PROVE Lives
  <2>1. /\ op.req \in {"apply", "applyStop"} /\ op.hash \in Hash
        /\ op.req = "applyStop" => ~Running
        /\ store = Pruned(Marked(Activated(op.before, op.hash), op.req = "applyStop"))
    BY <1>20 DEF Trim, AtomicInv, PhaseKnown, StoreKnown, StoreApplied, Before, Mine
  <2>2. Says(op.req, TRUE, op.hash) /\ Shown = op.before /\ Shown' = store' /\ proc' = proc
    BY <1>20, FinishSays DEF Trim
  <2>3. CASE op.req = "apply"
    <3>1. (op.req = "applyStop") = FALSE
      BY <2>3
    <3>2. Shown' = Applied(Shown, op.hash, FALSE)
      BY <2>1, <2>2, <3>1, <1>20 DEF Trim, Applied
    <3> QED BY <2>1, <2>2, <2>3, <3>2, <1>20, <1>q, <1>c, ContractApplies DEF Trim
  <2>4. CASE op.req = "applyStop"
    <3>1. (op.req = "applyStop") = TRUE
      BY <2>4
    <3>2. Shown' = Applied(Shown, op.hash, TRUE)
      BY <2>1, <2>2, <3>1, <1>20 DEF Trim, Applied
    <3> QED BY <2>1, <2>2, <2>4, <3>2, ContractAppliesStopped
  <2> QED BY <2>1, <2>3, <2>4
<1>21. ASSUME LoadAccepted PROVE Lives
  <2>1. op.pc \in Loading /\ store' = store /\ proc' = store.current
    BY <1>21 DEF LoadAccepted
  <2>2. CASE op.phase = "new"
    BY <2>2, <1>21, <1>s, <1>g, <1>l, GotoFacts DEF LoadAccepted, LoadWorked
  <2>3. CASE op.phase = "revert"
    <3>1. (op.phase # "revert") = FALSE
      BY <2>3
    <3>2. Finish(FALSE)
      BY <2>3, <3>1, <1>21 DEF LoadAccepted, LoadWorked
    <3> QED BY <2>1, <2>3, <3>2, RevertAnswers
  <2>4. CASE op.phase \in {"rollback", "manual"}
    <3>1. (op.phase # "revert") = TRUE
      BY <2>4
    <3>2. Finish(TRUE) /\ op.pc = "load"
      BY <2>4, <3>1, <1>21 DEF LoadAccepted, LoadWorked
    <3> QED BY <2>1, <2>4, <3>2, RollbackAnswers, ManualAnswers
  <2> QED BY <2>1, <2>2, <2>3, <2>4, <1>q
<1>22. ASSUME LoadRejected PROVE Lives
  <2>1. op.phase = "new"
    BY <1>22 DEF LoadRejected, MayReject
  <2> QED BY <2>1, <1>22, <1>s, <1>g, <1>l, GotoFacts DEF LoadRejected, LoadFailed
<1>23. ASSUME LoadLate PROVE Lives
  <2>1. op.phase = "new"
    BY <1>23 DEF LoadLate, MayReject
  <2> QED BY <2>1, <1>23, <1>s, <1>g, <1>l, GotoFacts DEF LoadLate, LoadFailed
<1>24. ASSUME LoadGone PROVE Lives
  <2>1. op.pc = "load" /\ store' = store /\ proc' = proc /\ ~Running
    BY <1>24 DEF LoadGone
  <2>2. CASE op.phase \in {"new", "rollback"}
    BY <2>2, <1>24, <1>s, <1>g, <1>l, GotoFacts DEF LoadGone, LoadFailed
  <2>3. CASE op.phase \in {"revert", "manual"}
    <3>1. Finish(FALSE)
      BY <2>3, <1>24 DEF LoadGone, LoadFailed
    <3> QED BY <2>1, <2>3, <3>1, RevertAnswers, ManualAnswers
  <2> QED BY <2>1, <2>2, <2>3, <1>q
<1>25. ASSUME Spawn PROVE Lives
  BY <1>25, <1>s, <1>g, <1>l, GotoFacts DEF Spawn
<1>26. ASSUME SpawnError PROVE Lives
  <2>1. op.pc = "spawn" /\ store' = store /\ proc' = proc /\ ~Running
    BY <1>26 DEF SpawnError
  <2>2. CASE op.phase = "new"
    <3>1. op'.before = op.before /\ op'.pc = "unswap" /\ answer' = answer
      BY <2>2, <1>26, <1>s DEF SpawnError, StartFailed, Op
    <3> QED BY <2>1, <3>1, <1>g
  <2>3. CASE op.phase \in {"revert", "rollback", "manual"}
    <3>1. Finish(FALSE)
      BY <2>3, <1>26 DEF SpawnError, StartFailed
    <3> QED BY <2>1, <2>3, <3>1, RevertAnswers, RollbackAnswers, ManualAnswers
  <2> QED BY <2>1, <2>2, <2>3, <1>q
<1>27. ASSUME Settle PROVE Lives
  <2>1. op.pc = "settle" /\ store' = store /\ proc' = proc /\ proc' \in {store.current, None}
    BY <1>27, <1>q DEF Settle
  <2>2. CASE op.phase = "new"
    <3>1. op'.before = op.before /\ op'.pc \in {"prune", "unswap"} /\ answer' = answer
      BY <2>2, <1>27, <1>s DEF Settle, LoadWorked, StartFailed, Goto, Op
    <3> QED BY <2>1, <3>1, <1>g
  <2>3. CASE op.phase = "revert"
    <3>1. (op.phase # "revert") = FALSE
      BY <2>3
    <3>2. Finish(FALSE)
      BY <2>3, <3>1, <1>27 DEF Settle, LoadWorked, StartFailed
    <3> QED BY <2>1, <2>3, <3>2, RevertAnswers
  <2>4. CASE op.phase \in {"rollback", "manual"} /\ Running
    <3>1. (op.phase # "revert") = TRUE
      BY <2>4
    <3>2. Finish(TRUE)
      BY <2>4, <3>1, <1>27 DEF Settle, LoadWorked
    <3> QED BY <2>1, <2>4, <3>2, RollbackAnswers, ManualAnswers
  <2>5. CASE op.phase \in {"rollback", "manual"} /\ ~Running
    <3>1. Finish(FALSE)
      BY <2>5, <1>27 DEF Settle, StartFailed
    <3> QED BY <2>1, <2>5, <3>1, RollbackAnswers, ManualAnswers
  <2> QED BY <2>1, <2>2, <2>3, <2>4, <2>5, <1>q
<1>28. ASSUME Unswap PROVE Lives
  BY <1>28, <1>s, <1>g, <1>l, GotoFacts DEF Unswap
<1>29. ASSUME Unrecord PROVE Lives
  BY <1>29, <1>s, <1>g, <1>l, GotoFacts DEF Unrecord
<1>30. ASSUME RevertFault PROVE Lives
  BY <1>30 DEF RevertFault
<1>31. ASSUME ResumeLoaded PROVE Lives
  <2>1. op'.before = op.before /\ op'.pc \in {"load", "spawn"}
    BY <1>31, <1>s DEF ResumeLoaded, Revert, Op
  <2> QED BY <2>1, <1>31, <1>g DEF ResumeLoaded
<1>32. ASSUME ResumeStarted PROVE Lives
  <2>1. op'.before = op.before /\ op'.pc \in {"load", "spawn"}
    BY <1>32, <1>s DEF ResumeStarted, Revert, Op
  <2> QED BY <2>1, <1>32, <1>g DEF ResumeStarted
<1>33. ASSUME ResumeDown PROVE Lives
  <2>1. /\ op.req = "apply" /\ op.hash \in Hash
        /\ store = Marked(Undone(op.before, op.hash), FALSE)
        /\ op.before.stopped => ~op.wanted
        /\ ~op.died => Prev # None
        /\ op.died => ~Running
    BY <1>33 DEF ResumeDown, AtomicInv, AgentInv, StopKnown, PhaseKnown, StoreKnown, StoreApplied, ServeKnown, Before, Mine
  <2>2. op.died /\ ~Running /\ proc' = proc
    BY <2>1, <1>33 DEF ResumeDown
  <2>3. Says("apply", FALSE, op.hash) /\ Shown = op.before /\ Shown' = store'
    BY <2>1, <1>33, FinishSays DEF ResumeDown
  <2>4. Undone(op.before, op.hash) \in Store
    BY <2>1, <1>s, UndoneFields
  <2>5. CASE ~ShouldRun
    <3>1. store' = Marked(Undone(op.before, op.hash), TRUE)
      BY <2>1, <2>2, <2>4, <2>5, <1>33 DEF ResumeDown, Marked, Store
    <3>2. store'.stopped
      BY <2>4, <3>1, MarkedFields
    <3> QED BY <2>1, <2>2, <2>3, <2>5, <3>1, <3>2, <1>s, ContractRefuses DEF ShouldRun
  <2>6. CASE ShouldRun
    <3>1. store' = Marked(Undone(op.before, op.hash), FALSE) /\ ~op.before.stopped
      BY <2>1, <2>2, <2>6, <1>s, <1>33 DEF ResumeDown, ShouldRun
    <3>2. ~store'.stopped
      BY <2>4, <3>1, MarkedFields
    <3> QED BY <2>1, <2>2, <2>3, <3>1, <3>2, ContractRefuses
  <2> QED BY <2>5, <2>6
<1>34. ASSUME Rewind PROVE Lives
  BY <1>34, <1>s, <1>g, <1>l, GotoFacts DEF Rewind
<1>35. ASSUME Rerecord PROVE Lives
  BY <1>35, <1>s, <1>g, <1>l, GotoFacts DEF Rerecord
<1>36. ASSUME RollbackFault PROVE Lives
  BY <1>36 DEF RollbackFault
<1>37. ASSUME Unmark PROVE Lives
  BY <1>37, <1>s, <1>g, <1>l, GotoFacts DEF Unmark
<1>38. ASSUME Halt PROVE Lives
  BY <1>38, <1>s, <1>g, <1>l, GotoFacts DEF Halt
<1>39. ASSUME Halted PROVE Lives
  <2>1. /\ op.req \in {"stopOnly", "stop"} /\ op.hash = None
        /\ op.req = "stopOnly" => store = Marked(op.before, TRUE)
        /\ op.req = "stop" => store = op.before
    BY <1>39 DEF Halted, AtomicInv, PhaseKnown, StoreKnown, StoreElse, Before
  <2>2. Says(op.req, TRUE, None) /\ Shown = op.before /\ Shown' = store'
    BY <2>1, <1>39, FinishSays DEF Halted
  <2>3. proc' = None
    BY <1>39, <1>q DEF Halted
  <2> QED BY <2>1, <2>2, <2>3, <1>39, ContractStops DEF Halted
<1>40. ASSUME Boots PROVE Lives
  BY <1>40, <1>s, <1>g, <1>l, GotoFacts DEF Boots
<1>41. ASSUME BootSwap PROVE Lives
  BY <1>41, <1>s, <1>g, <1>l, GotoFacts DEF BootSwap
<1>42. ASSUME BootMark PROVE Lives
  BY <1>42, <1>s, <1>g, <1>l, GotoFacts DEF BootMark
<1>43. ASSUME BootStart PROVE Lives
  <2>1. store = IF op.before.current = None /\ AlwaysOn
                THEN Marked(Swapped(Written(op.before, Boot), Boot), ~Selected) ELSE op.before
    BY <1>43 DEF BootStart, AtomicInv, StoreKnown, StoreElse, Before, Prev
  <2>2. Shown = op.before /\ Shown' = store /\ answer' = answer
    BY <1>43, <1>i DEF BootStart, Shown
  <2>3. proc' \in {store.current, None} /\ (store.stopped => proc' = None)
    BY <1>43, <1>q DEF BootStart
  <2> QED BY <2>1, <2>2, <2>3, ContractBoots
<1>44. ASSUME BootFault PROVE Lives
  BY <1>44 DEF BootFault
<1>45. ASSUME EngineExits PROVE Lives
  BY <1>45, <1>m DEF EngineExits, Shown
<1>46. ASSUME Retry PROVE Lives
  BY <1>46, <1>m DEF Retry, Shown
<1>47. ASSUME Kill PROVE Kills /\ Contract!Killed
  <2>1. op'.pc = "boot" /\ op'.before = store /\ store' = store /\ proc' = None /\ answer' = None
    BY <1>47, IdleFacts DEF Kill, IdleOp, Op
  <2>2. Shown' = store
    BY <2>1 DEF Shown
  <2>3. store.current = None => Shown.current = None
    BY LinkIsKept DEF Shown, AtomicInv
  <2>4. store.current # None => store.current \in store.dirs
    BY DEF AtomicInv, AgentInv, CurrentPresent
  <2> QED BY <2>1, <2>2, <2>3, <2>4, <1>s, <1>47, ContractKills DEF Release, Kill
<1>48. ASSUME UNCHANGED vars PROVE Lives
  BY <1>48, <1>m DEF vars, Shown
<1> QED
  BY <1>1, <1>2, <1>3, <1>4, <1>5, <1>6, <1>7, <1>8, <1>9, <1>10, <1>11, <1>12, <1>13,
     <1>14, <1>15, <1>16, <1>17, <1>18, <1>19, <1>20, <1>21, <1>22, <1>23, <1>24, <1>25,
     <1>26, <1>27, <1>28, <1>29, <1>30, <1>31, <1>32, <1>33, <1>34, <1>35, <1>36, <1>37,
     <1>38, <1>39, <1>40, <1>41, <1>42, <1>43, <1>44, <1>45, <1>46, <1>47, <1>48 DEF Next, Request, Work

\* Spec => RequestsAreAtomic, as long as no file operation fails and a release that
\* was loaded before is not rejected later: whatever the order of file operations,
\* process events and kills of the agent, each request takes effect when it is
\* answered, or not at all.  (supervisor.op: "serialises high-level operations")
THEOREM AgentImplementsContract ==
  ASSUME ~IOErrors, ~OldRejected
  PROVE  Spec => RequestsAreAtomic
<1>1. Init => Contract!Init
  <2> SUFFICES ASSUME Init PROVE Contract!Init
    OBVIOUS
  <2>1. op.before = EmptyStore
    BY IdleFacts DEF Init, IdleOp
  <2>2. Contract!EmptyStore = EmptyStore
    BY DEF EmptyStore, Contract!EmptyStore
  <2> QED BY <2>1, <2>2 DEF Init, Contract!Init
<1>2. AtomicInv /\ [Next]_vars => [Contract!Next]_(Contract!vars)
  BY ContractSteps DEF Lives, Contract!Next
<1>3. (Init => AtomicInv) /\ (AtomicInv /\ [Next]_vars => AtomicInv')
  BY AtomicInvInit, AtomicInvNext
<1> HIDE DEF AtomicInv
<1> QED BY <1>1, <1>2, <1>3, PTL DEF Spec, RequestsAreAtomic, Contract!Spec

-----------------------------------------------------------------------------
(* What a rollback would go back to                                         *)

\* What the last answer says of the store its request left.
Undoes ==
    answer # None /\ answer.req = "apply" /\ answer.ok
    /\ answer.prev \notin {None, Boot, answer.hash}
        => Previous(Shown) = answer.prev

\* The store requests see is one nothing was taken back in (Topped).
ShownInv == Shown \in Store /\ Present(Shown) /\ Topped(Shown) /\ Undoes

\* An apply ends the history with its release, on top of the one it replaced.
LEMMA UndoApplied ==
  ASSUME ShownInv, NEW h \in Hash, NEW on \in BOOLEAN, Keep > 0, MaxHistory > 1
  PROVE  /\ Present(Applied(Shown, h, on)) /\ Topped(Applied(Shown, h, on))
         /\ Shown.current \notin {None, Boot, h} => Previous(Applied(Shown, h, on)) = Shown.current
<1>1. Shown \in Store /\ Topped(Shown) /\ Shown.current \in Hash \cup {None, Boot}
  BY DEF ShownInv, Store, Release
<1>2. PICK s : s = Shown
  OBVIOUS
<1>3. PICK t : t = Applied(s, h, on)
  OBVIOUS
<1>4. t \in Store /\ t.current = h /\ Topped(t)
  BY <1>1, <1>2, <1>3, AppliedStore, AppliedTopped, Zenon
<1>5. Present(t)
  BY <1>4, ReleaseAssumption DEF Topped, Present
<1>6. s.current \notin {None, Boot, h} => Previous(t) = s.current
  BY <1>1, <1>2, <1>3, AppliedPrevious
<1> QED BY <1>2, <1>3, <1>4, <1>5, <1>6

\* A step of the contract in which the agent lives keeps that.
LEMMA UndoLives ==
  ASSUME ShownInv, Shown' \in Store, Lives, Keep > 0, MaxHistory > 1
  PROVE  ShownInv'
<1>s. /\ Shown \in Store /\ Present(Shown) /\ Topped(Shown) /\ Undoes
      /\ Hash \subseteq Release /\ Boot \in Release
  BY DEF ShownInv, Release
<1> SUFFICES Present(Shown') /\ Topped(Shown') /\ Undoes'
  BY DEF ShownInv, Present, Topped
<1>m. \A on \in BOOLEAN : \A t \in Store : Present(t) /\ Topped(t) => Present(Marked(t, on)) /\ Topped(Marked(t, on))
  BY MarkedTopped DEF Marked, Store, Present
<1>1. ASSUME NEW h \in Hash, Contract!ApplyDone(h) PROVE Present(Shown') /\ Topped(Shown') /\ Undoes'
  <2>1. /\ answer' = [req |-> "apply", ok |-> TRUE, hash |-> h, prev |-> Shown.current]
        /\ Shown' = Applied(Shown, h, FALSE) \/ (h = Shown.current /\ Shown' = Shown)
    BY <1>1, SameRequests DEF Contract!ApplyDone, Contract!Ok, Shown
  <2>2. answer'.prev = Shown.current /\ answer'.hash = h
    BY <2>1
  <2>3. CASE Shown' = Applied(Shown, h, FALSE)
    BY <2>2, <2>3, UndoApplied DEF Undoes
  <2>4. CASE h = Shown.current /\ Shown' = Shown
    BY <2>2, <2>4, <1>s DEF Undoes
  <2> QED BY <2>1, <2>3, <2>4
<1>2. ASSUME NEW h \in Hash, Contract!ApplyRefused(h) PROVE Present(Shown') /\ Topped(Shown') /\ Undoes'
  <2>1. /\ answer' = [req |-> "apply", ok |-> FALSE, hash |-> h, prev |-> Shown.current]
        /\ \/ Shown' \in {Shown, Written(Shown, h)}
           \/ \E on \in BOOLEAN : Shown' = Marked(Undone(Shown, h), on)
    BY <1>2, SameRequests, SameOperators DEF Contract!ApplyRefused, Contract!Refused, Shown
  <2>2. Undoes'
    BY <2>1 DEF Undoes
  <2>3. CASE Shown' = Shown
    BY <2>2, <2>3, <1>s
  <2>4. CASE Shown' = Written(Shown, h)
    <3>1. /\ Written(Shown, h).current = Shown.current /\ Written(Shown, h).history = Shown.history
          /\ Shown.dirs \subseteq Written(Shown, h).dirs
      BY <1>s DEF Written, Store
    <3> QED BY <2>2, <2>4, <3>1, <1>s DEF Present, Topped
  <2>5. CASE \E on \in BOOLEAN : Shown' = Marked(Undone(Shown, h), on)
    <3>1. Topped(Undone(Shown, h)) /\ Present(Undone(Shown, h)) /\ Undone(Shown, h) \in Store
      BY <1>s, UndoneTopped
    <3> QED BY <2>2, <2>5, <3>1, <1>m
  <2> QED BY <2>1, <2>3, <2>4, <2>5
<1>3. ASSUME NEW h \in Hash, Contract!ApplyStopDone(h) PROVE Present(Shown') /\ Topped(Shown') /\ Undoes'
  <2>1. answer'.req = "applyStop" /\ Shown' = Applied(Shown, h, TRUE)
    BY <1>3, SameRequests DEF Contract!ApplyStopDone, Contract!Ok, Shown
  <2> QED BY <2>1, UndoApplied DEF Undoes
<1>4. ASSUME NEW req \in {"stop", "stopOnly"}, Contract!StopDone(req)
      PROVE  Present(Shown') /\ Topped(Shown') /\ Undoes'
  <2>1. answer'.req = req /\ Shown' \in {Shown, Marked(Shown, TRUE)}
    BY <1>4, SameOperators DEF Contract!StopDone, Contract!Ok, Shown
  <2> QED BY <2>1, <1>s, <1>m DEF Undoes
<1>5. ASSUME Contract!RollbackDone \/ Contract!RollbackRefused PROVE Present(Shown') /\ Topped(Shown') /\ Undoes'
  <2>1. /\ answer'.req = "rollback"
        /\ Shown' = Shown \/ (Previous(Shown) # None /\ Shown' = Marked(RolledBack(Shown), FALSE))
    <3>0. /\ Contract!Previous(Shown) = Previous(Shown)
          /\ Contract!Marked(Contract!RolledBack(Shown), FALSE) = Marked(RolledBack(Shown), FALSE)
      BY SameOperators, SameRequests
    <3>1. CASE Contract!RollbackDone
      BY <3>0, <3>1 DEF Contract!RollbackDone, Contract!Ok, Shown
    <3>2. CASE Contract!RollbackRefused
      BY <3>0, <3>2 DEF Contract!RollbackRefused, Contract!Refused, Shown
    <3> QED BY <1>5, <3>1, <3>2
  <2>2. ASSUME Previous(Shown) # None, Shown' = Marked(RolledBack(Shown), FALSE)
        PROVE  Present(Shown') /\ Topped(Shown')
    <3>1. Topped(RolledBack(Shown)) /\ Present(RolledBack(Shown)) /\ RolledBack(Shown) \in Store
      BY <2>2, <1>s, RolledBackTopped
    <3> QED BY <2>2, <3>1, <1>m
  <2> QED BY <2>1, <2>2, <1>s DEF Undoes
<1>6. ASSUME Contract!StartDone \/ Contract!ReloadDone PROVE Present(Shown') /\ Topped(Shown') /\ Undoes'
  <2>1. answer'.req \in {"start", "reload"} /\ Shown' \in {Shown, Marked(Shown, FALSE)}
    <3>0. Contract!Marked(Shown, FALSE) = Marked(Shown, FALSE)
      BY SameOperators
    <3>1. ASSUME NEW req \in {"start", "reload"}, Contract!Ok(req, None) \/ Contract!Refused(req, None)
          PROVE  answer'.req \in {"start", "reload"}
      <4>1. PICK c : c = Shown.current
        OBVIOUS
      <4>2. CASE Contract!Ok(req, None)
        BY <4>1, <4>2 DEF Contract!Ok, Shown
      <4>3. CASE Contract!Refused(req, None)
        BY <4>1, <4>3 DEF Contract!Refused, Shown
      <4> QED BY <3>1, <4>2, <4>3
    <3>2. CASE Contract!StartDone
      BY <3>0, <3>1, <3>2 DEF Contract!StartDone, Shown
    <3>3. CASE Contract!ReloadDone
      BY <3>1, <3>3 DEF Contract!ReloadDone, Shown
    <3> QED BY <1>6, <3>2, <3>3
  <2> QED BY <2>1, <1>s, <1>m DEF Undoes
<1>7. ASSUME Contract!ProcMoves PROVE Present(Shown') /\ Topped(Shown') /\ Undoes'
  <2>1. Shown' = Shown /\ answer' = answer
    BY <1>7 DEF Contract!ProcMoves, Shown
  <2> QED BY <2>1, <1>s DEF Undoes
<1>8. ASSUME Contract!Booted PROVE Present(Shown') /\ Topped(Shown') /\ Undoes'
  <2>1. /\ answer' = answer
        /\ \/ Shown' = Shown
           \/ Shown.current = None /\ Shown' = Marked(Swapped(Written(Shown, Boot), Boot), ~Selected)
    BY <1>8, SameOperators DEF Contract!Booted, Shown
  <2>2. CASE Shown' = Shown
    BY <2>1, <2>2, <1>s DEF Undoes
  <2>3. CASE Shown.current = None /\ Shown' = Marked(Swapped(Written(Shown, Boot), Boot), ~Selected)
    <3>1. Shown.history = <<>>
      BY <2>3, <1>s, ReleaseAssumption DEF Topped, Store, Release
    <3>2. Shown'.history = <<>> /\ Shown'.current = Boot /\ Boot \in Shown'.dirs
      BY <2>3, <3>1, <1>s DEF Marked, Swapped, Written, Store
    <3>3. Previous(Shown) = None
      BY <3>1 DEF Previous, Earlier, Positions
    <3>4. Undoes'
      BY <2>1, <3>3, <1>s DEF Undoes
    <3> QED BY <3>2, <3>4 DEF Present, Topped
  <2> QED BY <2>1, <2>2, <2>3
<1> QED BY <1>1, <1>2, <1>3, <1>4, <1>5, <1>6, <1>7, <1>8 DEF Lives

\* Spec => []RollbackUndoes, while no file operation fails, no release that was loaded
\* before is rejected and the agent is not killed, with room in the store for the
\* release before the active one: after any sequence of requests, the release that a
\* successful apply replaced is the one a rollback would go back to, and neither the
\* history's bounds, prune, the revert of a failed apply nor a rollback loses it.
\* (releases.go activate, previous, prune; server.go revert, rollback)
THEOREM RollbackGoesBack ==
  ASSUME ~IOErrors, ~OldRejected, ~Kills, Keep > 0, MaxHistory > 1
  PROVE  Spec => []RollbackUndoes
<1>1. Init => ShownInv
  <2> SUFFICES ASSUME Init PROVE ShownInv
    OBVIOUS
  <2>1. Shown = EmptyStore /\ answer = None
    BY IdleFacts DEF Init, IdleOp, Shown
  <2> QED BY <2>1 DEF ShownInv, Undoes, Present, Topped, EmptyStore, Store
<1>2. AtomicInv /\ ShownInv /\ [Next]_vars => ShownInv'
  <2> SUFFICES ASSUME AtomicInv, ShownInv, [Next]_vars PROVE ShownInv'
    OBVIOUS
  <2>1. AtomicInv'
    BY AtomicInvNext
  <2>2. Shown' \in Store
    BY <2>1 DEF AtomicInv, AgentInv, TypeInv, TypeOK, Op, Shown
  <2>3. Lives
    BY ContractSteps
  <2> QED BY <2>2, <2>3, UndoLives
<1>3. ShownInv => RollbackUndoes
  BY DEF ShownInv, Undoes, Shown, RollbackUndoes
<1>4. (Init => AtomicInv) /\ (AtomicInv /\ [Next]_vars => AtomicInv')
  BY AtomicInvInit, AtomicInvNext
<1> HIDE DEF AtomicInv, ShownInv
<1> QED BY <1>1, <1>2, <1>3, <1>4, PTL DEF Spec

=============================================================================
