--------------------------- MODULE ServicesProofs ---------------------------
(***************************************************************************)
(* What the proofs of the parts say of MCServices, where each part is an   *)
(* instance among others that rest: a behaviour of the composition is, for *)
(* each part, one of that part.                                            *)
(*                                                                         *)
(* The instances here are of the modules with the proofs.  They have the   *)
(* definitions of those of MCServices, under other names: a lemma of each   *)
(* part says that its steps are the same, by all it is defined with.       *)
(***************************************************************************)
EXTENDS MCServices, FiniteSetTheorems, TLAPS

UP == INSTANCE UpgradeProofs WITH Images <- {one, two}, Overlap <- FALSE,
        MaxUpgrades <- 3, MaxCrashes <- 2, job <- upgrade

KP == INSTANCE ControlProofs WITH
        Clients <- {left}, Deciders <- Judges, MaxApprovals <- 2, MaxCrashes <- 1, crashes <- faults,
        Addresses <- {one, two}, Attempts <- {left, right}, MaxTokens <- 2, MaxDeeds <- 4,
        Commits <- {one, two}, MaxUpdates <- 2, MaxKills <- Depth, job <- update,
        Targets <- {one}, Workers <- {left}, Room <- 1, MaxChanges <- Depth + 1, MaxGlitches <- 1,
        Ids <- {one, two}, Conns <- {left, right}, MaxReloads <- 2,
        Servers <- {one, two}, Changers <- {left, right}, MaxLoads <- 1, MaxCommands <- 1,
        MaxGens <- Depth, MaxCalls <- 1, MaxMishaps <- 1,
        Names <- {left, right}, Labels <- [n \in {left, right} |-> IF n = left THEN {one, two} ELSE {one}],
        Addrs <- {one, two}, MaxHosts <- 2, MaxErrors <- 1, MaxMoves <- 2

PP == INSTANCE PipelineProofs WITH Hash <- {one, two, three}, Boot <- left, Keep <- 10, MaxHistory <- 50,
        Snapshots <- Reloads, MaxVersions <- 2, MaxFaults <- 1, Faults <- {"exit", "restart", "crash"},
        Docker <- FALSE, Managed <- {"haproxy"},
        rows <- versions, up <- running, job <- apply, rec <- recon, faults <- crash

AP == INSTANCE AgentProofs WITH Hash <- {one, two, three}, Boot <- left, Keep <- 1, MaxHistory <- 3,
        AlwaysOn <- FALSE, IOErrors <- FALSE, ExecFails <- FALSE, OldRejected <- FALSE,
        Kills <- FALSE, Selected <- TRUE

-----------------------------------------------------------------------------
(* The apply pipeline                                                      *)

\* The steps of the pipeline are those that are proved about.
LEMMA PipelineIsThat ==
  /\ Init => PP!Init
  /\ [Next]_vars => [PP!Next]_PP!vars
<1>1. Init => PP!Init
  BY SMTT(60) DEF Init, L!Proxies, PP!Proxies, L!Balancers, PP!Balancers, L!Engine, PP!Engine, L!EmptyStore, PP!EmptyStore,
         L!Serving, PP!Serving, L!Halted, PP!Halted, L!Marked, PP!Marked, L!Fresh, PP!Fresh, L!Unanswered,
         PP!Unanswered, L!NoJob, PP!NoJob, L!AnySnapshot, PP!AnySnapshot, L!NoRec, PP!NoRec, L!Init, PP!Init
\* What the steps are made of: the agents, a request to one, the calls of an undo and
\* of a reconcile.
<1>2. PP!Live = L!Live
  BY DEF L!LiveRows, PP!LiveRows, L!Latest, PP!Latest, L!Live, PP!Live
<1>3. PP!AnySnapshot = L!AnySnapshot
  BY DEF L!AnySnapshot, PP!AnySnapshot
<1>4. \A a : PP!Running(a) = L!Running(a)
  BY DEF L!Running, PP!Running
<1>5. \A s : PP!Previous(s) = L!Previous(s)
  BY DEF L!Positions, PP!Positions, L!Latest, PP!Latest, L!Earlier, PP!Earlier, L!Previous, PP!Previous
<1>6. \A h : PP!Newest(h) = L!Newest(h)
  BY DEF L!Newest, PP!Newest
<1>7. \A h, r : PP!Push(h, r) = L!Push(h, r)
  BY <1>6 DEF L!Push, PP!Push
<1>8. \A h : PP!Cut(h) = L!Cut(h)
  BY DEF L!Cut, PP!Cut
<1>9. \A s, on : PP!Marked(s, on) = L!Marked(s, on)
  BY DEF L!Marked, PP!Marked
<1>10. \A s, h : PP!Written(s, h) = L!Written(s, h)
  BY DEF L!Written, PP!Written
<1>11. \A s, h : PP!Recorded(s, h) = L!Recorded(s, h)
  BY <1>8, <1>7 DEF L!Recorded, PP!Recorded
<1>12. \A s, h : PP!Swapped(s, h) = L!Swapped(s, h)
  BY DEF L!Swapped, PP!Swapped
<1>13. \A s, h : PP!Activated(s, h) = L!Activated(s, h)
  BY <1>11, <1>12, <1>10 DEF L!Activated, PP!Activated
<1>14. \A s : PP!Kept(s) = L!Kept(s)
  BY DEF L!Cardinality, PP!Cardinality, L!Kept, PP!Kept
<1>15. \A s : PP!Pruned(s) = L!Pruned(s)
  BY <1>14 DEF L!Pruned, PP!Pruned
<1>16. \A h, K : PP!OnlyIn(h, K) = L!OnlyIn(h, K)
  BY DEF L!OnlyIn, PP!OnlyIn
<1>17. \A s : PP!Trimmed(s) = L!Trimmed(s)
  BY <1>16 DEF L!Trimmed, PP!Trimmed
<1>18. \A s, h, stop : PP!Applied(s, h, stop) = L!Applied(s, h, stop)
  BY <1>17, <1>15, <1>9, <1>13 DEF L!Applied, PP!Applied
<1>19. \A s, prev : PP!RewoundTo(s, prev) = L!RewoundTo(s, prev)
  BY DEF L!Positions, PP!Positions, L!Latest, PP!Latest, L!RewoundTo, PP!RewoundTo
<1>20. \A s : PP!RolledBack(s) = L!RolledBack(s)
  BY <1>19, <1>12, <1>5 DEF L!RolledBack, PP!RolledBack
<1>21. \A h, r : PP!Pop(h, r) = L!Pop(h, r)
  BY <1>6 DEF L!Pop, PP!Pop
<1>22. \A s, failed, prev : PP!Unrecorded(s, failed, prev) = L!Unrecorded(s, failed, prev)
  BY <1>21, <1>7 DEF L!Unrecorded, PP!Unrecorded
<1>23. \A s, h : PP!Undone(s, h) = L!Undone(s, h)
  BY <1>22, <1>12, <1>13 DEF L!Undone, PP!Undone
<1>24. \A s : PP!Serving(s) = L!Serving(s)
  BY DEF L!Serving, PP!Serving
<1>25. \A s : PP!Halted(s) = L!Halted(s)
  BY DEF L!Halted, PP!Halted
<1>26. \A a : PP!Booted(a) = L!Booted(a)
  BY <1>25, <1>24 DEF L!Booted, PP!Booted
<1>27. \A a, h : PP!Active(a, h) = L!Active(a, h)
  BY <1>4 DEF L!Active, PP!Active
<1>28. \A a, do : PP!CanDo(a, do) = L!CanDo(a, do)
  BY <1>5 DEF L!CanDo, PP!CanDo
<1>29. \A a, do, h, alwaysOn : PP!Done(a, do, h, alwaysOn) = L!Done(a, do, h, alwaysOn)
  BY ZenonT(60), <1>27, <1>24, <1>18, <1>25, <1>9, <1>20, <1>4 DEF L!Done, PP!Done
<1>30. \A a, h, alwaysOn : PP!Reverted(a, h, alwaysOn) = L!Reverted(a, h, alwaysOn)
  BY ZenonT(60), <1>9, <1>23, <1>4, <1>24, <1>25 DEF L!Reverted, PP!Reverted
<1>31. \A a, do, h, alwaysOn : PP!Refusals(a, do, h, alwaysOn) = L!Refusals(a, do, h, alwaysOn)
  BY <1>27, <1>30, <1>28 DEF L!Refusals, PP!Refusals
<1>32. \A kind : PP!Fault(kind) = L!Fault(kind)
  BY DEF L!Fault, PP!Fault
<1>33. \A c, r : PP!Send(c, r) = L!Send(c, r)
  BY ZenonT(60), <1>29, <1>31, <1>28, <1>32 DEF L!Proxies, PP!Proxies, L!AlwaysOn, PP!AlwaysOn, L!Send, PP!Send
<1>34. \A do, e, h : PP!Call(do, e, h) = L!Call(do, e, h)
  BY DEF L!Call, PP!Call
<1>35. \A e, h, run : PP!Install(e, h, run) = L!Install(e, h, run)
  BY <1>34 DEF L!Install, PP!Install
<1>36. \A cond, call : PP!Only(cond, call) = L!Only(cond, call)
  BY DEF L!Only, PP!Only
<1>37. \A live : PP!OldProxy(live) = L!OldProxy(live)
  BY DEF L!OldProxy, PP!OldProxy
<1>38. \A live : PP!OldLb(live) = L!OldLb(live)
  BY DEF L!OldLb, PP!OldLb
<1>39. \A s : PP!LbWanted(s) = L!LbWanted(s)
  BY DEF L!LbWanted, PP!LbWanted
<1>40. \A s : PP!TunWanted(s) = L!TunWanted(s)
  BY SMTT(60) DEF L!TunWanted, PP!TunWanted
<1>41. \A did : PP!Undo(did) = L!Undo(did)
  BY <1>36, <1>34, <1>37, <1>35, <1>39 DEF L!Undo, PP!Undo
<1>42. \A e : PP!OtherProxy(e) = L!OtherProxy(e)
  BY DEF L!Proxies, PP!Proxies, L!OtherProxy, PP!OtherProxy
<1>43. \A e : PP!OtherLb(e) = L!OtherLb(e)
  BY DEF L!Balancers, PP!Balancers, L!OtherLb, PP!OtherLb
<1>44. \A st, h : PP!Stale(st, h) = L!Stale(st, h)
  BY DEF L!Stale, PP!Stale
<1>45. \A e, s, st : PP!EngineIdle(e, s, st) = L!EngineIdle(e, s, st)
  BY DEF L!Proxies, PP!Proxies, L!Balancers, PP!Balancers, L!EngineIdle, PP!EngineIdle
<1>46. \A seen : PP!Corrections(seen) = L!Corrections(seen)
  BY ZenonT(60), <1>2, <1>42, <1>43, <1>36, <1>44, <1>35, <1>34, <1>45, <1>39, <1>40 DEF L!Corrections, PP!Corrections
\* The steps of an apply.
<1>47. PP!Unanswered = L!Unanswered
  BY DEF L!Unanswered, PP!Unanswered
<1>48. \A s : PP!NoJob(s) = L!NoJob(s)
  BY <1>47 DEF L!NoJob, PP!NoJob
<1>49. PP!EndJob = L!EndJob
  BY <1>48, <1>3 DEF L!EndJob, PP!EndJob
<1>50. \A e : PP!Answered(e) = L!Answered(e)
  BY <1>4 DEF L!Answered, PP!Answered
<1>51. \A e, st : PP!Asked(e, st) = L!Asked(e, st)
  BY <1>50, <1>47, <1>32 DEF L!Asked, PP!Asked
<1>52. \A pc : PP!Needed(pc) = L!Needed(pc)
  BY DEF L!Needed, PP!Needed
<1>53. \A e : PP!Bring(e) = L!Bring(e)
  BY <1>26 DEF L!Bring, PP!Bring
<1>54. PP!LbSwitching = L!LbSwitching
  BY <1>38 DEF L!LbSwitching, PP!LbSwitching
<1>55. PP!Switching = L!Switching
  BY <1>37 DEF L!Switching, PP!Switching
<1>56. \A did : PP!FailWith(did) = L!FailWith(did)
  BY <1>41 DEF L!FailWith, PP!FailWith
<1>57. \A pc, did : PP!Advance(pc, did) = L!Advance(pc, did)
  BY DEF L!Advance, PP!Advance
<1>58. PP!LbToDo = L!LbToDo
  BY <1>54 DEF L!LbToDo, PP!LbToDo
<1>59. PP!TunnelToDo = L!TunnelToDo
  BY DEF L!TunnelToDo, PP!TunnelToDo
<1>60. PP!ApplyBegin = L!ApplyBegin
  BY <1>48 DEF L!Unlocked, PP!Unlocked, L!ApplyBegin, PP!ApplyBegin
<1>61. \A i : PP!RollbackBegin(i) = L!RollbackBegin(i)
  BY <1>48 DEF L!Unlocked, PP!Unlocked, L!RollbackBegin, PP!RollbackBegin
<1>62. PP!ReadDraft = L!ReadDraft
  BY <1>2, <1>49 DEF L!ReadDraft, PP!ReadDraft
<1>63. \A e : PP!EnsureEngine(e) = L!EnsureEngine(e)
  BY <1>52, <1>53 DEF L!EnsureEngine, PP!EnsureEngine
<1>64. \A r : PP!ValidateFails(r) = L!ValidateFails(r)
  BY <1>52, <1>32, <1>49 DEF L!NewRow, PP!NewRow, L!ValidateFails, PP!ValidateFails
<1>65. PP!CheckProxy = L!CheckProxy
  BY DEF L!Goto, PP!Goto, L!CheckProxy, PP!CheckProxy
<1>66. PP!CheckLb = L!CheckLb
  BY <1>52, <1>50, <1>47, <1>51 DEF L!CheckLb, PP!CheckLb
<1>67. PP!CheckTunnel = L!CheckTunnel
  BY ZenonT(60), <1>52, <1>50, <1>47, <1>51 DEF L!CheckTunnel, PP!CheckTunnel
<1>68. PP!InsertDraft = L!InsertDraft
  BY <1>54 DEF L!NewRow, PP!NewRow, L!Goto, PP!Goto, L!InsertDraft, PP!InsertDraft
<1>69. \A r : PP!StopOldLb(r) = L!StopOldLb(r)
  BY <1>38, <1>34, <1>33, <1>57 DEF L!StopOldLb, PP!StopOldLb
<1>70. \A r : PP!StopOldProxy(r) = L!StopOldProxy(r)
  BY <1>37, <1>34, <1>33, <1>57 DEF L!StopOldProxy, PP!StopOldProxy
<1>71. \A r : PP!ApplyLb(r) = L!ApplyLb(r)
  BY <1>55, <1>54, <1>58, <1>33, <1>35, <1>57, <1>56 DEF L!AfterLb, PP!AfterLb, L!ApplyLb, PP!ApplyLb
<1>72. \A r : PP!ApplyProxy(r) = L!ApplyProxy(r)
  BY <1>33, <1>34, <1>57, <1>56 DEF L!ApplyProxy, PP!ApplyProxy
<1>73. \A r : PP!ApplyTunnel(r) = L!ApplyTunnel(r)
  BY <1>59, <1>33, <1>35, <1>57, <1>56 DEF L!ApplyTunnel, PP!ApplyTunnel
<1>74. \A r : PP!UndoStep(r) = L!UndoStep(r)
  BY <1>28, <1>33 DEF L!UndoStep, PP!UndoStep
<1>75. PP!PassLb = L!PassLb
  BY <1>55, <1>58, <1>56 DEF L!Goto, PP!Goto, L!AfterLb, PP!AfterLb, L!PassLb, PP!PassLb
<1>76. PP!PassTunnel = L!PassTunnel
  BY <1>59, <1>56 DEF L!Goto, PP!Goto, L!PassTunnel, PP!PassTunnel
<1>77. PP!HealthPasses = L!HealthPasses
  BY <1>54, <1>50, <1>47, <1>51, <1>4 DEF L!Watched, PP!Watched, L!Goto, PP!Goto, L!HealthPasses,
         PP!HealthPasses
<1>78. PP!HealthFails = L!HealthFails
  BY <1>54, <1>4, <1>56 DEF L!Watched, PP!Watched, L!HealthFails, PP!HealthFails
<1>79. PP!Promote = L!Promote
  BY <1>49 DEF L!LiveRows, PP!LiveRows, L!Promote, PP!Promote
<1>80. PP!RecordFailure = L!RecordFailure
  BY <1>49 DEF L!RecordFailure, PP!RecordFailure
<1>81. PP!JobStep = L!JobStep
  BY <1>62, <1>63, <1>64, <1>65, <1>66, <1>67, <1>68, <1>69, <1>70, <1>71, <1>72, <1>73, <1>74, <1>75, <1>76,
         <1>77, <1>78, <1>79, <1>80 DEF
         L!Proxies, PP!Proxies, L!Balancers, PP!Balancers, L!Engine, PP!Engine, L!Replies, PP!Replies,
         L!JobStep,
         PP!JobStep
\* Reconcile, the draft, the admin, and what happens to the engines.
<1>82. PP!ReconcileStatus = L!ReconcileStatus
  BY ZenonT(60), <1>32, <1>50, <1>47 DEF L!Proxies, PP!Proxies, L!Balancers, PP!Balancers, L!Engine, PP!Engine,
         L!ReconcileStatus, PP!ReconcileStatus
<1>83. PP!ReconcileLock = L!ReconcileLock
  BY ZenonT(60), <1>47, <1>2, <1>46 DEF L!Unlocked, PP!Unlocked, L!Proxies, PP!Proxies, L!Balancers, PP!Balancers, L!Engine,
         PP!Engine, L!NoRec, PP!NoRec, L!ReconcileLock, PP!ReconcileLock
<1>84. \A r : PP!ReconcileCall(r) = L!ReconcileCall(r)
  BY <1>47, <1>33 DEF L!Proxies, PP!Proxies, L!Balancers, PP!Balancers, L!Engine, PP!Engine, L!NoRec, PP!NoRec,
         L!NextCall, PP!NextCall, L!ReconcileCall, PP!ReconcileCall
<1>85. PP!ReconcileContainer = L!ReconcileContainer
  BY <1>47, <1>53, <1>25 DEF L!Proxies, PP!Proxies, L!Balancers, PP!Balancers, L!Engine, PP!Engine, L!NoRec,
         PP!NoRec, L!NextCall, PP!NextCall, L!ReconcileContainer, PP!ReconcileContainer
<1>86. \A s : PP!Edit(s) = L!Edit(s)
  BY DEF L!Edit, PP!Edit
<1>87. PP!Discard = L!Discard
  BY <1>2 DEF L!Unlocked, PP!Unlocked, L!Discard, PP!Discard
<1>88. \A a, push : PP!Pushed(a, push) = L!Pushed(a, push)
  BY <1>4, <1>29 DEF L!Pushed, PP!Pushed
<1>89. \A e : PP!LivePush(e) = L!LivePush(e)
  BY ZenonT(60), <1>2, <1>35 DEF L!LivePush, PP!LivePush
<1>90. \A e : PP!AdminStart(e) = L!AdminStart(e)
  BY <1>26, <1>2, <1>88, <1>89, <1>37, <1>38, <1>28, <1>29 DEF L!Unlocked, PP!Unlocked, L!Proxies, PP!Proxies,
         L!Balancers, PP!Balancers, L!AlwaysOn, PP!AlwaysOn, L!AdminStart, PP!AdminStart
<1>91. \A e : PP!AdminStop(e) = L!AdminStop(e)
  BY <1>29, <1>37, <1>2 DEF L!Unlocked, PP!Unlocked, L!Proxies, PP!Proxies, L!AlwaysOn, PP!AlwaysOn,
         L!AdminStop,
         PP!AdminStop
<1>92. \A e : PP!EngineExits(e) = L!EngineExits(e)
  BY <1>4, <1>32 DEF L!EngineExits, PP!EngineExits
<1>93. \A e : PP!EngineReturns(e) = L!EngineReturns(e)
  BY SMTT(60), <1>4 DEF L!EngineReturns, PP!EngineReturns
<1>94. \A e : PP!AgentRestarts(e) = L!AgentRestarts(e)
  BY <1>32, <1>26 DEF L!AgentRestarts, PP!AgentRestarts
<1>95. PP!Crash = L!Crash
  BY <1>47, <1>32, <1>49 DEF L!Proxies, PP!Proxies, L!Balancers, PP!Balancers, L!Engine, PP!Engine, L!NoRec,
         PP!NoRec, L!Crash, PP!Crash
<1>96. PP!Next = L!Next
  BY <1>60, <1>61, <1>82, <1>83, <1>84, <1>85, <1>90, <1>91, <1>92, <1>93, <1>94, <1>95, <1>81, <1>86, <1>87 DEF
         L!Begin, PP!Begin, L!Reconcile, PP!Reconcile, L!AdminAction, PP!AdminAction, L!Proxies, PP!Proxies,
         L!Balancers, PP!Balancers, L!Engine, PP!Engine, L!Environment, PP!Environment, L!Next, PP!Next
<1> QED BY SMTT(60), <1>1, <1>96 DEF Next, vars, pipelineVars, PP!vars

\* The proofs of the pipeline apply here.
LEMMA PipelineAssumed ==
  ASSUME left \notin {one, two, three}, None \notin {one, two, three, left}
  PROVE  PP!ReleaseAssumption /\ PP!PipelineAssumption /\ PP!Heard
<1>1. \A s \in Reloads : s \in PP!Snapshot /\ s.run
  <2> SUFFICES ASSUME NEW s \in Reloads
               PROVE  s \in PP!Snapshot /\ s.run
    OBVIOUS
  <2>1. PICK h \in {one, two} :
          s = [ pe |-> "nginx", ph |-> h, le |-> "haproxy", lh |-> h, run |-> TRUE,
                th |-> one, tun |-> FALSE ]
    BY DEF Reloads
  <2>2. h = one \/ h = two
    BY SMTT(60), <2>1
  <2> QED BY SMTT(60), <2>1, <2>2 DEF PP!Snapshot, PP!Proxies, PP!Balancers
<1>2. Reloads # {}
  BY DEF Reloads
<1>3. PP!ReleaseAssumption
  BY DEF PP!ReleaseAssumption
<1>4. PP!PipelineAssumption
  BY <1>1, <1>2 DEF PP!PipelineAssumption, PP!AllFaults, PP!Engine, PP!Balancers
<1>5. PP!Heard
  BY <1>1 DEF PP!Heard
<1> QED BY <1>3, <1>4, <1>5

\* An engine an admin stopped is down until an admin or a new version starts it:
\* AdminStopHolds of Pipeline.  (kvStoppedEngines, failAfterSwap, reconcile)
THEOREM StopsHold ==
  ASSUME left \notin {one, two, three}, None \notin {one, two, three, left}
  PROVE  Spec => []AdminStopHolds
<1>1. PP!Spec => []PP!AdminStopHolds
  BY PipelineAssumed, PP!StopsHold
<1>2. PP!AdminStopHolds => AdminStopHolds
  BY DEF AdminStopHolds, L!Running, PP!Running, L!AdminStopHolds, PP!AdminStopHolds
<1> QED BY <1>1, <1>2, PipelineIsThat, PTL DEF Spec, PP!Spec

-----------------------------------------------------------------------------
(* The engine agent                                                        *)

\* The steps of the agent are those that are proved about.
LEMMA AgentIsThat ==
  /\ Init => AP!Init
  /\ [Next]_vars => [AP!Next]_AP!vars
<1>1. Init => AP!Init
  BY SMTT(60) DEF Init, G!EmptyStore, AP!EmptyStore, G!IdleOp, AP!IdleOp, G!Init, AP!Init
<1>2. AP!Next = G!Next
  BY DEF G!Cardinality, AP!Cardinality, G!Idle, AP!Idle, G!Reply, AP!Reply, G!ApplyUnusable, AP!ApplyUnusable,
         G!Running, AP!Running, G!ApplyActive, AP!ApplyActive, G!Begin, AP!Begin, G!ApplyBegin, AP!ApplyBegin,
         G!ApplyStopBegin, AP!ApplyStopBegin, G!Marked, AP!Marked, G!Unwant, AP!Unwant, G!StopOnlyBegin,
         AP!StopOnlyBegin, G!Positions, AP!Positions, G!Latest, AP!Latest, G!Earlier, AP!Earlier, G!Previous,
         AP!Previous, G!RollbackNone, AP!RollbackNone, G!RollbackBegin, AP!RollbackBegin, G!StartNothing,
         AP!StartNothing, G!StartBegin, AP!StartBegin, G!StopBegin, AP!StopBegin, G!ReloadDown, AP!ReloadDown,
         G!ReloadBegin, AP!ReloadBegin, G!Request, AP!Request, G!Written, AP!Written, G!Goto, AP!Goto, G!Write,
         AP!Write, G!Created, AP!Created, G!Removed, AP!Removed, G!EmptyStore, AP!EmptyStore, G!IdleOp, AP!IdleOp,
         G!Prev, AP!Prev, G!Finish, AP!Finish, G!Validate, AP!Validate, G!Swapped, AP!Swapped, G!Swap, AP!Swap,
         G!Cut, AP!Cut, G!Newest, AP!Newest, G!Push, AP!Push, G!Recorded, AP!Recorded, G!Record, AP!Record,
         G!Mark, AP!Mark, G!ApplyFault, AP!ApplyFault, G!Kept, AP!Kept, G!Pruned, AP!Pruned, G!Prune, AP!Prune,
         G!OnlyIn, AP!OnlyIn, G!Trimmed, AP!Trimmed, G!Trim, AP!Trim, G!LoadWorked, AP!LoadWorked, G!LoadAccepted,
         AP!LoadAccepted, G!MayReject, AP!MayReject, G!LoadFailed, AP!LoadFailed, G!LoadRejected, AP!LoadRejected,
         G!LoadLate, AP!LoadLate, G!LoadGone, AP!LoadGone, G!Spawn, AP!Spawn, G!StartFailed, AP!StartFailed,
         G!SpawnError, AP!SpawnError, G!Settle, AP!Settle, G!Unswap, AP!Unswap, G!Pop, AP!Pop, G!Unrecorded,
         AP!Unrecorded, G!Unrecord, AP!Unrecord, G!RevertFault, AP!RevertFault, G!Revert, AP!Revert,
         G!ResumeLoaded, AP!ResumeLoaded, G!ShouldRun, AP!ShouldRun, G!ResumeStarted, AP!ResumeStarted,
         G!ResumeDown, AP!ResumeDown, G!Rewind, AP!Rewind, G!RewoundTo, AP!RewoundTo, G!Rerecord, AP!Rerecord,
         G!RollbackFault, AP!RollbackFault, G!Unmark, AP!Unmark, G!Halt, AP!Halt, G!Halted, AP!Halted, G!Boots,
         AP!Boots, G!BootSwap, AP!BootSwap, G!BootMark, AP!BootMark, G!BootStart, AP!BootStart, G!BootFault,
         AP!BootFault, G!Work, AP!Work, G!EngineExits, AP!EngineExits, G!Retry, AP!Retry, G!Kill, AP!Kill, G!Next,
         AP!Next
<1> QED BY SMTT(60), <1>1, <1>2 DEF Next, vars, agentVars, AP!vars

\* After a successful apply, a rollback would go back to the release that was active
\* before it: RollbackUndoes of Agent.  (releases.go activate, previous, prune)
THEOREM RollbackGoesBack ==
  ASSUME left \notin {one, two, three}, None \notin {one, two, three, left}
  PROVE  Spec => []RollbackUndoes
<1>1. AP!Spec => []AP!RollbackUndoes
  <2>1. AP!ReleaseAssumption /\ AP!AgentAssumption
    BY DEF AP!ReleaseAssumption, AP!AgentAssumption
  <2> QED BY <2>1, AP!RollbackGoesBack
<1>2. AP!RollbackUndoes => RollbackUndoes
  BY DEF RollbackUndoes, G!Idle, AP!Idle, G!Positions, AP!Positions, G!Latest, AP!Latest, G!Earlier, AP!Earlier,
         G!Previous, AP!Previous, G!RollbackUndoes, AP!RollbackUndoes
<1> QED BY <1>1, <1>2, AgentIsThat, PTL DEF Spec, AP!Spec

-----------------------------------------------------------------------------
(* Upgrades of engine containers                                           *)

\* The steps of the upgrade are those that are proved about.
LEMMA UpgradeIsThat ==
  /\ Init => UP!Init
  /\ [Next]_vars => [UP!Next]_UP!vars
<1>1. Init => UP!Init
  BY SMTT(60) DEF Init, U!Boxes, UP!Boxes, U!Init, UP!Init
<1>2. UP!Next = U!Next
  BY DEF U!Boxes, UP!Boxes, U!There, UP!There, U!Named, UP!Named, U!Current, UP!Current, U!Removed,
         UP!Removed, U!CanRename, UP!CanRename, U!Renamed, UP!Renamed, U!Turned, UP!Turned, U!Goes, UP!Goes,
         U!Finished, UP!Finished, U!Locked, UP!Locked, U!Begin, UP!Begin, U!Prepare, UP!Prepare, U!RenameOld,
         UP!RenameOld, U!CreateNew, UP!CreateNew, U!StopOld, UP!StopOld, U!StartNew, UP!StartNew, U!Health,
         UP!Health, U!Succeed, UP!Succeed, U!RestoredName, UP!RestoredName, U!Abandon, UP!Abandon, U!RollBack,
         UP!RollBack, U!Undo, UP!Undo, U!RunUpgrade, UP!RunUpgrade, U!Crash, UP!Crash, U!Interrupted,
         UP!Interrupted, U!SavedAtStart, UP!SavedAtStart, U!Restart, UP!Restart, U!Recovered, UP!Recovered,
         U!Keeps, UP!Keeps, U!Look, UP!Look, U!Keep, UP!Keep, U!PutBack, UP!PutBack, U!Recover, UP!Recover,
         U!Reconcile, UP!Reconcile, U!Next, UP!Next
<1> QED BY SMTT(60), <1>1, <1>2 DEF Next, vars, upgradeVars, UP!vars

\* Wherever Relay dies in an upgrade there is a container of the engine to go back
\* to, and one that runs once nothing is left to recover: EngineKept of Upgrade.
\* (upgrade.go, recoverInterrupted)
THEOREM EngineIsKept ==
  ASSUME None \notin 0..3
  PROVE  Spec => []EngineKept
<1>1. UP!Spec => []UP!EngineKept
  <2>1. UP!Orderly
    BY DEF UP!Orderly, UP!Boxes
  <2> QED BY SMTT(60), <2>1, UP!EngineIsKept
<1>2. UP!EngineKept => EngineKept
  BY DEF EngineKept, U!Boxes, UP!Boxes, U!There, UP!There, U!Named, UP!Named, U!Quiet, UP!Quiet, U!EngineKept,
         UP!EngineKept
<1> QED BY <1>1, <1>2, UpgradeIsThat, PTL DEF Spec, UP!Spec

\* An upgrade that fails or is rolled back leaves the container there was:
\* FailureKeepsOld of Upgrade.  (rollback in upgrade.go)
THEOREM FailuresKeepOld ==
  ASSUME None \notin 0..3
  PROVE  Spec => FailureKeepsOld
<1>1. UP!Spec => UP!FailureKeepsOld
  <2>1. UP!Orderly
    BY DEF UP!Orderly, UP!Boxes
  <2> QED BY <2>1, UP!FailuresKeepOld
<1>2. UP!FailureKeepsOld => FailureKeepsOld
  BY PTL DEF FailureKeepsOld, U!vars, UP!vars, U!Ends, UP!Ends, U!RollbackRestarts, UP!RollbackRestarts,
         U!FailureKeepsOld, UP!FailureKeepsOld
<1> QED BY <1>1, <1>2, UpgradeIsThat, PTL DEF Spec, UP!Spec

-----------------------------------------------------------------------------
(* The update of Relay                                                     *)

\* The steps of the update are those that are proved about.
LEMMA UpdateIsThat ==
  /\ Init => KP!S!Init
  /\ [Next]_vars => [KP!S!Next]_KP!S!vars
<1>1. Init => KP!S!Init
  BY DEF Init, S!Updates, KP!S!Updates, S!Init, KP!S!Init
<1>2. KP!S!Next = S!Next
  BY DEF S!Updates, KP!S!Updates, S!Fault, KP!S!Fault, S!HelperThere, KP!S!HelperThere, S!HelperRuns,
         KP!S!HelperRuns, S!Removed, KP!S!Removed, S!UnderWay, KP!S!UnderWay, S!Dead, KP!S!Dead, S!Goes,
         KP!S!Goes, S!Ended, KP!S!Ended, S!Check, KP!S!Check, S!Begin, KP!S!Begin, S!StartHelper,
         KP!S!StartHelper, S!SaveHelper, KP!S!SaveHelper, S!Pulled, KP!S!Pulled, S!Outcome, KP!S!Outcome,
         S!Finalize, KP!S!Finalize, S!Crash, KP!S!Crash, S!Resumed, KP!S!Resumed, S!Restart, KP!S!Restart,
         S!Work, KP!S!Work, S!HelperGoes, KP!S!HelperGoes, S!Pull, KP!S!Pull, S!Build, KP!S!Build, S!Recreated,
         KP!S!Recreated, S!ComposeUp, KP!S!ComposeUp, S!WaitHealthy, KP!S!WaitHealthy, S!RollBack,
         KP!S!RollBack, S!Script, KP!S!Script, S!Next, KP!S!Next
<1> QED BY SMTT(60), <1>1, <1>2 DEF Next, vars, updateVars, KP!S!vars

\* An update is only said to have succeeded when Relay runs what a helper that
\* reports to the job has pulled, which is that of the job's own request unless two
\* were let in together: SuccessIsTrue of SelfUpdate.  (finalizeRelay,
\* resumeRelayUpdate)
THEOREM SuccessIsOfTheBuild ==
  ASSUME None \notin {one, two}
  PROVE  Spec => SuccessIsTrue
<1>1. KP!S!Spec => KP!S!SuccessIsTrue
  BY KP!SuccessIsOfTheBuild
<1>2. KP!S!SuccessIsTrue => SuccessIsTrue
  BY PTL DEF SuccessIsTrue, S!vars, KP!S!vars, S!Updates, KP!S!Updates, S!SuccessIsTrue, KP!S!SuccessIsTrue
<1> QED BY <1>1, <1>2, UpdateIsThat, PTL DEF Spec, KP!S!Spec

-----------------------------------------------------------------------------
(* The pairing of gateways                                                 *)

\* The steps of the pairing are those that are proved about.
LEMMA PairingIsThat ==
  /\ Init => KP!P!Init
  /\ [Next]_vars => [KP!P!Next]_KP!P!vars
<1>1. Init => KP!P!Init
  BY DEF Init, P!Listing, KP!P!Listing, P!Writers, KP!P!Writers, P!NoAttempt, KP!P!NoAttempt, P!Init, KP!P!Init
\* The steps of the list and the row, and those of the attempts and the gateway
<1>2. /\ \A w, r : KP!P!SaveAndList(w, r) = P!SaveAndList(w, r)
      /\ \A r : KP!P!SaveOnly(r) = P!SaveOnly(r)
      /\ \A r : KP!P!Listing(r) = P!Listing(r)
      /\ \A w : KP!P!Idle(w) = P!Idle(w)
      /\ KP!P!Moved = P!Moved /\ KP!P!Writers = P!Writers /\ KP!P!Tokens = P!Tokens
      /\ KP!P!NoAttempt = P!NoAttempt /\ \A a : KP!P!Free(a) = P!Free(a)
  BY DEF P!rowVars, KP!P!rowVars, P!listVars, KP!P!listVars, P!Listing, KP!P!Listing, P!SaveAndList,
         KP!P!SaveAndList, P!SaveOnly, KP!P!SaveOnly, P!Idle, KP!P!Idle, P!Moved, KP!P!Moved, P!Writers,
         KP!P!Writers, P!Tokens, KP!P!Tokens, P!NoAttempt, KP!P!NoAttempt, P!Free, KP!P!Free
<1>3. \A w : KP!P!ListStep(w) = P!ListStep(w)
  BY <1>2 DEF P!rowVars, KP!P!rowVars, P!listVars, KP!P!listVars, P!LockIsFree, KP!P!LockIsFree, P!ReadRows,
         KP!P!ReadRows, P!WriteList, KP!P!WriteList, P!Reload, KP!P!Reload, P!ListStep, KP!P!ListStep
<1>4. /\ KP!P!EditReads = P!EditReads /\ \A d : KP!P!EditSaves(d) = P!EditSaves(d)
      /\ KP!P!StartReads = P!StartReads
      /\ KP!P!PollReads = P!PollReads /\ KP!P!PollHears = P!PollHears /\ KP!P!PollWrites = P!PollWrites
  BY <1>2 DEF P!rowVars, KP!P!rowVars, P!listVars, KP!P!listVars, P!EditReads, KP!P!EditReads, P!EditSaves,
         KP!P!EditSaves, P!StartReads, KP!P!StartReads, P!PollReads, KP!P!PollReads, P!PollHears,
         KP!P!PollHears, P!PollWrites, KP!P!PollWrites
<1>5. KP!P!StartSaves = P!StartSaves
  BY Zenon, <1>2 DEF P!StartSaves, KP!P!StartSaves
<1>6. \A a : KP!P!AttemptStep(a) = P!AttemptStep(a)
  <2>1. \A a : KP!P!HomePairs(a) = P!HomePairs(a) /\ KP!P!Lose(a) = P!Lose(a) /\ KP!P!GatewayPairs(a) = P!GatewayPairs(a)
    BY <1>2 DEF P!rowVars, KP!P!rowVars, P!listVars, KP!P!listVars, P!Confirmed, KP!P!Confirmed, P!StillOpen,
           KP!P!StillOpen, P!HomePairs, KP!P!HomePairs, P!Lose, KP!P!Lose, P!GatewayPairs, KP!P!GatewayPairs
  <2>2. \A a : KP!P!Pair(a) = P!Pair(a) /\ KP!P!Prove(a) = P!Prove(a) /\ KP!P!Confirm(a) = P!Confirm(a)
    BY <1>2 DEF P!rowVars, KP!P!rowVars, P!listVars, KP!P!listVars, P!Proves, KP!P!Proves, P!Pair, KP!P!Pair,
           P!Prove, KP!P!Prove, P!Confirm, KP!P!Confirm
  <2> QED BY <2>1, <2>2 DEF P!AttemptStep, KP!P!AttemptStep
<1>7. KP!P!Reset = P!Reset /\ \A t : KP!P!GatewayStarts(t) = P!GatewayStarts(t)
  BY <1>2 DEF P!rowVars, KP!P!rowVars, P!listVars, KP!P!listVars, P!Reset, KP!P!Reset, P!GatewayStarts,
         KP!P!GatewayStarts
<1>8. KP!P!Next = P!Next
  BY <1>2, <1>3, <1>4, <1>5, <1>6, <1>7 DEF P!Next, KP!P!Next
<1> QED BY SMTT(60), <1>1, <1>8 DEF Next, vars, pairingVars, P!rowVars, P!listVars, P!vars, KP!P!rowVars,
        KP!P!listVars, KP!P!vars

\* While no writer of the list is under way and nothing of the last one failed, the
\* engine has the list as written, and no older than the last row saved by one who
\* rewrites it: ListIsNotOlder of Pairing.  (writeGateways, gatewaysChanged)
THEOREM ListIsKeptInOrder ==
  ASSUME {left, right} \cap {"edit", "start"} = {}
  PROVE  Spec => []ListIsNotOlder
<1>1. KP!P!Spec => []KP!P!ListIsNotOlder
  BY KP!ListIsKeptInOrder
<1>2. KP!P!ListIsNotOlder => ListIsNotOlder
  BY DEF ListIsNotOlder, P!Writers, KP!P!Writers, P!Idle, KP!P!Idle, P!ListIsNotOlder, KP!P!ListIsNotOlder
<1> QED BY <1>1, <1>2, PairingIsThat, PTL DEF Spec, KP!P!Spec

\* A gateway pairs only with a home that verified its proof of the token it has, and
\* once until it is reset: PairedByConfirmation of Pairing.  (pairConn, pair.Gateway)
THEOREM PairedOnlyWhenConfirmed ==
  ASSUME {left, right} \cap {"edit", "start"} = {}
  PROVE  Spec => PairedByConfirmation
<1>1. KP!P!Spec => KP!P!PairedByConfirmation
  BY KP!PairedOnlyWhenConfirmed
<1>2. KP!P!PairedByConfirmation => PairedByConfirmation
  BY PTL DEF PairedByConfirmation, P!rowVars, P!listVars, P!vars, KP!P!rowVars, KP!P!listVars, KP!P!vars,
         P!PairedByConfirmation, KP!P!PairedByConfirmation
<1> QED BY <1>1, <1>2, PairingIsThat, PTL DEF Spec, KP!P!Spec

-----------------------------------------------------------------------------
(* Approvals of MCP calls                                                  *)

\* The steps of the approvals are those that are proved about.
LEMMA ApprovalsAreThat ==
  /\ Init => KP!A!Init
  /\ [Next]_vars => [KP!A!Next]_KP!A!vars
<1>1. Init => KP!A!Init
  BY SMTT(60) DEF Init, A!Approvals, KP!A!Approvals, A!NoCall, KP!A!NoCall, A!NoDecision, KP!A!NoDecision, A!Init,
         KP!A!Init
<1>2. KP!A!Next = A!Next
  BY DEF A!Approvals, KP!A!Approvals, A!Fault, KP!A!Fault, A!Pending, KP!A!Pending, A!Live, KP!A!Live,
         A!Unused, KP!A!Unused, A!Decided, KP!A!Decided, A!Expire, KP!A!Expire, A!TimePasses, KP!A!TimePasses,
         A!Calls, KP!A!Calls, A!NoCall, KP!A!NoCall, A!CallOver, KP!A!CallOver, A!Answers, KP!A!Answers,
         A!Begin, KP!A!Begin, A!RunWrite, KP!A!RunWrite, A!FindApproval, KP!A!FindApproval, A!FileApproval,
         KP!A!FileApproval, A!WaitApproval, KP!A!WaitApproval, A!GiveUp, KP!A!GiveUp, A!CallStep,
         KP!A!CallStep, A!NoDecision, KP!A!NoDecision, A!Decides, KP!A!Decides, A!DecisionOver,
         KP!A!DecisionOver, A!ReadApproval, KP!A!ReadApproval, A!Decide, KP!A!Decide, A!Executable,
         KP!A!Executable, A!Refused, KP!A!Refused, A!Replan, KP!A!Replan, A!Execute, KP!A!Execute,
         A!StoreOutcome, KP!A!StoreOutcome, A!DecideStep, KP!A!DecideStep, A!Crash, KP!A!Crash, A!Administer,
         KP!A!Administer, A!ClientStep, KP!A!ClientStep, A!Next, KP!A!Next
<1> QED BY SMTT(60), <1>1, <1>2 DEF Next, vars, approvalVars, KP!A!vars

\* An approval runs once at most and only when approved, and what a call is told is
\* so: AnswerIsTrue of Approvals.  (MCPDecideApproval, executeApproved)
THEOREM AnswersAreTrue == Spec => []AnswerIsTrue
<1>1. KP!A!Spec => []KP!A!AnswerIsTrue
  BY SMTT(60), KP!AnswersAreTrue
<1>2. KP!A!AnswerIsTrue => AnswerIsTrue
  BY DEF AnswerIsTrue, A!Approvals, KP!A!Approvals, A!AnswerIsTrue, KP!A!AnswerIsTrue
<1> QED BY <1>1, <1>2, ApprovalsAreThat, PTL DEF Spec, KP!A!Spec

-----------------------------------------------------------------------------
(* Certificates                                                            *)

\* The steps of the certificates are those that are proved about.
LEMMA CertificatesAreThat ==
  /\ Init => KP!C!Init
  /\ [Next]_vars => [KP!C!Next]_KP!C!vars
<1>1. Init => KP!C!Init
  BY SMTT(60) DEF Init, C!Gens, KP!C!Gens, C!NoRow, KP!C!NoRow, C!AtRest, KP!C!AtRest, C!Init, KP!C!Init
<1>2. KP!C!Next = C!Next
  BY DEF C!Gens, KP!C!Gens, C!NoRow, KP!C!NoRow, C!AtRest, KP!C!AtRest, C!Issued, KP!C!Issued, C!Launched,
         KP!C!Launched, C!Launch, KP!C!Launch, C!Finish, KP!C!Finish, C!Goes, KP!C!Goes, C!Fault, KP!C!Fault, C!Load,
         KP!C!Load, C!Obtain, KP!C!Obtain, C!Unobtained, KP!C!Unobtained, C!WriteKey, KP!C!WriteKey, C!WriteChain,
         KP!C!WriteChain, C!Unwritten, KP!C!Unwritten, C!Store, KP!C!Store, C!Fail, KP!C!Fail, C!End, KP!C!End, C!Panic,
         KP!C!Panic, C!List, KP!C!List, C!Sweep, KP!C!Sweep, C!Left, KP!C!Left, C!Check, KP!C!Check, C!Renewal,
         KP!C!Renewal, C!Call, KP!C!Call, C!Order, KP!C!Order, C!EditRead, KP!C!EditRead, C!EditSave, KP!C!EditSave,
         C!DeleteAsked, KP!C!DeleteAsked, C!Delete, KP!C!Delete, C!RemoveFiles, KP!C!RemoveFiles, C!RevokeAsked,
         KP!C!RevokeAsked, C!Revoked, KP!C!Revoked, C!Crash, KP!C!Crash, C!Ages, KP!C!Ages, C!Run, KP!C!Run,
         C!Scheduler, KP!C!Scheduler, C!Admin, KP!C!Admin, C!Next, KP!C!Next
<1> QED BY SMTT(60), <1>1, <1>2 DEF Next, vars, certVars, KP!C!vars

\* The files of a certificate are not behind its row: FilesAreNotBehind of
\* Certificates.  (runObtain, runRenewals)
THEOREM FilesAreKept == Spec => []FilesAreNotBehind
<1>1. KP!C!Spec => []KP!C!FilesAreNotBehind
  BY KP!FilesAreKept
<1>2. KP!C!FilesAreNotBehind => FilesAreNotBehind
  BY DEF FilesAreNotBehind, C!Issued, KP!C!Issued, C!FilesAreNotBehind, KP!C!FilesAreNotBehind
<1> QED BY <1>1, <1>2, CertificatesAreThat, PTL DEF Spec, KP!C!Spec

-----------------------------------------------------------------------------
(* Health checks and what they announce                                    *)

\* The steps of the health checks are those that are proved about.
LEMMA AlertsAreThat ==
  /\ Init => KP!N!Init
  /\ [Next]_vars => [KP!N!Next]_KP!N!vars
<1>1. Init => KP!N!Init
  BY DEF Init, H!NoCheck, KP!N!NoCheck, H!Init, KP!N!Init
<1>2. KP!N!Next = H!Next
  BY DEF H!healthVars, KP!N!healthVars, H!notifyVars, KP!N!notifyVars, H!Critical, KP!N!Critical,
         H!Everything, KP!N!Everything, H!NoCheck, KP!N!NoCheck, H!Put, KP!N!Put, H!Change, KP!N!Change,
         H!Save, KP!N!Save, H!Flip, KP!N!Flip, H!Applied, KP!N!Applied, H!Watch, KP!N!Watch, H!Idle,
         KP!N!Idle, H!Begun, KP!N!Begun, H!Known, KP!N!Known, H!StartSweep, KP!N!StartSweep, H!Sweep,
         KP!N!Sweep, H!KickAll, KP!N!KickAll, H!Forgotten, KP!N!Forgotten, H!KickOne, KP!N!KickOne,
         H!Unseen, KP!N!Unseen, H!Checked, KP!N!Checked, H!Remove, KP!N!Remove, H!Steps, KP!N!Steps,
         H!Probe, KP!N!Probe, H!Confirm, KP!N!Confirm, H!Record, KP!N!Record, H!SaveRow, KP!N!SaveRow,
         H!Word, KP!N!Word, H!Tell, KP!N!Tell, H!Announce, KP!N!Announce, H!Route, KP!N!Route, H!Forget,
         KP!N!Forget, H!Flush, KP!N!Flush, H!Morning, KP!N!Morning, H!Take, KP!N!Take, H!Deliver,
         KP!N!Deliver, H!Crash, KP!N!Crash, H!Loop, KP!N!Loop, H!Notify, KP!N!Notify, H!Next, KP!N!Next
<1> QED BY SMTT(60), <1>1, <1>2 DEF Next, vars, alertVars, KP!N!vars

\* A target that is recorded as down was announced as such, and of one recorded as
\* healthy the last word is not that it is down: AlertsAreTrue of Alerts.  (record,
\* transition)
THEOREM AlertsStayTrue ==
  ASSUME None \notin {"healthy", "down", "disabled", "recovered"}
  PROVE  Spec => []AlertsAreTrue
<1>1. KP!N!Spec => []KP!N!AlertsAreTrue
  <2>1. None \notin KP!N!Statuses \cup {"recovered"}
    BY DEF KP!N!Statuses
  <2> QED BY <2>1, KP!AlertsStayTrue
<1>2. KP!N!AlertsAreTrue => AlertsAreTrue
  BY DEF AlertsAreTrue, H!AlertsAreTrue, KP!N!AlertsAreTrue
<1> QED BY <1>1, <1>2, AlertsAreThat, PTL DEF Spec, KP!N!Spec

-----------------------------------------------------------------------------
(* The listeners of Relay Balancer                                         *)

\* The steps of the listeners are those that are proved about.
LEMMA ListenersAreThat ==
  /\ Init => KP!L!Init
  /\ [Next]_vars => [KP!L!Next]_KP!L!vars
<1>1. Init => KP!L!Init
  BY DEF Init, N!Placed, KP!L!Placed, N!Opened, KP!L!Opened, N!Unbound, KP!L!Unbound, N!Closed, KP!L!Closed,
         N!Init, KP!L!Init
<1>2. KP!L!Next = N!Next
  BY DEF N!Cardinality, KP!L!Cardinality,
         N!Draining, KP!L!Draining, N!HoldsSlot, KP!L!HoldsSlot, N!Held, KP!L!Held, N!Counted, KP!L!Counted,
         N!Taken, KP!L!Taken, N!Closed, KP!L!Closed, N!ClosedBy, KP!L!ClosedBy, N!Released, KP!L!Released,
         N!Acquire, KP!L!Acquire, N!GiveUp, KP!L!GiveUp, N!Accept, KP!L!Accept, N!AcceptFails,
         KP!L!AcceptFails, N!Refuse, KP!L!Refuse, N!Hand, KP!L!Hand, N!StateNew, KP!L!StateNew, N!Gone,
         KP!L!Gone, N!StateHijacked, KP!L!StateHijacked, N!End, KP!L!End, N!StateClosed, KP!L!StateClosed,
         N!EndSession, KP!L!EndSession, N!CloseServer, KP!L!CloseServer, N!Opened, KP!L!Opened, N!Emptied,
         KP!L!Emptied, N!Updated, KP!L!Updated, N!Closing, KP!L!Closing, N!Served, KP!L!Served, N!Bound,
         KP!L!Bound, N!Placed, KP!L!Placed, N!Reload, KP!L!Reload, N!Stop, KP!L!Stop, N!CloseSocket,
         KP!L!CloseSocket, N!ShutServers, KP!L!ShutServers, N!Deadline, KP!L!Deadline, N!Stopping,
         KP!L!Stopping, N!ServersShut, KP!L!ServersShut, N!Drained, KP!L!Drained, N!Drain, KP!L!Drain,
         N!Next, KP!L!Next
<1> QED BY SMTT(60), <1>1, <1>2 DEF Next, vars, listenerVars, KP!L!vars

\* There are finitely many listeners and connections, and what may be configured is
\* what the proofs take it for.
LEMMA BindsAreFinite == KP!Finite /\ KP!Limits
<1>1. IsFiniteSet({one, two}) /\ IsFiniteSet({left, right})
  <2>1. IsFiniteSet({one}) /\ IsFiniteSet({left})
    BY FS_Singleton
  <2>2. IsFiniteSet({one} \cup {two}) /\ IsFiniteSet({left} \cup {right})
    BY SMTT(60), <2>1, FS_AddElement
  <2>3. {one, two} = {one} \cup {two} /\ {left, right} = {left} \cup {right}
    OBVIOUS
  <2> QED BY SMTT(60), <2>2, <2>3
<1>2. \A b \in Binds : b.keys \subseteq KP!L!Key /\ b.timeout \in {1, 2} /\ b.max \in 1..2
  BY DEF Binds, KP!L!Key
<1> QED BY <1>1, <1>2 DEF KP!Finite, KP!IsFiniteSet, IsFiniteSet, KP!Limits

\* The limit of Relay Balancer counts the connections there are, a listener that has
\* shut down has none, and a reload cuts only those no server had counted:
\* ConnectionsAreKept of Listeners.  (acceptLoop, dropRetired, shutdown, apply)
THEOREM ConnectionsStay == Spec => []ConnectionsAreKept
<1>1. KP!L!Spec => []KP!L!ConnectionsAreKept
  BY SMTT(60), BindsAreFinite, KP!ConnectionsStay
<1>2. KP!L!ConnectionsAreKept => ConnectionsAreKept
  <2>1. \A S1 : N!Cardinality(S1) = KP!L!Cardinality(S1)
    BY DEF N!Cardinality, KP!L!Cardinality
  <2>2. KP!L!SlotsAreReal => N!SlotsAreReal
    BY <2>1 DEF N!SlotsAreReal, KP!L!SlotsAreReal, N!HoldsSlot, KP!L!HoldsSlot
  <2>3. KP!L!GoneIsEmpty => N!GoneIsEmpty
    BY DEF N!GoneIsEmpty, KP!L!GoneIsEmpty, N!Held, KP!L!Held, N!HoldsSlot, KP!L!HoldsSlot
  <2>4. KP!L!OnlyLateIsCut => N!OnlyLateIsCut
    BY DEF N!OnlyLateIsCut, KP!L!OnlyLateIsCut
  <2> QED BY <2>2, <2>3, <2>4 DEF ConnectionsAreKept, N!ConnectionsAreKept, KP!L!ConnectionsAreKept
<1> QED BY <1>1, <1>2, ListenersAreThat, PTL DEF Spec, KP!L!Spec

-----------------------------------------------------------------------------
(* The servers of Relay Balancer                                           *)

\* The steps of the servers are those that are proved about.
LEMMA ServersAreThat ==
  /\ Init => KP!B!Init
  /\ [Next]_vars => [KP!B!Next]_KP!B!vars
<1>1. Init => KP!B!Init
  BY ZenonT(60) DEF Init, B!Usable, KP!B!Usable, B!Init, KP!B!Init
<1>2. KP!B!Next = B!Next
  BY DEF B!Gens, KP!B!Gens, B!Admins, KP!B!Admins, B!Usable, KP!B!Usable, B!Best, KP!B!Best, B!Smaller,
         KP!B!Smaller, B!Larger, KP!B!Larger, B!Clamped, KP!B!Clamped, B!Reconfigured, KP!B!Reconfigured,
         B!Checked, KP!B!Checked, B!Administered, KP!B!Administered, B!Forced, KP!B!Forced, B!Free, KP!B!Free,
         B!WillTell, KP!B!WillTell, B!TableStale, KP!B!TableStale, B!Count, KP!B!Count, B!SetStatus,
         KP!B!SetStatus, B!Pick, KP!B!Pick, B!Tabulate, KP!B!Tabulate, B!Check, KP!B!Check, B!Counts,
         KP!B!Counts, B!Result, KP!B!Result, B!Command, KP!B!Command, B!SetAdmin, KP!B!SetAdmin, B!SetWeight,
         KP!B!SetWeight, B!ForceHealth, KP!B!ForceHealth, B!Reload, KP!B!Reload, B!Reconfigure,
         KP!B!Reconfigure, B!Loaded, KP!B!Loaded, B!Act, KP!B!Act, B!Next, KP!B!Next
<1> QED BY SMTT(60), <1>1, <1>2 DEF Next, vars, balancerVars, KP!B!vars

\* The configurations are of servers as they are defined.
LEMMA BackendsDefined ==
  ASSUME None \notin {left, right}
  PROVE  KP!Defined
<1>1. Plain \in KP!B!Def /\ [Plain EXCEPT !.check = TRUE, !.rise = 2, !.fall = 2] \in KP!B!Def
      /\ [Plain EXCEPT !.weight = 0] \in KP!B!Def /\ [Plain EXCEPT !.check = TRUE, !.passes = FALSE] \in KP!B!Def
      /\ [Plain EXCEPT !.admin = "maint", !.check = TRUE] \in KP!B!Def
  BY DEF Plain, KP!B!Def, KP!B!Admins
<1>2. Backends \subseteq [{one, two} -> KP!B!Def]
  BY <1>1 DEF Backends
<1> QED BY <1>2 DEF KP!Defined

\* The health of a checked server decides whether it runs, its backend's table and
\* status are current once all have told, and no check takes down a server that its
\* definition's checks find well: ChecksAreCurrent of Balancer.  (checkResult,
\* applyConfig, forceHealth, changed)
THEOREM ChecksStayCurrent ==
  ASSUME None \notin {left, right}
  PROVE  Spec => ChecksAreCurrent
<1>1. KP!B!Spec => KP!B!ChecksAreCurrent
  BY BackendsDefined, KP!ChecksStayCurrent
<1>2. KP!B!HealthDecides => B!HealthDecides
  BY DEF KP!B!HealthDecides, B!HealthDecides, KP!B!Best, B!Best
<1>3. KP!B!TableIsCurrent /\ KP!B!StatusIsCurrent => B!TableIsCurrent /\ B!StatusIsCurrent
  BY DEF KP!B!TableIsCurrent, B!TableIsCurrent, KP!B!StatusIsCurrent, B!StatusIsCurrent, KP!B!Usable, B!Usable
<1>4. KP!B!ChecksAreCurrent => ChecksAreCurrent
  BY <1>2, <1>3, PTL DEF ChecksAreCurrent, KP!B!ChecksAreCurrent, B!ChecksAreCurrent, KP!B!vars, B!vars
<1> QED BY <1>1, <1>4, ServersAreThat, PTL DEF Spec, KP!B!Spec

-----------------------------------------------------------------------------
(* Hosts for containers                                                    *)

\* The steps of the discovery are those that are proved about.
LEMMA DiscoveryIsThat ==
  /\ Init => KP!D!Init
  /\ [Next]_vars => [KP!D!Next]_KP!D!vars
<1>1. /\ KP!D!Ids = D!Ids /\ KP!D!Nobody = D!Nobody /\ KP!D!Domains = D!Domains /\ KP!D!Container = D!Container
      /\ KP!D!Unused = D!Unused /\ KP!D!Absent = D!Absent /\ KP!D!Deleted = D!Deleted
  BY DEF D!Ids, KP!D!Ids, D!Nobody, KP!D!Nobody, D!Domains, KP!D!Domains, D!Container, KP!D!Container,
         D!Unused, KP!D!Unused, D!Absent, KP!D!Absent, D!Deleted, KP!D!Deleted
<1>2. Init => KP!D!Init
  <2>1. Init => D!Init
    BY DEF Init
  <2>2. D!Init => KP!D!Init
    BY <1>1, ZenonT(60) DEF D!Init, KP!D!Init
  <2> QED BY <2>1, <2>2
\* What is made of a container, by what it is made with.
<1>3. /\ \A h, i : KP!D!Served(h, i) = D!Served(h, i)
      /\ \A e, n : KP!D!Waits(e, n) = D!Waits(e, n)
      /\ \A h : KP!D!New(h) = D!New(h)
      /\ \A h, d, x : KP!D!Owned(h, d, x) = D!Owned(h, d, x)
      /\ \A st, n, c : KP!D!Linked(st, n, c) = D!Linked(st, n, c)
      /\ \A st, n, c : KP!D!Created(st, n, c) = D!Created(st, n, c)
      /\ \A st, n, c, i : KP!D!Ensured(st, n, c, i) = D!Ensured(st, n, c, i)
      /\ \A st, n, c : KP!D!Ensures(st, n, c) = D!Ensures(st, n, c)
      /\ \A st, n, c : KP!D!Synced(st, n, c) = D!Synced(st, n, c)
  BY <1>1 DEF D!Unused, KP!D!Unused, D!Deleted, KP!D!Deleted, D!Ids, KP!D!Ids,
         D!Served, KP!D!Served, D!Waits, KP!D!Waits, D!New, KP!D!New, D!Owned, KP!D!Owned, D!Linked, KP!D!Linked,
         D!Created, KP!D!Created, D!Ensured, KP!D!Ensured, D!Ensures, KP!D!Ensures, D!Synced, KP!D!Synced
<1>4. KP!D!Docker = D!Docker
  BY DEF D!Absent, KP!D!Absent, D!Runs, KP!D!Runs, D!There, KP!D!There, D!Heard, KP!D!Heard, D!Moved, KP!D!Moved,
         D!Start, KP!D!Start, D!Die, KP!D!Die, D!Destroy, KP!D!Destroy, D!Rename, KP!D!Rename, D!Docker, KP!D!Docker
<1>5. \A n : KP!D!Ensure(n) = D!Ensure(n)
  BY <1>1, <1>3 DEF D!Ensure, KP!D!Ensure
<1>6. KP!D!Session = D!Session
  BY <1>5 DEF D!Absent, KP!D!Absent, D!Ids, KP!D!Ids, D!Runs, KP!D!Runs, D!There, KP!D!There, D!Nobody, KP!D!Nobody,
         D!Connect, KP!D!Connect, D!Refresh, KP!D!Refresh, D!Reconcile, KP!D!Reconcile, D!Erred, KP!D!Erred,
         D!LookedFor, KP!D!LookedFor, D!Orphan, KP!D!Orphan,
         D!Reconciled, KP!D!Reconciled, D!Processed, KP!D!Processed, D!Resync, KP!D!Resync, D!Session, KP!D!Session
<1>7. KP!D!Timely = D!Timely
  BY DEF D!Absent, KP!D!Absent, D!Ids, KP!D!Ids, D!There, KP!D!There, D!Deleted, KP!D!Deleted, D!Removal, KP!D!Removal,
         D!Renamed, KP!D!Renamed, D!Handle, KP!D!Handle, D!GraceEnds, KP!D!GraceEnds, D!Timely, KP!D!Timely
<1>8. KP!D!Admin = D!Admin
  <2>1. \A n : KP!D!CreateHost(n) = D!CreateHost(n)
    BY <1>1, <1>3 DEF D!Absent, KP!D!Absent, D!Runs, KP!D!Runs, D!There, KP!D!There, D!Moved, KP!D!Moved,
           D!CreateHost, KP!D!CreateHost
  <2>2. \A i : KP!D!DeleteHost(i) = D!DeleteHost(i)
    BY <1>1, <1>3 DEF D!Moved, KP!D!Moved, D!DeleteHost, KP!D!DeleteHost
  <2>3. \A i : KP!D!Edit(i) = D!Edit(i)
    BY <1>3 DEF D!Moved, KP!D!Moved, D!Edit, KP!D!Edit
  <2>4. KP!D!Save = D!Save
    BY <1>3 DEF D!Save, KP!D!Save
  <2> QED BY <1>1, <2>1, <2>2, <2>3, <2>4 DEF D!Admin, KP!D!Admin
<1>9. KP!D!Lose = D!Lose /\ KP!D!Crash = D!Crash
  BY DEF D!Absent, KP!D!Absent, D!Nobody, KP!D!Nobody, D!Moved, KP!D!Moved, D!Lose, KP!D!Lose, D!Crash, KP!D!Crash
<1>10. KP!D!Errors = D!Errors
  BY DEF D!Erred, KP!D!Erred, D!RefreshFails, KP!D!RefreshFails, D!RemovalFails, KP!D!RemovalFails, D!Errors, KP!D!Errors
<1>11. KP!D!Next = D!Next
  BY <1>4, <1>6, <1>7, <1>8, <1>9, <1>10 DEF D!Next, KP!D!Next
<1> QED BY SMTT(60), <1>2, <1>11 DEF Next, vars, dockerVars, KP!D!vars

-----------------------------------------------------------------------------
(* The types of all parts                                                  *)

\* Versions, releases and the calls between Relay and its agents
LEMMA ReleasesTyped ==
  ASSUME left \notin {one, two, three}, None \notin {one, two, three, left}
  PROVE  Spec => [](L!TypeOK /\ G!TypeOK)
<1>1. PP!Spec => []PP!TypeOK
  BY PipelineAssumed, PP!TypeCorrect
<1>2. AP!Spec => []AP!TypeOK
  <2>1. AP!ReleaseAssumption /\ AP!AgentAssumption
    BY DEF AP!ReleaseAssumption, AP!AgentAssumption
  <2> QED BY <2>1, AP!TypeCorrect
<1>3. PP!TypeOK => L!TypeOK
  <2>1. PP!Engine = L!Engine /\ PP!Release = L!Release /\ PP!Snapshot = L!Snapshot
    BY DEF PP!Proxies, L!Proxies, PP!Balancers, L!Balancers, PP!Engine, L!Engine, PP!Release, L!Release,
           PP!Snapshot, L!Snapshot
  <2>2. PP!AgentState = L!AgentState /\ PP!Statuses = L!Statuses /\ PP!Status = L!Status /\ PP!Calls = L!Calls
    BY <2>1 DEF PP!Store, L!Store, PP!AgentState, L!AgentState, PP!Statuses, L!Statuses, PP!Status, L!Status,
           PP!Calls, L!Calls
  <2>3. PP!Row = L!Row /\ PP!Job = L!Job /\ PP!Rec = L!Rec
    BY <2>1, <2>2 DEF PP!Row, L!Row, PP!Marks, L!Marks, PP!JobSteps, L!JobSteps, PP!Job, L!Job, PP!Rec, L!Rec
  <2> QED BY <2>1, <2>2, <2>3 DEF PP!TypeOK, L!TypeOK
<1>4. AP!TypeOK => G!TypeOK
  <2>1. AP!Release = G!Release /\ AP!Store = G!Store
    BY DEF AP!Release, G!Release, AP!Store, G!Store
  <2>2. AP!Op = G!Op /\ AP!Answer = G!Answer
    BY <2>1 DEF AP!Requests, G!Requests, AP!Steps, G!Steps, AP!Phases, G!Phases, AP!Op, G!Op, AP!Answer, G!Answer
  <2> QED BY <2>1, <2>2 DEF AP!TypeOK, G!TypeOK
<1> QED BY <1>1, <1>2, <1>3, <1>4, PipelineIsThat, AgentIsThat, PTL DEF Spec, PP!Spec, AP!Spec

\* Upgrades of engine containers, and the update of Relay
LEMMA UpdatesTyped ==
  ASSUME None \notin 0..3, Depth \in Nat
  PROVE  Spec => [](U!TypeOK /\ S!TypeOK)
<1>1. UP!Spec => []UP!TypeOK
  <2>1. UP!Orderly
    BY DEF UP!Orderly, UP!Boxes
  <2> QED BY SMTT(60), <2>1, UP!TypeCorrect
<1>2. KP!S!Spec => []KP!S!TypeOK
  BY KP!UpdateTyped
<1>3. UP!TypeOK => U!TypeOK
  BY DEF UP!Boxes, U!Boxes, UP!Statuses, U!Statuses, UP!Steps, U!Steps, UP!Box, U!Box, UP!Job, U!Job,
         UP!Recovery, U!Recovery, UP!TypeOK, U!TypeOK
<1>4. KP!S!TypeOK => S!TypeOK
  BY DEF KP!S!Updates, S!Updates, KP!S!TypeOK, S!TypeOK
<1> QED BY <1>1, <1>2, <1>3, <1>4, UpgradeIsThat, UpdateIsThat, PTL DEF Spec, UP!Spec, KP!S!Spec

\* Gateways and approvals
LEMMA AccessTyped ==
  ASSUME {left, right} \cap {"edit", "start"} = {}
  PROVE  Spec => [](P!TypeOK /\ A!TypeOK)
<1>1. KP!P!Spec => []KP!P!TypeOK
  BY KP!PairingTyped
<1>2. KP!A!Spec => []KP!A!TypeOK
  BY KP!ApprovalsTyped
<1>3. KP!P!TypeOK => P!TypeOK
  BY DEF KP!P!Tokens, P!Tokens, KP!P!Writers, P!Writers, KP!P!Row, P!Row, KP!P!Entry, P!Entry, KP!P!Attempt, P!Attempt, KP!P!TypeOK, P!TypeOK
<1>4. KP!A!TypeOK => A!TypeOK
  BY DEF KP!A!Approvals, A!Approvals, KP!A!Outputs, A!Outputs, KP!A!Row, A!Row, KP!A!Call, A!Call,
         KP!A!Decision, A!Decision, KP!A!TypeOK, A!TypeOK
<1> QED BY <1>1, <1>2, <1>3, <1>4, PairingIsThat, ApprovalsAreThat, PTL DEF Spec, KP!P!Spec, KP!A!Spec

\* Relay Balancer
LEMMA BalancerTyped ==
  ASSUME None \notin {left, right}
  PROVE  Spec => [](B!TypeOK /\ N!TypeOK)
<1>1. KP!B!Spec => []KP!B!TypeOK
  BY BackendsDefined, KP!BalancerTyped
<1>2. KP!L!Spec => []KP!L!TypeOK
  BY SMTT(60), BindsAreFinite, KP!ListenersTyped
<1>3. KP!B!TypeOK => B!TypeOK
  BY DEF KP!B!Def, B!Def, KP!B!Admins, B!Admins, KP!B!Gens, B!Gens, KP!B!TypeOK, B!TypeOK
<1>4. KP!L!TypeOK => N!TypeOK
  BY DEF KP!L!Key, N!Key, KP!L!Draining, N!Draining, KP!L!TypeOK, N!TypeOK
<1> QED BY <1>1, <1>2, <1>3, <1>4, ServersAreThat, ListenersAreThat, PTL DEF Spec, KP!B!Spec, KP!L!Spec

\* Certificates, containers, and health checks with what they announce
LEMMA WorldTyped ==
  ASSUME Depth \in Nat, None \notin {"healthy", "down", "disabled", "recovered"}
  PROVE  Spec => [](C!TypeOK /\ D!TypeOK /\ H!TypeOK)
<1>1. KP!C!Spec => []KP!C!TypeOK
  BY KP!CertificateTyped
<1>2. KP!D!Spec => []KP!D!TypeOK
  BY KP!DiscoveryTyped
<1>3. KP!N!Spec => []KP!N!TypeOK
  <2>1. None \notin KP!N!Statuses \cup {"recovered"}
    BY DEF KP!N!Statuses
  <2> QED BY <2>1, KP!AlertsTyped
<1>4. KP!C!TypeOK => C!TypeOK
  BY DEF KP!C!Gens, C!Gens, KP!C!Row, C!Row, KP!C!TypeOK, C!TypeOK
<1>5. KP!D!TypeOK => D!TypeOK
  <2>1. KP!D!Ids = D!Ids /\ KP!D!Domains = D!Domains /\ KP!D!Unused = D!Unused /\ KP!D!Deleted = D!Deleted
        /\ KP!D!Absent = D!Absent
    BY DEF KP!D!Ids, D!Ids, KP!D!Domains, D!Domains, KP!D!Unused, D!Unused, KP!D!Deleted, D!Deleted,
           KP!D!Absent, D!Absent
  <2>2. KP!D!Container = D!Container /\ KP!D!Host = D!Host /\ KP!D!Entry = D!Entry
    BY <2>1 DEF KP!D!Container, D!Container, KP!D!Host, D!Host, KP!D!Entry, D!Entry
  <2>3. KP!D!Record = D!Record
    BY <2>1, <2>2 DEF KP!D!Record, D!Record
  <2> QED BY <2>1, <2>2, <2>3 DEF KP!D!TypeOK, D!TypeOK
<1>6. KP!N!TypeOK => H!TypeOK
  BY DEF KP!N!Statuses, H!Statuses, KP!N!Notices, H!Notices, KP!N!Everything, H!Everything, KP!N!NoCheck, H!NoCheck,
         KP!N!Queues, H!Queues, KP!N!TypeOK, H!TypeOK
<1> QED BY <1>1, <1>2, <1>3, <1>4, <1>5, <1>6, CertificatesAreThat, DiscoveryIsThat, AlertsAreThat, PTL
    DEF Spec, KP!C!Spec, KP!D!Spec, KP!N!Spec

\* The parts there are
AllParts == {"pipeline", "agent", "upgrade", "update", "pairing", "approvals", "balancer", "listeners",
             "certificates", "docker", "alerts"}

\* In every reachable state of the composition the part that moves is as its types
\* say: TypeOK of MCServices, of all eleven parts and whatever their other bounds
\* here.  (config_versions, releases.go, upgrade.go, sync.go and the other services'
\* state)
THEOREM TypesHold ==
  ASSUME Parts \subseteq AllParts, Depth \in Nat,
         left \notin {one, two, three}, None \notin {one, two, three, left, right},
         None \notin 0..3, None \notin {"healthy", "down", "disabled", "recovered"},
         {left, right} \cap {"edit", "start"} = {}
  PROVE  Spec => []TypeOK
<1>1. Spec => [](focus \in Parts)
  <2>1. Init => focus \in Parts
    BY DEF Init
  <2>2. focus \in Parts /\ [Next]_vars => (focus \in Parts)'
    BY DEF Next, vars
  <2> QED BY <2>1, <2>2, PTL DEF Spec
<1>2. /\ focus \in Parts
      /\ L!TypeOK /\ G!TypeOK /\ U!TypeOK /\ S!TypeOK /\ P!TypeOK /\ A!TypeOK /\ B!TypeOK /\ N!TypeOK
      /\ C!TypeOK /\ D!TypeOK /\ H!TypeOK
      => TypeOK
  BY DEF AllParts, TypeOK
<1>3. None \notin {one, two, three, left} /\ None \notin {left, right}
  OBVIOUS
<1>4. Spec => [](L!TypeOK /\ G!TypeOK)
  BY <1>3, ReleasesTyped
<1>5. Spec => [](U!TypeOK /\ S!TypeOK)
  BY UpdatesTyped
<1>6. Spec => [](B!TypeOK /\ N!TypeOK)
  BY <1>3, BalancerTyped
<1>7. Spec => [](C!TypeOK /\ D!TypeOK /\ H!TypeOK)
  BY WorldTyped
<1> QED BY <1>1, <1>2, <1>4, <1>5, <1>6, <1>7, AccessTyped, PTL

=============================================================================
