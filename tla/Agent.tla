------------------------------- MODULE Agent -------------------------------
(***************************************************************************)
(* One engine agent (`relay agent --engine X`, PID 1 of the engine         *)
(* container): src/internal/agent/server.go over releases.go, with the     *)
(* process supervisor of supervisor.go.                                    *)
(*                                                                         *)
(* A request (apply, rollback, start, stop, reload) holds supervisor.op    *)
(* from its first step to its answer, but every file operation and every   *)
(* wait on the engine process is a step of its own: between two of them    *)
(* the engine may die, the restart timer may fire and the agent itself may *)
(* be killed.  The store survives a kill, nothing else does.               *)
(*                                                                         *)
(* The engine process is the release it has loaded.  Whether a release     *)
(* validates, loads, starts and stays up is the environment's choice.      *)
(***************************************************************************)
EXTENDS Releases

CONSTANTS
    AlwaysOn,     \* nginx, edge: engine.alwaysOn(), proxy() and bootstrap() # nil;
                  \* haproxy, balancer, tunnel: none of the three
    IOErrors,     \* TRUE: a file operation of an apply or a rollback may fail
    ExecFails,    \* TRUE: starting the engine process may fail
    OldRejected,  \* TRUE: a release that was loaded before may be rejected later
    Kills,        \* TRUE: the agent may be killed at any step
    Selected      \* what /run/relay/proxy-engine says of a fresh config root

ASSUME AgentAssumption ==
    {AlwaysOn, IOErrors, ExecFails, OldRejected, Kills, Selected} \subseteq BOOLEAN

VARIABLES
    store,        \* the release store on disk
    proc,         \* supervisor.proc: the release the engine runs, None when down
    want,         \* supervisor.want
    timer,        \* supervisor.timer is armed
    op,           \* the request that holds supervisor.op
    answer        \* the last answer given (None while the agent restarts)

vars == <<store, proc, want, timer, op, answer>>

Requests == {"apply", "applyStop", "stopOnly", "rollback", "start", "stop", "reload"}

Steps == {"idle", "boot", "bootSwap", "bootMark", "bootStart",
          "write", "validate", "swap", "record", "mark", "prune", "trim",
          "load", "spawn", "settle", "unswap", "unrecord", "resume",
          "halt", "halted", "rewind", "rerecord", "unmark"}

\* Who asked for the load or the start that is in progress: the apply of a new
\* release, the revert of a failed one, a rollback, or /v1/start and /v1/reload.
Phases == {"new", "revert", "rollback", "manual"}

Op == [ req    : Requests \cup {"none", "boot"},
        pc     : Steps,
        hash   : Release \cup {None},   \* the release asked for
        before : Store,                 \* the store when the lock was taken
        wanted : BOOLEAN,               \* wasWanted
        died   : BOOLEAN,               \* the apply failed in startAndWait, not in reload
        phase  : Phases ]

Answer == [ req : Requests, ok : BOOLEAN, hash : Release \cup {None},
            prev : Release \cup {None} ]

TypeOK ==
    /\ store \in Store
    /\ proc \in Release \cup {None}
    /\ want \in BOOLEAN
    /\ timer \in BOOLEAN
    /\ op \in Op
    /\ answer \in Answer \cup {None}

Running == proc # None
Idle    == op.pc = "idle"
Prev    == op.before.current
Created == op.hash \notin op.before.dirs

Begin(req, h, pc, phase) ==
    op' = [ req |-> req, pc |-> pc, hash |-> h, before |-> store,
            wanted |-> want, died |-> FALSE, phase |-> phase ]

Goto(pc) == op' = [op EXCEPT !.pc = pc]

IdleOp == [ req |-> "none", pc |-> "idle", hash |-> None, before |-> EmptyStore,
            wanted |-> FALSE, died |-> FALSE, phase |-> "manual" ]

\* The handler returns and its deferred Unlock releases supervisor.op.
Finish(ok) ==
    /\ op' = IdleOp
    /\ answer' = [req |-> op.req, ok |-> ok, hash |-> op.hash, prev |-> Prev]

\* A handler that answers without leaving its first step.
Reply(req, ok, h) ==
    answer' = [req |-> req, ok |-> ok, hash |-> h, prev |-> store.current]

\* supervisor.stop up to the stop signal: nothing restarts the engine from here
Unwant == want' = FALSE /\ timer' = FALSE

-----------------------------------------------------------------------------
(* POST /v1/apply *)

\* The engine refuses the file set before anything is written (checkFiles).
ApplyUnusable(h) ==
    /\ Idle
    /\ Reply("apply", FALSE, h)
    /\ UNCHANGED <<store, proc, want, timer, op>>

\* "configuration already active"
ApplyActive(h) ==
    /\ Idle
    /\ h = store.current /\ Running
    /\ Reply("apply", TRUE, h)
    /\ UNCHANGED <<store, proc, want, timer, op>>

ApplyBegin(h) ==
    /\ Idle
    /\ ~(h = store.current /\ Running)
    /\ Begin("apply", h, "write", "new")
    /\ UNCHANGED <<store, proc, want, timer, answer>>

\* Stop with a file set: the release is activated unchecked and kept stopped.
ApplyStopBegin(h) ==
    /\ Idle
    /\ Begin("applyStop", h, "write", "new")
    /\ UNCHANGED <<store, proc, want, timer, answer>>

\* Stop without a file set: the marker first, then the process.
StopOnlyBegin ==
    /\ Idle
    /\ Begin("stopOnly", None, "halt", "new")
    /\ store' = Marked(store, TRUE)
    /\ Unwant
    /\ UNCHANGED <<proc, answer>>

Write ==
    /\ op.pc = "write"
    /\ store' = Written(store, op.hash)
    /\ Goto(IF op.req = "applyStop" THEN "swap" ELSE "validate")
    /\ UNCHANGED <<proc, want, timer, answer>>

Validate(ok) ==
    /\ op.pc = "validate"
    /\ IF ok
       THEN Goto("swap") /\ UNCHANGED <<store, answer>>
       ELSE /\ store' = IF Created THEN Removed(store, op.hash) ELSE store
            /\ Finish(FALSE)
    /\ UNCHANGED <<proc, want, timer>>

Swap ==
    /\ op.pc = "swap"
    /\ store' = Swapped(store, op.hash)
    /\ Goto("record")
    /\ UNCHANGED <<proc, want, timer, answer>>

Record ==
    /\ op.pc = "record"
    /\ store' = Recorded(store, op.hash)
    /\ Goto("mark")
    /\ UNCHANGED <<proc, want, timer, answer>>

\* The stopped marker is written, and what happens to the process is decided.
Mark ==
    /\ op.pc = "mark"
    /\ store' = Marked(store, op.req = "applyStop")
    /\ IF op.req = "applyStop"
       THEN Goto("halt") /\ Unwant
       ELSE /\ op' = [op EXCEPT !.wanted = want, !.pc = IF Running THEN "load" ELSE "spawn"]
            /\ UNCHANGED <<want, timer>>
    /\ UNCHANGED <<proc, answer>>

\* A write, a symlink swap or a history save fails: the apply is refused where
\* it stands, nothing is undone.
ApplyFault ==
    /\ IOErrors
    /\ op.pc \in {"write", "swap", "record"}
    /\ Finish(FALSE)
    /\ UNCHANGED <<store, proc, want, timer>>

Prune ==
    /\ op.pc = "prune"
    /\ store' = Pruned(store)
    /\ Goto("trim")
    /\ UNCHANGED <<proc, want, timer, answer>>

Trim ==
    /\ op.pc = "trim"
    /\ store' = Trimmed(store)
    /\ Finish(TRUE)
    /\ UNCHANGED <<proc, want, timer>>

-----------------------------------------------------------------------------
(* engine.reload and startAndWait, and what each caller does with the result *)

LoadWorked ==
    IF op.phase = "new" THEN Goto("prune") /\ UNCHANGED answer
    ELSE Finish(op.phase # "revert")

\* p says whether a process is left.
LoadFailed(p) ==
    CASE op.phase = "new" -> Goto("unswap") /\ UNCHANGED answer
      [] op.phase = "rollback" /\ ~p -> Goto("spawn") /\ UNCHANGED answer
      [] OTHER -> Finish(FALSE)

\* The engine serves the current release and says so.
LoadAccepted ==
    /\ op.pc = "load" /\ Running
    /\ proc' = store.current
    /\ LoadWorked
    /\ UNCHANGED <<store, want, timer>>

MayReject == op.phase = "new" \/ OldRejected

\* The engine keeps what it serves ("rejected the new configuration").
LoadRejected ==
    /\ op.pc = "load" /\ Running /\ MayReject
    /\ LoadFailed(TRUE)
    /\ UNCHANGED <<store, proc, want, timer>>

\* The wait ends before the engine has loaded the release, and then it does.
LoadLate ==
    /\ op.pc = "load" /\ Running /\ MayReject
    /\ proc' = store.current
    /\ LoadFailed(TRUE)
    /\ UNCHANGED <<store, want, timer>>

\* The process died before or while it reloaded.
LoadGone ==
    /\ op.pc = "load" /\ ~Running
    /\ LoadFailed(FALSE)
    /\ UNCHANGED <<store, proc, want, timer>>

StartFailed ==
    IF op.phase = "new"
    THEN op' = [op EXCEPT !.pc = "unswap", !.died = TRUE] /\ UNCHANGED answer
    ELSE Finish(FALSE)

\* supervisor.start, then the wait in stable()
Spawn ==
    /\ op.pc = "spawn"
    /\ want' = TRUE
    /\ IF Running THEN UNCHANGED <<proc, timer>>
       ELSE proc' = store.current /\ timer' = FALSE
    /\ Goto("settle")
    /\ UNCHANGED <<store, answer>>

\* The process cannot be started; startAndWait stops the supervisor.
SpawnError ==
    /\ ExecFails
    /\ op.pc = "spawn" /\ ~Running
    /\ Unwant
    /\ StartFailed
    /\ UNCHANGED <<store, proc>>

\* It stayed up for stableWait, or it did not and the supervisor is stopped.
Settle ==
    /\ op.pc = "settle"
    /\ IF Running
       THEN LoadWorked /\ UNCHANGED <<want, timer>>
       ELSE Unwant /\ StartFailed
    /\ UNCHANGED <<store, proc>>

-----------------------------------------------------------------------------
(* revert(hash, prev) and what apply does after it *)

Unswap ==
    /\ op.pc = "unswap"
    /\ store' = Swapped(store, Prev)
    /\ Goto("unrecord")
    /\ UNCHANGED <<proc, want, timer, answer>>

\* As Unrecord, with revert leaving history.json as activate saved it.
UnrecordForgotten ==
    /\ op.pc = "unrecord"
    /\ Goto("resume")
    /\ UNCHANGED <<store, proc, want, timer, answer>>

Unrecord ==
    /\ op.pc = "unrecord"
    /\ store' = Unrecorded(store, op.hash, Prev)
    /\ Goto("resume")
    /\ UNCHANGED <<proc, want, timer, answer>>

\* revert's error is ignored: apply goes on with what it has.
RevertFault ==
    /\ IOErrors
    /\ op.pc \in {"unswap", "unrecord"}
    /\ Goto("resume")
    /\ UNCHANGED <<store, proc, want, timer, answer>>

Revert(pc) == op' = [op EXCEPT !.pc = pc, !.phase = "revert"]

\* Whether the engine was meant to run before this apply.
ShouldRun == op.wanted \/ (AlwaysOn /\ ~op.before.stopped)

\* As ResumeLoaded, without the second reload.
ResumeLoadedAsIs ==
    /\ op.pc = "resume" /\ ~op.died /\ Prev # None
    /\ Finish(FALSE)
    /\ UNCHANGED <<store, proc, want, timer>>

ResumeLoaded ==
    /\ op.pc = "resume" /\ ~op.died /\ Prev # None
    /\ Revert(IF Running THEN "load" ELSE "spawn")
    /\ UNCHANGED <<store, proc, want, timer, answer>>

ResumeStarted ==
    /\ op.pc = "resume" /\ op.died
    /\ Prev # None /\ ShouldRun
    /\ Revert("spawn")
    /\ UNCHANGED <<store, proc, want, timer, answer>>

\* Nothing to go back to, or an engine that was down: it stays down, and one
\* that was stopped on purpose is marked so again.
ResumeDown ==
    /\ op.pc = "resume"
    /\ IF op.died
       THEN ~(Prev # None /\ ShouldRun) /\ Unwant
       ELSE Prev = None /\ UNCHANGED <<want, timer>>
    /\ store' = IF op.died /\ ~ShouldRun THEN Marked(store, TRUE) ELSE store
    /\ Finish(FALSE)
    /\ UNCHANGED proc

-----------------------------------------------------------------------------
(* POST /v1/rollback *)

RollbackNone ==
    /\ Idle
    /\ Previous(store) = None
    /\ Reply("rollback", FALSE, None)
    /\ UNCHANGED <<store, proc, want, timer, op>>

RollbackBegin ==
    /\ Idle
    /\ Previous(store) # None
    /\ Begin("rollback", Previous(store), "rewind", "rollback")
    /\ UNCHANGED <<store, proc, want, timer, answer>>

Rewind ==
    /\ op.pc = "rewind"
    /\ store' = Swapped(store, op.hash)
    /\ Goto("rerecord")
    /\ UNCHANGED <<proc, want, timer, answer>>

Rerecord ==
    /\ op.pc = "rerecord"
    /\ store' = RewoundTo(store, op.hash)
    /\ Goto("unmark")
    /\ UNCHANGED <<proc, want, timer, answer>>

RollbackFault ==
    /\ IOErrors
    /\ op.pc \in {"rewind", "rerecord"}
    /\ Finish(FALSE)
    /\ UNCHANGED <<store, proc, want, timer>>

Unmark ==
    /\ op.pc = "unmark"
    /\ store' = Marked(store, FALSE)
    /\ Goto(IF Running THEN "load" ELSE "spawn")
    /\ UNCHANGED <<proc, want, timer, answer>>

-----------------------------------------------------------------------------
(* POST /v1/start, /v1/stop and /v1/reload *)

\* Nothing configured, or already up.
StartNothing ==
    /\ Idle
    /\ store.current = None \/ Running
    /\ Reply("start", Running, None)
    /\ UNCHANGED <<store, proc, want, timer, op>>

StartBegin ==
    /\ Idle
    /\ store.current # None /\ ~Running
    /\ Begin("start", None, "spawn", "manual")
    /\ store' = Marked(store, FALSE)
    /\ UNCHANGED <<proc, want, timer, answer>>

StopBegin ==
    /\ Idle
    /\ Begin("stop", None, "halt", "manual")
    /\ Unwant
    /\ UNCHANGED <<store, proc, answer>>

\* The process has exited, or was killed after the timeout.
Halt ==
    /\ op.pc = "halt"
    /\ proc' = None
    /\ Goto(IF op.req = "applyStop" THEN "prune" ELSE "halted")
    /\ UNCHANGED <<store, want, timer, answer>>

\* Only an engine that is not always on stays stopped after /v1/stop.
Halted ==
    /\ op.pc = "halted"
    /\ store' = IF op.req = "stop" /\ ~AlwaysOn THEN Marked(store, TRUE) ELSE store
    /\ Finish(TRUE)
    /\ UNCHANGED <<proc, want, timer>>

ReloadDown ==
    /\ Idle /\ ~Running
    /\ Reply("reload", FALSE, None)
    /\ UNCHANGED <<store, proc, want, timer, op>>

ReloadBegin ==
    /\ Idle /\ Running
    /\ Begin("reload", None, "load", "manual")
    /\ UNCHANGED <<store, proc, want, timer, answer>>

-----------------------------------------------------------------------------
(* The supervisor: watch and the restart timer *)

\* As EngineExits, with no restart scheduled while a request is under way.
EngineExitsUnseen ==
    /\ Running
    /\ proc' = None
    /\ timer' = (want /\ Idle)
    /\ UNCHANGED <<store, want, op, answer>>

\* The process exits; if it was wanted a restart is scheduled.
EngineExits ==
    /\ Running
    /\ proc' = None
    /\ timer' = want
    /\ UNCHANGED <<store, want, op, answer>>

\* As Retry, without re-arming the timer when the lock is taken.
RetryOnce ==
    /\ timer
    /\ timer' = FALSE
    /\ \/ Idle /\ want /\ ~Running /\ proc' = store.current
       \/ (~Idle \/ ~want \/ Running \/ ExecFails) /\ UNCHANGED proc
    /\ UNCHANGED <<store, want, op, answer>>

\* The timer fires while no request holds the lock.  A retry that finds the lock
\* taken re-arms the timer, which is the timer staying armed; the instant between
\* its TryLock and the re-arming is not a step of its own.
Retry ==
    /\ timer /\ Idle
    /\ timer' = FALSE
    /\ \/ want /\ ~Running /\ proc' = store.current
       \/ (~want \/ Running \/ ExecFails) /\ UNCHANGED proc
    /\ UNCHANGED <<store, want, op, answer>>

-----------------------------------------------------------------------------
(* The agent dies and comes back *)

\* The container stops or is killed: memory and the engine process are gone.
Kill ==
    /\ Kills
    /\ proc' = None
    /\ Unwant
    /\ answer' = None
    /\ op' = [IdleOp EXCEPT !.req = "boot", !.pc = "boot", !.before = store]
    /\ UNCHANGED store

\* boot: without a release an always-on engine writes its bootstrap release.
Boots ==
    /\ op.pc = "boot"
    /\ IF store.current = None /\ AlwaysOn
       THEN store' = Written(store, Boot) /\ Goto("bootSwap")
       ELSE UNCHANGED store /\ Goto("bootStart")
    /\ UNCHANGED <<proc, want, timer, answer>>

BootSwap ==
    /\ op.pc = "bootSwap"
    /\ store' = Swapped(store, Boot)
    /\ Goto("bootMark")
    /\ UNCHANGED <<proc, want, timer, answer>>

\* An engine that /run/relay/proxy-engine does not select is kept stopped.
BootMark ==
    /\ op.pc = "bootMark"
    /\ store' = Marked(store, ~Selected)
    /\ Goto("bootStart")
    /\ UNCHANGED <<proc, want, timer, answer>>

\* As BootStart, without looking at the stopped marker.
BootStartAnyway ==
    /\ op.pc = "bootStart"
    /\ IF store.current = None
       THEN UNCHANGED <<proc, want>>
       ELSE want' = TRUE /\ proc' = store.current
    /\ op' = IdleOp
    /\ UNCHANGED <<store, timer, answer>>

BootStart ==
    /\ op.pc = "bootStart"
    /\ IF store.current = None \/ store.stopped
       THEN UNCHANGED <<proc, want>>
       ELSE /\ want' = TRUE
            /\ \/ proc' = store.current
               \/ ExecFails /\ UNCHANGED proc
    /\ op' = IdleOp
    /\ UNCHANGED <<store, timer, answer>>

\* The bootstrap release cannot be written or activated: boot gives up.
BootFault ==
    /\ IOErrors
    /\ \/ op.pc = "boot" /\ store.current = None /\ AlwaysOn
       \/ op.pc = "bootSwap"
    /\ op' = IdleOp
    /\ UNCHANGED <<store, proc, want, timer, answer>>

-----------------------------------------------------------------------------
Init ==
    /\ store = EmptyStore
    /\ proc = None
    /\ want = FALSE
    /\ timer = FALSE
    /\ op = [IdleOp EXCEPT !.req = "boot", !.pc = "boot"]
    /\ answer = None

Request ==
    \/ \E h \in Hash : ApplyUnusable(h) \/ ApplyActive(h) \/ ApplyBegin(h) \/ ApplyStopBegin(h)
    \/ StopOnlyBegin
    \/ RollbackNone \/ RollbackBegin
    \/ StartNothing \/ StartBegin
    \/ StopBegin
    \/ ReloadDown \/ ReloadBegin

\* the steps of the request that holds supervisor.op
Work ==
    \/ Write \/ (\E ok \in BOOLEAN : Validate(ok)) \/ Swap \/ Record \/ Mark
    \/ ApplyFault \/ Prune \/ Trim
    \/ LoadAccepted \/ LoadRejected \/ LoadLate \/ LoadGone
    \/ Spawn \/ SpawnError \/ Settle
    \/ Unswap \/ Unrecord \/ RevertFault
    \/ ResumeLoaded \/ ResumeStarted \/ ResumeDown
    \/ Rewind \/ Rerecord \/ RollbackFault \/ Unmark
    \/ Halt \/ Halted
    \/ Boots \/ BootSwap \/ BootMark \/ BootStart \/ BootFault

Next == Request \/ Work \/ EngineExits \/ Retry \/ Kill

Spec == Init /\ [][Next]_vars

\* Every step of a request has its own timeout, so a request always goes on;
\* the timer fires again and again until it finds the lock free.
FairSpec == Spec /\ WF_vars(Work) /\ SF_vars(Retry)

-----------------------------------------------------------------------------
(* Properties *)

\* The current link always points at a release that is on disk, whatever the
\* step at which the agent is killed: boot can always start what it finds.
\* (releases.go: write before swap, remove and prune spare the current release,
\* rollback and revert only swap to a release that is still there.)
CurrentPresent == store.current # None => store.current \in store.dirs

\* A release answered as applied is the one the engine serves, as long as no
\* later request is under way: OK never covers an engine on another release.
\* (server.go apply, "configuration already active" included.)
AppliedIsServed ==
    Idle /\ answer # None /\ answer.req = "apply" /\ answer.ok
        => /\ store.current = answer.hash
           /\ Running => proc = answer.hash

\* A refused apply leaves the release it found active, and the engine, if it
\* runs, serves that release. (server.go apply: revert, then reload or restart.)
RefusedIsUndone ==
    Idle /\ answer # None /\ answer.req = "apply" /\ ~answer.ok
        => /\ store.current = answer.prev
           /\ Running => proc = answer.prev

\* What an apply was answered with is so.
AnswerHolds == AppliedIsServed /\ RefusedIsUndone

\* An engine stopped on purpose is down, is not wanted, and no timer restarts it.
\* (the "stopped" marker against supervisor.want and the restart timer)
StoppedStaysDown == Idle /\ store.stopped => ~Running /\ ~want

\* A wanted engine that is down has a restart scheduled.  (supervisor.go:22:
\* it "restarts it with backoff when it dies unexpectedly".)
WantedIsRestarted == Idle /\ want /\ ~Running => timer

\* After a successful apply, a rollback would go back to the release that was
\* active before it: neither the history's bounds nor prune lose it.
\* (releases.go previous: "the release activated before the current one")
RollbackUndoes ==
    Idle /\ answer # None /\ answer.req = "apply" /\ answer.ok
    /\ answer.prev \notin {None, Boot, answer.hash}
        => Previous(store) = answer.prev

\* A wanted engine eventually runs again, or stops being wanted.
EventuallyRuns == want /\ ~Running ~> Running \/ ~want

\* The detailed agent implements the contract: a request shows the store it
\* found until it is answered. (supervisor.op: "serialises high-level operations")
Contract == INSTANCE AgentContract WITH store <- IF Idle THEN store ELSE op.before
RequestsAreAtomic == Contract!Spec
=============================================================================
