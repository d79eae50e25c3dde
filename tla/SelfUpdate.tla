----------------------------- MODULE SelfUpdate -----------------------------
(***************************************************************************)
(* Relay updating itself (src/internal/engines/relay_update.go, relay.go). *)
(* A helper container runs a script that pulls, builds and recreates the   *)
(* relay container; Relay follows its output, and the Relay that is        *)
(* started meanwhile goes on following it.                                 *)
(*                                                                         *)
(* The helper's output is read from its start, so what counts is how it    *)
(* ended and whether its end was seen.                                     *)
(*                                                                         *)
(* There is one job, that of the last request that passed the check.  Two  *)
(* may pass it together; then both go on, and report to that one job.      *)
(***************************************************************************)
EXTENDS Naturals

CONSTANTS
    Commits,      \* what can be pulled; builds are known by their commit
    None,
    MaxUpdates,   \* bound: updates
    MaxFaults     \* bound: deaths of Relay, lost log streams, failing inspections

\* numbered as they come
Updates == 1..MaxUpdates

VARIABLES
    relay,     \* the relay container
    image,     \* what its image reference stands for
    job,       \* s.relayJob, which is saved with every change; by: the requests that reported to it
    task,      \* task[u]: what Relay does about request u
    helper,    \* helper[u]: the helper container it started; to: what that pulled, if it did
    together,  \* whether a request was let in while another was under way
    faults

vars == <<relay, image, job, task, helper, together, faults>>

TypeOK ==
    /\ relay \in [up : BOOLEAN, build : Commits]
    /\ image \in Commits
    /\ job \in [status : {"none", "running", "succeeded", "failed"}, id : Updates \cup {None},
                helper : Updates \cup {None}, to : Commits \cup {None}, by : SUBSET Updates]
    /\ task \in [Updates -> {"new", "checked", "prepare", "started", "follow", "told", "over"}]
    /\ helper \in [Updates ->
         [at : {"none", "pull", "build", "restart", "wait", "rollback", "done", "failed"},
          name : Updates \cup {None}, prev : Commits \cup {None}, to : Commits \cup {None}]]
    /\ together \in BOOLEAN
    /\ faults \in 0..MaxFaults

Fault == faults < MaxFaults /\ faults' = faults + 1

HelperThere(u) == helper[u].at # "none"
HelperRuns(u)  == helper[u].at \notin {"none", "done", "failed"}

\* docker rm -f
Removed(h) == [h EXCEPT !.at = "none", !.name = None, !.prev = None]

UnderWay(u) == task[u] \notin {"new", "over"}

\* goroutines and requests of a Relay that died
Dead == [u \in Updates |-> IF task[u] = "new" THEN "new" ELSE "over"]

Goes(u, place) == task' = [task EXCEPT ![u] = place]

\* finishRelay, of the job there is now
Ended(u, status) ==
    /\ job' = [job EXCEPT !.status = status, !.by = @ \cup {u}]
    /\ Goes(u, "over")

-----------------------------------------------------------------------------
(* Relay                                                                   *)

\* UpdateRelay looks for a running job, and sets its own later, under another
\* lock and after calls to Docker.
Check(u) ==
    /\ relay.up /\ task[u] = "new" /\ \A v \in Updates : v < u => task[v] # "new"
    /\ job.status # "running"
    /\ together' = (together \/ \E v \in Updates : UnderWay(v))
    /\ Goes(u, "checked")
    /\ UNCHANGED <<relay, image, job, helper, faults>>

Begin(u) ==
    /\ task[u] = "checked"
    /\ job' = [status |-> "running", id |-> u, helper |-> None, to |-> None, by |-> {u}]
    /\ Goes(u, "prepare")
    /\ UNCHANGED <<relay, image, helper, faults, together>>

\* The updater image is pulled, a backup made, the helper created and started.
\* It has the name of the job there is now, and takes the place of a container
\* that has it already.
StartHelper(u) ==
    /\ task[u] = "prepare"
    /\ \/ /\ helper' = [v \in Updates |->
                IF v = u THEN [at |-> "pull", name |-> job.id, prev |-> None, to |-> None]
                ELSE IF helper[v].name = job.id THEN Removed(helper[v])
                ELSE helper[v]]
          /\ Goes(u, "started")
          /\ UNCHANGED job
       \/ Ended(u, "failed") /\ UNCHANGED helper
    /\ UNCHANGED <<relay, image, faults, together>>

\* The job is saved with the helper's id.
SaveHelper(u) ==
    /\ task[u] = "started"
    /\ job' = [job EXCEPT !.helper = u, !.by = @ \cup {u}]
    /\ Goes(u, "follow")
    /\ UNCHANGED <<relay, image, helper, faults, together>>

\* The helper told what it pulled.
Pulled(u) ==
    /\ task[u] = "follow"
    /\ HelperThere(u) /\ helper[u].to # None
    /\ job' = [job EXCEPT !.to = helper[u].to, !.by = @ \cup {u}]
    /\ Goes(u, "told")
    /\ UNCHANGED <<relay, image, helper, faults, together>>

\* As Outcome, by the helper's output alone.
OutcomeAsTold(h) == IF h.at = "done" THEN "succeeded" ELSE "failed"

\* What a finished helper built only counts when Relay runs it.
Outcome(h) == IF h.at = "done" /\ relay.build = h.to THEN "succeeded" ELSE "failed"

\* finalizeRelay, when the helper has ended or its output is lost; the helper
\* is removed whatever it was doing.
Finalize(u) ==
    /\ task[u] \in {"follow", "told"}
    /\ IF HelperRuns(u) THEN Fault ELSE UNCHANGED faults
    /\ Ended(u, Outcome(helper[u]))
    /\ helper' = [helper EXCEPT ![u] = Removed(@)]
    /\ UNCHANGED <<relay, image, together>>

\* Relay dies, between any two steps of it.
Crash ==
    /\ relay.up
    /\ Fault
    /\ relay' = [relay EXCEPT !.up = FALSE]
    /\ task' = Dead
    /\ UNCHANGED <<image, job, helper, together>>

\* As Resumed, leaving the job to a Relay that follows its helper.
ResumedNot(seen) == job.status

\* The status of a running job as resumeRelayUpdate leaves it: the helper is
\* there if the inspection says so.
Resumed(seen) ==
    IF job.status # "running" THEN job.status
    ELSE IF job.helper = None THEN "failed"
    ELSE IF seen /\ HelperThere(job.helper) THEN "running"
    ELSE IF relay.build = job.to THEN "succeeded" ELSE "failed"

\* Docker starts the relay container again.  The inspection may fail.
Restart ==
    /\ ~relay.up
    /\ relay' = [relay EXCEPT !.up = TRUE]
    /\ \E seen \in BOOLEAN :
         /\ IF seen THEN UNCHANGED faults ELSE Fault
         /\ job' = [job EXCEPT !.status = Resumed(seen)]
         /\ IF Resumed(seen) = "running" /\ job.helper # None
            THEN Goes(job.helper, "follow")
            ELSE UNCHANGED task
    /\ UNCHANGED <<image, helper, together>>

Work(u) == Begin(u) \/ StartHelper(u) \/ SaveHelper(u) \/ Pulled(u) \/ Finalize(u)

-----------------------------------------------------------------------------
(* The helper's script                                                     *)

HelperGoes(u, step) == helper' = [helper EXCEPT ![u].at = step]

Pull(u) ==
    /\ helper[u].at = "pull"
    /\ \/ \E c \in Commits : helper' = [helper EXCEPT ![u].at = "build", ![u].to = c]
       \/ HelperGoes(u, "failed")
    /\ UNCHANGED <<relay, image, job, task, faults, together>>

\* prev: the image of the container when the build starts
Build(u) ==
    /\ helper[u].at = "build"
    /\ \/ /\ image' = helper[u].to
          /\ helper' = [helper EXCEPT ![u].at = "restart", ![u].prev = relay.build]
       \/ HelperGoes(u, "failed") /\ UNCHANGED image
    /\ UNCHANGED <<relay, job, task, faults, together>>

\* compose up recreates the container when its image changed.
Recreated(build) ==
    IF relay.build = build
    THEN UNCHANGED <<relay, task>>
    ELSE /\ relay' = [up |-> FALSE, build |-> build]
         /\ task' = Dead

ComposeUp(u) ==
    /\ helper[u].at = "restart"
    /\ \/ Recreated(image) /\ HelperGoes(u, "wait")
       \/ HelperGoes(u, "failed") /\ UNCHANGED <<relay, task>>
    /\ UNCHANGED <<image, job, faults, together>>

WaitHealthy(u) ==
    /\ helper[u].at = "wait"
    /\ \/ relay.up /\ HelperGoes(u, "done")
       \/ HelperGoes(u, "rollback")
    /\ UNCHANGED <<relay, image, job, task, faults, together>>

\* The previous image is started again, or is not; the script fails all the same.
RollBack(u) ==
    /\ helper[u].at = "rollback"
    /\ \/ image' = helper[u].prev /\ Recreated(helper[u].prev)
       \/ UNCHANGED <<image, relay, task>>
    /\ HelperGoes(u, "failed")
    /\ UNCHANGED <<job, faults, together>>

Script(u) == Pull(u) \/ Build(u) \/ ComposeUp(u) \/ WaitHealthy(u) \/ RollBack(u)

-----------------------------------------------------------------------------
Init ==
    /\ \E c \in Commits : relay = [up |-> TRUE, build |-> c] /\ image = c
    /\ helper = [u \in Updates |-> [at |-> "none", name |-> None, prev |-> None, to |-> None]]
    /\ job = [status |-> "none", id |-> None, helper |-> None, to |-> None, by |-> {}]
    /\ task = [u \in Updates |-> "new"]
    /\ together = FALSE
    /\ faults = 0

Next ==
    \/ \E u \in Updates : Check(u) \/ Work(u) \/ Script(u)
    \/ Crash \/ Restart

Spec == Init /\ [][Next]_vars

\* The script's waits are bounded, and Docker starts Relay again.
Fairness ==
    /\ \A u \in Updates : WF_vars(Work(u)) /\ WF_vars(Script(u))
    /\ WF_vars(Restart)

FairSpec == Spec /\ Fairness

-----------------------------------------------------------------------------
(* Properties                                                              *)

\* An update is only said to have succeeded while Relay runs what a helper that
\* reports to the job has pulled: not by the Relay that was to be replaced and
\* not after a rollback, whichever Relay follows the helper to its end.  That is
\* the helper of the request the job was made for, unless two were let in together.
SuccessIsTrue ==
    [][ job'.status = "succeeded" /\ job.status # "succeeded"
          => \E u \in job'.by : relay'.build = helper[u].to /\ (u = job.id \/ together) ]_vars

\* Whatever restarts and crashes there are, an update ends.
UpdateEnds == job.status = "running" ~> job.status # "running"

=============================================================================
