------------------------------ MODULE Upgrade -------------------------------
(***************************************************************************)
(* Replacing the container of an engine by one of another image           *)
(* (src/internal/engines/upgrade.go), the recovery from a Relay that died  *)
(* in the middle of it (recover.go), and the reconcile loop that starts    *)
(* the container of the selected proxy engine when it finds it stopped.    *)
(*                                                                         *)
(* One engine, the selected proxy engine.  Relay may die between any two   *)
(* calls of the Docker API.  A call whose error the code looks at may fail *)
(* for any reason; one whose error it ignores fails only when there is no  *)
(* such container or the name is taken.                                    *)
(***************************************************************************)
EXTENDS Naturals

CONSTANTS
    Images,       \* images of the engine
    None,         \* no container
    Overlap,      \* whether upgrades start while a recovery is due or running
    MaxUpgrades,  \* bound: upgrades
    MaxCrashes    \* bound: deaths of Relay

\* the container there was, and that of each upgrade
Boxes == 0..MaxUpgrades

VARIABLES
    box,       \* box[i]: the engine's containers
    job,       \* the upgrade, s.job and where its goroutine is
    saved,     \* status of the job in the store
    pinned,    \* image in the settings
    up,        \* Relay runs
    rec,       \* recoverInterrupted
    begun,     \* upgrades so far
    crashes    \* deaths of Relay so far

vars == <<box, job, saved, pinned, up, rec, begun, crashes>>

Statuses == {"none", "running", "succeeded", "failed", "rolled_back"}

Steps == {"idle", "prepare", "rename", "create", "stop", "start", "health",
          "remove", "pin", "succeed",                             \* went well
          "unmake", "unname", "fail",                             \* nothing was swapped
          "undoStop", "undoRemove", "undoName", "undoStart", "rollBack"}

\* name: its own, "old" for "<name>-old-<time>"
Box == [name : {"unused", "engine", "old", "removed"}, up : BOOLEAN, image : Images]

Job == [status : Statuses, at : Steps, old : Boxes, new : Boxes \cup {None}, to : Images]

\* olds: the renamed containers that are yet to be removed
Recovery == [at : {"off", "due", "keep", "drop", "rename", "start"}, old : Boxes, olds : SUBSET Boxes,
             cur : Boxes \cup {None}]

TypeOK ==
    /\ box \in [Boxes -> Box]
    /\ job \in Job
    /\ saved \in Statuses
    /\ pinned \in Images
    /\ up \in BOOLEAN
    /\ rec \in Recovery
    /\ begun \in 0..MaxUpgrades
    /\ crashes \in 0..MaxCrashes

-----------------------------------------------------------------------------
(* The Docker API                                                          *)

There(i) == i # None /\ box[i].name \in {"engine", "old"}

Named(name) == {i \in Boxes : box[i].name = name}

\* findEngineContainer: the one that is not an "-old-" one
Current == IF Named("engine") = {} THEN None ELSE CHOOSE i \in Named("engine") : TRUE

Removed(i) == IF There(i) THEN [box EXCEPT ![i].name = "removed", ![i].up = FALSE] ELSE box

CanRename(i, name) == There(i) /\ (name = "old" \/ Named(name) = {})

\* A rename to the name it has changes nothing.
Renamed(i, name) == IF CanRename(i, name) THEN [box EXCEPT ![i].name = name] ELSE box

Turned(i, on) == IF There(i) THEN [box EXCEPT ![i].up = on] ELSE box

-----------------------------------------------------------------------------
(* An upgrade                                                              *)

Goes(step) == job' = [job EXCEPT !.at = step]

\* finishJob, and the apply lock is released
Finished(status) ==
    /\ job' = [job EXCEPT !.at = "idle", !.status = status]
    /\ saved' = status

\* The apply lock, which the goroutine of an upgrade holds to its end
Locked == job.at # "idle"

Begin(image) ==
    /\ up /\ job.status # "running" /\ ~Locked
    /\ begun < MaxUpgrades
    /\ begun' = begun + 1
    /\ Overlap \/ rec.at = "off"
    /\ Current # None
    /\ ~(box[Current].image = image /\ box[Current].up)
    /\ job' = [status |-> "running", at |-> "prepare", old |-> Current, new |-> None, to |-> image]
    /\ saved' = "running"
    /\ UNCHANGED <<box, pinned, up, rec, crashes>>

\* Pull, validation, backup, and what else only reads
Prepare ==
    /\ job.at = "prepare"
    /\ \/ There(job.old) /\ Goes("rename") /\ UNCHANGED saved
       \/ Finished("failed")
    /\ UNCHANGED <<box, pinned, up, rec, begun, crashes>>

RenameOld ==
    /\ job.at = "rename"
    /\ \/ /\ CanRename(job.old, "old")
          /\ box' = Renamed(job.old, "old")
          /\ Goes("create")
          /\ UNCHANGED saved
       \/ /\ Finished("failed")
          /\ UNCHANGED box
    /\ UNCHANGED <<pinned, up, rec, begun, crashes>>

CreateNew ==
    /\ job.at = "create"
    /\ \/ /\ Named("engine") = {}
          /\ box' = [box EXCEPT ![begun] = [name |-> "engine", up |-> FALSE, image |-> job.to]]
          /\ job' = [job EXCEPT !.at = "stop", !.new = begun]
       \/ /\ Goes("unname")
          /\ UNCHANGED box
    /\ UNCHANGED <<saved, pinned, up, rec, begun, crashes>>

StopOld ==
    /\ job.at = "stop"
    /\ \/ /\ There(job.old)
          /\ box' = Turned(job.old, FALSE)
          /\ Goes("start")
       \/ /\ Goes("unmake")
          /\ UNCHANGED box
    /\ UNCHANGED <<saved, pinned, up, rec, begun, crashes>>

StartNew ==
    /\ job.at = "start"
    /\ \/ /\ There(job.new)
          /\ box' = Turned(job.new, TRUE)
          /\ Goes("health")
       \/ /\ Goes("undoStop")
          /\ UNCHANGED box
    /\ UNCHANGED <<saved, pinned, up, rec, begun, crashes>>

\* waitAgent, PushLive and WatchHosts
Health ==
    /\ job.at = "health"
    /\ \/ There(job.new) /\ box[job.new].up /\ Goes("remove")
       \/ Goes("undoStop")
    /\ UNCHANGED <<box, saved, pinned, up, rec, begun, crashes>>

Succeed ==
    \/ /\ job.at = "remove"
       /\ box' = Removed(job.old)
       /\ Goes("pin")
       /\ UNCHANGED <<saved, pinned>>
    \/ /\ job.at = "pin"
       /\ pinned' = job.to
       /\ Goes("succeed")
       /\ UNCHANGED <<box, saved>>
    \/ /\ job.at = "succeed"
       /\ Finished("succeeded")
       /\ UNCHANGED <<box, pinned>>

\* As RestoredName, without the rename.
UnrestoredName == box

\* restoreName
RestoredName == Renamed(job.old, "engine")

\* The old container was not stopped.
Abandon ==
    \/ /\ job.at = "unmake"
       /\ box' = Removed(job.new)
       /\ Goes("unname")
       /\ UNCHANGED saved
    \/ /\ job.at = "unname"
       /\ box' = RestoredName
       /\ Goes("fail")
       /\ UNCHANGED saved
    \/ /\ job.at = "fail"
       /\ Finished("failed")
       /\ UNCHANGED box

\* rollback, in its order
RollBack ==
    \/ /\ job.at = "undoStop"
       /\ box' = Turned(job.new, FALSE)
       /\ Goes("undoRemove")
       /\ UNCHANGED saved
    \/ /\ job.at = "undoRemove"
       /\ box' = Removed(job.new)
       /\ Goes("undoName")
       /\ UNCHANGED saved
    \/ /\ job.at = "undoName"
       /\ box' = RestoredName
       /\ Goes("undoStart")
       /\ UNCHANGED saved
    \/ /\ job.at = "undoStart"
       /\ box' = Turned(job.old, TRUE)
       /\ Goes("rollBack")
       /\ UNCHANGED saved
    \/ /\ job.at = "rollBack"
       /\ Finished("rolled_back")
       /\ UNCHANGED box

Undo == (Abandon \/ RollBack) /\ UNCHANGED <<pinned, up, rec, begun, crashes>>

RunUpgrade ==
    \/ Prepare \/ RenameOld \/ CreateNew \/ StopOld \/ StartNew \/ Health \/ Undo
    \/ Succeed /\ UNCHANGED <<up, rec, begun, crashes>>

-----------------------------------------------------------------------------
(* Relay dies and starts again                                             *)

Crash ==
    /\ up /\ crashes < MaxCrashes
    /\ up' = FALSE
    /\ crashes' = crashes + 1
    /\ job' = [job EXCEPT !.at = "idle"]
    /\ rec' = [rec EXCEPT !.at = "off"]
    /\ UNCHANGED <<box, saved, pinned, begun>>

\* As Interrupted, never.
NoneInterrupted == FALSE

\* whether Relay died in an upgrade
Interrupted == saved = "running"

\* As SavedAtStart, saving at once what the job is shown as.
SavedAtOnce == IF saved = "running" THEN "failed" ELSE saved

\* Only the end of the recovery saves the job.
SavedAtStart == saved

\* A job that was running is shown as failed; the recovery is due 15 s later.
Restart ==
    /\ ~up
    /\ up' = TRUE
    /\ job' = [job EXCEPT !.status = IF Interrupted THEN "failed" ELSE saved]
    /\ rec' = [rec EXCEPT !.at = IF Interrupted THEN "due" ELSE "off"]
    /\ saved' = SavedAtStart
    /\ UNCHANGED <<box, pinned, begun, crashes>>

\* Recovered: the job, whichever it is now, is saved with what was done.
Recovered ==
    /\ rec' = [rec EXCEPT !.at = "off"]
    /\ saved' = job.status

\* A new container is only kept when it runs (and its agent says so).
Keeps(cur) == cur # None /\ box[cur].up

\* What there is, and whether the engine of the new container runs
Look ==
    /\ rec.at = "due"
    /\ IF Named("old") = {}
       THEN rec' = [rec EXCEPT !.at = "off"]
       ELSE \E o \in Named("old") :
              \/ Keeps(Current) /\ rec' = [at |-> "keep", old |-> o, olds |-> Named("old"), cur |-> Current]
              \/ rec' = [at |-> "drop", old |-> o, olds |-> {}, cur |-> Current]
    /\ UNCHANGED <<box, job, saved, pinned, up, begun, crashes>>

\* The old ones are removed, and the image of the new one is pinned.
Keep ==
    \/ /\ rec.at = "keep"
       /\ \E o \in rec.olds :
            /\ box' = Removed(o)
            /\ rec' = [rec EXCEPT !.olds = @ \ {o}]
       /\ UNCHANGED <<saved, pinned>>
    \/ /\ rec.at = "keep" /\ rec.olds = {}
       /\ pinned' = box[rec.cur].image
       /\ Recovered
       /\ UNCHANGED box

\* The old one is put back.
PutBack ==
    \/ /\ rec.at = "drop"
       /\ box' = Removed(rec.cur)
       /\ rec' = [rec EXCEPT !.at = "rename"]
       /\ UNCHANGED saved
    \/ /\ rec.at = "rename"
       /\ \/ /\ CanRename(rec.old, "engine")
             /\ box' = Renamed(rec.old, "engine")
             /\ rec' = [rec EXCEPT !.at = "start"]
             /\ UNCHANGED saved
          \/ /\ ~CanRename(rec.old, "engine")
             /\ Recovered
             /\ UNCHANGED box
    \/ /\ rec.at = "start"
       /\ box' = Turned(rec.old, TRUE)
       /\ Recovered

Recover ==
    \/ Look
    \/ Keep /\ UNCHANGED <<job, up, begun, crashes>>
    \/ PutBack /\ UNCHANGED <<job, pinned, up, begun, crashes>>

\* manageContainers, with the apply lock: the engine's container is stopped
\* and no agent answers.
Reconcile ==
    /\ up /\ ~Locked
    /\ Current # None
    /\ \A i \in Boxes : ~box[i].up
    /\ box' = Turned(Current, TRUE)
    /\ UNCHANGED <<job, saved, pinned, up, rec, begun, crashes>>

-----------------------------------------------------------------------------
Init ==
    /\ \E image \in Images :
         /\ pinned = image
         /\ box = [i \in Boxes |-> [name |-> IF i = 0 THEN "engine" ELSE "unused", up |-> i = 0, image |-> image]]
         /\ job = [status |-> "none", at |-> "idle", old |-> 0, new |-> None, to |-> image]
    /\ saved = "none"
    /\ up = TRUE
    /\ rec = [at |-> "off", old |-> 0, olds |-> {}, cur |-> None]
    /\ begun = 0
    /\ crashes = 0

Next ==
    \/ \E image \in Images : Begin(image)
    \/ RunUpgrade \/ Crash \/ Restart \/ Recover \/ Reconcile

Spec == Init /\ [][Next]_vars

\* Relay is started again, and its goroutines go on.
Fairness ==
    /\ WF_vars(RunUpgrade) /\ WF_vars(Restart) /\ WF_vars(Recover) /\ WF_vars(Reconcile)

FairSpec == Spec /\ Fairness

-----------------------------------------------------------------------------
(* Properties                                                              *)

Quiet == up /\ job.at = "idle" /\ rec.at = "off"

\* There is always a container of the engine to go back to, and once no upgrade
\* and no recovery is going on it is the only one and has the engine's name:
\* wherever Relay died, what was renamed is put back or removed
\* (recoverInterrupted).
EngineKept ==
    /\ \E i \in Boxes : There(i)
    /\ Quiet => (\E i \in Boxes : Named("engine") = {i}) /\ Named("old") = {}

Ends(status) == up /\ job.status = "running" /\ job'.status = status

\* A rollback leaves the container there was running under its name, whatever
\* step of the swap failed (rollback undoes them in reverse).
RollbackRestarts ==
    [][ Ends("rolled_back") => box'[job.old].name = "engine" /\ box'[job.old].up ]_vars

\* A failed upgrade too leaves the container there was under its name, and both
\* leave its image pinned.
FailureKeepsOld ==
    /\ RollbackRestarts
    /\ [][ Ends("failed") \/ Ends("rolled_back")
             => box'[job.old].name = "engine" /\ pinned' = pinned ]_vars

\* Wherever Relay died, the engine's container runs again in the end: an
\* upgrade ends, a swap that was left is recovered, and the reconcile loop
\* starts what a crash left stopped.
EngineReturns == []<>(Current # None /\ box[Current].up)

=============================================================================
