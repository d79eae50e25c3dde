--------------------------- MODULE UpgradeProofs ----------------------------
(***************************************************************************)
(* For every number of upgrades and of deaths of Relay: there is always a   *)
(* container of the engine to go back to (EngineKept of Upgrade), and an    *)
(* upgrade that fails or is rolled back leaves the one there was            *)
(* (FailureKeepsOld), as long as no upgrade starts while a recovery is due. *)
(*                                                                         *)
(* The invariant says, for every step of the swap and of the recovery,     *)
(* which container has the engine's name and which is renamed; Relay may   *)
(* die in any of them, and then only Swapped is left to recover from.      *)
(***************************************************************************)
EXTENDS Upgrade, TLAPS

\* Upgrades wait for a recovery that is due.
Orderly == MaxUpgrades \in Nat /\ MaxCrashes \in Nat /\ None \notin Boxes /\ ~Overlap

AtMostOne(S) == \A i, j \in S : i = j

\* What a death of Relay may leave
Swapped ==
    /\ \E i \in Boxes : There(i)
    /\ AtMostOne(Named("engine")) /\ AtMostOne(Named("old"))

\* What there is when nothing is left to do
Clean == Named("engine") # {} /\ AtMostOne(Named("engine")) /\ Named("old") = {}

\* The engine's name and the renamed container, at each step of an upgrade
Holds(engine, old) == Named("engine") = engine /\ Named("old") = old

SwapStep ==
    /\ job.at \in {"prepare", "rename", "fail", "undoStart", "rollBack"} => Holds({job.old}, {})
    /\ job.at \in {"create", "unname", "undoName"} => Holds({}, {job.old})
    /\ job.at \in {"stop", "start", "health", "unmake", "undoStop", "undoRemove", "remove"}
         => Holds({job.new}, {job.old}) /\ job.new # job.old /\ job.new \in Boxes
    /\ job.at \in {"pin", "succeed"} => Holds({job.new}, {}) /\ job.new \in Boxes
    /\ job.at = "rollBack" => box[job.old].up

RecoveryStep ==
    /\ rec.at = "due" => Swapped
    /\ rec.at = "keep" => Holds({rec.cur}, rec.olds) /\ rec.cur # None /\ AtMostOne(rec.olds)
    /\ rec.at = "drop" => Holds({rec.cur} \ {None}, {rec.old})
    /\ rec.at = "rename" => Holds({}, {rec.old})
    /\ rec.at = "start" => Holds({rec.old}, {})

\* Who is at work, and what the store says of it
Turn ==
    /\ job.at # "idle" => up /\ rec.at = "off" /\ saved = "running" /\ job.status = "running"
    /\ rec.at # "off" => up /\ saved = "running"
    /\ up /\ job.at = "idle" => job.status # "running"

\* The container an upgrade is going to create is new.
Unused ==
    /\ \A i \in Boxes : i > begun => box[i].name = "unused"
    /\ job.at \in {"prepare", "rename", "create"} => box[begun].name = "unused"

Inv ==
    /\ TypeOK
    /\ Turn
    /\ Unused
    /\ SwapStep
    /\ RecoveryStep
    /\ job.at = "idle" /\ rec.at = "off" => Swapped /\ (up \/ saved # "running" => Clean)

-----------------------------------------------------------------------------
(* Names                                                                   *)

\* A call that gives container i the name n moves i to the containers of that
\* name, and changes no other name.
LEMMA NameGiven ==
  ASSUME NEW i \in Boxes, NEW n,
         \A j \in Boxes : box'[j].name = IF j = i THEN n ELSE box[j].name
  PROVE  \A m : Named(m)' = IF m = n THEN Named(m) \cup {i} ELSE Named(m) \ {i}
BY DEF Named

\* Containers that keep their names are found by them.
LEMMA NamesStay ==
  ASSUME \A j \in Boxes : box'[j].name = box[j].name
  PROVE  \A m : Named(m)' = Named(m)
BY DEF Named

\* The containers there are have one of the two names.
LEMMA ThereIs ==
  ASSUME Orderly
  PROVE  \A i : (i \in Boxes /\ There(i)) <=> i \in Named("engine") \cup Named("old")
BY DEF Orderly, There, Named

\* A swap that was left at any step
LEMMA HoldsIsSwapped ==
  ASSUME Orderly, NEW e, NEW o, AtMostOne(e), AtMostOne(o), e \cup o # {}, Holds(e, o)
  PROVE  Swapped
BY ThereIs DEF Holds, Swapped

\* One container, with the engine's name, is a clean state.
LEMMA HoldsIsClean ==
  ASSUME NEW i, Holds({i}, {})
  PROVE  Clean
BY DEF Holds, Clean, AtMostOne

\* The current container is one with the engine's name.
LEMMA CurrentIs ==
  /\ Named("engine") = {} => Current = None
  /\ Named("engine") # {} => Current \in Named("engine")
BY DEF Current

-----------------------------------------------------------------------------
(* The calls of the Docker API                                             *)

\* A container is removed.
LEMMA Removes ==
  ASSUME Orderly, TypeOK, NEW i \in Boxes, There(i), box' = Removed(i)
  PROVE  /\ box' \in [Boxes -> Box]
         /\ Named("engine")' = Named("engine") \ {i} /\ Named("old")' = Named("old") \ {i}
         /\ \A j \in Boxes : j # i => box'[j] = box[j]
         /\ box'[i].name = "removed"
<1>1. box' = [box EXCEPT ![i].name = "removed", ![i].up = FALSE]
  BY DEF Removed
<1>2. box' \in [Boxes -> Box] /\ \A j \in Boxes : j # i => box'[j] = box[j]
  <2>1. box \in [Boxes -> Box] /\ box' = [box EXCEPT ![i] = [@ EXCEPT !.name = "removed", !.up = FALSE]]
    BY <1>1 DEF TypeOK
  <2>2. [box[i] EXCEPT !.name = "removed", !.up = FALSE] \in Box
    BY ZenonT(60), <2>1 DEF Box
  <2> QED BY ONLY <2>1, <2>2
<1>3. box'[i].name = "removed"
  BY <1>1 DEF TypeOK, Box
<1>4. \A j \in Boxes : box'[j].name = IF j = i THEN "removed" ELSE box[j].name
  BY <1>2, <1>3
<1>5. \A m : Named(m)' = IF m = "removed" THEN Named(m) \cup {i} ELSE Named(m) \ {i}
  BY <1>4, NameGiven
<1> QED BY <1>2, <1>3, <1>5

\* A container is renamed.
LEMMA Renames ==
  ASSUME Orderly, TypeOK, NEW i \in Boxes, NEW n \in {"engine", "old"}, CanRename(i, n), box' = Renamed(i, n)
  PROVE  /\ box' \in [Boxes -> Box]
         /\ Named(n)' = Named(n) \cup {i}
         /\ \A m : m # n => Named(m)' = Named(m) \ {i}
         /\ \A j \in Boxes : j # i => box'[j] = box[j]
         /\ box'[i].name = n /\ box'[i].up = box[i].up
<1>1. box' = [box EXCEPT ![i].name = n]
  BY DEF Renamed
<1>2. box' \in [Boxes -> Box] /\ \A j \in Boxes : j # i => box'[j] = box[j]
  BY <1>1 DEF TypeOK, Box
<1>3. box'[i].name = n /\ box'[i].up = box[i].up
  BY <1>1 DEF TypeOK, Box
<1>4. \A j \in Boxes : box'[j].name = IF j = i THEN n ELSE box[j].name
  BY <1>2, <1>3
<1>5. \A m : Named(m)' = IF m = n THEN Named(m) \cup {i} ELSE Named(m) \ {i}
  BY <1>4, NameGiven
<1> QED BY <1>2, <1>3, <1>5

\* A container that is started or stopped keeps its name.
LEMMA Turns ==
  ASSUME Orderly, TypeOK, NEW i \in Boxes, NEW on \in BOOLEAN, box' = Turned(i, on)
  PROVE  /\ box' \in [Boxes -> Box]
         /\ \A m : Named(m)' = Named(m)
         /\ \A j \in Boxes : box'[j].name = box[j].name
         /\ There(i) => box'[i].up = on
<1>1. box' = box \/ (There(i) /\ box' = [box EXCEPT ![i].up = on])
  BY DEF Turned
<1>2. box' \in [Boxes -> Box] /\ \A j \in Boxes : box'[j].name = box[j].name
  BY <1>1 DEF TypeOK, Box
<1>3. There(i) => box'[i].up = on
  BY DEF TypeOK, Box, Turned
<1> QED BY <1>2, <1>3, NamesStay

-----------------------------------------------------------------------------
(* The invariant                                                           *)

\* Relay starts with one container of the engine.
LEMMA InvInit ==
  ASSUME Orderly, Init
  PROVE  Inv
<1>1. PICK image \in Images :
         /\ pinned = image
         /\ box = [i \in Boxes |-> [name |-> IF i = 0 THEN "engine" ELSE "unused", up |-> i = 0, image |-> image]]
         /\ job = [status |-> "none", at |-> "idle", old |-> 0, new |-> None, to |-> image]
  BY DEF Init
<1>2. 0 \in Boxes
  BY DEF Boxes, Orderly
<1>3. TypeOK
  <2>1. box \in [Boxes -> Box]
    BY <1>1 DEF Box
  <2>2. job \in Job
    BY <1>1, <1>2 DEF Job, Statuses, Steps
  <2>3. rec \in Recovery
    BY <1>2 DEF Init, Recovery
  <2> QED BY <1>1, <2>1, <2>2, <2>3 DEF Init, TypeOK, Statuses, Orderly
<1>4. \A i \in Boxes : box[i].name = IF i = 0 THEN "engine" ELSE "unused"
  BY <1>1
<1>5. Holds({0}, {})
  BY <1>2, <1>4 DEF Holds, Named
<1>6. Swapped /\ Clean
  BY <1>5, HoldsIsSwapped, HoldsIsClean DEF AtMostOne
<1>7. job.at = "idle" /\ job.status = "none" /\ rec.at = "off" /\ begun = 0
  BY <1>1 DEF Init
<1>8. Unused
  BY <1>4, <1>7 DEF Unused, Boxes
<1> QED BY <1>3, <1>6, <1>7, <1>8 DEF Inv, Turn, SwapStep, RecoveryStep

\* An upgrade at work: the other parts of the invariant say nothing of it.
LEMMA AtWork ==
  ASSUME Orderly, TypeOK', Unused', SwapStep', job'.at # "idle",
         up', saved' = "running", job'.status = "running", rec'.at = "off"
  PROVE  Inv'
BY DEF Inv, Turn, RecoveryStep

\* An upgrade that is over: what there was has its name, or what is new.
LEMMA WorkOver ==
  ASSUME Orderly, Inv, job.at # "idle", NEW i, Holds({i}, {}), NEW st \in Statuses \ {"running"},
         Finished(st), UNCHANGED <<box, up, rec, begun, crashes>>, pinned' \in Images
  PROVE  Inv'
<1>1. job' = [job EXCEPT !.at = "idle", !.status = st] /\ saved' = st
  BY DEF Finished
<1>2. job' \in Job /\ job'.at = "idle" /\ job'.status = st
  BY <1>1 DEF Inv, TypeOK, Job, Steps
<1>3. TypeOK'
  BY <1>1, <1>2 DEF Inv, TypeOK
<1>4. Unused' /\ Turn' /\ SwapStep' /\ RecoveryStep'
  BY <1>1, <1>2 DEF Inv, Unused, Turn, SwapStep, RecoveryStep
<1>5. Swapped /\ Clean
  BY HoldsIsSwapped, HoldsIsClean DEF AtMostOne
<1>6. Swapped' /\ Clean'
  BY <1>5 DEF Swapped, Clean, Named, There, AtMostOne
<1> QED BY <1>3, <1>4, <1>6 DEF Inv

\* An upgrade begins.
LEMMA InvBegin ==
  ASSUME Orderly, Inv, NEW image \in Images, Begin(image)
  PROVE  Inv'
<1>1. /\ up /\ job.at = "idle" /\ begun < MaxUpgrades /\ begun' = begun + 1 /\ rec.at = "off" /\ Current # None
      /\ job' = [status |-> "running", at |-> "prepare", old |-> Current, new |-> None, to |-> image]
      /\ saved' = "running" /\ UNCHANGED <<box, pinned, up, rec, crashes>>
  BY DEF Begin, Locked, Orderly
<1>2. Clean
  BY <1>1 DEF Inv
<1>3. Current \in Named("engine") /\ Named("engine") = {Current}
  BY <1>2, CurrentIs DEF Clean, AtMostOne
<1>4. Current \in Boxes
  BY <1>3 DEF Named
<1>5. job' \in Job /\ job'.at = "prepare" /\ job'.old = Current /\ job'.status = "running"
  BY <1>1, <1>4 DEF Job, Statuses, Steps
<1>6. begun' \in 0..MaxUpgrades /\ begun' \in Boxes /\ begun' > begun
  BY <1>1 DEF Inv, TypeOK, Boxes, Orderly
<1>7. TypeOK'
  BY <1>1, <1>5, <1>6 DEF Inv, TypeOK, Statuses
<1>8. Unused'
  <2>1. \A i \in Boxes : i > begun' => i > begun
    BY <1>6 DEF Boxes, Inv, TypeOK, Orderly
  <2> QED BY <1>1, <1>6, <2>1 DEF Inv, Unused
<1>9. SwapStep'
  BY <1>1, <1>2, <1>3, <1>5 DEF SwapStep, Holds, Clean, Named
<1> QED BY <1>1, <1>5, <1>7, <1>8, <1>9, AtWork DEF Inv

\* Going on to a step: where the upgrade is, and nothing else of the job
LEMMA GoesOn ==
  ASSUME Inv, NEW step \in Steps, Goes(step)
  PROVE  /\ job' \in Job /\ job'.at = step
         /\ job'.old = job.old /\ job'.new = job.new /\ job'.status = job.status /\ job'.to = job.to
         /\ job.old \in Boxes /\ job.new \in Boxes \cup {None} /\ job.to \in Images
BY DEF Inv, TypeOK, Job, Goes

\* The steps of an upgrade that goes well
LEMMA InvRunsForward ==
  ASSUME Orderly, Inv, Prepare \/ RenameOld \/ CreateNew \/ StopOld \/ StartNew \/ Health
  PROVE  Inv'
<1> DEFINE Rest == UNCHANGED <<pinned, up, rec, begun, crashes>>
<1>0. job.old \in Boxes /\ job.to \in Images /\ (job.at # "idle" => up /\ saved = "running" /\ job.status = "running" /\ rec.at = "off")
  BY DEF Inv, TypeOK, Job, Turn
<1>a. /\ "failed" \in Statuses \ {"running"}
      /\ {"rename", "create", "stop", "start", "health", "remove", "unmake", "unname", "undoStop"} \subseteq Steps
  BY DEF Statuses, Steps
<1>1. CASE Prepare
  <2>1. job.at = "prepare" /\ UNCHANGED <<box, pinned, up, rec, begun, crashes>> /\ pinned' \in Images
    BY <1>1 DEF Prepare, Inv, TypeOK
  <2>2. Holds({job.old}, {})
    BY <2>1 DEF Inv, SwapStep
  <2>3. CASE Finished("failed")
    BY <1>a, <2>1, <2>2, <2>3, WorkOver
  <2>4. CASE Goes("rename") /\ UNCHANGED saved
    <3>1. job' \in Job /\ job'.at = "rename" /\ job'.old = job.old /\ job'.status = job.status
      BY <1>a, <2>4, GoesOn
    <3>2. TypeOK' /\ Unused' /\ SwapStep'
      BY <2>1, <2>2, <2>4, <3>1 DEF Inv, TypeOK, Unused, SwapStep, Holds, Named
    <3> QED BY <1>0, <2>1, <2>4, <3>1, <3>2, AtWork
  <2> QED BY <1>1, <2>3, <2>4 DEF Prepare
<1>2. CASE RenameOld
  <2>1. job.at = "rename" /\ Rest /\ pinned' \in Images
    BY <1>2 DEF RenameOld, Inv, TypeOK
  <2>2. Holds({job.old}, {})
    BY <2>1 DEF Inv, SwapStep
  <2>3. CASE Finished("failed") /\ UNCHANGED box
    BY <1>a, <2>1, <2>2, <2>3, WorkOver
  <2>4. CASE CanRename(job.old, "old") /\ box' = Renamed(job.old, "old") /\ Goes("create") /\ UNCHANGED saved
    <3>1. job' \in Job /\ job'.at = "create" /\ job'.old = job.old /\ job'.status = job.status
      BY <1>a, <2>4, GoesOn
    <3>2. /\ box' \in [Boxes -> Box] /\ Named("old")' = Named("old") \cup {job.old}
          /\ Named("engine")' = Named("engine") \ {job.old}
          /\ \A j \in Boxes : j # job.old => box'[j] = box[j]
      BY <1>0, <2>4, Renames DEF Inv
    <3>3. TypeOK'
      BY <2>1, <2>4, <3>1, <3>2 DEF Inv, TypeOK
    <3>4. Holds({}, {job.old})'
      BY <2>2, <3>1, <3>2 DEF Holds
    <3>5. job.old # begun /\ ~(job.old > begun)
      BY <1>0, <2>1, <2>2 DEF Inv, Unused, Holds, Named
    <3>6. Unused'
      BY <2>1, <3>1, <3>2, <3>5 DEF Inv, Unused, TypeOK, Boxes
    <3>7. SwapStep'
      BY <3>1, <3>4 DEF SwapStep
    <3> QED BY <1>0, <2>1, <2>4, <3>1, <3>3, <3>6, <3>7, AtWork
  <2> QED BY <1>2, <2>3, <2>4 DEF RenameOld
<1>3. CASE CreateNew
  <2>1. job.at = "create" /\ Rest /\ UNCHANGED saved
    BY <1>3 DEF CreateNew
  <2>2. Holds({}, {job.old}) /\ box[begun].name = "unused"
    BY <2>1 DEF Inv, SwapStep, Unused
  <2>3. CASE Goes("unname") /\ UNCHANGED box
    <3>1. job' \in Job /\ job'.at = "unname" /\ job'.old = job.old /\ job'.status = job.status
      BY <1>a, <2>3, GoesOn
    <3>2. TypeOK' /\ Unused' /\ SwapStep'
      BY <2>1, <2>2, <2>3, <3>1 DEF Inv, TypeOK, Unused, SwapStep, Holds, Named
    <3> QED BY <1>0, <2>1, <3>1, <3>2, AtWork
  <2>4. CASE /\ box' = [box EXCEPT ![begun] = [name |-> "engine", up |-> FALSE, image |-> job.to]]
             /\ job' = [job EXCEPT !.at = "stop", !.new = begun]
    <3>1. begun \in Boxes
      BY DEF Inv, TypeOK, Boxes
    <3>2. job' \in Job /\ job'.at = "stop" /\ job'.old = job.old /\ job'.new = begun /\ job'.status = job.status
      BY <1>a, <2>4, <3>1 DEF Inv, TypeOK, Job
    <3>3. /\ box' \in [Boxes -> Box]
          /\ \A j \in Boxes : j # begun => box'[j] = box[j]
          /\ box'[begun].name = "engine"
      BY <1>0, <2>4, <3>1 DEF Inv, TypeOK, Box
    <3>4. \A j \in Boxes : box'[j].name = IF j = begun THEN "engine" ELSE box[j].name
      BY <3>3
    <3>5. \A m : Named(m)' = IF m = "engine" THEN Named(m) \cup {begun} ELSE Named(m) \ {begun}
      BY <3>1, <3>4, NameGiven
    <3>6. job.old # begun
      BY <1>0, <2>2 DEF Holds, Named
    <3>7. Holds({begun}, {job.old})'
      <4>1. Named("engine") = {} /\ Named("old") = {job.old}
        BY <2>2 DEF Holds
      <4>2. Named("engine")' = {begun} /\ Named("old")' = {job.old}
        BY <3>5, <3>6, <4>1
      <4> QED BY <2>1, <3>2, <4>2 DEF Holds
    <3>8. TypeOK'
      BY <2>1, <3>2, <3>3 DEF Inv, TypeOK
    <3>9. Unused'
      BY <2>1, <3>2, <3>3, <3>1 DEF Inv, Unused, TypeOK, Boxes
    <3>10. SwapStep'
      <4>1. Named("engine")' = {begun} /\ Named("old")' = {job.old}
        BY <2>1, <3>2, <3>7 DEF Holds
      <4> QED BY <2>1, <3>1, <3>2, <3>6, <4>1 DEF SwapStep, Holds
    <3> QED BY <1>0, <2>1, <3>2, <3>8, <3>9, <3>10, AtWork
  <2> QED BY <1>3, <2>3, <2>4 DEF CreateNew
<1>4. ASSUME StopOld \/ StartNew
      PROVE  Inv'
  <2>1. PICK i \in Boxes, on \in BOOLEAN, step \in {"start", "health", "unmake", "undoStop"} :
          (box' = box \/ box' = Turned(i, on)) /\ Goes(step)
    <3>1. job.at \in {"stop", "start"}
      BY <1>4 DEF StopOld, StartNew
    <3>2. job.new \in Boxes
      BY <3>1 DEF Inv, SwapStep
    <3> QED BY <1>0, <1>4, <3>2 DEF StopOld, StartNew
  <2>2. job.at \in {"stop", "start"} /\ Rest /\ UNCHANGED saved
    BY <1>4 DEF StopOld, StartNew
  <2>3. /\ job' \in Job /\ job'.at = step /\ job'.old = job.old /\ job'.new = job.new
        /\ job'.status = job.status
    BY <1>a, <2>1, GoesOn
  <2>4. /\ box' \in [Boxes -> Box] /\ \A m : Named(m)' = Named(m)
        /\ \A j \in Boxes : box'[j].name = box[j].name
    <3>1. CASE box' = box
      BY <3>1 DEF Inv, TypeOK, Named
    <3>2. CASE box' = Turned(i, on)
      BY <3>2, Turns DEF Inv
    <3> QED BY <2>1, <3>1, <3>2
  <2>5. Holds({job.new}, {job.old}) /\ job.new # job.old /\ job.new \in Boxes
    BY <2>2 DEF Inv, SwapStep
  <2>6. TypeOK' /\ Unused' /\ SwapStep'
    BY <2>2, <2>3, <2>4, <2>5 DEF Inv, TypeOK, Unused, SwapStep, Holds
  <2> QED BY <1>0, <2>2, <2>3, <2>6, AtWork
<1>5. CASE Health
  <2>1. job.at = "health" /\ UNCHANGED <<box, saved, pinned, up, rec, begun, crashes>>
        /\ (Goes("remove") \/ Goes("undoStop"))
    BY <1>5 DEF Health
  <2>2. job' \in Job /\ job'.at \in {"remove", "undoStop"} /\ job'.old = job.old /\ job'.new = job.new
        /\ job'.status = job.status
    BY <1>a, <2>1, GoesOn
  <2>3. TypeOK' /\ Unused' /\ SwapStep'
    BY <2>1, <2>2 DEF Inv, TypeOK, Unused, SwapStep, Holds, Named
  <2> QED BY <1>0, <2>1, <2>2, <2>3, AtWork
<1> QED BY <1>1, <1>2, <1>3, <1>4, <1>5

\* The end of an upgrade that went well
LEMMA InvSucceed ==
  ASSUME Orderly, Inv, Succeed, UNCHANGED <<up, rec, begun, crashes>>
  PROVE  Inv'
<1>0. /\ job.old \in Boxes /\ job.to \in Images
      /\ job.at # "idle" => up /\ saved = "running" /\ job.status = "running" /\ rec.at = "off"
  BY DEF Inv, TypeOK, Job, Turn
<1>a. "succeeded" \in Statuses \ {"running"} /\ {"pin", "succeed"} \subseteq Steps
  BY DEF Statuses, Steps
<1>1. CASE job.at = "remove" /\ box' = Removed(job.old) /\ Goes("pin") /\ UNCHANGED <<saved, pinned>>
  <2>1. Holds({job.new}, {job.old}) /\ job.new # job.old /\ job.new \in Boxes
    BY <1>1 DEF Inv, SwapStep
  <2>2. job' \in Job /\ job'.at = "pin" /\ job'.new = job.new /\ job'.status = job.status
    BY <1>a, <1>1, GoesOn
  <2>3. There(job.old)
    BY <1>0, <2>1, ThereIs DEF Holds
  <2>4. /\ box' \in [Boxes -> Box]
        /\ Named("engine")' = Named("engine") \ {job.old} /\ Named("old")' = Named("old") \ {job.old}
        /\ \A j \in Boxes : j # job.old => box'[j] = box[j]
        /\ box'[job.old].name = "removed"
    BY <1>0, <1>1, <2>3, Removes DEF Inv
  <2>5. TypeOK'
    BY <1>1, <2>2, <2>4 DEF Inv, TypeOK
  <2>6. ~(job.old > begun)
    BY <1>0, <2>1 DEF Inv, Unused, Holds, Named
  <2>7. Unused'
    BY <2>2, <2>4, <2>6 DEF Inv, Unused
  <2>8. Named("engine")' = {job.new} /\ Named("old")' = {}
    BY <2>1, <2>4 DEF Holds
  <2>9. SwapStep'
    BY <2>1, <2>2, <2>8 DEF SwapStep, Holds
  <2> QED BY <1>0, <1>1, <2>2, <2>5, <2>7, <2>9, AtWork
<1>2. CASE job.at = "pin" /\ pinned' = job.to /\ Goes("succeed") /\ UNCHANGED <<box, saved>>
  <2>1. job' \in Job /\ job'.at = "succeed" /\ job'.new = job.new /\ job'.status = job.status
    BY <1>a, <1>2, GoesOn
  <2>2. TypeOK' /\ Unused' /\ SwapStep'
    BY <1>0, <1>2, <2>1 DEF Inv, TypeOK, Unused, SwapStep, Holds, Named
  <2> QED BY <1>0, <1>2, <2>1, <2>2, AtWork
<1>3. CASE job.at = "succeed" /\ Finished("succeeded") /\ UNCHANGED <<box, pinned>>
  <2>1. Holds({job.new}, {}) /\ pinned' \in Images
    BY <1>3 DEF Inv, SwapStep, TypeOK
  <2> QED BY <1>a, <1>3, <2>1, WorkOver
<1> QED BY <1>1, <1>2, <1>3 DEF Succeed

\* The steps of a rollback
LEMMA InvUndo ==
  ASSUME Orderly, Inv, Undo
  PROVE  Inv'
<1>0. /\ job.old \in Boxes
      /\ job.at # "idle" => up /\ saved = "running" /\ job.status = "running" /\ rec.at = "off"
      /\ UNCHANGED <<pinned, up, rec, begun, crashes>> /\ pinned' \in Images
  BY DEF Inv, TypeOK, Job, Turn, Undo
<1>a. /\ {"failed", "rolled_back"} \subseteq Statuses \ {"running"}
      /\ {"unname", "fail", "undoRemove", "undoName", "undoStart", "rollBack"} \subseteq Steps
  BY DEF Statuses, Steps
\* What is new is removed.
<1>1. ASSUME job.at \in {"unmake", "undoRemove"}, box' = Removed(job.new),
             NEW step \in {"unname", "undoName"}, Goes(step), UNCHANGED saved
      PROVE  Inv'
  <2>1. Holds({job.new}, {job.old}) /\ job.new # job.old /\ job.new \in Boxes
    BY <1>1 DEF Inv, SwapStep
  <2>2. job' \in Job /\ job'.at = step /\ job'.old = job.old /\ job'.status = job.status
    BY <1>a, <1>1, GoesOn
  <2>3. There(job.new)
    BY <2>1, ThereIs DEF Holds
  <2>4. /\ box' \in [Boxes -> Box]
        /\ Named("engine")' = Named("engine") \ {job.new} /\ Named("old")' = Named("old") \ {job.new}
        /\ \A j \in Boxes : j # job.new => box'[j] = box[j]
    BY <1>1, <2>1, <2>3, Removes DEF Inv
  <2>5. TypeOK'
    BY <1>0, <1>1, <2>2, <2>4 DEF Inv, TypeOK
  <2>6. ~(job.new > begun)
    BY <2>1 DEF Inv, Unused, Holds, Named
  <2>7. Unused'
    BY <1>0, <2>2, <2>4, <2>6 DEF Inv, Unused
  <2>8. Named("engine")' = {} /\ Named("old")' = {job.old}
    BY <2>1, <2>4 DEF Holds
  <2>9. SwapStep'
    BY <2>2, <2>8 DEF SwapStep, Holds
  <2> QED BY <1>0, <1>1, <2>2, <2>5, <2>7, <2>9, AtWork
\* The name is given back.
<1>2. ASSUME job.at \in {"unname", "undoName"}, box' = RestoredName,
             NEW step \in {"fail", "undoStart"}, Goes(step), UNCHANGED saved
      PROVE  Inv'
  <2>1. Holds({}, {job.old})
    BY <1>2 DEF Inv, SwapStep
  <2>2. job' \in Job /\ job'.at = step /\ job'.old = job.old /\ job'.status = job.status
    BY <1>a, <1>2, GoesOn
  <2>3. CanRename(job.old, "engine") /\ box' = Renamed(job.old, "engine")
    BY <1>0, <1>2, <2>1, ThereIs DEF Holds, CanRename, RestoredName
  <2>4. /\ box' \in [Boxes -> Box] /\ Named("engine")' = Named("engine") \cup {job.old}
        /\ Named("old")' = Named("old") \ {job.old}
        /\ \A j \in Boxes : j # job.old => box'[j] = box[j]
    BY <1>0, <2>3, Renames DEF Inv
  <2>5. TypeOK'
    BY <1>0, <1>2, <2>2, <2>4 DEF Inv, TypeOK
  <2>6. ~(job.old > begun)
    BY <1>0, <2>1 DEF Inv, Unused, Holds, Named
  <2>7. Unused'
    BY <1>0, <2>2, <2>4, <2>6 DEF Inv, Unused
  <2>8. Named("engine")' = {job.old} /\ Named("old")' = {}
    BY <2>1, <2>4 DEF Holds
  <2>9. SwapStep'
    BY <2>2, <2>8 DEF SwapStep, Holds
  <2> QED BY <1>0, <1>2, <2>2, <2>5, <2>7, <2>9, AtWork
<1>3. CASE job.at = "undoStop" /\ box' = Turned(job.new, FALSE) /\ Goes("undoRemove") /\ UNCHANGED saved
  <2>1. Holds({job.new}, {job.old}) /\ job.new # job.old /\ job.new \in Boxes
    BY <1>3 DEF Inv, SwapStep
  <2>2. /\ job' \in Job /\ job'.at = "undoRemove" /\ job'.old = job.old /\ job'.new = job.new
        /\ job'.status = job.status
    BY <1>a, <1>3, GoesOn
  <2>3. /\ box' \in [Boxes -> Box] /\ \A m : Named(m)' = Named(m)
        /\ \A j \in Boxes : box'[j].name = box[j].name
    BY <1>3, <2>1, Turns DEF Inv
  <2>4. TypeOK' /\ Unused' /\ SwapStep'
    BY <1>0, <1>3, <2>1, <2>2, <2>3 DEF Inv, TypeOK, Unused, SwapStep, Holds
  <2> QED BY <1>0, <1>3, <2>2, <2>4, AtWork
<1>4. CASE job.at = "undoStart" /\ box' = Turned(job.old, TRUE) /\ Goes("rollBack") /\ UNCHANGED saved
  <2>1. Holds({job.old}, {})
    BY <1>4 DEF Inv, SwapStep
  <2>2. /\ job' \in Job /\ job'.at = "rollBack" /\ job'.old = job.old /\ job'.status = job.status
    BY <1>a, <1>4, GoesOn
  <2>3. There(job.old)
    BY <1>0, <2>1, ThereIs DEF Holds
  <2>4. /\ box' \in [Boxes -> Box] /\ \A m : Named(m)' = Named(m)
        /\ \A j \in Boxes : box'[j].name = box[j].name
        /\ box'[job.old].up
    BY <1>0, <1>4, <2>3, Turns DEF Inv
  <2>5. TypeOK' /\ Unused' /\ SwapStep'
    BY ZenonT(60), <1>0, <1>4, <2>1, <2>2, <2>4 DEF Inv, TypeOK, Unused, SwapStep, Holds
  <2> QED BY <1>0, <1>4, <2>2, <2>5, AtWork
<1>5. ASSUME job.at \in {"fail", "rollBack"}, NEW st \in {"failed", "rolled_back"}, Finished(st), UNCHANGED box
      PROVE  Inv'
  <2>1. Holds({job.old}, {})
    BY <1>5 DEF Inv, SwapStep
  <2>2. st \in Statuses \ {"running"}
    BY <1>a
  <2> QED BY <1>0, <1>5, <2>1, <2>2, WorkOver
<1> QED BY <1>1, <1>2, <1>3, <1>4, <1>5 DEF Undo, Abandon, RollBack

\* No step of an upgrade or of a recovery leaves more than one of a name.
LEMMA StepIsSwapped ==
  ASSUME Orderly, Inv
  PROVE  Swapped
<1>1. job.at \in Steps /\ job.old \in Boxes
  BY DEF Inv, TypeOK, Job
<1>2. rec.at \in {"off", "due", "keep", "drop", "rename", "start"} /\ rec.old \in Boxes
  BY DEF Inv, TypeOK, Recovery
<1>3. CASE job.at = "idle" /\ rec.at = "off"
  BY <1>3 DEF Inv
<1>4. CASE rec.at = "due"
  BY <1>4 DEF Inv, RecoveryStep
<1>5. CASE rec.at = "keep"
  <2>1. Holds({rec.cur}, rec.olds) /\ AtMostOne(rec.olds)
    BY <1>5 DEF Inv, RecoveryStep
  <2> QED BY <2>1, HoldsIsSwapped DEF AtMostOne
<1>6. CASE rec.at \in {"drop", "rename", "start"}
  <2>1. \E e : AtMostOne(e) /\ (Holds(e, {rec.old}) \/ (e = {rec.old} /\ Holds(e, {})))
    BY <1>6 DEF Inv, RecoveryStep, AtMostOne
  <2> QED BY <2>1, HoldsIsSwapped DEF AtMostOne
<1>7. CASE job.at # "idle"
  <2>1. Holds({job.old}, {}) \/ Holds({}, {job.old}) \/ Holds({job.new}, {job.old}) \/ Holds({job.new}, {})
    BY <1>1, <1>7 DEF Inv, SwapStep, Steps
  <2> QED BY <2>1, HoldsIsSwapped DEF AtMostOne
<1> QED BY <1>2, <1>3, <1>4, <1>5, <1>6, <1>7

\* Relay dies.
LEMMA InvCrash ==
  ASSUME Orderly, Inv, Crash
  PROVE  Inv'
<1>1. /\ up /\ up' = FALSE /\ crashes < MaxCrashes /\ crashes' = crashes + 1
      /\ job' = [job EXCEPT !.at = "idle"] /\ rec' = [rec EXCEPT !.at = "off"]
      /\ UNCHANGED <<box, saved, pinned, begun>>
  BY DEF Crash
<1>2. job' \in Job /\ job'.at = "idle" /\ rec' \in Recovery /\ rec'.at = "off"
  BY <1>1 DEF Inv, TypeOK, Job, Recovery, Steps
<1>3. TypeOK'
  <2>1. crashes' \in 0..MaxCrashes
    BY <1>1 DEF Inv, TypeOK, Orderly
  <2>2. up' \in BOOLEAN
    BY <1>1
  <2> QED BY <1>1, <1>2, <2>1, <2>2 DEF Inv, TypeOK
<1>4. Turn' /\ Unused' /\ SwapStep' /\ RecoveryStep'
  BY <1>1, <1>2 DEF Inv, Turn, Unused, SwapStep, RecoveryStep
<1>5. Swapped'
  BY <1>1, StepIsSwapped DEF Swapped, There, Named, AtMostOne
<1>6. saved # "running" => Clean
  BY <1>1 DEF Inv, Turn
<1>7. saved' # "running" => Clean'
  BY <1>1, <1>6 DEF Clean, Named, AtMostOne
<1> QED BY <1>1, <1>2, <1>3, <1>4, <1>5, <1>7 DEF Inv

\* Relay starts, and interrupts what it finds running.
LEMMA InvRestart ==
  ASSUME Orderly, Inv, Restart
  PROVE  Inv'
<1>1. /\ ~up /\ up'
      /\ job' = [job EXCEPT !.status = IF saved = "running" THEN "failed" ELSE saved]
      /\ rec' = [rec EXCEPT !.at = IF saved = "running" THEN "due" ELSE "off"]
      /\ UNCHANGED <<box, saved, pinned, begun, crashes>>
  BY DEF Restart, Interrupted, SavedAtStart
<1>2. job.at = "idle" /\ rec.at = "off" /\ Swapped /\ (saved # "running" => Clean)
  BY <1>1 DEF Inv, Turn
<1>3. job' \in Job /\ job'.at = "idle" /\ job'.status # "running"
  BY <1>1, <1>2 DEF Inv, TypeOK, Job, Statuses
<1>4. rec' \in Recovery /\ rec'.at = IF saved = "running" THEN "due" ELSE "off"
  BY <1>1 DEF Inv, TypeOK, Recovery
<1>5. TypeOK'
  BY <1>1, <1>3, <1>4 DEF Inv, TypeOK
<1>6. Swapped' /\ (saved # "running" => Clean')
  BY <1>1, <1>2 DEF Swapped, Clean, Named, There, AtMostOne
<1>7. Turn' /\ Unused' /\ SwapStep' /\ RecoveryStep'
  BY <1>1, <1>3, <1>4, <1>6 DEF Inv, Turn, Unused, SwapStep, RecoveryStep
<1> QED BY <1>1, <1>3, <1>4, <1>5, <1>6, <1>7 DEF Inv

-----------------------------------------------------------------------------
(* The recovery                                                            *)

\* A recovery at work
LEMMA AtRecovery ==
  ASSUME Orderly, Inv, rec.at # "off", TypeOK', Unused', RecoveryStep', rec'.at # "off",
         UNCHANGED <<job, up, saved>>
  PROVE  Inv'
<1>1. job.at = "idle" /\ up /\ saved = "running" /\ job.status # "running"
  BY DEF Inv, Turn
<1> QED BY <1>1 DEF Inv, Turn, SwapStep

\* A recovery that is over
LEMMA RecoveryOver ==
  ASSUME Orderly, Inv, rec.at # "off", TypeOK', Unused', rec'.at = "off", Clean',
         \E i \in Boxes : There(i)', UNCHANGED <<job, up>>
  PROVE  Inv'
<1>1. job.at = "idle" /\ up /\ job.status # "running"
  BY DEF Inv, Turn
<1>2. Swapped'
  BY DEF Swapped, Clean, AtMostOne
<1> QED BY <1>1, <1>2 DEF Inv, Turn, SwapStep, RecoveryStep

\* Recovery looks which containers there are.
LEMMA InvLook ==
  ASSUME Orderly, Inv, Look
  PROVE  Inv'
<1>1. rec.at = "due" /\ UNCHANGED <<box, job, saved, pinned, up, begun, crashes>>
  BY DEF Look
<1>2. Swapped
  BY <1>1 DEF Inv, RecoveryStep
<1>3. Unused'
  BY <1>1 DEF Inv, Unused
<1>4. CASE Named("old") = {} /\ rec' = [rec EXCEPT !.at = "off"]
  <2>1. rec' \in Recovery /\ rec'.at = "off"
    BY <1>4 DEF Inv, TypeOK, Recovery
  <2>2. TypeOK'
    BY <1>1, <2>1 DEF Inv, TypeOK
  <2>3. Clean /\ \E i \in Boxes : There(i)
    BY <1>2, <1>4, ThereIs DEF Swapped, Clean
  <2>4. Clean' /\ \E i \in Boxes : There(i)'
    BY <1>1, <2>3 DEF Clean, Named, AtMostOne, There
  <2> QED BY <1>1, <1>3, <2>1, <2>2, <2>4, RecoveryOver
<1>5. ASSUME NEW o \in Named("old"), NEW at \in {"keep", "drop"}, NEW olds \in {Named("old"), {}},
             at = "keep" => Current # None /\ olds = Named("old"),
             rec' = [at |-> at, old |-> o, olds |-> olds, cur |-> Current]
      PROVE  Inv'
  <2>1. o \in Boxes /\ Named("old") = {o} /\ olds \in SUBSET Boxes
    BY <1>2, <1>5 DEF Swapped, AtMostOne, Named
  <2>2. Current \in Boxes \cup {None}
    BY CurrentIs DEF Named
  <2>3. rec' \in Recovery /\ rec'.at = at /\ rec'.old = o /\ rec'.olds = olds /\ rec'.cur = Current
    BY <1>5, <2>1, <2>2 DEF Recovery
  <2>4. TypeOK'
    BY <1>1, <2>3 DEF Inv, TypeOK
  <2>5. Named("engine") = {Current} \ {None}
    <3>1. CASE Named("engine") = {}
      BY <3>1, CurrentIs
    <3>2. CASE Named("engine") # {}
      BY <1>2, <3>2, CurrentIs DEF Swapped, AtMostOne, Orderly, Named
    <3> QED BY <3>1, <3>2
  <2>6. RecoveryStep'
    <3>1. \A m : Named(m)' = Named(m)
      BY <1>1 DEF Named
    <3>2. CASE at = "keep"
      BY <1>5, <2>1, <2>3, <2>5, <3>1, <3>2 DEF RecoveryStep, Holds, AtMostOne
    <3>3. CASE at = "drop"
      BY <2>1, <2>3, <2>5, <3>1, <3>3 DEF RecoveryStep, Holds
    <3> QED BY <1>5, <3>2, <3>3
  <2> QED BY <1>1, <1>3, <1>5, <2>3, <2>4, <2>6, AtRecovery
<1>6. CASE Named("old") # {}
  <2>1. PICK o \in Named("old") :
          \/ Keeps(Current) /\ rec' = [at |-> "keep", old |-> o, olds |-> Named("old"), cur |-> Current]
          \/ rec' = [at |-> "drop", old |-> o, olds |-> {}, cur |-> Current]
    BY <1>6 DEF Look
  <2>2. CASE Keeps(Current) /\ rec' = [at |-> "keep", old |-> o, olds |-> Named("old"), cur |-> Current]
    BY <1>5, <2>2 DEF Keeps
  <2>3. CASE rec' = [at |-> "drop", old |-> o, olds |-> {}, cur |-> Current]
    BY <1>5, <2>3
  <2> QED BY <2>1, <2>2, <2>3
<1> QED BY <1>4, <1>6 DEF Look

\* Recovery keeps the new container.
LEMMA InvKeep ==
  ASSUME Orderly, Inv, Keep, UNCHANGED <<job, up, begun, crashes>>
  PROVE  Inv'
<1>0. /\ rec.at = "keep" /\ saved = "running" /\ job.at = "idle" /\ job.status \in Statuses
      /\ rec.cur \in Boxes \cup {None} /\ rec.cur # None /\ rec.olds \in SUBSET Boxes /\ AtMostOne(rec.olds)
      /\ Named("engine") = {rec.cur} /\ Named("old") = rec.olds
  BY DEF Keep, Inv, Turn, TypeOK, Job, Recovery, RecoveryStep, Holds
<1>1. ASSUME NEW o \in rec.olds, box' = Removed(o), rec' = [rec EXCEPT !.olds = @ \ {o}],
             UNCHANGED <<saved, pinned>>
      PROVE  Inv'
  <2>1. rec' \in Recovery /\ rec'.at = "keep" /\ rec'.olds = rec.olds \ {o} /\ rec'.cur = rec.cur
    <3>1. rec' = [at |-> rec.at, old |-> rec.old, olds |-> rec.olds \ {o}, cur |-> rec.cur]
      BY <1>1 DEF Inv, TypeOK, Recovery
    <3> QED BY <1>0, <3>1 DEF Inv, TypeOK, Recovery
  <2>2. o \in Boxes /\ There(o) /\ o # rec.cur
    BY <1>0, <1>1, ThereIs DEF Named
  <2>3. /\ box' \in [Boxes -> Box]
        /\ Named("engine")' = Named("engine") \ {o} /\ Named("old")' = Named("old") \ {o}
        /\ \A j \in Boxes : j # o => box'[j] = box[j]
    BY <1>1, <2>2, Removes DEF Inv
  <2>4. TypeOK'
    BY <1>1, <2>1, <2>3 DEF Inv, TypeOK
  <2>5. ~(o > begun)
    BY <1>0, <1>1, <2>2 DEF Inv, Unused, Named
  <2>6. Unused'
    BY <1>0, <2>3, <2>5 DEF Inv, Unused
  <2>7. RecoveryStep'
    BY <1>0, <2>1, <2>2, <2>3 DEF RecoveryStep, Holds, AtMostOne
  <2> QED BY <1>0, <1>1, <2>1, <2>4, <2>6, <2>7, AtRecovery
<1>2. CASE rec.olds = {} /\ pinned' = box[rec.cur].image /\ Recovered /\ UNCHANGED box
  <2>1. rec' = [rec EXCEPT !.at = "off"] /\ saved' = job.status
    BY <1>2 DEF Recovered
  <2>2. rec' \in Recovery /\ rec'.at = "off"
    BY <2>1 DEF Inv, TypeOK, Recovery
  <2>3. pinned' \in Images
    BY <1>0, <1>2 DEF Inv, TypeOK, Box
  <2>4. TypeOK' /\ Unused'
    BY <1>0, <1>2, <2>1, <2>2, <2>3 DEF Inv, TypeOK, Unused
  <2>5. Clean /\ There(rec.cur) /\ rec.cur \in Boxes
    BY <1>0, <1>2, ThereIs DEF Clean, AtMostOne
  <2>6. Clean' /\ \E i \in Boxes : There(i)'
    BY <1>2, <2>5 DEF Clean, Named, AtMostOne, There
  <2> QED BY <1>0, <1>2, <2>2, <2>4, <2>6, RecoveryOver
<1> QED BY <1>1, <1>2 DEF Keep

\* Recovery puts the old container back.
LEMMA InvPutBack ==
  ASSUME Orderly, Inv, PutBack, UNCHANGED <<job, pinned, up, begun, crashes>>
  PROVE  Inv'
<1>0. /\ rec.at # "off" /\ saved = "running" /\ job.at = "idle" /\ job.status \in Statuses
      /\ rec.old \in Boxes /\ rec.cur \in Boxes \cup {None}
  BY DEF PutBack, Inv, Turn, TypeOK, Job, Recovery
<1>1. CASE rec.at = "drop" /\ box' = Removed(rec.cur) /\ rec' = [rec EXCEPT !.at = "rename"] /\ UNCHANGED saved
  <2>1. Named("engine") = {rec.cur} \ {None} /\ Named("old") = {rec.old}
    BY <1>1 DEF Inv, RecoveryStep, Holds
  <2>2. rec' \in Recovery /\ rec'.at = "rename" /\ rec'.old = rec.old
    BY <1>1 DEF Inv, TypeOK, Recovery
  <2>3. CASE rec.cur = None
    <3>1. box' = box
      BY <1>1, <2>3 DEF Removed, There
    <3>2. TypeOK' /\ Unused' /\ RecoveryStep'
      BY <1>0, <1>1, <2>1, <2>2, <2>3, <3>1 DEF Inv, TypeOK, Unused, RecoveryStep, Holds, Named
    <3> QED BY <1>0, <1>1, <2>2, <3>2, AtRecovery
  <2>4. CASE rec.cur # None
    <3>1. rec.cur \in Boxes /\ There(rec.cur)
      BY <1>0, <2>1, <2>4, ThereIs
    <3>2. /\ box' \in [Boxes -> Box]
          /\ Named("engine")' = Named("engine") \ {rec.cur} /\ Named("old")' = Named("old") \ {rec.cur}
          /\ \A j \in Boxes : j # rec.cur => box'[j] = box[j]
      BY <1>1, <3>1, Removes DEF Inv
    <3>3. rec.cur \in Named("engine") /\ rec.cur # rec.old
      BY <2>1, <2>4, <3>1 DEF Named
    <3>4. ~(rec.cur > begun)
      BY <3>1, <3>3 DEF Inv, Unused, Named
    <3>5. TypeOK' /\ Unused'
      BY <1>0, <1>1, <2>2, <3>2, <3>4 DEF Inv, TypeOK, Unused
    <3>6. RecoveryStep'
      BY <2>1, <2>2, <2>4, <3>2, <3>3 DEF RecoveryStep, Holds
    <3> QED BY <1>0, <1>1, <2>2, <3>5, <3>6, AtRecovery
  <2> QED BY <2>3, <2>4
<1>2. CASE rec.at = "rename"
  <2>1. Named("engine") = {} /\ Named("old") = {rec.old}
    BY <1>2 DEF Inv, RecoveryStep, Holds
  <2>2. There(rec.old) /\ CanRename(rec.old, "engine")
    BY <1>0, <2>1, ThereIs DEF CanRename
  <2>3. box' = Renamed(rec.old, "engine") /\ rec' = [rec EXCEPT !.at = "start"] /\ UNCHANGED saved
    BY <1>2, <2>2 DEF PutBack
  <2>4. rec' \in Recovery /\ rec'.at = "start" /\ rec'.old = rec.old
    BY <2>3 DEF Inv, TypeOK, Recovery
  <2>5. /\ box' \in [Boxes -> Box] /\ Named("engine")' = Named("engine") \cup {rec.old}
        /\ Named("old")' = Named("old") \ {rec.old}
        /\ \A j \in Boxes : j # rec.old => box'[j] = box[j]
    BY <1>0, <2>2, <2>3, Renames DEF Inv
  <2>6. ~(rec.old > begun)
    BY <1>0, <2>1 DEF Inv, Unused, Named
  <2>7. TypeOK' /\ Unused'
    BY <1>0, <2>3, <2>4, <2>5, <2>6 DEF Inv, TypeOK, Unused
  <2>8. RecoveryStep'
    BY <2>1, <2>4, <2>5 DEF RecoveryStep, Holds
  <2> QED BY <1>0, <2>3, <2>4, <2>7, <2>8, AtRecovery
<1>3. CASE rec.at = "start" /\ box' = Turned(rec.old, TRUE) /\ Recovered
  <2>1. Named("engine") = {rec.old} /\ Named("old") = {}
    BY <1>3 DEF Inv, RecoveryStep, Holds
  <2>2. rec' = [rec EXCEPT !.at = "off"] /\ saved' = job.status
    BY <1>3 DEF Recovered
  <2>3. rec' \in Recovery /\ rec'.at = "off"
    BY <2>2 DEF Inv, TypeOK, Recovery
  <2>4. /\ box' \in [Boxes -> Box] /\ \A m : Named(m)' = Named(m)
        /\ \A j \in Boxes : box'[j].name = box[j].name
    BY <1>0, <1>3, Turns DEF Inv
  <2>5. TypeOK' /\ Unused'
    BY <1>0, <2>2, <2>3, <2>4 DEF Inv, TypeOK, Unused
  <2>6. Clean' /\ There(rec.old)
    BY <1>0, <2>1, <2>4, ThereIs DEF Clean, AtMostOne
  <2>7. \E i \in Boxes : There(i)'
    BY <1>0, <2>4, <2>6 DEF There
  <2> QED BY <1>0, <2>3, <2>5, <2>6, <2>7, RecoveryOver
<1> QED BY <1>1, <1>2, <1>3 DEF PutBack

\* The reconcile loop starts a container, and no upgrade has the lock.
LEMMA InvReconcile ==
  ASSUME Orderly, Inv, Reconcile
  PROVE  Inv'
<1>1. /\ up /\ job.at = "idle" /\ Current # None /\ box' = Turned(Current, TRUE)
      /\ UNCHANGED <<job, saved, pinned, up, rec, begun, crashes>>
  BY DEF Reconcile, Locked
<1>2. Current \in Boxes
  BY <1>1, CurrentIs DEF Named
<1>3. /\ box' \in [Boxes -> Box] /\ \A m : Named(m)' = Named(m)
      /\ \A j \in Boxes : box'[j].name = box[j].name
  BY <1>1, <1>2, Turns DEF Inv
<1>4. \A i \in Boxes : There(i)' <=> There(i)
  BY <1>3 DEF There
<1>5. (Swapped => Swapped') /\ (Clean => Clean')
  BY <1>3, <1>4 DEF Swapped, Clean, AtMostOne
<1>6. TypeOK' /\ Unused' /\ Turn'
  BY <1>1, <1>3 DEF Inv, TypeOK, Unused, Turn
<1>7. SwapStep' /\ RecoveryStep'
  BY <1>1, <1>3, <1>5 DEF Inv, SwapStep, RecoveryStep, Holds, AtMostOne
<1> QED BY <1>1, <1>5, <1>6, <1>7 DEF Inv

-----------------------------------------------------------------------------
(* The theorems                                                            *)

\* Every step of Upgrade
LEMMA InvStep ==
  ASSUME Orderly, Inv, [Next]_vars
  PROVE  Inv'
<1>1. CASE Next
  BY <1>1, InvBegin, InvRunsForward, InvUndo, InvSucceed, InvCrash, InvRestart, InvLook, InvKeep, InvPutBack,
     InvReconcile DEF Next, RunUpgrade, Recover
<1>2. CASE UNCHANGED vars
  BY <1>2 DEF vars, Inv, TypeOK, Turn, Unused, SwapStep, RecoveryStep, Swapped, Clean, Holds, Named, There,
     AtMostOne
<1> QED BY <1>1, <1>2

\* The inductive invariant of upgrades and their recovery.  (upgrade.go)
THEOREM InvHolds ==
  ASSUME Orderly
  PROVE  Spec => []Inv
<1>1. Init => Inv
  BY InvInit
<1>2. Inv /\ [Next]_vars => Inv'
  BY InvStep
<1> QED BY <1>1, <1>2, PTL DEF Spec

\* Every variable keeps its type, for every number of upgrades and of deaths.
THEOREM TypeCorrect ==
  ASSUME Orderly
  PROVE  Spec => []TypeOK
<1>1. Inv => TypeOK
  BY DEF Inv
<1> QED BY <1>1, InvHolds, PTL

\* Wherever Relay dies, there is a container of the engine to go back to, and once
\* no upgrade and no recovery is going on, it is the only one and has the engine's
\* name: EngineKept holds for every number of upgrades and of deaths.
\* (upgrade.go, recoverInterrupted)
THEOREM EngineIsKept ==
  ASSUME Orderly
  PROVE  Spec => []EngineKept
<1>1. Inv => EngineKept
  <2> SUFFICES ASSUME Inv PROVE EngineKept
    OBVIOUS
  <2>1. \E i \in Boxes : There(i)
    BY StepIsSwapped DEF Swapped
  <2>2. ASSUME Quiet
        PROVE  (\E i \in Boxes : Named("engine") = {i}) /\ Named("old") = {}
    <3>1. Clean
      BY <2>2 DEF Quiet, Inv
    <3>2. PICK i \in Named("engine") : Named("engine") = {i}
      BY <3>1 DEF Clean, AtMostOne
    <3> QED BY <3>1, <3>2 DEF Clean, Named
  <2> QED BY <2>1, <2>2 DEF EngineKept
<1> QED BY <1>1, InvHolds, PTL

\* An upgrade that fails, and one that is rolled back, leaves the container there
\* was under its name and its image pinned, running after a rollback: FailureKeepsOld
\* holds for every number of upgrades and of deaths.  (rollback in upgrade.go)
THEOREM FailuresKeepOld ==
  ASSUME Orderly
  PROVE  Spec => FailureKeepsOld
<1> DEFINE A == Ends("rolled_back") => box'[job.old].name = "engine" /\ box'[job.old].up
           B == Ends("failed") \/ Ends("rolled_back") => box'[job.old].name = "engine" /\ pinned' = pinned
<1>1. Inv /\ [Next]_vars => [A /\ B]_vars
  <2> SUFFICES ASSUME Inv, Next, Ends("failed") \/ Ends("rolled_back")
               PROVE  /\ box'[job.old].name = "engine" /\ pinned' = pinned
                      /\ Ends("rolled_back") => box'[job.old].up
    OBVIOUS
  <2>1. job.at # "idle" /\ job.status = "running" /\ job.old \in Boxes
    BY DEF Ends, Inv, Turn, TypeOK, Job
  <2>2. rec.at = "off" /\ up
    BY <2>1 DEF Inv, Turn
  <2>3. \A s : Goes(s) => job'.status = "running"
    BY <2>1 DEF Inv, TypeOK, Job, Goes
  <2>4. job'.status \in {"failed", "rolled_back"}
    BY DEF Ends
  <2>5. ~Crash /\ ~Restart /\ ~Recover /\ ~Reconcile /\ ~(\E image \in Images : Begin(image))
    BY <2>1, <2>2, <2>4 DEF Crash, Restart, Recover, Look, Keep, PutBack, Reconcile, Locked, Begin, Inv, TypeOK, Job
  <2>6. ~CreateNew /\ ~StopOld /\ ~StartNew /\ ~Health
    BY <2>1, <2>3, <2>4 DEF CreateNew, StopOld, StartNew, Health, Inv, TypeOK, Job
  <2>7. ~Succeed
    BY <2>1, <2>3, <2>4 DEF Succeed, Finished, Inv, TypeOK, Job
  <2>8. /\ job.at \in {"prepare", "rename", "fail", "rollBack"}
        /\ UNCHANGED <<box, pinned>>
        /\ job'.status = "rolled_back" => job.at = "rollBack"
    BY <2>3, <2>4, <2>5, <2>6, <2>7 DEF Next, RunUpgrade, Prepare, RenameOld, Undo, Abandon, RollBack, Finished,
       Inv, TypeOK, Job
  <2>9. Holds({job.old}, {}) /\ (job.at = "rollBack" => box[job.old].up)
    BY <2>8 DEF Inv, SwapStep
  <2> QED BY <2>8, <2>9 DEF Holds, Named, Ends
<1>2. Spec => [][A /\ B]_vars
  BY <1>1, InvHolds, PTL DEF Spec
<1>3. [A /\ B]_vars => [A]_vars /\ [B]_vars
  OBVIOUS
<1> QED BY <1>2, <1>3, PTL DEF FailureKeepsOld, RollbackRestarts

=============================================================================
