--------------------------- MODULE AgentContract ---------------------------
(***************************************************************************)
(* What an engine agent promises the apply pipeline: every request takes   *)
(* effect at once, when it is answered, or not at all.  Agent implements   *)
(* this under the mapping that shows the store a request found until the   *)
(* request is answered; Pipeline is built from the same whole-request      *)
(* operators of Releases.                                                  *)
(*                                                                         *)
(* The engine process is not part of the promise between answers: it may   *)
(* exit, restart, and during a request load one release or another.        *)
(***************************************************************************)
EXTENDS Releases

CONSTANTS
    AlwaysOn,   \* nginx, edge: engine.alwaysOn(), proxy() and bootstrap() # nil
    Selected    \* what /run/relay/proxy-engine says of a fresh config root

VARIABLES
    store,      \* the release store as the last answered request left it
    proc,       \* the release the engine runs, None when it is down
    answer      \* the last answer

vars == <<store, proc, answer>>

Ok(req, h) ==
    answer' = [req |-> req, ok |-> TRUE, hash |-> h, prev |-> store.current]

Refused(req, h) ==
    answer' = [req |-> req, ok |-> FALSE, hash |-> h, prev |-> store.current]

\* An applied release is active, recorded, and served if the engine is up.
ApplyDone(h) ==
    /\ Ok("apply", h)
    /\ \/ store' = Applied(store, h, FALSE)
       \/ h = store.current /\ UNCHANGED store
    /\ proc' \in {h, None}

\* A refused one changes neither the active release nor whether the engine is
\* stopped on purpose; only an engine that is not always on can end up stopped.
ApplyRefused(h) ==
    /\ Refused("apply", h)
    /\ store' \in {store, Written(store, h)}
                  \cup { Marked(Undone(store, h), m) : m \in BOOLEAN }
    /\ store.stopped => store'.stopped
    /\ store'.stopped /\ AlwaysOn => store.stopped
    /\ proc' \in {store.current, None}

ApplyStopDone(h) ==
    /\ Ok("applyStop", h)
    /\ store' = Applied(store, h, TRUE)
    /\ proc' = None

StopDone(req) ==
    /\ Ok(req, None)
    /\ store' = IF req = "stop" /\ AlwaysOn THEN store ELSE Marked(store, TRUE)
    /\ proc' = None

RollbackDone ==
    /\ Previous(store) # None
    /\ Ok("rollback", Previous(store))
    /\ store' = Marked(RolledBack(store), FALSE)
    /\ proc' \in {store'.current, None}

\* A rollback that fails to load its release has still gone back to it.
RollbackRefused ==
    /\ Refused("rollback", Previous(store))
    /\ store' = IF Previous(store) = None THEN store
                ELSE Marked(RolledBack(store), FALSE)
    /\ UNCHANGED proc

StartDone ==
    /\ \/ Ok("start", None) /\ UNCHANGED proc
       \/ Refused("start", None) /\ proc' = None
    /\ store' \in {store, Marked(store, FALSE)}

ReloadDone ==
    /\ \/ Ok("reload", None) /\ proc' \in {store.current, None}
       \/ Refused("reload", None) /\ UNCHANGED proc
    /\ UNCHANGED store

\* The engine exits, restarts, or loads a release during a request.
ProcMoves == UNCHANGED <<store, answer>> /\ proc' \in Release \cup {None}

\* The agent is killed: the request in progress has left the current link
\* where it was, on the release it applies or on the one it goes back to.
Killed ==
    /\ store'.current \in {store.current, Previous(store), Boot} \cup Hash
    /\ store'.current # None => store'.current \in store'.dirs
    /\ proc' = None
    /\ answer' = None

\* A fresh config root gets its bootstrap release, unless it needs none.
Booted ==
    /\ store' = IF store.current = None /\ AlwaysOn
                THEN Marked(Swapped(Written(store, Boot), Boot), ~Selected)
                ELSE store
    /\ proc' \in {store'.current, None}
    /\ store'.stopped => proc' = None
    /\ UNCHANGED answer

Init == store = EmptyStore /\ proc = None /\ answer = None

Next ==
    \/ \E h \in Hash : ApplyDone(h) \/ ApplyRefused(h) \/ ApplyStopDone(h)
    \/ StopDone("stopOnly") \/ StopDone("stop")
    \/ RollbackDone \/ RollbackRefused
    \/ StartDone \/ ReloadDone
    \/ ProcMoves \/ Killed \/ Booted

Spec == Init /\ [][Next]_vars
=============================================================================
