----------------------------- MODULE AgentCalls -----------------------------
(***************************************************************************)
(* What one request does to one engine agent, as the apply pipeline sees   *)
(* it: the whole handler of src/internal/agent/server.go in one step.      *)
(* Agent is the same code one file operation at a time, and shows that its *)
(* requests are atomic (RequestsAreAtomic).                                *)
(*                                                                         *)
(* An agent is a record: its release store, the release its engine process *)
(* runs (None when it is down) and whether the supervisor wants it up.     *)
(*                                                                         *)
(* Left to Agent: file operations that fail halfway, an engine binary that *)
(* cannot be executed, and a release that was accepted once and is         *)
(* rejected later.                                                         *)
(***************************************************************************)
EXTENDS Releases

AgentState == [store : Store, proc : Release \cup {None}, want : BOOLEAN]

Serving(s) == [store |-> s, proc |-> s.current, want |-> TRUE]
Halted(s)  == [store |-> s, proc |-> None, want |-> FALSE]

Running(a) == a.proc # None

\* "configuration already active"
Active(a, h) == h = a.store.current /\ Running(a)

\* boot(): the agent of a container that has a release already.  One that was
\* stopped on purpose stays down.
Booted(a) ==
    IF a.store.current = None \/ a.store.stopped THEN Halted(a.store) ELSE Serving(a.store)

\* As CanDo, with a rollback always possible.
CanDoBlind(a, do) == IF do = "start" THEN a.store.current # None ELSE TRUE

\* Whether the agent has what the request needs.
CanDo(a, do) ==
    CASE do = "rollback" -> Previous(a.store) # None
      [] do = "start"    -> a.store.current # None
      [] OTHER           -> TRUE

\* the agent after a request it answered OK
Done(a, do, h, alwaysOn) ==
    CASE do = "apply"     -> IF Active(a, h) THEN a ELSE Serving(Applied(a.store, h, FALSE))
      [] do = "applyStop" -> Halted(Applied(a.store, h, TRUE))
      [] do = "stopOnly"  -> Halted(Marked(a.store, TRUE))
      [] do = "rollback"  -> Serving(Marked(RolledBack(a.store), FALSE))
      [] do = "start"     -> IF Running(a) THEN a ELSE Serving(Marked(a.store, FALSE))
      [] do = "stop"      -> Halted(IF alwaysOn THEN a.store ELSE Marked(a.store, TRUE))

\* The engine validated the release and then did not load it or did not stay
\* up: the release before it is active again.  An engine that was up goes on
\* serving it, one that was meant to be up is restarted on it, and one that was
\* stopped is marked so again.
Reverted(a, h, alwaysOn) ==
    LET back      == Marked(Undone(a.store, h), FALSE)
        shouldRun == a.want \/ (alwaysOn /\ ~a.store.stopped)
    IN  IF a.store.current # None /\ (Running(a) \/ shouldRun)
        THEN Serving(back)
        ELSE Halted(Marked(back, ~shouldRun))

\* the agents a request it refused may leave
Refusals(a, do, h, alwaysOn) ==
    CASE do = "apply" -> {a} \cup (IF Active(a, h) THEN {} ELSE {Reverted(a, h, alwaysOn)})
      [] ~CanDo(a, do) -> {a}
      [] OTHER -> {}
=============================================================================
