----------------------------- MODULE Approvals ------------------------------
(***************************************************************************)
(* MCP write calls that wait for an administrator (src/internal/mcp/       *)
(* approvals.go, service.go runWrite, src/internal/store/mcp_approvals.go). *)
(*                                                                         *)
(* Several sessions of one token send the same call, several               *)
(* administrators decide, the approvals expire, the token is revoked, and  *)
(* Relay may die at any step: what a row says outlives the goroutines that *)
(* wait for it and execute it.                                             *)
(***************************************************************************)
EXTENDS Naturals

CONSTANTS
    Clients,        \* sessions of the token
    Deciders,       \* administrators
    None,
    MaxApprovals,   \* bound: approvals filed
    MaxFaults       \* bound: deaths of Relay, outcomes that cannot be stored

Approvals == 1..MaxApprovals

VARIABLES
    rows,      \* rows[i]: the approvals; ran counts the executions
    client,    \* client[c]: a call, and how it was answered
    decider,   \* decider[d]: a request to approve or deny
    usable,    \* the token is
    perm,      \* the tool's permission in the settings, which changes once
    faults

vars == <<rows, client, decider, usable, perm, faults>>

Outputs == {"none", "ok", "failed"}

Row == [status : {"none", "pending", "approved", "denied", "expired"},
        due : BOOLEAN, output : Outputs, ran : Nat]

Call == [at : {"idle", "begun", "find", "file", "wait"}, id : Approvals \cup {None},
         answer : {"none", "ok", "failed", "denied", "expired"}]

Decision == [at : {"idle", "read", "plan", "exec", "store"}, id : Approvals \cup {None}, out : Outputs]

TypeOK ==
    /\ rows \in [Approvals -> Row]
    /\ client \in [Clients -> Call]
    /\ decider \in [Deciders -> Decision]
    /\ usable \in BOOLEAN
    /\ perm \in {"allow", "confirm", "disabled"}
    /\ faults \in 0..MaxFaults

Fault == faults < MaxFaults /\ faults' = faults + 1

-----------------------------------------------------------------------------
(* The rows                                                                *)

Pending == {i \in Approvals : rows[i].status = "pending"}
Live    == {i \in Pending : ~rows[i].due}
Unused  == {i \in Approvals : rows[i].status = "none"}

\* As Decided, whatever the row says by now.
DecidedAnyway(i, status) == [rows EXCEPT ![i].status = status]

\* MCPDecideApproval: only a row that is pending changes.  (The time a decision
\* is compared with was read before the row, so it is not late here.)
Decided(i, status) == IF i \in Pending THEN [rows EXCEPT ![i].status = status] ELSE rows

\* The janitor, or who finds an approval due
Expire(i) ==
    /\ i \in Pending \ Live
    /\ rows' = Decided(i, "expired")

TimePasses(i) ==
    /\ i \in Live
    /\ rows' = [rows EXCEPT ![i].due = TRUE]

-----------------------------------------------------------------------------
(* A call                                                                  *)

Calls(c, step) == client' = [client EXCEPT ![c].at = step]

NoCall == [at |-> "idle", id |-> None, answer |-> "none"]

\* nobody is told anything of an approval
CallOver(c) == client' = [client EXCEPT ![c] = NoCall]

Answers(c, answer) == client' = [client EXCEPT ![c].at = "idle", ![c].answer = answer]

\* begin
Begin(c) ==
    /\ client[c].at = "idle"
    /\ usable /\ perm # "disabled"
    /\ client' = [client EXCEPT ![c] = [NoCall EXCEPT !.at = "begun"]]
    /\ UNCHANGED rows

\* runWrite plans, and reads the permission again.
RunWrite(c) ==
    /\ client[c].at = "begun"
    /\ \/ CallOver(c)                             \* no plan, or executed at once
       \/ perm = "confirm" /\ Calls(c, "find")
    /\ UNCHANGED rows

\* A call that is waiting already is waited for,
FindApproval(c) ==
    /\ client[c].at = "find"
    /\ IF Live = {}
       THEN Calls(c, "file")
       ELSE \E i \in Live :
              /\ \A j \in Live : j <= i
              /\ client' = [client EXCEPT ![c].at = "wait", ![c].id = i]
    /\ UNCHANGED rows

\* or another is filed.
FileApproval(c) ==
    /\ client[c].at = "file"
    /\ \E i \in Unused :
         /\ \A j \in Unused : i <= j
         /\ rows' = [rows EXCEPT ![i].status = "pending"]
         /\ client' = [client EXCEPT ![c].at = "wait", ![c].id = i]

\* waitApproval reads the row again on every event and tick.
WaitApproval(c) ==
    /\ client[c].at = "wait"
    /\ LET r == rows[client[c].id] IN
       \/ /\ r.status \in {"denied", "expired"}
          /\ Answers(c, r.status)
          /\ UNCHANGED rows
       \/ /\ r.status = "approved" /\ r.output # "none"
          /\ Answers(c, r.output)
          /\ UNCHANGED rows
       \/ Expire(client[c].id) /\ UNCHANGED client

\* The client stops waiting; the approval stays.
GiveUp(c) ==
    /\ client[c].at = "wait"
    /\ CallOver(c)
    /\ UNCHANGED rows

CallStep(c) == RunWrite(c) \/ FindApproval(c) \/ FileApproval(c) \/ WaitApproval(c)

-----------------------------------------------------------------------------
(* A decision                                                              *)

NoDecision == [at |-> "idle", id |-> None, out |-> "none"]

Decides(d, step) == decider' = [decider EXCEPT ![d].at = step]
DecisionOver(d)  == decider' = [decider EXCEPT ![d] = NoDecision]

\* Decide reads the row, and expires it when it is due.
ReadApproval(d, i) ==
    /\ decider[d].at = "idle"
    /\ \/ Expire(i) /\ UNCHANGED decider
       \/ /\ i \in Live
          /\ decider' = [decider EXCEPT ![d] = [at |-> "read", id |-> i, out |-> "none"]]
          /\ UNCHANGED rows

Decide(d, status) ==
    /\ decider[d].at = "read"
    /\ rows' = Decided(decider[d].id, status)
    /\ IF rows' # rows /\ status = "approved" THEN Decides(d, "plan") ELSE DecisionOver(d)

\* executeApproved: the token is looked up again.
Executable == usable

\* As Refused, with nothing to store.
RefusedUnsaid(d) == DecisionOver(d)

Refused(d) == decider' = [decider EXCEPT ![d].at = "store", ![d].out = "failed"]

\* The stored call is planned again, against what there is now.
Replan(d) ==
    /\ decider[d].at = "plan"
    /\ \/ Executable /\ Decides(d, "exec")
       \/ Refused(d)
    /\ UNCHANGED rows

Execute(d) ==
    /\ decider[d].at = "exec"
    /\ rows' = [rows EXCEPT ![decider[d].id].ran = @ + 1]
    /\ \E out \in {"ok", "failed"} :
         decider' = [decider EXCEPT ![d].at = "store", ![d].out = out]

StoreOutcome(d) ==
    /\ decider[d].at = "store"
    /\ \/ /\ rows' = [rows EXCEPT ![decider[d].id].output = decider[d].out]
          /\ UNCHANGED faults
       \/ Fault /\ UNCHANGED rows
    /\ DecisionOver(d)

DecideStep(d) ==
    \/ (Decide(d, "approved") \/ Decide(d, "denied") \/ Replan(d) \/ Execute(d)) /\ UNCHANGED faults
    \/ StoreOutcome(d)

-----------------------------------------------------------------------------
\* Relay dies with whatever it was doing, and starts again.
Crash ==
    /\ Fault
    /\ client' = [c \in Clients |->
         IF client[c].at = "idle" THEN client[c] ELSE NoCall]
    /\ decider' = [d \in Deciders |-> NoDecision]
    /\ UNCHANGED <<rows, usable, perm>>

Init ==
    /\ rows = [i \in Approvals |-> [status |-> "none", due |-> FALSE, output |-> "none", ran |-> 0]]
    /\ client = [c \in Clients |-> NoCall]
    /\ decider = [d \in Deciders |-> NoDecision]
    /\ usable = TRUE
    /\ perm = "confirm"
    /\ faults = 0

Administer ==
    /\ \/ usable' = FALSE /\ UNCHANGED perm
       \/ perm = "confirm" /\ perm' \in {"allow", "disabled"} /\ UNCHANGED usable
    /\ UNCHANGED <<rows, client, decider, faults>>

ClientStep == \E c \in Clients : Begin(c) \/ CallStep(c) \/ GiveUp(c)

Next ==
    \/ ClientStep /\ UNCHANGED <<decider, usable, perm, faults>>
    \/ (\E i \in Approvals : Expire(i) \/ TimePasses(i)) /\ UNCHANGED <<client, decider, usable, perm, faults>>
    \/ (\E d \in Deciders, i \in Approvals : ReadApproval(d, i)) /\ UNCHANGED <<client, usable, perm, faults>>
    \/ (\E d \in Deciders : DecideStep(d)) /\ UNCHANGED <<client, usable, perm>>
    \/ Crash \/ Administer

Spec == Init /\ [][Next]_vars

\* Calls and decisions go on, and time does.
Fairness ==
    /\ \A c \in Clients : WF_vars(CallStep(c) /\ UNCHANGED <<decider, usable, perm, faults>>)
    /\ \A d \in Deciders : WF_vars(DecideStep(d) /\ UNCHANGED <<client, usable, perm>>)
    /\ \A i \in Approvals : WF_vars(TimePasses(i) /\ UNCHANGED <<client, decider, usable, perm, faults>>)

FairSpec == Spec /\ Fairness

-----------------------------------------------------------------------------
(* Properties                                                              *)

\* An approval runs at most once, whoever decides it; a call that is told it
\* was denied or expired, "nothing was changed", never runs, and one that is
\* told it went well did.  (MCPDecideApproval against expiry and each other.)
AnswerIsTrue ==
    /\ \A i \in Approvals : rows[i].ran <= 1 /\ (rows[i].ran = 1 => rows[i].status = "approved")
    /\ \A c \in Clients : client[c].id # None =>
         /\ client[c].answer \in {"denied", "expired"} => rows[client[c].id].ran = 0
         /\ client[c].answer = "ok" => rows[client[c].id].ran = 1

\* the decision was taken, and a fault took its outcome away
Undelivered(i) ==
    /\ faults > 0
    /\ rows[i].status = "approved" /\ rows[i].output = "none"
    /\ \A d \in Deciders : decider[d].at = "idle" \/ decider[d].id # i

\* A call that waits is answered, by a decision or the expiry, unless the
\* outcome of what was approved could not be stored.
CallIsAnswered ==
    \A c \in Clients :
        client[c].at = "wait" ~> client[c].at # "wait" \/ Undelivered(client[c].id)

=============================================================================
