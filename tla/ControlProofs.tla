---------------------------- MODULE ControlProofs ---------------------------
(***************************************************************************)
(* What administrators start and what goes on without them: approvals of   *)
(* MCP calls, the pairing of gateways, the update of Relay itself, health  *)
(* checks and what they announce, the listeners of Relay Balancer and the  *)
(* servers of its backends, certificates, and hosts for containers.  The   *)
(* parts share no state; each is proved about on its own, for every value  *)
(* of its constants.                                                       *)
(***************************************************************************)
EXTENDS Naturals, Sequences, FiniteSetTheorems, TLAPS

CONSTANTS
    None,
    Clients, Deciders, MaxApprovals, MaxCrashes,           \* of Approvals
    Addresses, Attempts, MaxTokens, MaxDeeds,              \* of Pairing
    Commits, MaxUpdates, MaxKills,                         \* of SelfUpdate
    Targets, Workers, Room, MaxChanges, MaxGlitches,       \* of Alerts
    Ids, Conns, Binds, MaxReloads,                         \* of Listeners
    Servers, Backends, Changers, MaxLoads, MaxCommands,    \* of Balancer
    MaxGens, MaxCalls, MaxMishaps,                         \* of Certificates
    Names, Labels, Addrs, MaxHosts, MaxErrors, MaxMoves    \* of Discovery

VARIABLES
    rows, client, decider, usable, perm, crashes,
    row, file, engine, since, writer, unwritten, unread, rowEdit, starter, polled, news, att, gw, tokens, deeds,
    relay, image, job, task, helper, together, kills,
    host, bus, kick, loop, check, health, told, intake, recent, queue, worker, held, quiet, changes,
    glitches,
    lis, conn, limiter, reloads, stopping,
    srv, checker, flight, reload, changing, status, overtaken, table, picker, commands,
    cert, inflight, order, sched, editor, remover, files, age, calls, mishaps,
    containers, events, session, initial, listed, record, hosts, managed, removals, unseen, hostEdit, errors, moves

A == INSTANCE Approvals WITH MaxFaults <- MaxCrashes, faults <- crashes

P == INSTANCE Pairing WITH MaxMoves <- MaxDeeds, editor <- rowEdit, moves <- deeds

S == INSTANCE SelfUpdate WITH MaxFaults <- MaxKills, faults <- kills

N == INSTANCE Alerts WITH MaxFaults <- MaxGlitches

L == INSTANCE Listeners WITH Configs <- Binds

B == INSTANCE Balancer WITH Configs <- Backends, MaxReloads <- MaxLoads

C == INSTANCE Certificates WITH MaxFaults <- MaxMishaps, faults <- mishaps

D == INSTANCE Discovery WITH list <- listed, m <- record, editor <- hostEdit

\* A bounded counter that a step leaves, or that has room for one more, stays in bounds.
LEMMA CounterStays ==
  ASSUME NEW max \in Nat, NEW n \in 0..max, NEW m, m = n \/ (n < max /\ m = n + 1)
  PROVE  m \in 0..max
  BY SMTT(60)

-----------------------------------------------------------------------------
(* Approvals: what a row says never changes once it is decided, and one    *)
(* decider at most is at work on an approval that was approved.            *)

ApprovalType ==
    /\ rows \in [A!Approvals -> A!Row]
    /\ client \in [Clients -> A!Call]
    /\ decider \in [Deciders -> A!Decision]

AtWork(d) == decider[d].at \in {"plan", "exec", "store"}

RowsAgree ==
    \A i \in A!Approvals :
        /\ rows[i].ran = 0 \/ (rows[i].ran = 1 /\ rows[i].status = "approved")
        /\ rows[i].output # "none" => rows[i].status = "approved"
        /\ rows[i].output = "ok" => rows[i].ran = 1

DecidersAgree ==
    /\ \A d \in Deciders : decider[d].at # "idle" => decider[d].id \in A!Approvals
    /\ \A d \in Deciders : AtWork(d) =>
         LET r == rows[decider[d].id] IN
         /\ r.status = "approved" /\ r.output = "none"
         /\ decider[d].at \in {"plan", "exec"} => r.ran = 0
         /\ decider[d].at = "store" /\ decider[d].out = "ok" => r.ran = 1
    /\ \A d, e \in Deciders : AtWork(d) /\ AtWork(e) /\ decider[d].id = decider[e].id => d = e

ClientsAgree ==
    \A c \in Clients :
        /\ client[c].at = "wait" => client[c].id \in A!Approvals
        /\ client[c].at # "idle" => client[c].answer = "none"
        /\ client[c].id # None /\ client[c].answer \in {"denied", "expired"}
             => client[c].id \in A!Approvals /\ rows[client[c].id].status = client[c].answer
        /\ client[c].id # None /\ client[c].answer = "ok"
             => client[c].id \in A!Approvals /\ rows[client[c].id].output = "ok"

ApprovalInv == ApprovalType /\ RowsAgree /\ DecidersAgree /\ ClientsAgree

\* A row is filed, decided or due: nobody who knows of a decision is contradicted.
LEMMA RowsMove ==
  ASSUME ApprovalInv, rows' \in [A!Approvals -> A!Row],
         \A i \in A!Approvals :
            /\ rows'[i].ran = rows[i].ran /\ rows'[i].output = rows[i].output
            /\ rows'[i].status = rows[i].status \/ rows[i].status \in {"none", "pending"}
  PROVE  /\ RowsAgree'
         /\ UNCHANGED decider => DecidersAgree'
         /\ UNCHANGED client => ClientsAgree'
<1>1. RowsAgree'
  BY DEF ApprovalInv, RowsAgree
<1>2. ASSUME UNCHANGED decider PROVE DecidersAgree'
  BY <1>2 DEF ApprovalInv, DecidersAgree, AtWork
<1>3. ASSUME UNCHANGED client PROVE ClientsAgree'
  BY <1>3 DEF ApprovalInv, ClientsAgree
<1> QED BY <1>1, <1>2, <1>3

\* MCPDecideApproval
LEMMA DecidedMoves ==
  ASSUME ApprovalInv, NEW i \in A!Approvals, NEW st \in {"approved", "denied", "expired"}, rows' = A!Decided(i, st)
  PROVE  /\ rows' \in [A!Approvals -> A!Row]
         /\ \A j \in A!Approvals :
              /\ rows'[j].ran = rows[j].ran /\ rows'[j].output = rows[j].output
              /\ rows'[j].status = rows[j].status \/ rows[j].status \in {"none", "pending"}
         /\ rows' # rows => rows[i].status = "pending" /\ rows'[i].status = st
<1>1. CASE rows' = rows
  BY <1>1 DEF ApprovalInv, ApprovalType
<1>2. CASE rows[i].status = "pending" /\ rows' = [rows EXCEPT ![i].status = st]
  BY <1>2 DEF ApprovalInv, ApprovalType, A!Row
<1> QED BY <1>1, <1>2 DEF A!Decided, A!Pending

\* The call of one client changes, and no row.
LEMMA ClientChanges ==
  ASSUME ApprovalInv, NEW c \in Clients, NEW r \in A!Call, client' = [client EXCEPT ![c] = r],
         UNCHANGED rows,
         /\ r.at = "wait" => r.id \in A!Approvals
         /\ r.at # "idle" => r.answer = "none"
         /\ r.id # None /\ r.answer \in {"denied", "expired"}
              => r.id \in A!Approvals /\ rows[r.id].status = r.answer
         /\ r.id # None /\ r.answer = "ok" => r.id \in A!Approvals /\ rows[r.id].output = "ok"
  PROVE  client' \in [Clients -> A!Call] /\ ClientsAgree'
<1>1. client' \in [Clients -> A!Call] /\ client'[c] = r /\ \A e \in Clients : e # c => client'[e] = client[e]
  BY DEF ApprovalInv, ApprovalType
<1> QED BY <1>1 DEF ApprovalInv, ClientsAgree

\* A client with no call has no answer and no approval.
LEMMA NoCallIs == A!NoCall \in A!Call /\ A!NoCall.at = "idle" /\ A!NoCall.answer = "none" /\ A!NoCall.id = None
BY DEF A!NoCall, A!Call

\* A step of a client's call: running it, filing for approval, waiting
LEMMA ClientStepKeeps ==
  ASSUME ApprovalInv, NEW c \in Clients, A!Begin(c) \/ A!CallStep(c) \/ A!GiveUp(c), UNCHANGED decider
  PROVE  ApprovalInv'
<1>1. ASSUME NEW r \in A!Call, client' = [client EXCEPT ![c] = r], UNCHANGED rows, r.answer = "none",
             r.at = "wait" => r.id \in A!Approvals
      PROVE  ApprovalInv'
  <2>1. client' \in [Clients -> A!Call] /\ ClientsAgree'
    BY <1>1, ClientChanges
  <2> QED BY <1>1, <2>1 DEF ApprovalInv, ApprovalType, RowsAgree, DecidersAgree, AtWork
<1>2. client[c] \in A!Call
  BY DEF ApprovalInv, ApprovalType
<1>3. CASE A!Begin(c)
  <2> DEFINE r == [A!NoCall EXCEPT !.at = "begun"]
  <2>1. r \in A!Call /\ r.at = "begun" /\ r.answer = "none"
    BY DEF A!NoCall, A!Call
  <2>2. client' = [client EXCEPT ![c] = r] /\ UNCHANGED rows
    BY <1>3 DEF A!Begin
  <2> QED BY <1>1, <2>1, <2>2
<1>4. CASE A!CallOver(c) /\ UNCHANGED rows
  BY <1>1, <1>4, NoCallIs DEF A!CallOver
<1>5. ASSUME NEW at \in {"find", "file"}, A!Calls(c, at), UNCHANGED rows, client[c].at # "idle"
      PROVE  ApprovalInv'
  <2> DEFINE r == [client[c] EXCEPT !.at = at]
  <2>1. r \in A!Call /\ r.at = at /\ r.answer = client[c].answer
    BY <1>2 DEF A!Call
  <2>2. client' = [client EXCEPT ![c] = r]
    BY <1>5 DEF A!Calls
  <2>3. client[c].answer = "none"
    BY <1>5 DEF ApprovalInv, ClientsAgree
  <2> QED BY <1>1, <1>5, <2>1, <2>2, <2>3
<1>6. ASSUME NEW i \in A!Approvals, client' = [client EXCEPT ![c].at = "wait", ![c].id = i], client[c].at # "idle"
      PROVE  \E r \in A!Call : client' = [client EXCEPT ![c] = r] /\ r.answer = "none" /\ r.at = "wait" /\ r.id = i
  <2> DEFINE r == [client[c] EXCEPT !.at = "wait", !.id = i]
  <2>1. r \in A!Call /\ r.at = "wait" /\ r.id = i /\ r.answer = client[c].answer
    BY <1>2 DEF A!Call
  <2>2. client' = [client EXCEPT ![c] = r]
    BY <1>6 DEF ApprovalInv, ApprovalType
  <2>3. client[c].answer = "none"
    BY <1>6 DEF ApprovalInv, ClientsAgree
  <2> QED BY <2>1, <2>2, <2>3
<1>7. CASE A!FindApproval(c)
  <2>1. CASE A!Calls(c, "file")
    BY <1>5, <1>7, <2>1 DEF A!FindApproval
  <2>2. ASSUME NEW i \in A!Live, client' = [client EXCEPT ![c].at = "wait", ![c].id = i]
        PROVE  ApprovalInv'
    <3>1. i \in A!Approvals /\ client[c].at # "idle" /\ UNCHANGED rows
      BY <1>7 DEF A!Live, A!Pending, A!FindApproval
    <3>2. PICK r \in A!Call : client' = [client EXCEPT ![c] = r] /\ r.answer = "none" /\ r.at = "wait" /\ r.id = i
      BY <1>6, <2>2, <3>1
    <3> QED BY <1>1, <3>1, <3>2
  <2> QED BY <1>7, <2>1, <2>2 DEF A!FindApproval
<1>8. CASE A!FileApproval(c)
  <2>1. PICK i \in A!Unused : /\ rows' = [rows EXCEPT ![i].status = "pending"]
                              /\ client' = [client EXCEPT ![c].at = "wait", ![c].id = i]
    BY <1>8 DEF A!FileApproval
  <2>2. i \in A!Approvals /\ rows[i].status = "none" /\ client[c].at # "idle"
    BY <1>8 DEF A!FileApproval, A!Unused
  <2>3. rows' \in [A!Approvals -> A!Row]
        /\ \A j \in A!Approvals : rows'[j].ran = rows[j].ran /\ rows'[j].output = rows[j].output
                                  /\ (rows'[j].status = rows[j].status \/ j = i)
    BY <2>1, <2>2 DEF ApprovalInv, ApprovalType, A!Row
  <2>4. RowsAgree' /\ DecidersAgree'
    BY <2>2, <2>3, RowsMove
  <2>5. PICK r \in A!Call : client' = [client EXCEPT ![c] = r] /\ r.answer = "none" /\ r.at = "wait" /\ r.id = i
    BY <1>6, <2>1, <2>2
  <2>6. client' \in [Clients -> A!Call] /\ client'[c] = r /\ \A e \in Clients : e # c => client'[e] = client[e]
    BY <2>5 DEF ApprovalInv, ApprovalType
  <2>7. ClientsAgree'
    <3>1. ASSUME NEW e \in Clients, e # c, client[e].id \in A!Approvals
          PROVE  /\ rows[client[e].id].status \in {"denied", "expired"} =>
                      rows'[client[e].id].status = rows[client[e].id].status
                 /\ rows'[client[e].id].output = rows[client[e].id].output
      BY <2>2, <2>3, <3>1
    <3> QED BY <2>2, <2>5, <2>6, <3>1 DEF ApprovalInv, ClientsAgree
  <2> QED BY <2>3, <2>4, <2>6, <2>7 DEF ApprovalInv, ApprovalType
<1>9. CASE A!WaitApproval(c)
  <2>0. client[c].at = "wait" /\ client[c].id \in A!Approvals
    BY <1>9 DEF A!WaitApproval, ApprovalInv, ClientsAgree
  <2>1. ASSUME NEW answer \in {"denied", "expired", "ok", "failed"}, A!Answers(c, answer), UNCHANGED rows,
               /\ answer \in {"denied", "expired"} => rows[client[c].id].status = answer
               /\ answer = "ok" => rows[client[c].id].output = "ok"
        PROVE  ApprovalInv'
    <3> DEFINE r == [client[c] EXCEPT !.at = "idle", !.answer = answer]
    <3>1. r \in A!Call /\ r.at = "idle" /\ r.answer = answer /\ r.id = client[c].id
      BY <1>2 DEF A!Call
    <3>2. client' = [client EXCEPT ![c] = r]
      BY <2>1 DEF A!Answers, ApprovalInv, ApprovalType
    <3> HIDE DEF r
    <3>3. client' \in [Clients -> A!Call] /\ ClientsAgree'
      BY <2>0, <2>1, <3>1, <3>2, ClientChanges
    <3> QED BY <2>1, <3>3 DEF ApprovalInv, ApprovalType, RowsAgree, DecidersAgree, AtWork
  <2>2. CASE A!Expire(client[c].id) /\ UNCHANGED client
    <3>1. rows' = A!Decided(client[c].id, "expired")
      BY <2>2 DEF A!Expire
    <3> QED BY <2>0, <2>2, <3>1, DecidedMoves, RowsMove DEF ApprovalInv, ApprovalType
  <2>3. rows[client[c].id].output \in {"none", "ok", "failed"}
    BY <2>0 DEF ApprovalInv, ApprovalType, A!Row, A!Outputs
  <2> QED BY <1>9, <2>1, <2>2, <2>3 DEF A!WaitApproval
<1> QED BY <1>3, <1>4, <1>5, <1>7, <1>8, <1>9 DEF A!CallStep, A!RunWrite, A!GiveUp

\* The decision of one administrator changes, and no row.
LEMMA DeciderChanges ==
  ASSUME ApprovalInv, NEW d \in Deciders, NEW r \in A!Decision, decider' = [decider EXCEPT ![d] = r],
         UNCHANGED rows, r.at \in {"idle", "read"}, r.at = "read" => r.id \in A!Approvals
  PROVE  decider' \in [Deciders -> A!Decision] /\ DecidersAgree'
<1>1. decider' \in [Deciders -> A!Decision] /\ decider'[d] = r /\ \A e \in Deciders : e # d => decider'[e] = decider[e]
  BY DEF ApprovalInv, ApprovalType
<1> QED BY <1>1 DEF ApprovalInv, DecidersAgree, AtWork

\* An administrator who decides nothing is idle.
LEMMA NoDecisionIs == A!NoDecision \in A!Decision /\ A!NoDecision.at = "idle"
BY DEF A!NoDecision, A!Decision, A!Outputs

\* The approval is read: MCPDecideApproval.
LEMMA ReadKeeps ==
  ASSUME ApprovalInv, NEW d \in Deciders, NEW i \in A!Approvals, A!ReadApproval(d, i), UNCHANGED client
  PROVE  ApprovalInv'
<1>1. CASE A!Expire(i) /\ UNCHANGED decider
  <2>1. rows' = A!Decided(i, "expired")
    BY <1>1 DEF A!Expire
  <2> QED BY <1>1, <2>1, DecidedMoves, RowsMove DEF ApprovalInv, ApprovalType
<1>2. CASE decider' = [decider EXCEPT ![d] = [at |-> "read", id |-> i, out |-> "none"]] /\ UNCHANGED rows
  <2>1. [at |-> "read", id |-> i, out |-> "none"] \in A!Decision
    BY DEF A!Decision, A!Outputs
  <2>2. decider' \in [Deciders -> A!Decision] /\ DecidersAgree'
    BY <1>2, <2>1, DeciderChanges
  <2> QED BY <1>2, <2>2 DEF ApprovalInv, ApprovalType, RowsAgree, ClientsAgree
<1> QED BY <1>1, <1>2 DEF A!ReadApproval

\* Only who finds the row pending goes on to execute it.
LEMMA DecideKeeps ==
  ASSUME ApprovalInv, NEW d \in Deciders, NEW st \in {"approved", "denied"}, A!Decide(d, st), UNCHANGED client
  PROVE  ApprovalInv'
<1> DEFINE i == decider[d].id
<1>1. decider[d].at = "read" /\ i \in A!Approvals /\ rows' = A!Decided(i, st) /\ decider[d] \in A!Decision
  BY DEF A!Decide, ApprovalInv, ApprovalType, DecidersAgree
<1>2. /\ rows' \in [A!Approvals -> A!Row] /\ RowsAgree' /\ ClientsAgree'
      /\ UNCHANGED decider => DecidersAgree'
      /\ \A j \in A!Approvals :
              /\ rows'[j].ran = rows[j].ran /\ rows'[j].output = rows[j].output
              /\ rows'[j].status = rows[j].status \/ rows[j].status \in {"none", "pending"}
      /\ rows' # rows => rows[i].status = "pending" /\ rows'[i].status = st
  BY <1>1, DecidedMoves, RowsMove
<1>3. CASE rows' # rows /\ st = "approved"
  <2> DEFINE r == [decider[d] EXCEPT !.at = "plan"]
  <2>1. r \in A!Decision /\ r.at = "plan" /\ r.id = i
    BY <1>1 DEF A!Decision
  <2>2. decider' = [decider EXCEPT ![d] = r]
    BY <1>3 DEF A!Decide, A!Decides
  <2> HIDE DEF r
  <2>3. decider' \in [Deciders -> A!Decision] /\ decider'[d] = r /\ \A e \in Deciders : e # d => decider'[e] = decider[e]
    BY <2>1, <2>2 DEF ApprovalInv, ApprovalType
  <2>4. rows[i].status = "pending" /\ rows'[i].status = "approved"
    BY <1>2, <1>3
  <2>5. \A e \in Deciders : AtWork(e) => decider[e].id # i
    BY <2>4 DEF ApprovalInv, DecidersAgree
  <2>6. rows'[i].output = "none" /\ rows'[i].ran = 0
    BY <1>1, <1>2, <2>4 DEF ApprovalInv, RowsAgree
  <2>7. DecidersAgree'
    <3>1. \A e \in Deciders : decider'[e].at # "idle" => decider'[e].id \in A!Approvals
      BY <1>1, <2>1, <2>3 DEF ApprovalInv, DecidersAgree
    <3>2. \A e \in Deciders : e # d => (AtWork(e)' <=> AtWork(e)) /\ decider'[e] = decider[e]
      BY <2>3 DEF AtWork
    <3>3. \A e \in Deciders : e # d /\ AtWork(e) =>
            /\ rows'[decider[e].id].status = "approved" /\ rows'[decider[e].id].output = "none"
            /\ rows'[decider[e].id].ran = rows[decider[e].id].ran
      BY <1>2 DEF ApprovalInv, DecidersAgree, AtWork
    <3> QED BY <2>1, <2>3, <2>4, <2>5, <2>6, <3>1, <3>2, <3>3 DEF ApprovalInv, DecidersAgree, AtWork
  <2> QED BY <1>2, <2>3, <2>7 DEF ApprovalInv, ApprovalType
<1>4. CASE A!DecisionOver(d)
  <2>1. decider' = [decider EXCEPT ![d] = A!NoDecision]
    BY <1>4 DEF A!DecisionOver
  <2>2. decider' \in [Deciders -> A!Decision] /\ decider'[d].at = "idle" /\ \A e \in Deciders : e # d => decider'[e] = decider[e]
    BY <2>1, NoDecisionIs DEF ApprovalInv, ApprovalType
  <2>3. \A e \in Deciders : AtWork(e)' => e # d /\ AtWork(e) /\ decider'[e] = decider[e]
    BY <2>2 DEF AtWork
  <2>4. \A e \in Deciders : AtWork(e) =>
          /\ rows'[decider[e].id].status = "approved" /\ rows'[decider[e].id].output = "none"
          /\ rows'[decider[e].id].ran = rows[decider[e].id].ran
    BY <1>2 DEF ApprovalInv, DecidersAgree, AtWork
  <2>5. DecidersAgree'
    BY <2>2, <2>3, <2>4 DEF ApprovalInv, DecidersAgree
  <2> QED BY <1>2, <2>2, <2>5 DEF ApprovalInv, ApprovalType
<1> QED BY <1>3, <1>4 DEF A!Decide

\* A decider that is alone with the approval goes on with it.
LEMMA WorkKeeps ==
  ASSUME ApprovalInv, NEW d \in Deciders, A!Replan(d) \/ A!Execute(d) \/ A!StoreOutcome(d), UNCHANGED client
  PROVE  ApprovalInv'
<1> DEFINE i == decider[d].id
<1>1. /\ AtWork(d) /\ i \in A!Approvals /\ decider[d] \in A!Decision /\ rows[i] \in A!Row
      /\ rows[i].status = "approved" /\ rows[i].output = "none"
      /\ decider[d].at \in {"plan", "exec"} => rows[i].ran = 0
      /\ decider[d].at = "store" /\ decider[d].out = "ok" => rows[i].ran = 1
      /\ rows[i].ran \in {0, 1}
      /\ \A e \in Deciders : e # d /\ AtWork(e) => decider[e].id # i
  BY DEF A!Replan, A!Execute, A!StoreOutcome, AtWork, ApprovalInv, ApprovalType, RowsAgree, DecidersAgree
\* r is what becomes of the decision, x what becomes of the row.
<1>2. ASSUME NEW r \in A!Decision, NEW x \in A!Row,
             decider' = [decider EXCEPT ![d] = r], rows' = [rows EXCEPT ![i] = x],
             r.at # "idle" => r.id = i,
             x.status = "approved", x.ran \in {0, 1}, x.output = "ok" => x.ran = 1,
             r.at \in {"plan", "exec", "store"} => x.output = "none",
             r.at \in {"plan", "exec"} => x.ran = 0,
             r.at = "store" /\ r.out = "ok" => x.ran = 1
      PROVE  ApprovalInv'
  <2>1. decider' \in [Deciders -> A!Decision] /\ decider'[d] = r /\ \A e \in Deciders : e # d => decider'[e] = decider[e]
    BY <1>2 DEF ApprovalInv, ApprovalType
  <2>2. rows' \in [A!Approvals -> A!Row] /\ rows'[i] = x /\ \A j \in A!Approvals : j # i => rows'[j] = rows[j]
    BY <1>1, <1>2 DEF ApprovalInv, ApprovalType
  <2>3. RowsAgree'
    BY <1>1, <1>2, <2>2 DEF ApprovalInv, RowsAgree
  <2>4. ClientsAgree'
    <3>1. \A c \in Clients : client[c].id \in A!Approvals =>
            \/ client[c].id # i /\ rows'[client[c].id] = rows[client[c].id]
            \/ client[c].id = i /\ rows[i].status = "approved" /\ rows[i].output = "none"
      BY <1>1, <2>2
    <3> QED BY <3>1 DEF ApprovalInv, ClientsAgree
  <2>5. \A e \in Deciders : e # d => (AtWork(e)' <=> AtWork(e)) /\ (AtWork(e) => rows'[decider[e].id] = rows[decider[e].id])
    BY <1>1, <2>1, <2>2 DEF AtWork, ApprovalInv, DecidersAgree
  <2>6. AtWork(d)' <=> r.at \in {"plan", "exec", "store"}
    BY <2>1 DEF AtWork
  <2>7. DecidersAgree'
    BY <1>1, <1>2, <2>1, <2>2, <2>5, <2>6 DEF ApprovalInv, DecidersAgree, AtWork
  <2> QED BY <2>1, <2>2, <2>3, <2>4, <2>7 DEF ApprovalInv, ApprovalType
<1>3. [rows EXCEPT ![i] = rows[i]] = rows
  BY <1>1 DEF ApprovalInv, ApprovalType
<1>4. CASE A!Replan(d)
  <2>1. decider[d].at = "plan" /\ rows' = rows
    BY <1>4 DEF A!Replan
  <2>2. CASE A!Decides(d, "exec")
    <3> DEFINE r == [decider[d] EXCEPT !.at = "exec"]
    <3>1. r \in A!Decision /\ r.at = "exec" /\ r.id = i
      BY <1>1 DEF A!Decision
    <3>2. decider' = [decider EXCEPT ![d] = r]
      BY <2>2 DEF A!Decides
    <3> HIDE DEF r
    <3> QED BY <1>1, <1>2, <1>3, <2>1, <3>1, <3>2
  <2>3. CASE A!Refused(d)
    <3> DEFINE r == [decider[d] EXCEPT !.at = "store", !.out = "failed"]
    <3>1. r \in A!Decision /\ r.at = "store" /\ r.id = i /\ r.out = "failed"
      BY <1>1 DEF A!Decision, A!Outputs
    <3>2. decider' = [decider EXCEPT ![d] = r]
      BY <2>3 DEF A!Refused, ApprovalInv, ApprovalType
    <3> HIDE DEF r
    <3> QED BY <1>1, <1>2, <1>3, <2>1, <3>1, <3>2
  <2> QED BY <1>4, <2>2, <2>3 DEF A!Replan
<1>5. CASE A!Execute(d)
  <2>1. PICK out \in {"ok", "failed"} : decider' = [decider EXCEPT ![d].at = "store", ![d].out = out]
    BY <1>5 DEF A!Execute
  <2> DEFINE r == [decider[d] EXCEPT !.at = "store", !.out = out]
             x == [rows[i] EXCEPT !.ran = rows[i].ran + 1]
  <2>2. r \in A!Decision /\ r.at = "store" /\ r.id = i
    BY <1>1 DEF A!Decision, A!Outputs
  <2>3. decider' = [decider EXCEPT ![d] = r]
    BY <2>1 DEF ApprovalInv, ApprovalType
  <2>4. rows[i].ran = 0 /\ rows' = [rows EXCEPT ![i] = x]
    BY <1>1, <1>5 DEF A!Execute, ApprovalInv, ApprovalType
  <2>5. x \in A!Row /\ x.status = "approved" /\ x.ran = 1 /\ x.output = "none"
    BY <1>1, <2>4 DEF A!Row
  <2> HIDE DEF r, x
  <2> QED BY <1>2, <2>2, <2>3, <2>4, <2>5
<1>6. CASE A!StoreOutcome(d)
  <2>1. decider[d].at = "store" /\ decider' = [decider EXCEPT ![d] = A!NoDecision]
    BY <1>6 DEF A!StoreOutcome, A!DecisionOver
  <2>2. CASE UNCHANGED rows
    BY <1>1, <1>2, <1>3, <2>1, <2>2, NoDecisionIs
  <2>3. CASE rows' = [rows EXCEPT ![i].output = decider[d].out]
    <3> DEFINE x == [rows[i] EXCEPT !.output = decider[d].out]
    <3>1. rows' = [rows EXCEPT ![i] = x]
      BY <2>3 DEF ApprovalInv, ApprovalType
    <3>2. x \in A!Row /\ x.status = "approved" /\ x.ran = rows[i].ran /\ x.output = decider[d].out
      BY <1>1 DEF A!Row, A!Decision
    <3> HIDE DEF x
    <3> QED BY <1>1, <1>2, <2>1, <3>1, <3>2, NoDecisionIs
  <2> QED BY <1>6, <2>2, <2>3 DEF A!StoreOutcome
<1> QED BY <1>4, <1>5, <1>6

\* Time, edits of tokens and restarts of Relay
LEMMA ApprovalRest ==
  ASSUME ApprovalInv,
         \/ (\E i \in A!Approvals : A!Expire(i) \/ A!TimePasses(i)) /\ UNCHANGED <<client, decider>>
         \/ A!Crash \/ A!Administer
  PROVE  ApprovalInv'
<1>1. ASSUME NEW i \in A!Approvals, A!Expire(i), UNCHANGED <<client, decider>>
      PROVE  ApprovalInv'
  <2>1. rows' = A!Decided(i, "expired")
    BY <1>1 DEF A!Expire
  <2> QED BY <1>1, <2>1, DecidedMoves, RowsMove DEF ApprovalInv, ApprovalType
<1>2. ASSUME NEW i \in A!Approvals, A!TimePasses(i), UNCHANGED <<client, decider>>
      PROVE  ApprovalInv'
  <2>1. rows' = [rows EXCEPT ![i].due = TRUE]
    BY <1>2 DEF A!TimePasses
  <2>2. rows' \in [A!Approvals -> A!Row]
        /\ \A j \in A!Approvals : rows'[j].ran = rows[j].ran /\ rows'[j].output = rows[j].output
                                  /\ rows'[j].status = rows[j].status
    BY <2>1 DEF ApprovalInv, ApprovalType, A!Row
  <2> QED BY <1>2, <2>2, RowsMove DEF ApprovalInv, ApprovalType
<1>3. CASE A!Crash
  <2>1. /\ client' = [c \in Clients |-> IF client[c].at = "idle" THEN client[c] ELSE A!NoCall]
        /\ decider' = [d \in Deciders |-> A!NoDecision] /\ UNCHANGED rows
    BY <1>3 DEF A!Crash
  <2>2. client' \in [Clients -> A!Call] /\ decider' \in [Deciders -> A!Decision]
    BY <2>1, NoCallIs, NoDecisionIs DEF ApprovalInv, ApprovalType
  <2>3. \A d \in Deciders : decider'[d].at = "idle"
    BY <2>1, NoDecisionIs
  <2>4. \A c \in Clients : client'[c] = client[c] \/ client'[c] = A!NoCall
    BY <2>1
  <2>5. ClientsAgree'
    BY <2>1, <2>4, NoCallIs DEF ApprovalInv, ClientsAgree
  <2> QED BY <2>1, <2>2, <2>3, <2>5 DEF ApprovalInv, ApprovalType, RowsAgree, DecidersAgree, AtWork
<1>4. CASE A!Administer
  BY <1>4 DEF A!Administer, ApprovalInv, ApprovalType, RowsAgree, DecidersAgree, ClientsAgree, AtWork
<1> QED BY <1>1, <1>2, <1>3, <1>4

\* Every step of the approvals keeps it.
LEMMA ApprovalsKept ==
  /\ A!Init => ApprovalInv
  /\ ApprovalInv /\ [A!Next]_A!vars => ApprovalInv'
<1>1. A!Init => ApprovalInv
  <2> SUFFICES ASSUME A!Init PROVE ApprovalInv
    OBVIOUS
  <2>1. /\ rows = [i \in A!Approvals |-> [status |-> "none", due |-> FALSE, output |-> "none", ran |-> 0]]
        /\ client = [c \in Clients |-> A!NoCall] /\ decider = [d \in Deciders |-> A!NoDecision]
    BY DEF A!Init
  <2>2. ApprovalType
    BY <2>1, NoCallIs, NoDecisionIs DEF ApprovalType, A!Row, A!Outputs
  <2>3. \A c \in Clients : client[c] = A!NoCall
    BY <2>1
  <2> QED BY <2>1, <2>2, <2>3, NoCallIs, NoDecisionIs DEF ApprovalInv, RowsAgree, DecidersAgree, ClientsAgree, AtWork
<1>2. ApprovalInv /\ [A!Next]_A!vars => ApprovalInv'
  <2> SUFFICES ASSUME ApprovalInv, [A!Next]_A!vars PROVE ApprovalInv'
    OBVIOUS
  <2>1. CASE A!ClientStep /\ UNCHANGED <<decider, usable, perm, crashes>>
    BY <2>1, ClientStepKeeps DEF A!ClientStep
  <2>2. CASE (\E d \in Deciders, i \in A!Approvals : A!ReadApproval(d, i)) /\ UNCHANGED <<client, usable, perm, crashes>>
    BY <2>2, ReadKeeps
  <2>3. CASE (\E d \in Deciders : A!DecideStep(d)) /\ UNCHANGED <<client, usable, perm>>
    BY <2>3, DecideKeeps, WorkKeeps DEF A!DecideStep
  <2>4. CASE UNCHANGED A!vars
    BY <2>4 DEF A!vars, ApprovalInv, ApprovalType, RowsAgree, DecidersAgree, ClientsAgree, AtWork
  <2> QED BY <2>1, <2>2, <2>3, <2>4, ApprovalRest DEF A!Next
<1> QED BY <1>1, <1>2

\* An approval runs at most once and only if it was approved, and what a call is
\* told of it is so: AnswerIsTrue of Approvals, for any number of calls, deciders,
\* approvals and faults.  (MCPDecideApproval, executeApproved, waitApproval)
THEOREM AnswersAreTrue == A!Spec => []A!AnswerIsTrue
<1>1. ApprovalInv => A!AnswerIsTrue
  BY DEF ApprovalInv, RowsAgree, ClientsAgree, A!AnswerIsTrue
<1> QED BY <1>1, ApprovalsKept, PTL DEF A!Spec

\* In every reachable state rows, calls and decisions are as their types say, and
\* no more faults have happened than may: TypeOK of Approvals.  (MCPDecideApproval,
\* executeApproved)
THEOREM ApprovalsTyped ==
  ASSUME MaxCrashes \in Nat
  PROVE  A!Spec => []A!TypeOK
<1> DEFINE Rest == usable \in BOOLEAN /\ perm \in {"allow", "confirm", "disabled"} /\ crashes \in 0..MaxCrashes
<1>1. ASSUME A!Init PROVE Rest
  BY <1>1 DEF A!Init
<1>2. ASSUME Rest, [A!Next]_A!vars PROVE Rest'
  <2>1. /\ usable' \in {usable, FALSE}
        /\ perm' \in {perm, "allow", "disabled"}
        /\ crashes' = crashes \/ (crashes < MaxCrashes /\ crashes' = crashes + 1)
    BY <1>2 DEF A!Next, A!vars, A!DecideStep, A!StoreOutcome, A!Fault, A!Crash, A!Administer
  <2> QED BY <1>2, <2>1, CounterStays
<1>3. ApprovalInv /\ Rest => A!TypeOK
  BY DEF ApprovalInv, ApprovalType, A!TypeOK
<1>4. (A!Init => ApprovalInv) /\ (ApprovalInv /\ [A!Next]_A!vars => ApprovalInv')
  BY ApprovalsKept
<1> HIDE DEF Rest
<1> QED BY <1>1, <1>2, <1>3, <1>4, PTL DEF A!Spec

-----------------------------------------------------------------------------
(* Pairing: as long as the list may be older than the row, somebody is     *)
(* about to read the rows, or to write what he read since; and what was    *)
(* written somebody is about to have read.  An attempt the gateway gave    *)
(* its proof in is of the token it has, and what is paired is on its disk. *)

ListType ==
    /\ row \in P!Row /\ since \in SUBSET P!Entry /\ file \in P!Entry /\ engine \in P!Entry
    /\ writer \in [P!Writers -> [at : {"none", "lock", "write", "reload"}, entry : P!Entry \cup {None}]]
    /\ unwritten \in BOOLEAN /\ unread \in BOOLEAN
    /\ \A w \in P!Writers : writer[w].at = "write" => writer[w].entry \in P!Entry

WillRead == \E w \in P!Writers : writer[w].at = "lock"

WillWrite == \E w \in P!Writers : writer[w].at = "write" /\ writer[w].entry \in since

WillReload == \E w \in P!Writers : writer[w].at = "reload"

ListFollows ==
    /\ P!Listing(row) \in since
    /\ unwritten \/ file \in since \/ WillRead \/ WillWrite
    /\ unread \/ engine = file \/ WillReload
    /\ \A w \in P!Writers : writer[w].at = "write" => writer[w].entry \in since \/ WillRead
    /\ \A v, w \in P!Writers : writer[v].at = "write" /\ writer[w].at = "write" => v = w

ListInv == ListType /\ ListFollows

\* Who holds on to a row to save it does not rewrite the list yet.
HoldersAgree ==
    /\ rowEdit \in P!Row \cup {None} /\ (rowEdit # None => P!Idle("edit"))
    /\ starter \in P!Row \cup {None} /\ (starter # None => P!Idle("start") /\ tokens # 0)
    /\ polled \in P!Row \cup {None} /\ news \in BOOLEAN /\ (news => polled # None)
    /\ tokens \in 0..MaxTokens /\ deeds \in 0..MaxDeeds

GatewayType == [paired : BOOLEAN, disk : BOOLEAN, token : P!Tokens \cup {None}, used : BOOLEAN, pairs : Nat]

GatewayAgrees == gw \in GatewayType /\ (gw.pairs # 0 => gw.disk /\ gw.paired)

AttemptsAgree ==
    /\ att \in [Attempts -> P!Attempt]
    /\ \A a \in Attempts :
         /\ att[a].gw = "proved" => att[a].token = gw.token /\ att[a].home # "none"
         /\ att[a].home \in {"read", "told"} => att[a].row \in P!Row /\ P!Idle(a)

PairingInv == ListInv /\ HoldersAgree /\ GatewayAgrees /\ AttemptsAgree

\* A row's entry in the list is one.
LEMMA ListingIs ==
  ASSUME NEW r \in P!Row
  PROVE  P!Listing(r) \in P!Entry
BY DEF P!Listing, P!Row, P!Entry

\* A row is saved by one who rewrites the list next.
LEMMA SavedAndListed ==
  ASSUME ListInv, NEW w \in P!Writers, NEW r \in P!Row, P!Idle(w), P!SaveAndList(w, r)
  PROVE  ListInv' /\ \A v \in P!Writers : v # w => writer'[v] = writer[v]
<1> DEFINE x == [writer[w] EXCEPT !.at = "lock"]
<1>1. /\ row' = r /\ since' = {P!Listing(r)} /\ UNCHANGED <<file, engine, unwritten, unread>>
      /\ writer' = [writer EXCEPT ![w] = x]
  BY DEF P!SaveAndList, ListInv, ListType
<1>2. x \in [at : {"none", "lock", "write", "reload"}, entry : P!Entry \cup {None}] /\ x.at = "lock"
  BY DEF ListInv, ListType
<1> HIDE DEF x
<1>3. /\ writer' \in [P!Writers -> [at : {"none", "lock", "write", "reload"}, entry : P!Entry \cup {None}]]
      /\ writer'[w].at = "lock" /\ \A v \in P!Writers : v # w => writer'[v] = writer[v]
  BY <1>1, <1>2 DEF ListInv, ListType
<1>4. ListType'
  BY <1>1, <1>3, ListingIs DEF ListInv, ListType
<1>5. WillRead'
  BY <1>3 DEF WillRead
<1>6. WillReload => WillReload'
  BY <1>3 DEF WillReload, P!Idle
<1>7. ListFollows'
  BY <1>1, <1>3, <1>5, <1>6 DEF ListInv, ListFollows
<1> QED BY <1>3, <1>4, <1>7 DEF ListInv

\* A row is saved, and the list is left as it is.
LEMMA SavedOnly ==
  ASSUME ListInv, NEW r \in P!Row, P!SaveOnly(r)
  PROVE  ListInv' /\ UNCHANGED writer
<1>1. row' = r /\ since' = since \cup {P!Listing(r)} /\ UNCHANGED <<file, engine, writer, unwritten, unread>>
  BY DEF P!SaveOnly, P!listVars
<1>2. ListType'
  BY <1>1, ListingIs DEF ListInv, ListType
<1>3. ListFollows'
  BY <1>1 DEF ListInv, ListFollows, WillRead, WillWrite, WillReload
<1> QED BY <1>1, <1>2, <1>3 DEF ListInv

\* A writer goes one step on.
LEMMA WriterMoves ==
  ASSUME ListInv, NEW w \in P!Writers,
         NEW at \in {"none", "lock", "write", "reload"}, NEW entry \in P!Entry \cup {None},
         writer' = [writer EXCEPT ![w] = [at |-> at, entry |-> entry]]
  PROVE  /\ writer' \in [P!Writers -> [at : {"none", "lock", "write", "reload"}, entry : P!Entry \cup {None}]]
         /\ writer'[w].at = at /\ writer'[w].entry = entry
         /\ \A v \in P!Writers : v # w => writer'[v] = writer[v]
BY DEF ListInv, ListType

\* The rewriting of the list, whatever fails of it
LEMMA ListKeeps ==
  ASSUME ListInv, NEW w \in P!Writers, P!ListStep(w)
  PROVE  ListInv' /\ \A v \in P!Writers : P!Idle(v) => P!Idle(v)'
<1>1. CASE P!ReadRows(w)
  <2>1. /\ writer[w].at = "lock" /\ \A v \in P!Writers : writer[v].at # "write"
        /\ writer' = [writer EXCEPT ![w] = [at |-> "write", entry |-> P!Listing(row)]]
        /\ UNCHANGED <<row, since, file, engine, unwritten, unread>>
    BY <1>1 DEF P!ReadRows, P!LockIsFree, P!rowVars
  <2>2. P!Listing(row) \in P!Entry /\ P!Listing(row) \in since
    BY ListingIs DEF ListInv, ListType, ListFollows
  <2>3. /\ writer' \in [P!Writers -> [at : {"none", "lock", "write", "reload"}, entry : P!Entry \cup {None}]]
        /\ writer'[w].at = "write" /\ writer'[w].entry = P!Listing(row)
        /\ \A v \in P!Writers : v # w => writer'[v] = writer[v]
    BY <2>1, <2>2, WriterMoves
  <2>4. ListType'
    BY <2>1, <2>2, <2>3 DEF ListInv, ListType
  <2>5. WillWrite' /\ (WillReload => WillReload')
    BY <2>1, <2>2, <2>3 DEF WillWrite, WillReload
  <2>6. ListFollows'
    BY <2>1, <2>2, <2>3, <2>5 DEF ListInv, ListFollows, P!Listing
  <2> QED BY <2>1, <2>3, <2>4, <2>6 DEF ListInv, P!Idle
<1>2. CASE P!WriteList(w)
  <2>1. writer[w].at = "write" /\ UNCHANGED <<row, since, engine, unread>>
    BY <1>2 DEF P!WriteList, P!rowVars
  <2>2. \A v \in P!Writers : v # w => writer[v].at # "write"
    BY <2>1 DEF ListInv, ListFollows
  <2>3. CASE /\ file' = writer[w].entry /\ unwritten' = FALSE
             /\ writer' = [writer EXCEPT ![w] = [at |-> "reload", entry |-> None]]
    <3>1. /\ writer' \in [P!Writers -> [at : {"none", "lock", "write", "reload"}, entry : P!Entry \cup {None}]]
          /\ writer'[w].at = "reload" /\ \A v \in P!Writers : v # w => writer'[v] = writer[v]
      BY <2>3, WriterMoves
    <3>2. ListType'
      BY <2>1, <2>2, <2>3, <3>1 DEF ListInv, ListType
    <3>3. WillReload' /\ (WillRead => WillRead')
      BY <2>1, <3>1 DEF WillReload, WillRead
    <3>4. file' \in since \/ WillRead
      BY <2>1, <2>3 DEF ListInv, ListFollows
    <3>5. ListFollows'
      BY <2>1, <2>2, <3>1, <3>3, <3>4 DEF ListInv, ListFollows, P!Listing
    <3> QED BY <2>1, <3>1, <3>2, <3>5 DEF ListInv, P!Idle
  <2>4. CASE /\ unwritten' = TRUE /\ UNCHANGED file
             /\ writer' = [writer EXCEPT ![w] = [at |-> "none", entry |-> None]]
    <3>1. /\ writer' \in [P!Writers -> [at : {"none", "lock", "write", "reload"}, entry : P!Entry \cup {None}]]
          /\ writer'[w].at = "none" /\ \A v \in P!Writers : v # w => writer'[v] = writer[v]
      BY <2>4, WriterMoves
    <3>2. ListType'
      BY <2>1, <2>2, <2>4, <3>1 DEF ListInv, ListType
    <3>3. WillReload => WillReload'
      BY <2>1, <3>1 DEF WillReload
    <3>4. ListFollows'
      BY <2>1, <2>2, <2>4, <3>1, <3>3 DEF ListInv, ListFollows, P!Listing
    <3> QED BY <3>1, <3>2, <3>4 DEF ListInv, P!Idle
  <2> QED BY <1>2, <2>3, <2>4 DEF P!WriteList
<1>3. CASE P!Reload(w)
  <2> DEFINE x == [writer[w] EXCEPT !.at = "none"]
  <2>1. /\ writer[w].at = "reload" /\ UNCHANGED <<row, since, file, unwritten>>
        /\ writer' = [writer EXCEPT ![w] = x]
        /\ (engine' = file /\ unread' = FALSE) \/ (unread' = TRUE /\ UNCHANGED engine)
    BY <1>3 DEF P!Reload, P!rowVars, ListInv, ListType
  <2>2. x.at = "none" /\ x \in [at : {"none", "lock", "write", "reload"}, entry : P!Entry \cup {None}]
    BY DEF ListInv, ListType
  <2> HIDE DEF x
  <2>3. /\ writer' \in [P!Writers -> [at : {"none", "lock", "write", "reload"}, entry : P!Entry \cup {None}]]
        /\ writer'[w].at = "none" /\ \A v \in P!Writers : v # w => writer'[v] = writer[v]
    BY <2>1, <2>2 DEF ListInv, ListType
  <2>4. ListType'
    BY <2>1, <2>3 DEF ListInv, ListType
  <2>5. (WillRead => WillRead') /\ (WillWrite => WillWrite')
    BY <2>1, <2>3 DEF WillRead, WillWrite
  <2>6. ListFollows'
    BY <2>1, <2>3, <2>5 DEF ListInv, ListFollows, P!Listing
  <2> QED BY <2>3, <2>4, <2>6 DEF ListInv, P!Idle
<1> QED BY <1>1, <1>2, <1>3 DEF P!ListStep

\* What somebody does who neither saves a row nor rewrites the list.
LEMMA ListLeft ==
  ASSUME ListInv, UNCHANGED <<P!rowVars, P!listVars>>
  PROVE  ListInv' /\ UNCHANGED writer
BY DEF ListInv, ListType, ListFollows, WillRead, WillWrite, WillReload, P!rowVars, P!listVars

\* What happens at most MaxMoves times
LEMMA MovesStayIn ==
  ASSUME MaxDeeds \in Nat, deeds \in 0..MaxDeeds, UNCHANGED deeds \/ P!Moved
  PROVE  deeds' \in 0..MaxDeeds
BY CounterStays DEF P!Moved

\* The rewriting of the list leaves the rest alone.
LEMMA ListStepKeeps ==
  ASSUME PairingInv, MaxDeeds \in Nat, NEW w \in P!Writers, P!ListStep(w)
  PROVE  PairingInv'
<1>1. ListInv' /\ \A v \in P!Writers : P!Idle(v) => P!Idle(v)'
  BY ListKeeps DEF PairingInv
<1>2. UNCHANGED <<rowEdit, starter, polled, news, att, gw, tokens>> /\ (UNCHANGED deeds \/ P!Moved)
  BY DEF P!ListStep, P!ReadRows, P!WriteList, P!Reload
<1>3. deeds' \in 0..MaxDeeds
  BY <1>2, MovesStayIn DEF PairingInv, HoldersAgree
<1>4. HoldersAgree'
  BY <1>1, <1>2, <1>3 DEF PairingInv, HoldersAgree, P!Writers
<1>5. GatewayAgrees' /\ AttemptsAgree'
  BY <1>1, <1>2 DEF PairingInv, GatewayAgrees, AttemptsAgree, P!Writers
<1> QED BY <1>1, <1>4, <1>5 DEF PairingInv

\* Rows that are read, saved and written back: PUT, StartPairing, poll
LEMMA RowStepKeeps ==
  ASSUME PairingInv, MaxDeeds \in Nat, MaxTokens \in Nat, Attempts \cap {"edit", "start"} = {},
         \/ P!EditReads \/ \E address \in Addresses : P!EditSaves(address)
         \/ P!StartReads \/ P!StartSaves \/ P!PollReads \/ P!PollHears \/ P!PollWrites
  PROVE  PairingInv'
<1> DEFINE Others == UNCHANGED <<att, gw>> /\ (UNCHANGED deeds \/ P!Moved)
<1>1. row \in P!Row /\ \A a \in Attempts : a # "edit" /\ a # "start"
  BY DEF PairingInv, ListInv, ListType
\* Each attempt that goes on finds its writer as it was.
<1>2. ASSUME UNCHANGED <<att, gw>>, \A v \in P!Writers : v \notin {"edit", "start"} => writer'[v] = writer[v]
      PROVE  GatewayAgrees' /\ AttemptsAgree'
  BY <1>1, <1>2 DEF PairingInv, GatewayAgrees, AttemptsAgree, P!Idle, P!Writers
<1>3. Others => deeds' \in 0..MaxDeeds
  BY MovesStayIn DEF PairingInv, HoldersAgree
<1>4. CASE P!EditReads
  <2>1. Others /\ rowEdit' = row /\ P!Idle("edit") /\ UNCHANGED <<P!rowVars, P!listVars, starter, polled, news, tokens>>
    BY <1>4 DEF P!EditReads
  <2>2. ListInv' /\ UNCHANGED writer
    BY <2>1, ListLeft DEF PairingInv
  <2>3. HoldersAgree'
    BY <1>1, <1>3, <2>1, <2>2 DEF PairingInv, HoldersAgree, P!Idle
  <2> QED BY <1>2, <2>1, <2>2, <2>3 DEF PairingInv
<1>5. ASSUME NEW address \in Addresses, P!EditSaves(address) PROVE PairingInv'
  <2> DEFINE r == [rowEdit EXCEPT !.address = address]
  <2>1. rowEdit # None /\ rowEdit' = None /\ P!SaveAndList("edit", r) /\ UNCHANGED <<starter, polled, news, att, gw, tokens, deeds>>
    BY <1>5 DEF P!EditSaves
  <2>2. r \in P!Row /\ P!Idle("edit") /\ "edit" \in P!Writers
    BY <2>1 DEF PairingInv, HoldersAgree, P!Row, P!Writers
  <2> HIDE DEF r
  <2>3. ListInv' /\ \A v \in P!Writers : v # "edit" => writer'[v] = writer[v]
    BY <2>1, <2>2, SavedAndListed DEF PairingInv
  <2>4. HoldersAgree'
    BY <1>3, <2>1, <2>3 DEF PairingInv, HoldersAgree, P!Idle, P!Writers
  <2> QED BY <1>2, <2>1, <2>3, <2>4 DEF PairingInv
<1>6. CASE P!StartReads
  <2>1. /\ Others /\ starter' = row /\ P!Idle("start") /\ tokens < MaxTokens /\ tokens' = tokens + 1
        /\ UNCHANGED <<P!rowVars, P!listVars, rowEdit, polled, news>>
    BY <1>6 DEF P!StartReads
  <2>2. ListInv' /\ UNCHANGED writer
    BY <2>1, ListLeft DEF PairingInv
  <2>3. tokens' \in 0..MaxTokens /\ tokens' # 0
    BY <2>1, CounterStays DEF PairingInv, HoldersAgree
  <2>4. HoldersAgree'
    BY <1>1, <1>3, <2>1, <2>2, <2>3 DEF PairingInv, HoldersAgree, P!Idle
  <2> QED BY <1>2, <2>1, <2>2, <2>4 DEF PairingInv
<1>7. CASE P!StartSaves
  <2> DEFINE r == [starter EXCEPT !.paired = FALSE, !.token = tokens]
  <2>1. /\ starter # None /\ starter' = None /\ UNCHANGED <<rowEdit, polled, news, att, gw, tokens, deeds>>
        /\ P!SaveAndList("start", r) \/ P!SaveOnly(r)
    BY <1>7 DEF P!StartSaves
  <2>2. tokens \in P!Tokens
    BY <2>1 DEF PairingInv, HoldersAgree, P!Tokens
  <2>3. r \in P!Row /\ P!Idle("start") /\ "start" \in P!Writers
    BY <2>1, <2>2 DEF PairingInv, HoldersAgree, P!Row, P!Writers
  <2> HIDE DEF r
  <2>4. ListInv' /\ \A v \in P!Writers : v # "start" => writer'[v] = writer[v]
    BY <2>1, <2>3, SavedAndListed, SavedOnly DEF PairingInv
  <2>5. HoldersAgree'
    BY <1>3, <2>1, <2>4 DEF PairingInv, HoldersAgree, P!Idle, P!Writers
  <2> QED BY <1>2, <2>1, <2>4, <2>5 DEF PairingInv
<1>8. CASE P!PollReads \/ P!PollHears
  <2>1. /\ Others /\ UNCHANGED <<P!rowVars, P!listVars, rowEdit, starter, tokens>>
        /\ polled' \in {row, polled, None} /\ news' \in BOOLEAN /\ (news' => polled' # None)
    <3>1. news \in BOOLEAN /\ (news => polled # None)
      BY DEF PairingInv, HoldersAgree
    <3>2. CASE P!PollReads
      BY <3>1, <3>2 DEF P!PollReads
    <3>3. CASE P!PollHears
      <4>1. CASE news' = TRUE /\ UNCHANGED polled
        BY <3>1, <3>3, <4>1, Zenon DEF P!PollHears
      <4>2. CASE polled' = None /\ UNCHANGED news
        BY <3>1, <3>3, <4>2, Zenon DEF P!PollHears
      <4> QED BY <3>3, <4>1, <4>2 DEF P!PollHears
    <3> QED BY <1>8, <3>2, <3>3
  <2>2. ListInv' /\ UNCHANGED writer
    BY <2>1, ListLeft DEF PairingInv
  <2>3. HoldersAgree'
    BY <1>1, <1>3, <2>1, <2>2 DEF PairingInv, HoldersAgree, P!Idle
  <2> QED BY <1>2, <2>1, <2>2, <2>3 DEF PairingInv
<1>9. CASE P!PollWrites
  <2>1. news /\ P!SaveOnly(polled) /\ polled' = None /\ news' = FALSE /\ UNCHANGED <<rowEdit, starter, att, gw, tokens, deeds>>
    BY <1>9 DEF P!PollWrites
  <2>2. polled \in P!Row
    BY <2>1 DEF PairingInv, HoldersAgree
  <2>3. ListInv' /\ UNCHANGED writer
    BY <2>1, <2>2, SavedOnly DEF PairingInv
  <2>4. HoldersAgree'
    BY <1>3, <2>1, <2>3 DEF PairingInv, HoldersAgree, P!Idle
  <2> QED BY <1>2, <2>1, <2>3, <2>4 DEF PairingInv
<1> QED BY <1>4, <1>5, <1>6, <1>7, <1>8, <1>9

\* An attempt goes on, and the gateway with it; rows and list are left alone.
LEMMA AttemptMoves ==
  ASSUME PairingInv, MaxDeeds \in Nat, NEW a \in Attempts, NEW r \in P!Attempt, att' = [att EXCEPT ![a] = r],
         UNCHANGED <<P!rowVars, P!listVars, rowEdit, starter, polled, news, tokens>>,
         UNCHANGED deeds \/ P!Moved,
         GatewayAgrees', gw'.token = gw.token,
         r.gw = "proved" => r.token = gw.token /\ r.home # "none",
         r.home \in {"read", "told"} => r.row \in P!Row /\ P!Idle(a)
  PROVE  PairingInv'
<1>1. att' \in [Attempts -> P!Attempt] /\ att'[a] = r /\ \A b \in Attempts : b # a => att'[b] = att[b]
  BY DEF PairingInv, AttemptsAgree
<1>2. ListInv' /\ UNCHANGED writer
  BY ListLeft DEF PairingInv
<1>3. AttemptsAgree'
  BY <1>1, <1>2 DEF PairingInv, AttemptsAgree, P!Idle
<1>4. deeds' \in 0..MaxDeeds
  BY MovesStayIn DEF PairingInv, HoldersAgree
<1>5. HoldersAgree'
  BY <1>2, <1>4 DEF PairingInv, HoldersAgree, P!Idle
<1> QED BY <1>2, <1>3, <1>5 DEF PairingInv

\* Where the two sides of an attempt are
LEMMA AttemptIs ==
  ASSUME PairingInv, NEW a \in Attempts
  PROVE  /\ att[a] \in P!Attempt
         /\ att[a].gw = "proved" => att[a].token = gw.token /\ att[a].home # "none"
         /\ att[a].home \in {"read", "told"} => att[a].row \in P!Row /\ P!Idle(a)
BY DEF PairingInv, AttemptsAgree

\* An attempt whose sides move, or that is over
LEMMA SidesMove ==
  ASSUME PairingInv, NEW a \in Attempts,
         \/ P!Free(a)
         \/ att' = [att EXCEPT ![a].gw = "over"]
         \/ att' = [att EXCEPT ![a].gw = "proved"] /\ att[a].token = gw.token /\ att[a].home = "read"
         \/ att' = [att EXCEPT ![a].home = "told"] /\ att[a].home = "read"
  PROVE  \E r \in P!Attempt :
            /\ att' = [att EXCEPT ![a] = r]
            /\ r.gw = "proved" => r.token = gw.token /\ r.home # "none"
            /\ r.home \in {"read", "told"} => r.row \in P!Row /\ P!Idle(a)
<1>1. /\ att[a] \in P!Attempt /\ att \in [Attempts -> P!Attempt]
      /\ att[a].gw = "proved" => att[a].token = gw.token /\ att[a].home # "none"
      /\ att[a].home \in {"read", "told"} => att[a].row \in P!Row /\ P!Idle(a)
  BY AttemptIs DEF PairingInv, AttemptsAgree
<1>2. CASE P!Free(a)
  <2>1. P!NoAttempt \in P!Attempt /\ P!NoAttempt.gw = "none" /\ P!NoAttempt.home = "none"
    BY DEF P!NoAttempt, P!Attempt
  <2> QED BY <1>2, <2>1 DEF P!Free
<1>3. ASSUME NEW g \in {"over", "proved"}, att' = [att EXCEPT ![a].gw = g],
             g = "proved" => att[a].token = gw.token /\ att[a].home = "read"
      PROVE  \E r \in P!Attempt :
                /\ att' = [att EXCEPT ![a] = r]
                /\ r.gw = "proved" => r.token = gw.token /\ r.home # "none"
                /\ r.home \in {"read", "told"} => r.row \in P!Row /\ P!Idle(a)
  <2> DEFINE r == [att[a] EXCEPT !.gw = g]
  <2>1. r \in P!Attempt /\ r.gw = g /\ r.home = att[a].home /\ r.token = att[a].token /\ r.row = att[a].row
    BY <1>1 DEF P!Attempt
  <2>2. att' = [att EXCEPT ![a] = r]
    BY <1>1, <1>3
  <2> HIDE DEF r
  <2> QED BY <1>1, <1>3, <2>1, <2>2
<1>4. CASE att' = [att EXCEPT ![a].home = "told"] /\ att[a].home = "read"
  <2> DEFINE r == [att[a] EXCEPT !.home = "told"]
  <2>1. r \in P!Attempt /\ r.home = "told" /\ r.gw = att[a].gw /\ r.token = att[a].token /\ r.row = att[a].row
    BY <1>1 DEF P!Attempt
  <2>2. att' = [att EXCEPT ![a] = r]
    BY <1>1, <1>4
  <2> HIDE DEF r
  <2> QED BY <1>1, <1>4, <2>1, <2>2
<1> QED BY <1>2, <1>3, <1>4

\* A step of an attempt to pair, at home and at the gateway
LEMMA AttemptKeeps ==
  ASSUME PairingInv, MaxDeeds \in Nat, Attempts \cap {"edit", "start"} = {}, NEW a \in Attempts, P!AttemptStep(a)
  PROVE  PairingInv'
<1>1. UNCHANGED <<rowEdit, starter, polled, news, tokens>> /\ (UNCHANGED deeds \/ P!Moved)
  BY DEF P!AttemptStep, P!Pair, P!Prove, P!Confirm, P!HomePairs, P!GatewayPairs, P!Lose
<1>2. GatewayAgrees /\ (UNCHANGED gw => GatewayAgrees')
  BY DEF PairingInv, GatewayAgrees
<1>3. CASE P!Pair(a)
  <2> DEFINE r == [home |-> "read", gw |-> "none", row |-> row, token |-> row.token]
  <2>1. row \in P!Row /\ r \in P!Attempt
    BY DEF P!Row, P!Attempt, PairingInv, ListInv, ListType
  <2>2. att' = [att EXCEPT ![a] = r] /\ P!Idle(a) /\ UNCHANGED <<P!rowVars, P!listVars, gw>>
    BY <1>3 DEF P!Pair
  <2>3. r.gw = "none" /\ r.home = "read" /\ r.row = row
    OBVIOUS
  <2> HIDE DEF r
  <2> QED BY <1>1, <1>2, <2>1, <2>2, <2>3, AttemptMoves
<1>4. CASE P!Prove(a) \/ P!Confirm(a) \/ P!Lose(a) \/ P!GatewayPairs(a)
  <2>1. \/ P!Free(a)
        \/ att' = [att EXCEPT ![a].gw = "over"]
        \/ att' = [att EXCEPT ![a].gw = "proved"] /\ att[a].token = gw.token /\ att[a].home = "read"
        \/ att' = [att EXCEPT ![a].home = "told"] /\ att[a].home = "read"
    BY <1>4 DEF P!Prove, P!Proves, P!Confirm, P!Lose, P!GatewayPairs
  <2>2. UNCHANGED <<P!rowVars, P!listVars>>
    BY <1>4 DEF P!Prove, P!Confirm, P!Lose, P!GatewayPairs
  <2>3. UNCHANGED gw \/ gw' = [gw EXCEPT !.paired = TRUE, !.disk = TRUE, !.used = TRUE, !.pairs = @ + 1]
    BY <1>4 DEF P!Prove, P!Confirm, P!Lose, P!GatewayPairs
  <2>4. GatewayAgrees' /\ gw'.token = gw.token
    <3>1. CASE UNCHANGED gw
      BY <1>2, <3>1
    <3>2. CASE gw' = [gw EXCEPT !.paired = TRUE, !.disk = TRUE, !.used = TRUE, !.pairs = @ + 1]
      <4> DEFINE x == [gw EXCEPT !.paired = TRUE, !.disk = TRUE, !.used = TRUE]
      <4>1. gw.pairs + 1 \in Nat /\ gw \in GatewayType
        BY <1>2 DEF GatewayAgrees, GatewayType
      <4>2. x \in GatewayType /\ x.paired = TRUE /\ x.disk = TRUE /\ x.token = gw.token /\ x.pairs = gw.pairs
        BY <4>1 DEF GatewayType
      <4>3. gw' = [x EXCEPT !.pairs = gw.pairs + 1]
        BY <3>2, <4>1, Zenon DEF GatewayType
      <4> HIDE DEF x
      <4>4. gw' \in GatewayType /\ gw'.paired = TRUE /\ gw'.disk = TRUE /\ gw'.token = gw.token
        BY <4>1, <4>2, <4>3 DEF GatewayType
      <4> QED BY <4>4 DEF GatewayAgrees
    <3> QED BY <2>3, <3>1, <3>2
  <2> QED BY <1>1, <2>1, <2>2, <2>4, SidesMove, AttemptMoves
<1>5. CASE P!HomePairs(a)
  <2> DEFINE x == [att[a].row EXCEPT !.paired = TRUE, !.token = None]
  <2>1. /\ att[a].home = "told" /\ P!SaveAndList(a, x) /\ UNCHANGED gw
        /\ P!Free(a) \/ att' = [att EXCEPT ![a].home = "saved", ![a].row = None]
    BY <1>5 DEF P!HomePairs
  <2>2. x \in P!Row /\ P!Idle(a) /\ a \in P!Writers
    BY <2>1, AttemptIs DEF P!Row, P!Writers
  <2> HIDE DEF x
  <2>3. ListInv' /\ \A v \in P!Writers : v # a => writer'[v] = writer[v]
    BY <2>1, <2>2, SavedAndListed DEF PairingInv
  <2>4. att \in [Attempts -> P!Attempt] /\ att[a] \in P!Attempt
    BY AttemptIs DEF PairingInv, AttemptsAgree
  <2>5. PICK r \in P!Attempt : /\ att' = [att EXCEPT ![a] = r] /\ r.home \in {"none", "saved"}
                               /\ r.gw = "proved" => r.token = gw.token /\ r.home # "none"
    <3>1. CASE P!Free(a)
      <4>1. P!NoAttempt \in P!Attempt /\ P!NoAttempt.gw = "none" /\ P!NoAttempt.home = "none"
        BY DEF P!NoAttempt, P!Attempt
      <4> QED BY <3>1, <4>1 DEF P!Free
    <3>2. CASE att' = [att EXCEPT ![a].home = "saved", ![a].row = None]
      <4> DEFINE r == [att[a] EXCEPT !.home = "saved", !.row = None]
      <4>1. r \in P!Attempt /\ r.home = "saved" /\ r.gw = att[a].gw /\ r.token = att[a].token
        BY <2>4 DEF P!Attempt
      <4>2. att' = [att EXCEPT ![a] = r]
        BY <2>4, <3>2
      <4> HIDE DEF r
      <4> QED BY <4>1, <4>2, AttemptIs
    <3> QED BY <2>1, <3>1, <3>2
  <2>6. att' \in [Attempts -> P!Attempt] /\ att'[a] = r /\ \A b \in Attempts : b # a => att'[b] = att[b]
    BY <2>4, <2>5
  <2>7. AttemptsAgree'
    BY <2>1, <2>3, <2>5, <2>6 DEF PairingInv, AttemptsAgree, P!Idle, P!Writers
  <2>8. a # "edit" /\ a # "start"
    OBVIOUS
  <2>9. deeds' \in 0..MaxDeeds
    BY <1>1, MovesStayIn DEF PairingInv, HoldersAgree
  <2>10. (rowEdit # None => P!Idle("edit"))' /\ (starter # None => P!Idle("start"))'
    BY <1>1, <2>3, <2>8 DEF PairingInv, HoldersAgree, P!Idle, P!Writers
  <2> QED BY <1>1, <1>2, <2>1, <2>3, <2>7, <2>9, <2>10 DEF PairingInv, HoldersAgree
<1> QED BY <1>3, <1>4, <1>5 DEF P!AttemptStep

\* A reset of the gateway, and a start of its process
LEMMA GatewayKeeps ==
  ASSUME PairingInv, MaxDeeds \in Nat, P!Reset \/ \E token \in P!Tokens : P!GatewayStarts(token)
  PROVE  PairingInv'
<1>1. gw \in GatewayType /\ (gw.pairs # 0 => gw.disk /\ gw.paired)
  BY DEF PairingInv, GatewayAgrees
<1>2. CASE P!Reset
  <2>1. gw' = [gw EXCEPT !.disk = FALSE, !.pairs = 0]
        /\ UNCHANGED <<P!rowVars, P!listVars, rowEdit, starter, polled, news, att, tokens, deeds>>
    BY <1>2 DEF P!Reset
  <2>2. gw' \in GatewayType /\ gw'.pairs = 0 /\ gw'.token = gw.token
    BY <1>1, <2>1 DEF GatewayType
  <2>3. ListInv' /\ UNCHANGED writer
    BY <2>1, ListLeft DEF PairingInv
  <2> QED BY <2>1, <2>2, <2>3 DEF PairingInv, HoldersAgree, GatewayAgrees, AttemptsAgree, P!Idle
<1>3. ASSUME NEW token \in P!Tokens, P!GatewayStarts(token) PROVE PairingInv'
  <2>1. /\ gw' = [gw EXCEPT !.paired = gw.disk, !.token = token, !.used = gw.disk]
        /\ UNCHANGED <<P!rowVars, P!listVars, rowEdit, starter, polled, news, tokens>> /\ P!Moved
    BY <1>3, Zenon DEF P!GatewayStarts
  <2>2. gw' \in GatewayType /\ gw'.pairs = gw.pairs /\ gw'.disk = gw.disk /\ gw'.paired = gw.disk
    BY <1>1, <2>1 DEF GatewayType
  <2>3. ListInv' /\ UNCHANGED writer
    BY <2>1, ListLeft DEF PairingInv
  <2>4. att' = [a \in Attempts |-> IF att[a].home = "told" THEN [att[a] EXCEPT !.gw = "over"] ELSE P!NoAttempt]
    BY <1>3, Zenon DEF P!GatewayStarts
  <2>5. ASSUME NEW a \in Attempts
        PROVE  /\ att'[a] \in P!Attempt /\ att'[a].gw # "proved"
               /\ att'[a].home \in {"read", "told"} => att'[a].row \in P!Row /\ P!Idle(a)
    <3>1. att[a] \in P!Attempt /\ (att[a].home = "told" => att[a].row \in P!Row /\ P!Idle(a))
      BY AttemptIs
    <3>2. CASE att[a].home = "told"
      <4>1. att'[a] = [att[a] EXCEPT !.gw = "over"]
        BY <2>4, <3>2, Zenon
      <4> QED BY <3>1, <3>2, <4>1 DEF P!Attempt
    <3>3. CASE att[a].home # "told"
      <4>1. att'[a] = P!NoAttempt
        BY <2>4, <3>3, Zenon
      <4> QED BY <4>1 DEF P!NoAttempt, P!Attempt
    <3> QED BY <3>2, <3>3
  <2>6. AttemptsAgree'
    BY <2>3, <2>4, <2>5 DEF AttemptsAgree, P!Idle
  <2>7. deeds' \in 0..MaxDeeds
    BY <2>1, MovesStayIn DEF PairingInv, HoldersAgree
  <2> QED BY <1>1, <2>1, <2>2, <2>3, <2>6, <2>7 DEF PairingInv, HoldersAgree, GatewayAgrees, P!Idle
<1> QED BY <1>2, <1>3

\* Every step of Pairing
LEMMA PairingKept ==
  ASSUME MaxTokens \in Nat, MaxDeeds \in Nat, Attempts \cap {"edit", "start"} = {}
  PROVE  /\ P!Init => PairingInv
         /\ PairingInv /\ [P!Next]_P!vars => PairingInv'
<1>1. ASSUME P!Init PROVE PairingInv
  <2>1. PICK address \in Addresses, paired \in BOOLEAN :
         /\ row = [address |-> address, paired |-> paired, token |-> None]
         /\ file = P!Listing(row) /\ engine = P!Listing(row) /\ since = {P!Listing(row)}
         /\ gw = [paired |-> paired, disk |-> paired, token |-> None, used |-> paired,
                  pairs |-> IF paired THEN 1 ELSE 0]
    BY <1>1 DEF P!Init
  <2>2. row \in P!Row /\ P!Listing(row) \in P!Entry
    BY <2>1, ListingIs DEF P!Row
  <2>3. writer = [w \in P!Writers |-> [at |-> "none", entry |-> None]] /\ unwritten = FALSE /\ unread = FALSE
    BY <1>1 DEF P!Init
  <2>4. ListInv
    BY <2>1, <2>2, <2>3 DEF ListInv, ListType, ListFollows, WillRead, WillWrite, WillReload
  <2>5. HoldersAgree
    <3>1. rowEdit = None /\ starter = None /\ polled = None /\ news = FALSE /\ tokens = 0 /\ deeds = 0
      BY <1>1 DEF P!Init
    <3>2. 0 \in 0..MaxTokens /\ 0 \in 0..MaxDeeds
      OBVIOUS
    <3> QED BY <3>1, <3>2 DEF HoldersAgree
  <2>6. GatewayAgrees
    BY <2>1 DEF GatewayAgrees, GatewayType
  <2>7. att = [a \in Attempts |-> P!NoAttempt] /\ P!NoAttempt \in P!Attempt
        /\ P!NoAttempt.gw = "none" /\ P!NoAttempt.home = "none"
    BY <1>1 DEF P!Init, P!NoAttempt, P!Attempt
  <2>8. AttemptsAgree
    BY <2>7 DEF AttemptsAgree
  <2> QED BY <2>4, <2>5, <2>6, <2>8 DEF PairingInv
<1>2. ASSUME PairingInv, [P!Next]_P!vars PROVE PairingInv'
  <2>1. CASE UNCHANGED P!vars
    <3>1. ListInv' /\ UNCHANGED <<writer, rowEdit, starter, polled, news, att, gw, tokens, deeds>>
      BY <1>2, <2>1, ListLeft DEF P!vars, PairingInv
    <3> QED BY <1>2, <3>1 DEF PairingInv, HoldersAgree, GatewayAgrees, AttemptsAgree, P!Idle
  <2>2. CASE P!Next
    BY <1>2, <2>2, ListStepKeeps, RowStepKeeps, AttemptKeeps, GatewayKeeps DEF P!Next
  <2> QED BY <1>2, <2>1, <2>2
<1> QED BY <1>1, <1>2

\* Of several that rewrite the list at once a slow one never puts an older list
\* over a newer one: ListIsNotOlder of Pairing, for any number of addresses,
\* attempts, tokens, edits, polls and failing writes.  (writeGateways,
\* gatewaysChanged)
THEOREM ListIsKeptInOrder ==
  ASSUME MaxTokens \in Nat, MaxDeeds \in Nat, Attempts \cap {"edit", "start"} = {}
  PROVE  P!Spec => []P!ListIsNotOlder
<1>1. PairingInv => P!ListIsNotOlder
  BY DEF PairingInv, ListInv, ListFollows, WillRead, WillWrite, WillReload, P!ListIsNotOlder, P!Idle
<1> QED BY <1>1, PairingKept, PTL DEF P!Spec

\* A gateway pairs only by a home that verified its proof, and is not paired
\* again until it is reset: PairedByConfirmation of Pairing, for any number of
\* attempts, tokens, lost connections, failed saves and starts of the gateway.
\* (pairConn, pair.Gateway)
THEOREM PairedOnlyWhenConfirmed ==
  ASSUME MaxTokens \in Nat, MaxDeeds \in Nat, Attempts \cap {"edit", "start"} = {}
  PROVE  P!Spec => P!PairedByConfirmation
<1> DEFINE Confirms ==
      gw'.pairs > gw.pairs
        => /\ \E a \in Attempts : att[a].gw = "proved" /\ att[a].home \in {"told", "saved"}
                                  /\ att[a].token = gw.token
           /\ gw.pairs = 0
<1>1. ASSUME PairingInv, P!Next PROVE Confirms
  <2>1. SUFFICES ASSUME gw'.pairs > gw.pairs PROVE Confirms
    OBVIOUS
  <2>2. gw \in GatewayType /\ (gw.pairs # 0 => gw.disk /\ gw.paired)
    BY <1>1 DEF PairingInv, GatewayAgrees
  <2>3. gw' # gw
    BY <2>1, <2>2 DEF GatewayType
  <2>4. ASSUME P!Reset \/ \E token \in P!Tokens : P!GatewayStarts(token) PROVE FALSE
    <3>1. CASE P!Reset
      BY <2>1, <2>2, <3>1 DEF P!Reset, GatewayType
    <3>2. ASSUME NEW token \in P!Tokens, P!GatewayStarts(token) PROVE FALSE
      <4>1. gw' = [gw EXCEPT !.paired = gw.disk, !.token = token, !.used = gw.disk]
        BY <3>2, Zenon DEF P!GatewayStarts
      <4> QED BY <2>1, <2>2, <4>1 DEF GatewayType
    <3> QED BY <2>4, <3>1, <3>2
  <2>5. ASSUME NEW a \in Attempts, P!GatewayPairs(a) PROVE Confirms
    <3>1. att[a].gw = "proved" /\ att[a].home \in {"told", "saved"} /\ gw.paired = FALSE
      <4>1. att[a].gw = "proved" /\ att[a].home \in {"told", "saved"} /\ ~gw.paired
        BY <2>3, <2>5, Zenon DEF P!GatewayPairs, P!Confirmed, P!StillOpen
      <4> QED BY <2>2, <4>1 DEF GatewayType
    <3>2. att[a].token = gw.token
      BY <1>1, <3>1, AttemptIs
    <3> QED BY <2>2, <3>1, <3>2
  <2> QED BY <1>1, <2>3, <2>4, <2>5 DEF P!Next, P!ListStep, P!ReadRows, P!WriteList, P!Reload, P!EditReads, P!EditSaves,
            P!StartReads, P!StartSaves, P!PollReads, P!PollHears, P!PollWrites, P!AttemptStep, P!Pair, P!Prove,
            P!Confirm, P!HomePairs, P!Lose
<1>2. PairingInv /\ [P!Next]_P!vars => [Confirms]_P!vars
  BY <1>1
<1> QED BY <1>2, PairingKept, PTL DEF P!Spec, P!PairedByConfirmation

\* In every reachable state the row, the list, whoever rewrites it and every
\* attempt are as their types say: TypeOK of Pairing.  (StartPairing,
\* writeGateways, pairConn)
THEOREM PairingTyped ==
  ASSUME MaxTokens \in Nat, MaxDeeds \in Nat, Attempts \cap {"edit", "start"} = {}
  PROVE  P!Spec => []P!TypeOK
<1>1. PairingInv => P!TypeOK
  BY DEF PairingInv, ListInv, ListType, HoldersAgree, GatewayAgrees, GatewayType, AttemptsAgree, P!TypeOK
<1> QED BY <1>1, PairingKept, PTL DEF P!Spec

-----------------------------------------------------------------------------
(* The update of Relay: unless two requests were let in together, one task *)
(* at most is at work, and the job there is is its own.  What the job says *)
(* was pulled is what the helper of one that reported to it pulled; and a  *)
(* helper pulls once.                                                      *)

Job    == [status : {"none", "running", "succeeded", "failed"}, id : S!Updates \cup {None},
           helper : S!Updates \cup {None}, to : Commits \cup {None}, by : SUBSET S!Updates]
Helper == [at : {"none", "pull", "build", "restart", "wait", "rollback", "done", "failed"},
           name : S!Updates \cup {None}, prev : Commits \cup {None}, to : Commits \cup {None}]
Places == {"new", "checked", "prepare", "started", "follow", "told", "over"}

UpdateType ==
    /\ relay \in [up : BOOLEAN, build : Commits] /\ image \in Commits /\ together \in BOOLEAN
    /\ job \in Job /\ task \in [S!Updates -> Places] /\ helper \in [S!Updates -> Helper]

HelpersAgree ==
    \A u \in S!Updates :
        /\ task[u] \in {"new", "checked", "prepare"} => helper[u].at = "none" /\ helper[u].to = None
        /\ helper[u].at = "pull" => helper[u].to = None
        /\ helper[u].at = "build" => helper[u].to \in Commits
        /\ helper[u].at \in {"restart", "wait", "rollback"} => helper[u].prev \in Commits

DeadDoNothing == relay.up = FALSE => \A u \in S!Updates : ~S!UnderWay(u)

TasksAgree ==
    \/ together = TRUE
    \/ /\ \A u, v \in S!Updates : S!UnderWay(u) /\ S!UnderWay(v) => u = v
       /\ \A u \in S!Updates : S!UnderWay(u) /\ task[u] # "checked" => u = job.id

JobAgrees ==
    /\ together = TRUE \/ job.helper \in {None, job.id}
    /\ job.to # None => \E u \in job.by : helper[u].to = job.to /\ (u = job.id \/ together = TRUE)

UpdateInv == UpdateType /\ HelpersAgree /\ DeadDoNothing /\ TasksAgree /\ JobAgrees

\* What a helper pulled it pulled for good.
PulledStays == \A v \in S!Updates : helper[v].to # None => helper'[v].to = helper[v].to

\* A job that is reported to, and not replaced
LEMMA JobStays ==
  ASSUME UpdateInv, PulledStays, UNCHANGED together,
         job'.id = job.id, job'.helper = job.helper, job'.to = job.to, job.by \subseteq job'.by
  PROVE  JobAgrees'
<1>1. job.by \subseteq S!Updates
  BY DEF UpdateInv, UpdateType, Job
<1> QED BY <1>1 DEF UpdateInv, JobAgrees, PulledStays

\* Who is at work goes on; nothing else of the tasks changes.
LEMMA TaskMoves ==
  ASSUME UpdateInv, NEW u \in S!Updates, NEW place \in Places \ {"new"}, task' = [task EXCEPT ![u] = place],
         S!UnderWay(u), UNCHANGED <<relay, together>>, job'.id = job.id,
         place \in {"prepare", "started", "follow", "told"} => together = TRUE \/ u = job.id
  PROVE  /\ task' \in [S!Updates -> Places] /\ task'[u] = place
         /\ \A v \in S!Updates : v # u => task'[v] = task[v]
         /\ DeadDoNothing' /\ TasksAgree'
<1>1. task' \in [S!Updates -> Places] /\ task'[u] = place /\ \A v \in S!Updates : v # u => task'[v] = task[v]
  BY DEF UpdateInv, UpdateType
<1>2. relay.up # FALSE
  BY DEF UpdateInv, DeadDoNothing
<1>3. DeadDoNothing'
  BY <1>2 DEF DeadDoNothing
<1>4. TasksAgree'
  <2>1. CASE together = TRUE
    BY <2>1 DEF TasksAgree
  <2>2. CASE together # TRUE
    <3>1. \A v \in S!Updates : S!UnderWay(v) => v = u
      BY <2>2 DEF UpdateInv, TasksAgree
    <3>2. \A v \in S!Updates : v # u => ~S!UnderWay(v)'
      BY <1>1, <3>1 DEF S!UnderWay
    <3>3. S!UnderWay(u)' /\ task'[u] # "checked" => u = job.id
      BY <1>1, <2>2 DEF S!UnderWay, Places
    <3> QED BY <3>2, <3>3 DEF TasksAgree
  <2> QED BY <2>1, <2>2
<1> QED BY <1>1, <1>3, <1>4

\* Whose job it is that somebody at work reports to
LEMMA JobIsOf ==
  ASSUME UpdateInv, NEW u \in S!Updates, task[u] \in {"prepare", "started", "follow", "told"}
  PROVE  S!UnderWay(u) /\ (together = TRUE \/ u = job.id)
BY DEF UpdateInv, TasksAgree, S!UnderWay

\* A job's end is reported.
LEMMA EndedKeeps ==
  ASSUME UpdateInv, NEW u \in S!Updates, task[u] \in {"prepare", "follow", "told"},
         NEW st \in {"failed", "succeeded"}, S!Ended(u, st), UNCHANGED <<relay, image, together>>,
         helper' \in [S!Updates -> Helper], PulledStays,
         \A v \in S!Updates : v # u => helper'[v] = helper[v],
         \/ UNCHANGED helper
         \/ helper'[u].at = "none"
  PROVE  UpdateInv'
<1>1. job' = [job EXCEPT !.status = st, !.by = job.by \cup {u}] /\ task' = [task EXCEPT ![u] = "over"]
  BY Zenon DEF S!Ended, S!Goes
<1>2. /\ job' \in Job /\ job'.id = job.id /\ job'.helper = job.helper /\ job'.to = job.to
      /\ job'.by = job.by \cup {u}
  BY <1>1 DEF UpdateInv, UpdateType, Job
<1>3. JobAgrees'
  BY <1>2, JobStays
<1>4. /\ task' \in [S!Updates -> Places] /\ task'[u] = "over"
      /\ \A v \in S!Updates : v # u => task'[v] = task[v]
      /\ DeadDoNothing' /\ TasksAgree'
  BY <1>1, <1>2, JobIsOf, TaskMoves DEF Places
<1>5. HelpersAgree'
  BY <1>4 DEF UpdateInv, HelpersAgree
<1> QED BY <1>2, <1>3, <1>4, <1>5 DEF UpdateInv, UpdateType

\* A request is let in, and its job is made.
LEMMA RequestKeeps ==
  ASSUME UpdateInv, NEW u \in S!Updates, S!Check(u) \/ S!Begin(u)
  PROVE  UpdateInv'
<1>1. CASE S!Check(u)
  <2>1. /\ relay.up = TRUE /\ task[u] = "new" /\ task' = [task EXCEPT ![u] = "checked"]
        /\ together' = (together \/ \E v \in S!Updates : S!UnderWay(v))
        /\ UNCHANGED <<relay, image, job, helper>>
    BY <1>1 DEF S!Check, S!Goes, UpdateInv, UpdateType
  <2>2. task' \in [S!Updates -> Places] /\ task'[u] = "checked" /\ \A v \in S!Updates : v # u => task'[v] = task[v]
    BY <2>1 DEF UpdateInv, UpdateType, Places
  <2>3. together' \in BOOLEAN /\ (together = TRUE => together' = TRUE)
        /\ (together' # TRUE => together # TRUE /\ \A v \in S!Updates : ~S!UnderWay(v))
    BY <2>1 DEF UpdateInv, UpdateType
  <2>4. TasksAgree'
    BY <2>1, <2>2, <2>3 DEF TasksAgree, S!UnderWay
  <2>5. JobAgrees' /\ HelpersAgree' /\ DeadDoNothing'
    BY <2>1, <2>2, <2>3 DEF UpdateInv, JobAgrees, HelpersAgree, DeadDoNothing
  <2> QED BY <2>1, <2>2, <2>3, <2>4, <2>5 DEF UpdateInv, UpdateType
<1>2. CASE S!Begin(u)
  <2>1. /\ task[u] = "checked" /\ task' = [task EXCEPT ![u] = "prepare"] /\ UNCHANGED <<relay, image, helper, together>>
        /\ job' = [status |-> "running", id |-> u, helper |-> None, to |-> None, by |-> {u}]
    BY <1>2 DEF S!Begin, S!Goes
  <2>2. task' \in [S!Updates -> Places] /\ task'[u] = "prepare" /\ \A v \in S!Updates : v # u => task'[v] = task[v]
    BY <2>1 DEF UpdateInv, UpdateType, Places
  <2>3. job' \in Job /\ job'.id = u /\ job'.helper = None /\ job'.to = None
    BY <2>1 DEF Job
  <2>4. relay.up # FALSE
    BY <2>1 DEF UpdateInv, DeadDoNothing, S!UnderWay
  <2>5. TasksAgree'
    <3>1. together # TRUE => \A v \in S!Updates : v # u => ~S!UnderWay(v)
      BY <2>1 DEF UpdateInv, TasksAgree, S!UnderWay
    <3> QED BY <2>1, <2>2, <2>3, <3>1 DEF TasksAgree, S!UnderWay
  <2>6. JobAgrees' /\ HelpersAgree' /\ DeadDoNothing'
    BY <2>1, <2>2, <2>3, <2>4 DEF UpdateInv, JobAgrees, HelpersAgree, DeadDoNothing
  <2> QED BY <2>1, <2>2, <2>3, <2>5, <2>6 DEF UpdateInv, UpdateType
<1> QED BY <1>1, <1>2

\* The goroutine of a job: the helper is started, its output told, its end reported.
LEMMA WorkerKeeps ==
  ASSUME UpdateInv, NEW u \in S!Updates, S!StartHelper(u) \/ S!SaveHelper(u) \/ S!Pulled(u) \/ S!Finalize(u)
  PROVE  UpdateInv'
<1>1. /\ task[u] \in Places /\ helper \in [S!Updates -> Helper] /\ helper[u] \in Helper /\ job \in Job
      /\ task \in [S!Updates -> Places]
  BY DEF UpdateInv, UpdateType
<1>2. CASE S!StartHelper(u)
  <2>1. task[u] = "prepare" /\ UNCHANGED <<relay, image, together>>
    BY <1>2 DEF S!StartHelper
  <2>2. CASE S!Ended(u, "failed") /\ UNCHANGED helper
    BY <1>1, <2>1, <2>2, EndedKeeps DEF PulledStays
  <2>3. CASE /\ helper' = [v \in S!Updates |->
                   IF v = u THEN [at |-> "pull", name |-> job.id, prev |-> None, to |-> None]
                   ELSE IF helper[v].name = job.id THEN S!Removed(helper[v])
                   ELSE helper[v]]
             /\ S!Goes(u, "started") /\ UNCHANGED job
    <3>1. helper[u].at = "none" /\ helper[u].to = None
      BY <2>1 DEF UpdateInv, HelpersAgree
    <3>2. helper'[u] = [at |-> "pull", name |-> job.id, prev |-> None, to |-> None]
      BY <2>3
    <3>3. helper'[u] \in Helper /\ helper'[u].at = "pull" /\ helper'[u].to = None
      BY <1>1, <3>2 DEF Helper, Job
    <3>4. ASSUME NEW v \in S!Updates, v # u
          PROVE  /\ helper'[v] \in Helper /\ helper'[v].to = helper[v].to
                 /\ helper'[v] = helper[v] \/ helper'[v].at = "none"
      <4>1. helper[v] \in Helper
        BY <1>1
      <4>2. helper'[v] = S!Removed(helper[v]) \/ helper'[v] = helper[v]
        BY <2>3, <3>4
      <4> QED BY <4>1, <4>2 DEF S!Removed, Helper
    <3>5. helper' \in [S!Updates -> Helper]
      <4>1. \A v \in S!Updates : helper'[v] \in Helper
        BY <3>3, <3>4
      <4> QED BY <2>3, <4>1
    <3>6. PulledStays
      BY <3>1, <3>4 DEF PulledStays
    <3>7. JobAgrees'
      BY <2>1, <2>3, <3>6, JobStays
    <3>8. /\ task' \in [S!Updates -> Places] /\ task'[u] = "started"
          /\ \A v \in S!Updates : v # u => task'[v] = task[v]
          /\ DeadDoNothing' /\ TasksAgree'
      BY <2>1, <2>3, JobIsOf, TaskMoves DEF Places, S!Goes
    <3>9. HelpersAgree'
      BY <3>3, <3>4, <3>8 DEF UpdateInv, HelpersAgree
    <3> QED BY <1>1, <2>1, <2>3, <3>5, <3>7, <3>8, <3>9 DEF UpdateInv, UpdateType
  <2> QED BY <1>2, <2>2, <2>3 DEF S!StartHelper
<1>3. ASSUME task[u] \in {"started", "follow"}, NEW place \in {"follow", "told"},
             task' = [task EXCEPT ![u] = place], UNCHANGED <<relay, image, helper, together>>, job' \in Job, JobAgrees',
             job'.id = job.id
      PROVE  UpdateInv'
  <2>1. /\ task' \in [S!Updates -> Places] /\ task'[u] = place
        /\ \A v \in S!Updates : v # u => task'[v] = task[v]
        /\ DeadDoNothing' /\ TasksAgree'
    BY <1>3, JobIsOf, TaskMoves DEF Places
  <2>2. HelpersAgree'
    BY <1>3, <2>1 DEF UpdateInv, HelpersAgree
  <2> QED BY <1>3, <2>1, <2>2 DEF UpdateInv, UpdateType
<1>4. CASE S!SaveHelper(u)
  <2>1. /\ task[u] = "started" /\ task' = [task EXCEPT ![u] = "follow"] /\ UNCHANGED <<relay, image, helper, together>>
        /\ job' = [job EXCEPT !.helper = u, !.by = job.by \cup {u}]
    BY <1>4, Zenon DEF S!SaveHelper, S!Goes
  <2>2. job' \in Job /\ job'.id = job.id /\ job'.helper = u /\ job'.to = job.to /\ job'.by = job.by \cup {u}
    BY <1>1, <2>1 DEF Job
  <2>3. JobAgrees'
    BY <1>1, <2>1, <2>2, JobIsOf DEF UpdateInv, JobAgrees
  <2> QED BY <1>3, <2>1, <2>2, <2>3
<1>5. CASE S!Pulled(u)
  <2>1. /\ task[u] = "follow" /\ task' = [task EXCEPT ![u] = "told"] /\ UNCHANGED <<relay, image, helper, together>>
        /\ job' = [job EXCEPT !.to = helper[u].to, !.by = job.by \cup {u}]
    BY <1>5, Zenon DEF S!Pulled, S!Goes
  <2>2. job' \in Job /\ job'.id = job.id /\ job'.helper = job.helper /\ job'.to = helper[u].to /\ job'.by = job.by \cup {u}
    BY <1>1, <2>1 DEF Job, Helper
  <2>3. JobAgrees'
    BY <1>1, <2>1, <2>2, JobIsOf DEF UpdateInv, JobAgrees
  <2> QED BY <1>3, <2>1, <2>2, <2>3
<1>6. CASE S!Finalize(u)
  <2>1. task[u] \in {"follow", "told"} /\ S!Ended(u, S!Outcome(helper[u])) /\ UNCHANGED <<relay, image, together>>
    BY <1>6 DEF S!Finalize
  <2>2. S!Outcome(helper[u]) \in {"failed", "succeeded"}
    BY DEF S!Outcome
  <2> DEFINE x == S!Removed(helper[u])
  <2>3. x \in Helper /\ x.at = "none" /\ x.to = helper[u].to
    BY <1>1 DEF Helper, S!Removed
  <2>4. helper' = [helper EXCEPT ![u] = x]
    BY <1>1, <1>6 DEF S!Finalize
  <2> HIDE DEF x
  <2>5. helper' \in [S!Updates -> Helper] /\ helper'[u] = x /\ \A v \in S!Updates : v # u => helper'[v] = helper[v]
    BY <1>1, <2>3, <2>4
  <2>6. PulledStays
    BY <2>3, <2>5 DEF PulledStays
  <2> QED BY <1>1, <2>1, <2>2, <2>3, <2>5, <2>6, EndedKeeps
<1> QED BY <1>2, <1>4, <1>5, <1>6

\* A Relay that died does nothing, and what it was about is over.
LEMMA DeadIs ==
  ASSUME UpdateInv, task' = S!Dead
  PROVE  /\ task' \in [S!Updates -> Places]
         /\ \A u \in S!Updates : ~S!UnderWay(u)' /\ task'[u] \in {task[u], "over"}
         /\ DeadDoNothing' /\ TasksAgree'
<1>1. \A u \in S!Updates : task'[u] \in {"new", "over"} /\ task'[u] \in {task[u], "over"}
  BY DEF S!Dead
<1>2. task' \in [S!Updates -> Places]
  BY <1>1 DEF S!Dead, Places
<1>3. \A u \in S!Updates : ~S!UnderWay(u)'
  BY <1>1 DEF S!UnderWay
<1> QED BY <1>1, <1>2, <1>3 DEF DeadDoNothing, TasksAgree

\* The container is recreated, or is as it was.
LEMMA RecreatedIs ==
  ASSUME UpdateInv, NEW b \in Commits, S!Recreated(b), UNCHANGED <<job, together>>
  PROVE  /\ relay' \in [up : BOOLEAN, build : Commits] /\ task' \in [S!Updates -> Places]
         /\ \A u \in S!Updates : task'[u] \in {task[u], "over"}
         /\ DeadDoNothing' /\ TasksAgree'
<1>1. CASE relay.build = b
  BY <1>1, Zenon DEF S!Recreated, UpdateInv, UpdateType, DeadDoNothing, TasksAgree, S!UnderWay
<1>2. CASE relay.build # b
  <2>1. relay' = [up |-> FALSE, build |-> b] /\ task' = S!Dead
    BY <1>2, Zenon DEF S!Recreated
  <2> QED BY <2>1, DeadIs
<1> QED BY <1>1, <1>2

\* The script in the helper: pull, build, compose up, and back
LEMMA ScriptKeeps ==
  ASSUME UpdateInv, NEW u \in S!Updates, S!Script(u)
  PROVE  UpdateInv'
<1>1. /\ helper \in [S!Updates -> Helper] /\ helper[u] \in Helper /\ image \in Commits
      /\ relay \in [up : BOOLEAN, build : Commits] /\ task \in [S!Updates -> Places]
  BY DEF UpdateInv, UpdateType
<1>2. UNCHANGED <<job, together>>
  BY DEF S!Script, S!Pull, S!Build, S!ComposeUp, S!WaitHealthy, S!RollBack
\* Its own container is past its start, whatever becomes of Relay.
<1>3. ASSUME NEW x \in Helper, helper' = [helper EXCEPT ![u] = x], helper[u].at # "none", x.at \notin {"none", "pull"},
             helper[u].to # None => x.to = helper[u].to,
             x.at = "build" => x.to \in Commits, x.at \in {"restart", "wait", "rollback"} => x.prev \in Commits,
             image' \in Commits,
             \/ UNCHANGED <<relay, task>>
             \/ \E b \in Commits : S!Recreated(b)
      PROVE  UpdateInv'
  <2>1. helper' \in [S!Updates -> Helper] /\ helper'[u] = x /\ \A v \in S!Updates : v # u => helper'[v] = helper[v]
    BY <1>1, <1>3
  <2>2. /\ relay' \in [up : BOOLEAN, build : Commits] /\ task' \in [S!Updates -> Places]
        /\ \A v \in S!Updates : task'[v] \in {task[v], "over"}
        /\ DeadDoNothing' /\ TasksAgree'
    <3>1. CASE UNCHANGED <<relay, task>>
      BY <1>1, <1>2, <3>1 DEF UpdateInv, DeadDoNothing, TasksAgree, S!UnderWay
    <3>2. CASE \E b \in Commits : S!Recreated(b)
      BY <1>2, <3>2, RecreatedIs
    <3> QED BY <1>3, <3>1, <3>2
  <2>3. task[u] \notin {"new", "checked", "prepare"}
    BY <1>3 DEF UpdateInv, HelpersAgree
  <2>4. HelpersAgree'
    BY <1>3, <2>1, <2>2, <2>3 DEF UpdateInv, HelpersAgree
  <2>5. PulledStays
    BY <1>3, <2>1 DEF PulledStays
  <2>6. JobAgrees'
    BY <1>2, <2>5, JobStays
  <2> QED BY <1>2, <1>3, <2>1, <2>2, <2>4, <2>6 DEF UpdateInv, UpdateType
\* A step of the script that tells nothing new
<1>4. ASSUME NEW step \in {"wait", "rollback", "done", "failed"}, S!HelperGoes(u, step), helper[u].at # "none",
             step \in {"wait", "rollback"} => helper[u].prev \in Commits
      PROVE  \E x \in Helper :
                /\ helper' = [helper EXCEPT ![u] = x] /\ x.at \notin {"none", "pull", "build"} /\ x.to = helper[u].to
                /\ x.at \in {"restart", "wait", "rollback"} => x.prev \in Commits
  <2> DEFINE x == [helper[u] EXCEPT !.at = step]
  <2>1. x \in Helper /\ x.at = step /\ x.to = helper[u].to /\ x.prev = helper[u].prev
    BY <1>1 DEF Helper
  <2>2. helper' = [helper EXCEPT ![u] = x]
    BY <1>1, <1>4 DEF S!HelperGoes
  <2> HIDE DEF x
  <2> QED BY <1>4, <2>1, <2>2
<1>5. /\ helper[u].at = "pull" => helper[u].to = None
      /\ helper[u].at = "build" => helper[u].to \in Commits
      /\ helper[u].at \in {"restart", "wait", "rollback"} => helper[u].prev \in Commits
  BY DEF UpdateInv, HelpersAgree
<1>6. CASE S!Pull(u)
  <2>1. helper[u].at = "pull" /\ UNCHANGED <<relay, image, task>>
    BY <1>6 DEF S!Pull
  <2>2. ASSUME NEW c \in Commits, helper' = [helper EXCEPT ![u].at = "build", ![u].to = c]
        PROVE  UpdateInv'
    <3> DEFINE x == [helper[u] EXCEPT !.at = "build", !.to = c]
    <3>1. x \in Helper /\ x.at = "build" /\ x.to = c
      BY <1>1 DEF Helper
    <3>2. helper' = [helper EXCEPT ![u] = x]
      BY <1>1, <2>2
    <3> HIDE DEF x
    <3> QED BY <1>1, <1>3, <1>5, <2>1, <3>1, <3>2
  <2>3. CASE S!HelperGoes(u, "failed")
    BY <1>1, <1>3, <1>4, <2>1, <2>3
  <2> QED BY <1>6, <2>2, <2>3 DEF S!Pull
<1>7. CASE S!Build(u)
  <2>1. helper[u].at = "build" /\ UNCHANGED <<relay, task>> /\ image' \in Commits
    BY <1>1, <1>5, <1>7 DEF S!Build
  <2>2. CASE helper' = [helper EXCEPT ![u].at = "restart", ![u].prev = relay.build]
    <3> DEFINE x == [helper[u] EXCEPT !.at = "restart", !.prev = relay.build]
    <3>1. x \in Helper /\ x.at = "restart" /\ x.prev \in Commits /\ x.to = helper[u].to
      BY <1>1 DEF Helper
    <3>2. helper' = [helper EXCEPT ![u] = x]
      BY <1>1, <2>2
    <3> HIDE DEF x
    <3> QED BY <1>3, <2>1, <3>1, <3>2
  <2>3. CASE S!HelperGoes(u, "failed")
    BY <1>1, <1>3, <1>4, <2>1, <2>3
  <2> QED BY <1>7, <2>2, <2>3 DEF S!Build
<1>8. CASE S!ComposeUp(u) \/ S!WaitHealthy(u) \/ S!RollBack(u)
  <2>1. helper[u].at \in {"restart", "wait", "rollback"} /\ image' \in Commits
    BY <1>1, <1>5, <1>8 DEF S!ComposeUp, S!WaitHealthy, S!RollBack
  <2>2. \E step \in {"wait", "rollback", "done", "failed"} : S!HelperGoes(u, step)
    BY <1>8 DEF S!ComposeUp, S!WaitHealthy, S!RollBack
  <2>3. \/ UNCHANGED <<relay, task>>
        \/ \E b \in Commits : S!Recreated(b)
    BY <1>1, <1>5, <1>8, <2>1 DEF S!ComposeUp, S!WaitHealthy, S!RollBack
  <2>4. PICK x \in Helper :
              /\ helper' = [helper EXCEPT ![u] = x] /\ x.at \notin {"none", "pull", "build"} /\ x.to = helper[u].to
              /\ x.at \in {"restart", "wait", "rollback"} => x.prev \in Commits
    BY <1>4, <1>5, <2>1, <2>2
  <2> QED BY <1>3, <2>1, <2>3, <2>4
<1> QED BY <1>6, <1>7, <1>8 DEF S!Script

\* The Relay that is started again has the job its predecessor left.
LEMMA RestartKeeps ==
  ASSUME UpdateInv, S!Restart
  PROVE  UpdateInv'
<1>1. PICK seen \in BOOLEAN :
        /\ job' = [job EXCEPT !.status = S!Resumed(seen)]
        /\ IF S!Resumed(seen) = "running" /\ job.helper # None
           THEN S!Goes(job.helper, "follow")
           ELSE UNCHANGED task
  BY DEF S!Restart
<1>2. /\ relay.up = FALSE /\ relay' = [relay EXCEPT !.up = TRUE] /\ UNCHANGED <<image, helper, together>>
      /\ job \in Job /\ relay \in [up : BOOLEAN, build : Commits] /\ task \in [S!Updates -> Places]
  BY DEF S!Restart, UpdateInv, UpdateType
<1>3. S!Resumed(seen) \in {"none", "running", "succeeded", "failed"}
      /\ (S!Resumed(seen) = "running" => job.helper # None /\ helper[job.helper].at # "none")
  BY <1>2 DEF S!Resumed, S!HelperThere, Job
<1>4. /\ job' \in Job /\ job'.id = job.id /\ job'.helper = job.helper /\ job'.to = job.to /\ job'.by = job.by
      /\ relay' \in [up : BOOLEAN, build : Commits] /\ relay'.up = TRUE
  BY <1>1, <1>2, <1>3 DEF Job
<1>5. JobAgrees' /\ DeadDoNothing'
  BY <1>2, <1>4, JobStays DEF PulledStays, DeadDoNothing
<1>6. \A v \in S!Updates : ~S!UnderWay(v)
  BY <1>2 DEF UpdateInv, DeadDoNothing
<1>7. CASE S!Resumed(seen) = "running"
  <2>1. job.helper \in S!Updates /\ task' = [task EXCEPT ![job.helper] = "follow"]
    BY <1>1, <1>2, <1>3, <1>7 DEF S!Goes, Job
  <2>2. task' \in [S!Updates -> Places] /\ task'[job.helper] = "follow"
        /\ \A v \in S!Updates : v # job.helper => task'[v] = task[v]
    BY <1>2, <2>1 DEF Places
  <2>3. \A v \in S!Updates : v # job.helper => ~S!UnderWay(v)'
    BY <1>6, <2>2 DEF S!UnderWay
  <2>4. TasksAgree'
    <3>1. CASE together = TRUE
      BY <1>2, <3>1 DEF TasksAgree
    <3>2. CASE together # TRUE
      <4>1. job.helper = job.id
        BY <1>3, <1>7, <3>2 DEF UpdateInv, JobAgrees
      <4>2. \A v \in S!Updates : S!UnderWay(v)' => v = job'.id
        BY <1>4, <2>3, <4>1
      <4> QED BY <1>4, <4>2 DEF TasksAgree, S!UnderWay
    <3> QED BY <3>1, <3>2
  <2>5. HelpersAgree'
    BY <1>2, <2>1, <2>2 DEF UpdateInv, HelpersAgree
  <2> QED BY <1>2, <1>4, <1>5, <2>2, <2>4, <2>5 DEF UpdateInv, UpdateType
<1>8. CASE S!Resumed(seen) # "running"
  <2>1. task' = task
    BY <1>1, <1>8
  <2>2. TasksAgree' /\ HelpersAgree'
    BY <1>2, <1>6, <2>1 DEF UpdateInv, TasksAgree, HelpersAgree, S!UnderWay
  <2> QED BY <1>2, <1>4, <1>5, <2>1, <2>2 DEF UpdateInv, UpdateType
<1> QED BY <1>7, <1>8

\* Every step of SelfUpdate
LEMMA UpdateKept ==
  /\ S!Init => UpdateInv
  /\ UpdateInv /\ [S!Next]_S!vars => UpdateInv'
<1>1. ASSUME S!Init PROVE UpdateInv
  <2>1. PICK c \in Commits : relay = [up |-> TRUE, build |-> c] /\ image = c
    BY <1>1 DEF S!Init
  <2>2. /\ helper = [u \in S!Updates |-> [at |-> "none", name |-> None, prev |-> None, to |-> None]]
        /\ job = [status |-> "none", id |-> None, helper |-> None, to |-> None, by |-> {}]
        /\ task = [u \in S!Updates |-> "new"] /\ together = FALSE
    BY <1>1 DEF S!Init
  <2>3. UpdateType
    BY <2>1, <2>2 DEF UpdateType, Job, Helper, Places
  <2>4. HelpersAgree /\ DeadDoNothing /\ JobAgrees
    BY <2>1, <2>2 DEF HelpersAgree, DeadDoNothing, JobAgrees
  <2>5. TasksAgree
    BY <2>2 DEF TasksAgree, S!UnderWay
  <2> QED BY <2>3, <2>4, <2>5 DEF UpdateInv
<1>2. ASSUME UpdateInv, [S!Next]_S!vars PROVE UpdateInv'
  <2>1. CASE S!Crash
    <3>1. relay' = [relay EXCEPT !.up = FALSE] /\ task' = S!Dead /\ UNCHANGED <<image, job, helper, together>>
      BY <2>1 DEF S!Crash
    <3>2. /\ task' \in [S!Updates -> Places] /\ \A u \in S!Updates : task'[u] \in {task[u], "over"}
          /\ DeadDoNothing' /\ TasksAgree'
      BY <1>2, <3>1, DeadIs
    <3>3. JobAgrees'
      BY <1>2, <3>1, JobStays DEF PulledStays
    <3>4. HelpersAgree'
      BY <1>2, <3>1, <3>2 DEF UpdateInv, HelpersAgree
    <3>5. UpdateType'
      BY <1>2, <3>1, <3>2 DEF UpdateInv, UpdateType
    <3> QED BY <3>2, <3>3, <3>4, <3>5 DEF UpdateInv
  <2>2. CASE UNCHANGED S!vars
    BY <1>2, <2>2 DEF S!vars, UpdateInv, UpdateType, HelpersAgree, DeadDoNothing, TasksAgree, JobAgrees, S!UnderWay
  <2> QED BY <1>2, <2>1, <2>2, RequestKeeps, WorkerKeeps, ScriptKeeps, RestartKeeps DEF S!Next, S!Work
<1> QED BY <1>1, <1>2

\* An update is only said to have succeeded when Relay runs what a helper that
\* reports to the job has pulled, and that is the helper of the request the job was
\* made for unless two were let in together: SuccessIsTrue of SelfUpdate, for any
\* number of updates, commits and faults, requests that pass the check together
\* included.  (finalizeRelay, resumeRelayUpdate)
THEOREM SuccessIsOfTheBuild ==
  ASSUME None \notin Commits
  PROVE  S!Spec => S!SuccessIsTrue
<1> DEFINE True ==
      job'.status = "succeeded" /\ job.status # "succeeded"
        => \E u \in job'.by : relay'.build = helper[u].to /\ (u = job.id \/ together)
<1>1. ASSUME UpdateInv, S!Next PROVE True
  <2> SUFFICES ASSUME job'.status = "succeeded", job.status # "succeeded"
      PROVE  \E u \in job'.by : relay'.build = helper[u].to /\ (u = job.id \/ together)
    OBVIOUS
  <2>1. job' # job /\ job \in Job /\ relay \in [up : BOOLEAN, build : Commits] /\ together \in BOOLEAN
    BY <1>1 DEF UpdateInv, UpdateType
  <2>2. CASE S!Restart
    <3>1. PICK seen \in BOOLEAN : job' = [job EXCEPT !.status = S!Resumed(seen)]
      BY <2>2 DEF S!Restart
    <3>2. S!Resumed(seen) = "succeeded" /\ job'.by = job.by /\ relay'.build = relay.build
      BY <2>1, <2>2, <3>1 DEF S!Restart, Job
    <3>3. relay.build = job.to
      BY <3>2 DEF S!Resumed
    <3>4. job.to # None
      BY <2>1, <3>3
    <3> QED BY <1>1, <3>2, <3>3, <3>4 DEF UpdateInv, JobAgrees
  <2>3. ASSUME NEW u \in S!Updates, S!Finalize(u)
        PROVE  \E v \in job'.by : relay'.build = helper[v].to /\ (v = job.id \/ together)
    <3>1. job' = [job EXCEPT !.status = S!Outcome(helper[u]), !.by = job.by \cup {u}] /\ relay' = relay
          /\ task[u] \in {"follow", "told"}
      BY <2>3, Zenon DEF S!Finalize, S!Ended
    <3>2. u \in job'.by /\ S!Outcome(helper[u]) = "succeeded"
      BY <2>1, <3>1 DEF Job
    <3>3. relay.build = helper[u].to
      BY <3>2 DEF S!Outcome
    <3>4. u = job.id \/ together
      BY <1>1, <2>1, <3>1, JobIsOf
    <3> QED BY <3>1, <3>2, <3>3, <3>4
  <2>4. ASSUME NEW u \in S!Updates, S!Begin(u) \/ S!StartHelper(u) \/ S!SaveHelper(u) \/ S!Pulled(u) PROVE FALSE
    <3>1. CASE S!Begin(u)
      BY <3>1 DEF S!Begin
    <3>2. CASE S!StartHelper(u)
      <4>1. job' = job \/ job' = [job EXCEPT !.status = "failed", !.by = job.by \cup {u}]
        BY <3>2, Zenon DEF S!StartHelper, S!Ended
      <4> QED BY <2>1, <4>1 DEF Job
    <3>3. CASE S!SaveHelper(u) \/ S!Pulled(u)
      <4>1. \/ job' = [job EXCEPT !.helper = u, !.by = job.by \cup {u}]
            \/ job' = [job EXCEPT !.to = helper[u].to, !.by = job.by \cup {u}]
        BY <3>3, Zenon DEF S!SaveHelper, S!Pulled
      <4> QED BY <2>1, <4>1 DEF Job
    <3> QED BY <2>4, <3>1, <3>2, <3>3
  <2>5. ASSUME NEW u \in S!Updates, S!Check(u) \/ S!Script(u) PROVE FALSE
    BY <2>1, <2>5 DEF S!Check, S!Script, S!Pull, S!Build, S!ComposeUp, S!WaitHealthy, S!RollBack
  <2>6. ~S!Crash
    BY <2>1 DEF S!Crash
  <2> QED BY <1>1, <2>2, <2>3, <2>4, <2>5, <2>6 DEF S!Next, S!Work
<1>2. UpdateInv /\ [S!Next]_S!vars => [True]_S!vars
  BY <1>1
<1> QED BY <1>2, UpdateKept, PTL DEF S!Spec, S!SuccessIsTrue

\* In every reachable state the job, its task and its helper are as their types say,
\* whichever of them dies meanwhile: TypeOK of SelfUpdate.  (startRelayUpdate,
\* resumeRelayUpdate)
THEOREM UpdateTyped ==
  ASSUME MaxKills \in Nat
  PROVE  S!Spec => []S!TypeOK
<1> DEFINE Rest == kills \in 0..MaxKills
<1>1. S!Init => Rest
  BY DEF S!Init
<1>2. ASSUME Rest, [S!Next]_S!vars PROVE Rest'
  <2>1. kills' = kills \/ (kills < MaxKills /\ kills' = kills + 1)
    BY <1>2 DEF S!Next, S!vars, S!Check, S!Work, S!Script, S!Crash, S!Restart, S!Begin, S!StartHelper, S!SaveHelper,
         S!Pulled, S!Finalize, S!Pull, S!Build, S!ComposeUp, S!WaitHealthy, S!RollBack, S!Fault
  <2> QED BY <1>2, <2>1, CounterStays
<1>3. UpdateInv /\ Rest => S!TypeOK
  BY DEF UpdateInv, UpdateType, Job, Helper, Places, S!TypeOK
<1>4. (S!Init => UpdateInv) /\ (UpdateInv /\ [S!Next]_S!vars => UpdateInv')
  BY UpdateKept
<1> HIDE DEF Rest
<1> QED BY <1>1, <1>2, <1>3, <1>4, PTL DEF S!Spec

-----------------------------------------------------------------------------
(* Alerts: a check compares what it finds with the status it replaces, so  *)
(* what was told of a target fits that status as long as no check is at    *)
(* work on it, and the one that is replaced while one is.                  *)

States == N!Statuses \cup {None}

CheckRow ==
    [at : {"probe", "confirm", "record", "save", "tell"}, on : BOOLEAN, st : States, prev : States]

\* Queues, and what notifications go through, do not matter.
AlertType ==
    /\ loop \in [at : {"idle", "sweep", "one", "clean"}, seen : SUBSET Targets]
    /\ check \in [Targets -> CheckRow \cup {N!NoCheck}]
    /\ health \in [Targets -> [now : States, row : States]]
    /\ told \in [Targets -> [what : {None, "down", "recovered"}, excused : BOOLEAN]]

\* A status, and what is told of a target that has it.
Fits(now, word) ==
    \/ word.excused
    \/ now = "down" /\ word.what = "down"
    \/ now = "healthy" /\ word.what # "down"
    \/ now = None /\ word.what = None

LoopWaits == loop.at \notin {"sweep", "one"} => \A t \in Targets : check[t] = N!NoCheck

\* A check, the status of its target, and what is told of it.
Agrees(c, now, word) ==
    IF c.at \in {"save", "tell"}
    THEN now = c.st /\ c.st # None /\ Fits(c.prev, word) /\ (c.at = "tell" => c.prev # c.st)
    ELSE Fits(now, word) /\ (c.at \in {"confirm", "record"} => c.st # None)

ToldFits == \A t \in Targets : Agrees(check[t], health[t].now, told[t])

AlertInv == AlertType /\ LoopWaits /\ ToldFits

\* No check is under way.
LEMMA NoCheckIs == N!NoCheck.at = "none"
BY DEF N!NoCheck

\* A check of one target goes on.
LEMMA CheckMoves ==
  ASSUME AlertInv, None \notin N!Statuses \cup {"recovered"}, NEW t \in Targets, check[t] # N!NoCheck,
         NEW r \in CheckRow \cup {N!NoCheck}, NEW h \in [now : States, row : States],
         NEW w \in [what : {None, "down", "recovered"}, excused : BOOLEAN],
         check' = [check EXCEPT ![t] = r], health' = [health EXCEPT ![t] = h], told' = [told EXCEPT ![t] = w],
         loop' = loop, Agrees(r, h.now, w)
  PROVE  AlertInv'
<1>1. AlertType'
  BY DEF AlertInv, AlertType
<1>2. check'[t] = r /\ health'[t] = h /\ told'[t] = w
  BY DEF AlertInv, AlertType
<1>3. \A s \in Targets \ {t} : check'[s] = check[s] /\ health'[s] = health[s] /\ told'[s] = told[s]
  BY DEF AlertInv, AlertType
<1>4. LoopWaits'
  BY DEF AlertInv, LoopWaits
<1>5. ToldFits'
  <2> SUFFICES ASSUME NEW s \in Targets PROVE Agrees(check'[s], health'[s].now, told'[s])
    BY DEF ToldFits, Agrees, Fits
  <2>1. CASE s = t
    BY <2>1, <1>2
  <2>2. CASE s # t
    BY <2>2, <1>3 DEF AlertInv, ToldFits
  <2> QED BY <2>1, <2>2
<1> QED BY <1>1, <1>4, <1>5 DEF AlertInv

\* A step of a health check: probe, confirm, record, announce
LEMMA CheckKeeps ==
  ASSUME AlertInv, None \notin N!Statuses \cup {"recovered"}, NEW t \in Targets,
         N!Probe(t) \/ N!Confirm(t) \/ N!Record(t) \/ N!SaveRow(t) \/ N!Tell(t)
  PROVE  AlertInv'
<1> DEFINE c == check[t]
           h == health[t]
           w == told[t]
<1>1. c # N!NoCheck
  BY NoCheckIs DEF N!Probe, N!Confirm, N!Record, N!SaveRow, N!Tell
<1>2. c \in CheckRow /\ h \in [now : States, row : States]
      /\ w \in [what : {None, "down", "recovered"}, excused : BOOLEAN]
  BY <1>1 DEF AlertInv, AlertType
<1>3. IF c.at \in {"save", "tell"}
      THEN h.now = c.st /\ c.st # None /\ Fits(c.prev, w) /\ (c.at = "tell" => c.prev # c.st)
      ELSE Fits(h.now, w) /\ (c.at \in {"confirm", "record"} => c.st # None)
  BY DEF AlertInv, ToldFits, Agrees
<1>4. health' = health => health' = [health EXCEPT ![t] = h]
  BY DEF AlertInv, AlertType
<1>5. told' = told => told' = [told EXCEPT ![t] = w]
  BY DEF AlertInv, AlertType
<1>6. ASSUME NEW at \in {"confirm", "record"}, NEW st \in N!Statuses, N!Steps(t, at, st), c.at \notin {"save", "tell"},
             health' = health, told' = told, loop' = loop
      PROVE  AlertInv'
  <2> DEFINE r == [c EXCEPT !.at = at, !.st = st]
  <2>1. r \in CheckRow /\ r.at = at /\ r.st = st /\ r.st # None
    BY <1>2 DEF CheckRow, States
  <2>2. check' = [check EXCEPT ![t] = r]
    BY <1>6 DEF N!Steps, AlertInv, AlertType
  <2> HIDE DEF r
  <2>3. Agrees(r, h.now, w)
    BY <1>3, <1>6, <2>1 DEF Agrees
  <2>4. health' = [health EXCEPT ![t] = h] /\ told' = [told EXCEPT ![t] = w] /\ loop' = loop
    BY <1>4, <1>5, <1>6
  <2> HIDE DEF h, w
  <2> QED BY <1>1, <1>2, <2>1, <2>2, <2>3, <2>4, CheckMoves
<1>7. CASE N!Probe(t)
  <2>1. \E at \in {"confirm", "record"}, st \in N!Statuses : N!Steps(t, at, st)
    <3>1. CASE N!Steps(t, "record", "disabled")
      BY <3>1 DEF N!Statuses
    <3>2. CASE N!Steps(t, "record", "healthy")
      BY <3>2 DEF N!Statuses
    <3>3. CASE N!Steps(t, IF health[t].now = "healthy" THEN "confirm" ELSE "record", "down")
      BY <3>3 DEF N!Statuses
    <3> QED BY <1>7, <3>1, <3>2, <3>3 DEF N!Probe
  <2>2. c.at = "probe" /\ health' = health /\ told' = told /\ loop' = loop
    BY <1>7 DEF N!Probe
  <2> QED BY <1>6, <2>1, <2>2
<1>8. CASE N!Confirm(t)
  <2>1. \E at \in {"confirm", "record"}, st \in N!Statuses : N!Steps(t, at, st)
    <3>1. N!Steps(t, "record", IF host[t].answers THEN "healthy" ELSE "down")
      BY <1>8 DEF N!Confirm
    <3> QED BY <3>1 DEF N!Statuses
  <2>2. c.at = "confirm" /\ health' = health /\ told' = told /\ loop' = loop
    BY <1>8 DEF N!Confirm
  <2> QED BY <1>6, <2>1, <2>2
<1>9. CASE N!Record(t)
  <2> DEFINE r == [c EXCEPT !.at = "save", !.prev = h.now]
             g == [h EXCEPT !.now = c.st]
  <2>1. r \in CheckRow /\ r.at = "save" /\ r.st = c.st /\ r.prev = h.now
    BY <1>2 DEF CheckRow
  <2>2. g \in [now : States, row : States] /\ g.now = c.st
    BY <1>2 DEF CheckRow
  <2>3. check' = [check EXCEPT ![t] = r] /\ health' = [health EXCEPT ![t] = g]
    BY <1>9 DEF N!Record, AlertInv, AlertType
  <2>4. Fits(h.now, w) /\ c.st # None
    BY <1>3, <1>9 DEF N!Record
  <2>5. told' = [told EXCEPT ![t] = w] /\ loop' = loop
    BY <1>5, <1>9 DEF N!Record
  <2> HIDE DEF r, g
  <2>6. Agrees(r, g.now, w)
    BY <2>1, <2>2, <2>4 DEF Agrees
  <2> HIDE DEF h, w
  <2> QED BY <1>1, <1>2, <2>1, <2>2, <2>3, <2>5, <2>6, CheckMoves
<1>10. CASE N!SaveRow(t)
  <2> DEFINE r == IF c.prev = c.st THEN N!NoCheck ELSE [c EXCEPT !.at = "tell"]
  <2>1. check' = [check EXCEPT ![t] = r] /\ c.at = "save" /\ told' = told /\ loop' = loop
    BY <1>10 DEF N!SaveRow, AlertInv, AlertType
  <2>2. PICK g \in [now : States, row : States] : g.now = h.now /\ health' = [health EXCEPT ![t] = g]
    <3>1. CASE health' = health
      BY <1>2, <1>4, <3>1
    <3>2. CASE health' = [health EXCEPT ![t].row = check[t].st]
      <4> DEFINE g == [h EXCEPT !.row = c.st]
      <4>1. g \in [now : States, row : States] /\ g.now = h.now
        BY <1>2 DEF CheckRow
      <4>2. health' = [health EXCEPT ![t] = g]
        BY <3>2 DEF AlertInv, AlertType
      <4> QED BY <4>1, <4>2
    <3> QED BY <1>10, <3>1, <3>2 DEF N!SaveRow
  <2>3. h.now = c.st /\ c.st # None /\ Fits(c.prev, w)
    BY <1>3, <2>1
  <2>4. r \in CheckRow \cup {N!NoCheck}
    BY <1>2 DEF CheckRow
  <2>5. Agrees(r, h.now, w)
    <3>1. CASE c.prev = c.st
      BY <2>3, <3>1, NoCheckIs DEF Agrees
    <3>2. CASE c.prev # c.st
      <4>1. r.at = "tell" /\ r.st = c.st /\ r.prev = c.prev
        BY <1>2, <3>2 DEF CheckRow
      <4> QED BY <2>3, <3>2, <4>1 DEF Agrees
    <3> QED BY <3>1, <3>2
  <2>6. told' = [told EXCEPT ![t] = w]
    BY <1>5, <2>1
  <2> HIDE DEF h, w, r
  <2> QED BY <1>1, <1>2, <2>1, <2>2, <2>4, <2>5, <2>6, CheckMoves
<1>11. CASE N!Tell(t)
  <2>1. check' = [check EXCEPT ![t] = N!NoCheck] /\ health' = health /\ loop' = loop /\ c.at = "tell"
    BY <1>11 DEF N!Tell
  <2>2. h.now = c.st /\ c.st # None /\ Fits(c.prev, w) /\ c.prev # c.st
    BY <1>3, <2>1
  <2>3. ASSUME NEW v \in [what : {None, "down", "recovered"}, excused : BOOLEAN],
               told' = [told EXCEPT ![t] = v], Fits(c.st, v)
        PROVE  AlertInv'
    <3>1. Agrees(N!NoCheck, h.now, v) /\ N!NoCheck \in CheckRow \cup {N!NoCheck}
      BY <2>2, <2>3, NoCheckIs DEF Agrees
    <3>2. health' = [health EXCEPT ![t] = h]
      BY <1>4, <2>1
    <3> HIDE DEF h, w
    <3> QED BY <1>1, <1>2, <2>1, <2>3, <3>1, <3>2, CheckMoves
  <2>4. CASE N!Word(c) = None
    <3> DEFINE v == [w EXCEPT !.excused = @ \/ c.st = "disabled"]
    <3>1. v \in [what : {None, "down", "recovered"}, excused : BOOLEAN] /\ v.what = w.what
          /\ v.excused = (w.excused \/ c.st = "disabled")
      BY <1>2
    <3>2. told' = [told EXCEPT ![t] = v]
      BY <1>11, <2>4 DEF N!Tell, AlertInv, AlertType
    <3>3. Fits(c.st, v)
      <4>1. c.st \in {"healthy", "disabled"}
        BY <1>2, <2>2, <2>4 DEF CheckRow, States, N!Statuses, N!Word
      <4>2. CASE c.st = "disabled"
        BY <3>1, <4>2 DEF Fits
      <4>3. CASE c.st = "healthy"
        <5>1. c.prev # "down"
          BY <2>4, <4>3 DEF N!Word
        <5>2. w.excused \/ w.what = None
          BY <2>2, <4>3, <5>1 DEF Fits
        <5>3. v.excused \/ v.what # "down"
          BY <3>1, <5>2 DEF N!Statuses
        <5> QED BY <4>3, <5>3 DEF Fits
      <4> QED BY <4>1, <4>2, <4>3
    <3> HIDE DEF v
    <3> QED BY <2>3, <3>1, <3>2, <3>3
  <2>5. CASE N!Word(c) # None
    <3> DEFINE v == [what |-> N!Word(c), excused |-> FALSE]
    <3>1. N!Word(c) \in {"down", "recovered"}
      BY <2>5 DEF N!Word
    <3>2. told' = [told EXCEPT ![t] = v]
      BY <1>11, <2>5 DEF N!Tell
    <3>3. Fits(c.st, v)
      BY <2>5 DEF Fits, N!Word
    <3>4. v \in [what : {None, "down", "recovered"}, excused : BOOLEAN]
      BY <3>1
    <3> HIDE DEF v
    <3> QED BY <2>3, <3>2, <3>3, <3>4
  <2> QED BY <2>4, <2>5
<1> QED BY <1>7, <1>8, <1>9, <1>10, <1>11

\* A sweep, or a kick, begins checks when none is under way.
LEMMA BegunKeeps ==
  ASSUME AlertInv, NEW S1 \in SUBSET Targets, loop.at \notin {"sweep", "one"},
         check' = [t \in Targets |-> IF t \in S1 THEN N!Begun(t) ELSE N!NoCheck],
         health' = health, told' = told,
         loop' \in [at : {"idle", "sweep", "one", "clean"}, seen : SUBSET Targets],
         loop'.at \in {"sweep", "one"} \/ S1 = {}
  PROVE  AlertInv'
<1>1. \A t \in Targets : N!Begun(t) \in CheckRow /\ N!Begun(t).at = "probe"
  BY DEF N!Begun, CheckRow, States
<1>2. \A t \in Targets : check[t].at = "none" /\ check'[t].at \in {"probe", "none"}
  BY <1>1, NoCheckIs DEF AlertInv, LoopWaits
<1>3. AlertType'
  BY <1>1 DEF AlertInv, AlertType
<1>4. LoopWaits'
  BY DEF LoopWaits
<1>5. ToldFits'
  BY <1>2 DEF AlertInv, ToldFits, Agrees, Fits
<1> QED BY <1>3, <1>4, <1>5 DEF AlertInv

\* A target is forgotten when no check is under way.
LEMMA ForgottenKeeps ==
  ASSUME AlertInv, NEW t, loop' \in [at : {"idle", "sweep", "one", "clean"}, seen : SUBSET Targets],
         loop.at \notin {"sweep", "one"}, loop'.at \notin {"sweep", "one"},
         check' = check, health' = N!Forgotten(t), told' = [told EXCEPT ![t].excused = TRUE]
  PROVE  AlertInv'
<1>1. AlertType'
  BY ZenonT(60) DEF AlertInv, AlertType, N!Forgotten, States
<1>2. \A s \in Targets : check'[s].at = "none"
  BY NoCheckIs DEF AlertInv, LoopWaits
<1>3. \A s \in Targets : s # t => health'[s] = health[s] /\ told'[s] = told[s]
  BY DEF AlertInv, AlertType, N!Forgotten
<1>4. t \in Targets => told'[t].excused
  BY DEF AlertInv, AlertType
<1>5. \A s \in Targets : Fits(health[s].now, told[s])
  BY NoCheckIs DEF AlertInv, LoopWaits, ToldFits, Agrees
<1>6. ToldFits'
  BY <1>2, <1>3, <1>4, <1>5 DEF ToldFits, Agrees, Fits
<1>7. LoopWaits'
  BY DEF AlertInv, LoopWaits
<1> QED BY <1>1, <1>6, <1>7 DEF AlertInv

\* The loop of the checker: sweeps and kicks
LEMMA LoopKeeps ==
  ASSUME AlertInv, N!Sweep \/ N!KickAll \/ N!KickOne \/ N!Checked \/ N!Remove
  PROVE  AlertInv'
<1>1. CASE N!Sweep \/ N!KickAll
  <2> DEFINE seen == {t \in Targets : host[t].doc # "none"}
  <2>1. /\ loop.at \notin {"sweep", "one"} /\ loop'.at = "sweep" /\ health' = health /\ told' = told
        /\ check' = [t \in Targets |-> IF t \in seen THEN N!Begun(t) ELSE N!NoCheck]
    BY <1>1 DEF N!Sweep, N!KickAll, N!StartSweep
  <2>2. seen \in SUBSET Targets
    OBVIOUS
  <2>3. loop' = [at |-> "sweep", seen |-> seen]
    BY <1>1 DEF N!Sweep, N!KickAll, N!StartSweep
  <2> HIDE DEF seen
  <2> QED BY <2>1, <2>2, <2>3, BegunKeeps
<1>2. CASE N!KickOne
  <2> DEFINE t == Head(kick)
  <2>1. loop.at = "idle"
    BY <1>2 DEF N!KickOne
  <2>2. CASE host[t].doc = "none"
    <3>1. health' = N!Forgotten(t) /\ told' = [told EXCEPT ![t].excused = TRUE] /\ check' = check /\ loop' = loop
      BY <1>2, <2>2 DEF N!KickOne
    <3> QED BY <2>1, <3>1, ForgottenKeeps DEF AlertInv, AlertType
  <2>3. CASE host[t].doc # "none"
    <3>1. /\ loop' = [loop EXCEPT !.at = "one"] /\ health' = health /\ told' = told
          /\ check' = [check EXCEPT ![t] = N!Begun(t)]
      BY <1>2, <2>3 DEF N!KickOne
    <3>2. N!Begun(t) \in CheckRow /\ N!Begun(t).at = "probe"
      BY DEF N!Begun, CheckRow, States
    <3>3. \A s \in Targets : check[s].at = "none"
      BY <2>1, NoCheckIs DEF AlertInv, LoopWaits
    <3>4. \A s \in Targets : check'[s].at \in {"none", "probe"}
      BY <3>1, <3>2, <3>3 DEF AlertInv, AlertType
    <3>5. AlertType'
      BY <3>1, <3>2 DEF AlertInv, AlertType
    <3>6. ToldFits'
      BY <3>1, <3>3, <3>4 DEF AlertInv, ToldFits, Agrees, Fits
    <3>7. LoopWaits'
      <4>1. loop'.at = "one"
        BY <3>1 DEF AlertInv, AlertType
      <4> QED BY <4>1 DEF LoopWaits
    <3> QED BY <3>5, <3>6, <3>7 DEF AlertInv
  <2> QED BY <2>2, <2>3
<1>3. CASE N!Checked
  <2>1. check' = check /\ health' = health /\ told' = told /\ \A t \in Targets : check[t] = N!NoCheck
    BY <1>3 DEF N!Checked, N!Idle
  <2>2. loop' \in [at : {"idle", "sweep", "one", "clean"}, seen : SUBSET Targets]
    BY <1>3 DEF N!Checked, AlertInv, AlertType
  <2>3. \A t \in Targets : Agrees(check'[t], health'[t].now, told'[t])
    BY <2>1 DEF AlertInv, ToldFits
  <2> QED BY <2>1, <2>2, <2>3 DEF AlertInv, AlertType, LoopWaits, ToldFits, Agrees, Fits
<1>4. CASE N!Remove
  <2>1. PICK t \in N!Unseen :
          /\ health' = N!Forgotten(t) /\ told' = [told EXCEPT ![t].excused = TRUE]
          /\ loop' = [loop EXCEPT !.at = IF N!Unseen = {t} THEN "idle" ELSE "clean"]
    BY <1>4 DEF N!Remove
  <2>2. loop.at = "clean" /\ check' = check
    BY <1>4 DEF N!Remove
  <2>3. loop'.at \in {"idle", "clean"}
    BY <2>1 DEF AlertInv, AlertType
  <2>4. loop' \in [at : {"idle", "sweep", "one", "clean"}, seen : SUBSET Targets]
    BY <2>1 DEF AlertInv, AlertType
  <2> QED BY <2>1, <2>2, <2>3, <2>4, ForgottenKeeps
<1> QED BY <1>1, <1>2, <1>3, <1>4

\* Every step of Alerts
LEMMA AlertsKept ==
  ASSUME None \notin N!Statuses \cup {"recovered"}
  PROVE  /\ N!Init => AlertInv
         /\ AlertInv /\ [N!Next]_N!vars => AlertInv'
<1>1. ASSUME N!Init PROVE AlertInv
  <2>1. /\ loop = [at |-> "idle", seen |-> {}] /\ check = [t \in Targets |-> N!NoCheck]
        /\ health = [t \in Targets |-> [now |-> None, row |-> None]]
        /\ told = [t \in Targets |-> [what |-> None, excused |-> FALSE]]
    BY <1>1 DEF N!Init
  <2>2. AlertType
    BY <2>1 DEF AlertType, States
  <2>3. ToldFits
    BY <2>1, NoCheckIs DEF ToldFits, Agrees, Fits
  <2> QED BY <2>1, <2>2, <2>3 DEF AlertInv, LoopWaits
<1>2. ASSUME AlertInv, [N!Next]_N!vars PROVE AlertInv'
  <2>1. CASE N!Crash
    <3>1. /\ loop' = [at |-> "idle", seen |-> {}] /\ check' = [t \in Targets |-> N!NoCheck]
          /\ health' = [t \in Targets |-> [now |-> health[t].row, row |-> health[t].row]]
          /\ told' = [t \in Targets |-> [told[t] EXCEPT !.excused = TRUE]]
      BY <2>1 DEF N!Crash
    <3>2. \A t \in Targets : health[t].row \in States
      BY <1>2 DEF AlertInv, AlertType
    <3>3. AlertType'
      BY <1>2, <3>1, <3>2 DEF AlertInv, AlertType
    <3>4. \A t \in Targets : told'[t].excused
      BY <1>2, <3>1 DEF AlertInv, AlertType
    <3>5. ToldFits'
      BY <3>1, <3>4, NoCheckIs DEF ToldFits, Agrees, Fits
    <3> QED BY <3>1, <3>3, <3>5 DEF AlertInv, LoopWaits
  <2>2. CASE UNCHANGED N!healthVars
    BY <1>2, <2>2 DEF N!healthVars, AlertInv, AlertType, LoopWaits, ToldFits, Agrees, Fits
  <2>3. CASE N!Loop
    BY <1>2, <2>3, CheckKeeps, LoopKeeps DEF N!Loop
  <2>4. CASE N!Sweep
    BY <1>2, <2>4, LoopKeeps
  <2>5. ASSUME \/ \E t \in Targets : N!Flip(t) \/ \E doc \in {"none", "on", "off"} : N!Save(t, doc)
               \/ N!Applied \/ N!Announce \/ N!Watch
        PROVE  UNCHANGED N!healthVars
    BY <2>5 DEF N!Flip, N!Save, N!Applied, N!Announce, N!Watch
  <2>6. ASSUME N!Forget \/ N!Morning \/ N!Notify \/ \E w \in Workers : N!Deliver(w)
        PROVE  UNCHANGED N!healthVars
    BY <2>6 DEF N!Forget, N!Morning, N!Notify, N!Route, N!Flush, N!Take, N!Deliver
  <2>7. CASE UNCHANGED N!vars
    BY <2>2, <2>7 DEF N!vars, N!healthVars
  <2> QED BY <1>2, <2>1, <2>2, <2>3, <2>4, <2>5, <2>6, <2>7 DEF N!Next
<1> QED BY <1>1, <1>2

\* A target that is recorded as down was announced as such, and of one recorded as
\* healthy the last word is not that it is down: AlertsAreTrue of Alerts, for any
\* number of hosts, edits, sweeps and crashes.  (record, transition)
THEOREM AlertsStayTrue ==
  ASSUME None \notin N!Statuses \cup {"recovered"}
  PROVE  N!Spec => []N!AlertsAreTrue
<1>1. AlertInv => N!AlertsAreTrue
  <2> SUFFICES ASSUME AlertInv, NEW t \in Targets, check[t].at \notin {"save", "tell"}, ~told[t].excused
      PROVE  /\ health[t].now = "down" => told[t].what = "down"
             /\ health[t].now = "healthy" => told[t].what # "down"
    BY DEF N!AlertsAreTrue
  <2>1. Fits(health[t].now, told[t])
    BY DEF AlertInv, ToldFits, Agrees
  <2> QED BY <2>1 DEF Fits, N!Statuses
<1>2. (N!Init => AlertInv) /\ (AlertInv /\ [N!Next]_N!vars => AlertInv')
  BY AlertsKept
<1> QED BY <1>1, <1>2, PTL DEF N!Spec

\* A queue is a sequence with no more than Room elements.
LEMMA QueueIs ==
  ASSUME Room \in Nat, NEW T, NEW q
  PROVE  q \in N!Queues(T) <=> q \in Seq(T) /\ Len(q) <= Room
<1>1. ASSUME q \in N!Queues(T) PROVE q \in Seq(T) /\ Len(q) <= Room
  <2>1. PICK n \in 0..Room : q \in [1..n -> T]
    BY <1>1 DEF N!Queues
  <2>2. n \in Nat /\ q \in Seq(T)
    BY <2>1
  <2>3. Len(q) = n
    BY <2>1, <2>2
  <2> QED BY <2>1, <2>2, <2>3
<1>2. ASSUME q \in Seq(T), Len(q) <= Room PROVE q \in N!Queues(T)
  <2>1. q \in [1..Len(q) -> T] /\ Len(q) \in Nat
    BY <1>2
  <2>2. Len(q) \in 0..Room
    BY <1>2, <2>1
  <2> QED BY <2>1, <2>2 DEF N!Queues
<1> QED BY <1>1, <1>2

\* A queue takes what fits, and gives its first.
LEMMA QueueMoves ==
  ASSUME Room \in Nat, NEW T, NEW q \in N!Queues(T)
  PROVE  /\ <<>> \in N!Queues(T)
         /\ \A e \in T : N!Put(q, e) \in N!Queues(T)
         /\ q # <<>> => Head(q) \in T /\ Tail(q) \in N!Queues(T)
<1>1. q \in Seq(T) /\ Len(q) <= Room
  BY QueueIs
<1>2. <<>> \in N!Queues(T)
  <2>1. <<>> \in Seq(T) /\ Len(<<>>) <= Room
    OBVIOUS
  <2> QED BY <2>1, QueueIs
<1>3. ASSUME NEW e \in T PROVE N!Put(q, e) \in N!Queues(T)
  <2>1. N!Put(q, e) \in Seq(T) /\ Len(N!Put(q, e)) <= Room
    BY <1>1 DEF N!Put
  <2> QED BY <2>1, QueueIs
<1>4. ASSUME q # <<>> PROVE Head(q) \in T /\ Tail(q) \in N!Queues(T)
  <2>1. Head(q) \in T /\ Tail(q) \in Seq(T) /\ Len(Tail(q)) = Len(q) - 1 /\ Len(q) \in Nat
    BY <1>1, <1>4
  <2>2. Len(Tail(q)) <= Room
    BY <1>1, <2>1
  <2> QED BY <2>1, <2>2, QueueIs
<1> QED BY <1>2, <1>3, <1>4

\* The queues and counters of Alerts, which AlertInv says nothing of
Buses == bus \in N!Queues(Targets \cup {N!Everything}) /\ kick \in N!Queues(Targets \cup {N!Everything})

Notifying ==
    /\ intake \in N!Queues(N!Notices) /\ queue \in N!Queues(N!Notices) /\ recent \subseteq N!Notices
    /\ worker \in [Workers -> (N!Notices \X (1..3)) \cup {None}]
    /\ held \in [now : SUBSET N!Notices, row : SUBSET N!Notices]

\* What hosts are, and how often what a run bounds has happened
HostsAndBounds ==
    /\ host \in [Targets -> [doc : {"none", "on", "off"}, answers : BOOLEAN]]
    /\ quiet \in BOOLEAN /\ changes \in 0..MaxChanges /\ glitches \in 0..MaxGlitches

\* Hosts are saved and fail, and what is counted stays within its bound.
LEMMA HostsMove ==
  ASSUME MaxChanges \in Nat, MaxGlitches \in Nat, HostsAndBounds, [N!Next]_N!vars
  PROVE  HostsAndBounds'
<1> DEFINE Counts == /\ changes' = changes \/ (changes < MaxChanges /\ changes' = changes + 1)
                     /\ glitches' = glitches \/ (glitches < MaxGlitches /\ glitches' = glitches + 1)
           Rows == [Targets -> [doc : {"none", "on", "off"}, answers : BOOLEAN]]
<1>1. ASSUME NEW t \in Targets, NEW doc \in {"none", "on", "off"}, N!Flip(t) \/ N!Save(t, doc)
      PROVE  Counts /\ quiet' = quiet /\ host' \in Rows
  <2>1. Counts /\ quiet' = quiet
    BY <1>1 DEF N!Flip, N!Save, N!Change, N!notifyVars
  <2>2. host' = [host EXCEPT ![t].answers = ~@] \/ host' = [host EXCEPT ![t].doc = doc]
    BY <1>1 DEF N!Flip, N!Save
  <2> QED BY ZenonT(60), <2>1, <2>2 DEF HostsAndBounds
<1>2. ASSUME N!Applied \/ N!Announce \/ N!Watch \/ N!Sweep \/ N!KickAll \/ N!KickOne \/ N!Checked \/ N!Remove
      PROVE  Counts /\ quiet' = quiet /\ host' = host
  BY <1>2 DEF N!Applied, N!Announce, N!Watch, N!Sweep, N!KickAll, N!StartSweep, N!KickOne, N!Checked, N!Remove,
     N!Change, N!notifyVars
<1>3. ASSUME NEW t \in Targets, N!Probe(t) \/ N!Confirm(t) \/ N!Record(t) \/ N!SaveRow(t) \/ N!Tell(t)
      PROVE  Counts /\ quiet' = quiet /\ host' = host
  BY <1>3 DEF N!Probe, N!Confirm, N!Record, N!SaveRow, N!Tell, N!notifyVars
<1>4. ASSUME N!Forget \/ N!Morning \/ N!Route \/ N!Flush \/ (\E w \in Workers : N!Take(w) \/ N!Deliver(w)) \/ N!Crash
      PROVE  Counts /\ quiet' \in {quiet, FALSE} /\ host' = host
  BY <1>4 DEF N!Forget, N!Morning, N!Route, N!Flush, N!Take, N!Deliver, N!Crash
<1>5. Counts /\ quiet' \in {quiet, FALSE} /\ host' \in Rows
  <2>1. CASE UNCHANGED N!vars
    BY <2>1 DEF N!vars, HostsAndBounds
  <2>2. host \in Rows
    BY DEF HostsAndBounds
  <2> HIDE DEF Counts, Rows
  <2> QED BY ZenonT(60), <1>1, <1>2, <1>3, <1>4, <2>1, <2>2 DEF N!Next, N!Loop, N!Notify
<1> QED BY <1>5, CounterStays DEF HostsAndBounds

\* Events wait on the bus, and targets wait for the loop.
LEMMA BusesMove ==
  ASSUME Room \in Nat, Buses, [N!Next]_N!vars
  PROVE  Buses'
<1> DEFINE Event == Targets \cup {N!Everything}
           Q == N!Queues(Event)
<1>1. /\ <<>> \in Q
      /\ bus \in Q /\ kick \in Q
      /\ \A e \in Event : N!Put(bus, e) \in Q /\ N!Put(kick, e) \in Q
      /\ bus # <<>> => Head(bus) \in Event /\ Tail(bus) \in Q
      /\ kick # <<>> => Tail(kick) \in Q
  <2>1. bus \in Q /\ kick \in Q
    BY DEF Buses
  <2> HIDE DEF Q, Event
  <2>2. \A q \in Q : /\ <<>> \in Q /\ \A e \in Event : N!Put(q, e) \in Q
                     /\ q # <<>> => Head(q) \in Event /\ Tail(q) \in Q
    BY QueueMoves DEF Q
  <2> QED BY <2>1, <2>2
<1> HIDE DEF Q
<1>2. ASSUME NEW t \in Targets, NEW doc \in {"none", "on", "off"}, N!Flip(t) \/ N!Save(t, doc)
      PROVE  bus' \in Q /\ kick' \in Q
  BY <1>1, <1>2 DEF N!Flip, N!Save
<1>3. ASSUME N!Applied \/ N!Announce \/ N!Watch PROVE bus' \in Q /\ kick' \in Q
  <2>1. CASE N!Applied \/ N!Announce
    BY <1>1, <2>1 DEF N!Applied, N!Announce
  <2>2. CASE N!Watch
    BY <1>1, <2>2 DEF N!Watch
  <2> QED BY <1>3, <2>1, <2>2
<1>4. ASSUME N!Sweep \/ N!KickAll \/ N!KickOne \/ N!Checked \/ N!Remove PROVE bus' \in Q /\ kick' \in Q
  <2>1. bus' = bus /\ (kick' = kick \/ (kick # <<>> /\ kick' = Tail(kick)))
    BY <1>4 DEF N!Sweep, N!KickAll, N!StartSweep, N!KickOne, N!Checked, N!Remove
  <2> QED BY <1>1, <2>1
<1>5. ASSUME NEW t \in Targets, N!Probe(t) \/ N!Confirm(t) \/ N!Record(t) \/ N!SaveRow(t) \/ N!Tell(t)
      PROVE  bus' = bus /\ kick' = kick
  BY <1>5 DEF N!Probe, N!Confirm, N!Record, N!SaveRow, N!Tell
<1>6. ASSUME N!Forget \/ N!Morning \/ N!Route \/ N!Flush \/ (\E w \in Workers : N!Take(w) \/ N!Deliver(w)) \/ N!Crash
      PROVE  bus' \in {bus, <<>>} /\ kick' \in {kick, <<>>}
  BY <1>6 DEF N!Forget, N!Morning, N!Route, N!Flush, N!Take, N!Deliver, N!Crash
<1>7. CASE UNCHANGED N!vars
  BY <1>7, <1>1 DEF N!vars, Buses, Q
<1>8. bus' \in Q /\ kick' \in Q
  BY <1>1, <1>2, <1>3, <1>4, <1>5, <1>6, <1>7 DEF N!Next, N!Loop, N!Notify, N!vars
<1> QED BY <1>8 DEF Buses, Q

\* Notifications wait to be routed and to be delivered, are held, and are sent.
LEMMA NotifyingMoves ==
  ASSUME Room \in Nat, Notifying, check \in [Targets -> CheckRow \cup {N!NoCheck}], [N!Next]_N!vars
  PROVE  Notifying'
<1> DEFINE Q == N!Queues(N!Notices)
           Work == (N!Notices \X (1..3)) \cup {None}
<1> USE DEF Notifying
<1>1. /\ <<>> \in Q
      /\ \A e \in N!Notices : N!Put(intake, e) \in Q /\ N!Put(queue, e) \in Q
      /\ intake # <<>> => Head(intake) \in N!Notices /\ Tail(intake) \in Q
      /\ queue # <<>> => Head(queue) \in N!Notices /\ Tail(queue) \in Q
  <2>1. intake \in Q /\ queue \in Q
    OBVIOUS
  <2> HIDE DEF Q
  <2>2. \A q \in Q : /\ <<>> \in Q /\ \A e \in N!Notices : N!Put(q, e) \in Q
                     /\ q # <<>> => Head(q) \in N!Notices /\ Tail(q) \in Q
    BY QueueMoves DEF Q
  <2> QED BY <2>1, <2>2
<1>2. <<None, "update">> \in N!Notices /\ \A t \in Targets, word \in {"down", "recovered"} : <<t, word>> \in N!Notices
  BY DEF N!Notices
<1> HIDE DEF Q
<1>3. intake \in Q /\ queue \in Q
  BY DEF Q
<1>4. CASE UNCHANGED <<intake, recent, queue, worker, held>>
  BY <1>4
<1>5. ASSUME NEW t \in Targets, N!Tell(t) PROVE Notifying'
  <2>1. UNCHANGED <<recent, queue, worker, held>>
    BY <1>5 DEF N!Tell
  <2>2. N!Word(check[t]) \in {None, "down", "recovered"}
    BY DEF N!Word
  <2>3. intake' = intake \/ \E word \in {"down", "recovered"} : intake' = N!Put(intake, <<t, word>>)
    BY <1>5, <2>2 DEF N!Tell
  <2>4. intake' \in Q
    BY <1>1, <1>2, <1>3, <2>3
  <2> QED BY <2>1, <2>4 DEF Q
<1>6. CASE N!Announce
  <2>1. UNCHANGED <<recent, queue, worker, held>> /\ intake' \in Q
    BY <1>1, <1>2, <1>6 DEF N!Announce
  <2> QED BY <2>1 DEF Q
<1>7. CASE N!Route
  <2> DEFINE n == Head(intake)
  <2>1. n \in N!Notices /\ intake' \in Q /\ worker' = worker
    BY <1>1, <1>7 DEF N!Route
  <2>2. \/ UNCHANGED <<recent, held, queue>>
        \/ recent' = recent \cup {n} /\ queue' = queue
           /\ held' = [now |-> held.now \cup {n}, row |-> held.now \cup {n}]
        \/ recent' = recent \cup {n} /\ queue' = N!Put(queue, n) /\ held' = held
    BY <1>7 DEF N!Route
  <2>3. queue' \in Q
    BY <1>1, <1>3, <2>1, <2>2
  <2> HIDE DEF n
  <2>4. recent' \subseteq N!Notices /\ held' \in [now : SUBSET N!Notices, row : SUBSET N!Notices]
    BY <2>1, <2>2
  <2> QED BY <2>1, <2>3, <2>4 DEF Q
<1>8. CASE N!Flush
  <2>1. PICK n \in held.now : queue' = N!Put(queue, n)
    BY <1>8 DEF N!Flush
  <2>2. queue' \in Q
    BY <1>1, <2>1
  <2>3. held' = [now |-> {}, row |-> {}] /\ UNCHANGED <<intake, recent, worker>>
    BY <1>8 DEF N!Flush
  <2> QED BY <2>2, <2>3 DEF Q
<1>9. ASSUME NEW w \in Workers, N!Take(w) PROVE Notifying'
  <2>1. queue # <<>> /\ queue' = Tail(queue) /\ worker' = [worker EXCEPT ![w] = <<Head(queue), 1>>]
        /\ UNCHANGED <<intake, recent, held>>
    BY <1>9 DEF N!Take
  <2>2. <<Head(queue), 1>> \in Work /\ queue' \in Q
    BY <1>1, <2>1
  <2>3. worker' \in [Workers -> Work]
    BY <2>1, <2>2
  <2> QED BY <2>1, <2>2, <2>3 DEF Q
<1>10. ASSUME NEW w \in Workers, N!Deliver(w) PROVE Notifying'
  <2>1. /\ worker[w] # None
        /\ \/ worker' = [worker EXCEPT ![w] = None]
           \/ worker[w][2] < 3 /\ worker' = [worker EXCEPT ![w][2] = worker[w][2] + 1]
        /\ UNCHANGED <<intake, queue, recent, held>>
    BY <1>10 DEF N!Deliver
  <2>2. PICK n \in N!Notices, k \in 1..3 : worker[w] = <<n, k>>
    BY <2>1
  <2>3. [worker[w] EXCEPT ![2] = worker[w][2] + 1] = <<n, k + 1>> /\ worker[w][2] = k
    BY <2>2
  <2>4. worker[w][2] < 3 => <<n, k + 1>> \in Work
    BY <2>2, <2>3
  <2>5. worker' \in [Workers -> Work]
    BY <2>1, <2>3, <2>4
  <2> QED BY <2>1, <2>5
<1>11. CASE N!Forget \/ N!Crash
  <2>1. /\ UNCHANGED <<intake, queue>> \/ (intake' = <<>> /\ queue' = <<>>)
        /\ recent' \subseteq recent
        /\ worker' = worker \/ worker' = [w \in Workers |-> None]
        /\ held' = held \/ held' = [held EXCEPT !.now = held.row]
    BY <1>11 DEF N!Forget, N!Crash
  <2>2. intake' \in Q /\ queue' \in Q
    BY <1>1, <1>3, <2>1
  <2>3. held' \in [now : SUBSET N!Notices, row : SUBSET N!Notices]
    BY <2>1
  <2>4. worker' \in [Workers -> Work]
    BY <2>1
  <2> QED BY <2>1, <2>2, <2>3, <2>4 DEF Q
<1>12. ASSUME NEW t \in Targets, NEW doc \in {"none", "on", "off"}, N!Flip(t) \/ N!Save(t, doc)
       PROVE  UNCHANGED <<intake, recent, queue, worker, held>>
  BY <1>12 DEF N!Flip, N!Save, N!notifyVars
<1>13. ASSUME \/ N!Applied \/ N!Watch \/ N!Sweep \/ N!KickAll \/ N!KickOne \/ N!Checked \/ N!Remove
              \/ N!Morning \/ UNCHANGED N!vars
       PROVE  UNCHANGED <<intake, recent, queue, worker, held>>
  BY <1>13 DEF N!Applied, N!Watch, N!Sweep, N!KickAll, N!StartSweep, N!KickOne, N!Checked, N!Remove,
     N!Morning, N!notifyVars, N!vars
<1>14. ASSUME NEW t \in Targets, N!Probe(t) \/ N!Confirm(t) \/ N!Record(t) \/ N!SaveRow(t)
       PROVE  UNCHANGED <<intake, recent, queue, worker, held>>
  BY <1>14 DEF N!Probe, N!Confirm, N!Record, N!SaveRow, N!notifyVars
<1> HIDE DEF Notifying
<1> QED BY <1>4, <1>5, <1>6, <1>7, <1>8, <1>9, <1>10, <1>11, <1>12, <1>13, <1>14 DEF N!Next, N!Loop, N!Notify

\* In every reachable state the queues of Alerts hold what belongs in them and no more
\* than fits, and what is recorded, told and held is about the targets there are:
\* TypeOK of Alerts.  (enqueue, route, deliver, flushHeld)
THEOREM AlertsTyped ==
  ASSUME None \notin N!Statuses \cup {"recovered"}, Room \in Nat, MaxChanges \in Nat, MaxGlitches \in Nat
  PROVE  N!Spec => []N!TypeOK
<1> DEFINE Rest == Buses /\ Notifying /\ HostsAndBounds
<1>1. ASSUME N!Init PROVE Rest
  <2>1. <<>> \in N!Queues(N!Notices) /\ <<>> \in N!Queues(Targets \cup {N!Everything})
    <3>1. \A T : <<>> \in Seq(T) /\ Len(<<>>) <= Room
      OBVIOUS
    <3> QED BY <3>1, QueueIs
  <2>2. Buses
    BY <1>1, <2>1 DEF N!Init, Buses
  <2>3. Notifying
    BY <1>1, <2>1 DEF N!Init, Notifying
  <2>4. HostsAndBounds
    <3>1. PICK doc \in {"none", "on"} : host = [t \in Targets |-> [doc |-> doc, answers |-> TRUE]]
      BY <1>1 DEF N!Init
    <3>2. quiet = TRUE /\ changes = 0 /\ glitches = 0
      BY <1>1 DEF N!Init
    <3>3. 0 \in 0..MaxChanges /\ 0 \in 0..MaxGlitches
      OBVIOUS
    <3> QED BY <3>1, <3>2, <3>3 DEF HostsAndBounds
  <2> QED BY <2>2, <2>3, <2>4
<1>2. ASSUME AlertInv, Rest, [N!Next]_N!vars PROVE Rest'
  BY <1>2, HostsMove, BusesMove, NotifyingMoves DEF AlertInv, AlertType
<1>3. AlertInv /\ Rest => N!TypeOK
  <2> SUFFICES ASSUME AlertInv, Rest PROVE N!TypeOK
    OBVIOUS
  <2>1. \A t \in Targets : check[t] # N!NoCheck =>
          check[t] \in [at : {"probe", "confirm", "record", "save", "tell"}, on : BOOLEAN,
                        st : N!Statuses \cup {None}, prev : N!Statuses \cup {None}]
    BY DEF AlertInv, AlertType, CheckRow, States
  <2> QED BY <2>1 DEF AlertInv, AlertType, States, Buses, Notifying, HostsAndBounds, N!TypeOK
<1>4. (N!Init => AlertInv) /\ (AlertInv /\ [N!Next]_N!vars => AlertInv')
  BY AlertsKept
<1> HIDE DEF Rest
<1> QED BY <1>1, <1>2, <1>3, <1>4, PTL DEF N!Spec

-----------------------------------------------------------------------------
(* Listeners: the counted slots are held, a listener that is gone has no   *)
(* connection to lose, and a server is only dropped when all it was given  *)
(* and has not counted are marked as late.                                 *)

\* There are finitely many of each, and configurations are of known keys.
Finite ==
    /\ IsFiniteSet(Ids) /\ IsFiniteSet(Conns)
    /\ \A b \in Binds : b.keys \subseteq L!Key /\ b.timeout \in {1, 2}

ServerState == {"serving", "retired", "dropped", "stopping", "closed"}

BoundListener ==
    [key : L!Key \cup {None}, phase : {"none", "served", "gone"} \cup L!Draining, sock : BOOLEAN,
     loop : {"waiting", "holding", "done"}, timeout : {1, 2}, servers : Seq(ServerState), deadline : BOOLEAN]

Connection ==
    [at : {"free", "handshake", "taken", "open", "ended", "session"}, on : Ids \cup {None}, by : Nat,
     late : BOOLEAN, cut : BOOLEAN]

ListenerType ==
    /\ lis \in [Ids -> BoundListener]
    /\ conn \in [Conns -> Connection]
    /\ limiter = [max |-> limiter.max, cur |-> limiter.cur] /\ limiter.cur \in Int

\* What a phase says of the accept loop and the socket.
InPhase(r) ==
    /\ r.phase \in {"none", "shutting", "waiting", "gone"} => r.loop = "done"
    /\ r.phase \in {"closed", "shutting", "waiting", "gone"} => ~r.sock

Holds(d) == d.at \in {"handshake", "taken", "open", "session"}

Dropped(r, v) == v \in DOMAIN r.servers /\ r.servers[v] = "dropped"

\* A connection, of the listener that has it.
Fares(r, l, d) ==
    d.on = l =>
        /\ r.phase = "gone" => ~Holds(d)
        /\ d.at \in {"taken", "open"} /\ Dropped(r, d.by) => d.late

\* and by itself
Sound(d) == (d.cut => d.late) /\ (Holds(d) => d.on \in Ids)

Keeping ==
    /\ \A l \in Ids : InPhase(lis[l])
    /\ \A l \in Ids, c \in Conns : Fares(lis[l], l, conn[c])
    /\ \A c \in Conns : Sound(conn[c])

Holding == {l \in Ids : lis[l].loop = "holding"}

Slots == {c \in Conns : Holds(conn[c])}

ListenerInv == ListenerType /\ Keeping /\ limiter.cur = Cardinality(Holding) + Cardinality(Slots)

\* The cardinality of Listeners is the library's.
LEMMA CardinalityIsThat == \A S1 : L!Cardinality(S1) = Cardinality(S1)
BY DEF Cardinality, L!Cardinality

\* One more or one less of those that are counted, or a subset less.
LEMMA Counts ==
  ASSUME Finite
  PROVE  /\ Cardinality(Holding) \in Nat /\ Cardinality(Slots) \in Nat
         /\ \A l \in Holding : Cardinality(Holding \ {l}) = Cardinality(Holding) - 1
         /\ \A l \in Ids \ Holding : Cardinality(Holding \cup {l}) = Cardinality(Holding) + 1
         /\ \A c \in Slots : Cardinality(Slots \ {c}) = Cardinality(Slots) - 1
         /\ \A c \in Conns \ Slots : Cardinality(Slots \cup {c}) = Cardinality(Slots) + 1
         /\ \A T \in SUBSET Slots :
              Cardinality(T) \in Nat /\ Cardinality(Slots \ T) = Cardinality(Slots) - Cardinality(T)
<1>1. IsFiniteSet(Holding) /\ IsFiniteSet(Slots)
  BY FS_Subset DEF Finite, Holding, Slots
<1>2. Cardinality(Holding) \in Nat /\ Cardinality(Slots) \in Nat
  BY <1>1, FS_CardinalityType
<1>3. \A l \in Holding : Cardinality(Holding \ {l}) = Cardinality(Holding) - 1
  BY <1>1, FS_RemoveElement
<1>4. \A l \in Ids \ Holding : Cardinality(Holding \cup {l}) = Cardinality(Holding) + 1
  BY <1>1, FS_AddElement
<1>5. \A c \in Slots : Cardinality(Slots \ {c}) = Cardinality(Slots) - 1
  BY <1>1, FS_RemoveElement
<1>6. \A c \in Conns \ Slots : Cardinality(Slots \cup {c}) = Cardinality(Slots) + 1
  BY <1>1, FS_AddElement
<1>7. ASSUME NEW T \in SUBSET Slots
      PROVE  Cardinality(T) \in Nat /\ Cardinality(Slots \ T) = Cardinality(Slots) - Cardinality(T)
  <2>1. IsFiniteSet(T)
    BY <1>1, FS_Subset
  <2>2. Slots \cap T = T
    OBVIOUS
  <2> QED BY ZenonT(60), <1>1, <2>1, <2>2, FS_Difference, FS_CardinalityType
<1> QED BY <1>2, <1>3, <1>4, <1>5, <1>6, <1>7

\* A sequence that is changed pointwise is one, of the same length.
LEMMA SequenceOf ==
  ASSUME NEW S1, NEW s \in Seq(S1), NEW t, t = [v \in DOMAIN s |-> t[v]], \A v \in DOMAIN s : t[v] \in S1
  PROVE  t \in Seq(S1) /\ Len(t) = Len(s) /\ DOMAIN t = DOMAIN s
<1>1. DOMAIN s = 1..Len(s) /\ Len(s) \in Nat
  OBVIOUS
<1>2. t \in [1..Len(s) -> S1]
  BY <1>1
<1> QED BY <1>1, <1>2

-----------------------------------------------------------------------------
\* A listener alone goes on: its loop may take or return a slot.
LEMMA ListenerMoves ==
  ASSUME ListenerInv, Finite, NEW l \in Ids, NEW r \in BoundListener, InPhase(r),
         lis' = [lis EXCEPT ![l] = r], conn' = conn,
         \A v : Dropped(r, v) => Dropped(lis[l], v),
         r.phase = "gone" => lis[l].phase = "gone",
         \/ limiter' = limiter /\ (r.loop = "holding" <=> lis[l].loop = "holding")
         \/ limiter' = [limiter EXCEPT !.cur = @ + 1] /\ r.loop = "holding" /\ lis[l].loop # "holding"
         \/ limiter' = [limiter EXCEPT !.cur = @ - 1] /\ r.loop # "holding" /\ lis[l].loop = "holding"
  PROVE  ListenerInv'
<1>1. lis'[l] = r /\ \A s \in Ids \ {l} : lis'[s] = lis[s]
  BY DEF ListenerInv, ListenerType
<1>2. lis' \in [Ids -> BoundListener]
  BY DEF ListenerInv, ListenerType
<1>3. Keeping'
  <2>1. \A s \in Ids : InPhase(lis'[s])
    BY <1>1 DEF ListenerInv, Keeping
  <2>2. \A s \in Ids, c \in Conns : Fares(lis'[s], s, conn'[c])
    BY <1>1 DEF ListenerInv, Keeping, Fares
  <2> QED BY <2>1, <2>2 DEF ListenerInv, Keeping, InPhase, Fares, Dropped, Sound, Holds
<1>4. Slots' = Slots
  BY DEF Slots
<1>5. CASE limiter' = limiter /\ (r.loop = "holding" <=> lis[l].loop = "holding")
  <2>1. Holding' = Holding
    BY <1>1, <1>5 DEF Holding
  <2> QED BY <1>2, <1>3, <1>4, <1>5, <2>1 DEF ListenerInv, ListenerType
<1>6. CASE limiter' = [limiter EXCEPT !.cur = @ + 1] /\ r.loop = "holding" /\ lis[l].loop # "holding"
  <2>1. Holding' = Holding \cup {l} /\ l \in Ids \ Holding
    BY <1>1, <1>6 DEF Holding
  <2>2. limiter' = [max |-> limiter.max, cur |-> limiter.cur + 1]
    BY <1>6 DEF ListenerInv, ListenerType
  <2>3. Cardinality(Holding') = Cardinality(Holding) + 1 /\ Cardinality(Holding) \in Nat /\ Cardinality(Slots) \in Nat
    BY <2>1, Counts
  <2>4. limiter'.cur = Cardinality(Holding') + Cardinality(Slots')
    BY <1>4, <2>2, <2>3 DEF ListenerInv, ListenerType
  <2> QED BY <1>2, <1>3, <2>2, <2>4 DEF ListenerInv, ListenerType
<1>7. CASE limiter' = [limiter EXCEPT !.cur = @ - 1] /\ r.loop # "holding" /\ lis[l].loop = "holding"
  <2>1. Holding' = Holding \ {l} /\ l \in Holding
    BY <1>1, <1>7 DEF Holding
  <2>2. limiter' = [max |-> limiter.max, cur |-> limiter.cur - 1]
    BY <1>7 DEF ListenerInv, ListenerType
  <2>3. Cardinality(Holding') = Cardinality(Holding) - 1 /\ Cardinality(Holding) \in Nat /\ Cardinality(Slots) \in Nat
    BY <2>1, Counts
  <2>4. limiter'.cur = Cardinality(Holding') + Cardinality(Slots')
    BY <1>4, <2>2, <2>3 DEF ListenerInv, ListenerType
  <2> QED BY <1>2, <1>3, <2>2, <2>4 DEF ListenerInv, ListenerType
<1> QED BY <1>5, <1>6, <1>7

\* acceptLoop, and the steps of shutdown that change no connection
LEMMA ListenerKeeps ==
  ASSUME ListenerInv, Finite, NEW l \in Ids,
         \/ L!Acquire(l) \/ L!GiveUp(l) \/ L!AcceptFails(l)
         \/ L!CloseSocket(l) \/ L!ShutServers(l) \/ L!Deadline(l)
  PROVE  ListenerInv'
<1>1. lis[l] \in BoundListener /\ InPhase(lis[l])
  BY DEF ListenerInv, ListenerType, Keeping
<1>2. ASSUME NEW at \in {"waiting", "holding", "done"}, lis' = [lis EXCEPT ![l].loop = at], conn' = conn,
             lis[l].phase \in {"none", "shutting", "waiting", "gone"} => at = "done",
             \/ limiter' = limiter /\ at # "holding" /\ lis[l].loop # "holding"
             \/ limiter' = [limiter EXCEPT !.cur = @ + 1] /\ at = "holding" /\ lis[l].loop # "holding"
             \/ limiter' = [limiter EXCEPT !.cur = @ - 1] /\ at # "holding" /\ lis[l].loop = "holding"
      PROVE  ListenerInv'
  <2> DEFINE r == [lis[l] EXCEPT !.loop = at]
  <2>1. r \in BoundListener /\ r.loop = at /\ r.phase = lis[l].phase /\ r.servers = lis[l].servers /\ r.sock = lis[l].sock
    BY <1>1 DEF BoundListener
  <2>2. lis' = [lis EXCEPT ![l] = r]
    BY <1>2 DEF ListenerInv, ListenerType
  <2>3. InPhase(r)
    BY <1>1, <1>2, <2>1 DEF InPhase
  <2>4. \A v : Dropped(r, v) => Dropped(lis[l], v)
    BY <2>1 DEF Dropped
  <2> HIDE DEF r
  <2> QED BY <1>2, <2>1, <2>2, <2>3, <2>4, ListenerMoves
<1>3. CASE L!Acquire(l)
  <2>1. lis[l].phase \notin {"none", "shutting", "waiting", "gone"}
    BY <1>1, <1>3 DEF L!Acquire, InPhase
  <2> QED BY <1>2, <1>3, <2>1 DEF L!Acquire
<1>4. CASE L!GiveUp(l)
  BY <1>2, <1>4 DEF L!GiveUp
<1>5. CASE L!AcceptFails(l)
  <2>1. CASE lis[l].phase = "served"
    BY <1>2, <1>5, <2>1 DEF L!AcceptFails, L!Released
  <2>2. CASE lis[l].phase # "served"
    BY <1>2, <1>5, <2>2 DEF L!AcceptFails, L!Released
  <2> QED BY <2>1, <2>2
<1>6. CASE L!CloseSocket(l)
  <2> DEFINE r == [lis[l] EXCEPT !.phase = "closed", !.sock = FALSE]
  <2>1. r \in BoundListener /\ r.loop = lis[l].loop /\ r.phase = "closed" /\ r.servers = lis[l].servers /\ ~r.sock
    BY <1>1 DEF BoundListener, L!Draining
  <2>2. lis' = [lis EXCEPT ![l] = r]
    BY <1>6 DEF L!CloseSocket, ListenerInv, ListenerType
  <2>3. InPhase(r)
    BY <2>1 DEF InPhase
  <2>4. \A v : Dropped(r, v) => Dropped(lis[l], v)
    BY <2>1 DEF Dropped
  <2>5. conn' = conn /\ limiter' = limiter
    BY <1>6 DEF L!CloseSocket
  <2> HIDE DEF r
  <2> QED BY <2>1, <2>2, <2>3, <2>4, <2>5, ListenerMoves
<1>7. CASE L!ShutServers(l)
  <2> DEFINE t == [v \in DOMAIN lis[l].servers |-> IF lis[l].servers[v] = "serving" THEN "stopping" ELSE lis[l].servers[v]]
             r == [lis[l] EXCEPT !.phase = "shutting", !.servers = t]
  <2>1. t \in Seq(ServerState)
    <3>1. lis[l].servers \in Seq(ServerState)
      BY <1>1 DEF BoundListener
    <3>2. \A v \in DOMAIN lis[l].servers : t[v] \in ServerState
      BY <3>1 DEF ServerState
    <3>3. t = [v \in DOMAIN lis[l].servers |-> t[v]]
      OBVIOUS
    <3> HIDE DEF t
    <3> QED BY <3>1, <3>2, <3>3, SequenceOf
  <2>2. lis' = [lis EXCEPT ![l] = r]
    BY <1>7 DEF L!ShutServers, ListenerInv, ListenerType
  <2>3. lis[l].phase = "closed" /\ lis[l].loop = "done" /\ conn' = conn /\ limiter' = limiter
    BY <1>7 DEF L!ShutServers
  <2>4. \A v : v \in DOMAIN t /\ t[v] = "dropped" => v \in DOMAIN lis[l].servers /\ lis[l].servers[v] = "dropped"
    OBVIOUS
  <2> HIDE DEF t
  <2>5. r \in BoundListener /\ r.loop = lis[l].loop /\ r.phase = "shutting" /\ r.servers = t /\ r.sock = lis[l].sock
    BY <1>1, <2>1 DEF BoundListener, L!Draining
  <2>6. InPhase(r)
    BY <1>1, <2>3, <2>5 DEF InPhase
  <2>7. \A v : Dropped(r, v) => Dropped(lis[l], v)
    BY <2>4, <2>5 DEF Dropped
  <2> HIDE DEF r
  <2> QED BY <2>2, <2>3, <2>5, <2>6, <2>7, ListenerMoves
<1>8. CASE L!Deadline(l)
  <2> DEFINE r == [lis[l] EXCEPT !.deadline = TRUE]
  <2>1. r \in BoundListener /\ r.loop = lis[l].loop /\ r.phase = lis[l].phase /\ r.servers = lis[l].servers /\ r.sock = lis[l].sock
    BY <1>1 DEF BoundListener
  <2>2. lis' = [lis EXCEPT ![l] = r]
    BY <1>8 DEF L!Deadline, ListenerInv, ListenerType
  <2>3. InPhase(r)
    BY <1>1, <2>1 DEF InPhase
  <2>4. \A v : Dropped(r, v) => Dropped(lis[l], v)
    BY <2>1 DEF Dropped
  <2>5. conn' = conn /\ limiter' = limiter
    BY <1>8 DEF L!Deadline
  <2> HIDE DEF r
  <2> QED BY <2>1, <2>2, <2>3, <2>4, <2>5, ListenerMoves
<1> QED BY <1>3, <1>4, <1>5, <1>6, <1>7, <1>8

-----------------------------------------------------------------------------
\* A connection alone goes on: it may return its slot.
LEMMA ConnectionMoves ==
  ASSUME ListenerInv, Finite, NEW c \in Conns, NEW r \in Connection,
         conn' = [conn EXCEPT ![c] = r], lis' = lis, Sound(r),
         \A l \in Ids : Fares(lis[l], l, r),
         \/ limiter' = limiter /\ (Holds(r) <=> Holds(conn[c]))
         \/ limiter' = [limiter EXCEPT !.cur = @ - 1] /\ ~Holds(r) /\ Holds(conn[c])
  PROVE  ListenerInv'
<1>1. conn'[c] = r /\ \A d \in Conns \ {c} : conn'[d] = conn[d]
  BY DEF ListenerInv, ListenerType
<1>2. conn' \in [Conns -> Connection]
  BY DEF ListenerInv, ListenerType
<1>3. Keeping'
  <2>1. \A l \in Ids : InPhase(lis'[l])
    BY DEF ListenerInv, Keeping
  <2>2. \A l \in Ids, d \in Conns : Fares(lis'[l], l, conn'[d])
    BY <1>1 DEF ListenerInv, Keeping
  <2>3. \A d \in Conns : Sound(conn'[d])
    BY <1>1 DEF ListenerInv, Keeping
  <2> QED BY <2>1, <2>2, <2>3 DEF Keeping, InPhase, Fares, Dropped, Holds, Sound
<1>4. Holding' = Holding
  BY DEF Holding
<1>5. CASE limiter' = limiter /\ (Holds(r) <=> Holds(conn[c]))
  <2>1. Slots' = Slots
    <3>1. \A d \in Conns : Holds(conn'[d]) <=> Holds(conn[d])
      BY <1>1, <1>5
    <3> QED BY <3>1 DEF Slots, Holds
  <2> QED BY <1>2, <1>3, <1>4, <1>5, <2>1 DEF ListenerInv, ListenerType
<1>6. CASE limiter' = [limiter EXCEPT !.cur = @ - 1] /\ ~Holds(r) /\ Holds(conn[c])
  <2>1. Slots' = Slots \ {c} /\ c \in Slots
    <3>1. ~Holds(conn'[c]) /\ Holds(conn[c]) /\ \A d \in Conns \ {c} : Holds(conn'[d]) <=> Holds(conn[d])
      BY <1>1, <1>6
    <3> QED BY <3>1 DEF Slots, Holds
  <2>2. limiter' = [max |-> limiter.max, cur |-> limiter.cur - 1]
    BY <1>6 DEF ListenerInv, ListenerType
  <2>3. Cardinality(Slots') = Cardinality(Slots) - 1 /\ Cardinality(Slots) \in Nat /\ Cardinality(Holding) \in Nat
    BY <2>1, Counts
  <2>4. limiter'.cur = Cardinality(Holding') + Cardinality(Slots')
    BY <1>4, <2>2, <2>3 DEF ListenerInv, ListenerType
  <2> QED BY <1>2, <1>3, <2>2, <2>4 DEF ListenerInv, ListenerType
<1> QED BY <1>5, <1>6

\* A connection that is closed holds nothing.
LEMMA ClosedIs ==
  /\ L!Closed \in Connection /\ ~Holds(L!Closed) /\ Sound(L!Closed)
  /\ \A r, l : Fares(r, l, L!Closed)
BY DEF L!Closed, Connection, Holds, Fares, Sound

\* handshake and onConnState, which change one connection
LEMMA ConnectionKeeps ==
  ASSUME ListenerInv, Finite, NEW c \in Conns,
         L!Refuse(c) \/ L!Hand(c) \/ L!StateNew(c) \/ L!End(c) \/ L!EndSession(c)
  PROVE  ListenerInv'
<1> DEFINE d == conn[c]
<1>1. d \in Connection /\ Sound(d) /\ \A l \in Ids : Fares(lis[l], l, d)
  BY DEF ListenerInv, ListenerType, Keeping
<1>2. CASE L!Refuse(c) \/ L!EndSession(c)
  <2>1. /\ conn' = [conn EXCEPT ![c] = L!Closed] /\ limiter' = [limiter EXCEPT !.cur = @ - 1] /\ lis' = lis
        /\ Holds(conn[c])
    BY <1>2 DEF L!Refuse, L!EndSession, L!Released, Holds
  <2> QED BY <2>1, ClosedIs, ConnectionMoves
<1>3. CASE L!End(c)
  <2> DEFINE r == [d EXCEPT !.at = "ended"]
  <2>1. r \in Connection /\ ~Holds(r) /\ r.cut = d.cut /\ r.late = d.late /\ r.at = "ended"
    BY <1>1 DEF Connection, Holds
  <2>2. /\ conn' = [conn EXCEPT ![c] = r] /\ limiter' = [limiter EXCEPT !.cur = @ - 1] /\ lis' = lis
        /\ Holds(conn[c])
    BY <1>3 DEF L!End, L!Released, Holds, ListenerInv, ListenerType
  <2> HIDE DEF r
  <2>3. Sound(r) /\ \A l \in Ids : Fares(lis[l], l, r)
    BY <1>1, <2>1 DEF Fares, Sound
  <2> QED BY <1>1, <2>1, <2>2, <2>3, ConnectionMoves
<1>4. CASE L!StateNew(c)
  <2> DEFINE r == [d EXCEPT !.at = "open"]
  <2>1. r \in Connection /\ r.cut = d.cut /\ r.late = d.late /\ r.on = d.on /\ r.by = d.by /\ r.at = "open"
    BY <1>1 DEF Connection
  <2>2. conn' = [conn EXCEPT ![c] = r] /\ limiter' = limiter /\ lis' = lis /\ d.at = "taken"
    BY <1>4 DEF L!StateNew, ListenerInv, ListenerType
  <2> HIDE DEF r
  <2>3. Sound(r) /\ \A l \in Ids : Fares(lis[l], l, r)
    BY <1>1, <2>1, <2>2 DEF Fares, Holds, Sound
  <2>4. Holds(r) /\ Holds(conn[c])
    BY SMTT(60), <2>1, <2>2 DEF Holds
  <2> QED BY <1>1, <2>1, <2>2, <2>3, <2>4, ConnectionMoves
<1>5. CASE L!Hand(c)
  <2>1. d.at = "handshake" /\ limiter' = limiter /\ lis' = lis
    BY <1>5 DEF L!Hand
  <2>2. CASE conn' = [conn EXCEPT ![c].at = "session"]
    <3> DEFINE r == [d EXCEPT !.at = "session"]
    <3>1. r \in Connection /\ r.cut = d.cut /\ r.late = d.late /\ r.on = d.on /\ r.at = "session"
      BY <1>1 DEF Connection
    <3>2. conn' = [conn EXCEPT ![c] = r]
      BY <2>2 DEF ListenerInv, ListenerType
    <3> HIDE DEF r
    <3>3. Sound(r) /\ \A l \in Ids : Fares(lis[l], l, r)
      BY <1>1, <2>1, <3>1 DEF Fares, Holds, Sound
    <3>4. Holds(r) /\ Holds(conn[c])
      BY <2>1, <3>1 DEF Holds
    <3> QED BY <1>1, <2>1, <3>1, <3>2, <3>3, <3>4, ConnectionMoves
  <2>3. d.on \in Ids
    BY <1>1, <2>1 DEF Sound, Holds
  <2>4. ASSUME NEW v \in DOMAIN lis[d.on].servers, lis[d.on].servers[v] = "serving",
               conn' = [conn EXCEPT ![c].at = "taken", ![c].by = v]
        PROVE  ListenerInv'
    <3> DEFINE r == [d EXCEPT !.at = "taken", !.by = v]
    <3>0. v \in Nat
      <4>1. lis[d.on].servers \in Seq(ServerState)
        BY <2>3 DEF ListenerInv, ListenerType, BoundListener
      <4>2. DOMAIN lis[d.on].servers = 1..Len(lis[d.on].servers)
        BY <4>1
      <4> QED BY <4>2
    <3>1. r \in Connection /\ r.cut = d.cut /\ r.late = d.late /\ r.on = d.on /\ r.at = "taken" /\ r.by = v
      BY <1>1, <3>0 DEF Connection
    <3>2. conn' = [conn EXCEPT ![c] = r]
      BY <2>4 DEF ListenerInv, ListenerType
    <3> HIDE DEF r
    <3>3. Sound(r) /\ \A l \in Ids : Fares(lis[l], l, r)
      BY <1>1, <2>1, <2>4, <3>1 DEF Fares, Holds, Dropped, Sound
    <3>4. Holds(r) /\ Holds(conn[c])
      BY <2>1, <3>1 DEF Holds
    <3> QED BY <1>1, <2>1, <3>1, <3>2, <3>3, <3>4, ConnectionMoves
  <2> QED BY SMTT(60), <1>5, <2>2, <2>3, <2>4 DEF L!Hand
<1> QED BY <1>2, <1>3, <1>4, <1>5

\* A listener has a connection: it has the slot from here on.
LEMMA AcceptKeeps ==
  ASSUME ListenerInv, Finite, NEW l \in Ids, NEW c \in Conns, L!Accept(l, c)
  PROVE  ListenerInv'
<1> DEFINE r == [lis[l] EXCEPT !.loop = "waiting"]
           d == [L!Closed EXCEPT !.at = "handshake", !.on = l]
<1>1. /\ lis' = [lis EXCEPT ![l] = r] /\ conn' = [conn EXCEPT ![c] = d] /\ limiter' = limiter
      /\ lis[l].loop = "holding" /\ conn[c].at = "free"
  BY DEF L!Accept, ListenerInv, ListenerType
<1>2. lis[l] \in BoundListener /\ InPhase(lis[l])
  BY DEF ListenerInv, ListenerType, Keeping
<1>3. /\ r \in BoundListener /\ r.loop = "waiting" /\ r.phase = lis[l].phase /\ r.servers = lis[l].servers
      /\ r.sock = lis[l].sock
  BY <1>2 DEF BoundListener
<1>4. d \in Connection /\ d.at = "handshake" /\ d.on = l /\ d.cut = FALSE
  BY DEF L!Closed, Connection
<1> HIDE DEF r, d
<1>5. /\ lis'[l] = r /\ \A s \in Ids \ {l} : lis'[s] = lis[s]
      /\ conn'[c] = d /\ \A e \in Conns \ {c} : conn'[e] = conn[e]
  BY <1>1 DEF ListenerInv, ListenerType
<1>6. ListenerType'
  BY <1>1, <1>3, <1>4 DEF ListenerInv, ListenerType
<1>7. Keeping'
  <2>0. lis[l].phase \notin {"none", "shutting", "waiting", "gone"}
    BY <1>1, <1>2 DEF InPhase
  <2>1. \A s \in Ids : InPhase(lis'[s])
    BY <1>2, <1>3, <1>5, <2>0 DEF ListenerInv, Keeping, InPhase
  <2>2. \A s \in Ids : Fares(lis'[s], s, d)
    BY <1>3, <1>4, <1>5, <2>0 DEF Fares
  <2>3. \A s \in Ids, e \in Conns \ {c} : Fares(lis'[s], s, conn'[e])
    BY <1>3, <1>5 DEF ListenerInv, Keeping, Fares, Dropped
  <2>4. Sound(d)
    BY <1>4 DEF Sound
  <2> QED BY <1>5, <2>1, <2>2, <2>3, <2>4 DEF ListenerInv, Keeping, InPhase, Fares, Dropped, Sound, Holds
<1>8. Holding' = Holding \ {l} /\ l \in Holding
  BY <1>1, <1>3, <1>5 DEF Holding
<1>9. Slots' = Slots \cup {c} /\ c \in Conns \ Slots
  BY <1>1, <1>4, <1>5 DEF Slots, Holds
<1>10. /\ Cardinality(Holding') = Cardinality(Holding) - 1 /\ Cardinality(Slots') = Cardinality(Slots) + 1
       /\ Cardinality(Slots) \in Nat /\ Cardinality(Holding) \in Nat
  BY <1>8, <1>9, Counts
<1>11. limiter'.cur = Cardinality(Holding') + Cardinality(Slots')
  BY <1>1, <1>10 DEF ListenerInv
<1> QED BY <1>6, <1>7, <1>11 DEF ListenerInv

\* Slots are returned together, and what their connections are no listener loses.
LEMMA SlotsReturned ==
  ASSUME ListenerInv, Finite, NEW l \in Ids, NEW r \in BoundListener, InPhase(r), lis' = [lis EXCEPT ![l] = r],
         r.loop = lis[l].loop, \A v : Dropped(r, v) => Dropped(lis[l], v),
         NEW T \in SUBSET Slots, limiter' = [limiter EXCEPT !.cur = @ - Cardinality(T)],
         conn' \in [Conns -> Connection], \A c \in Conns \ T : conn'[c] = conn[c],
         \A c \in T : ~Holds(conn'[c]) /\ Sound(conn'[c]),
         r.phase = "gone" => \A c \in Slots \ T : conn[c].on # l
  PROVE  ListenerInv'
<1>1. lis'[l] = r /\ \A s \in Ids \ {l} : lis'[s] = lis[s]
  BY DEF ListenerInv, ListenerType
<1>2. lis' \in [Ids -> BoundListener]
  BY DEF ListenerInv, ListenerType
<1>3. limiter' = [max |-> limiter.max, cur |-> limiter.cur - Cardinality(T)] /\ Cardinality(T) \in Nat
  BY Counts DEF ListenerInv, ListenerType
<1>4. ListenerType'
  BY <1>2, <1>3 DEF ListenerInv, ListenerType
<1>5. Keeping'
  <2>1. \A s \in Ids : InPhase(lis'[s])
    BY <1>1 DEF ListenerInv, Keeping
  <2>2. ASSUME NEW s \in Ids, NEW c \in T PROVE Fares(lis'[s], s, conn'[c])
    BY <2>2 DEF Fares, Holds
  <2>3. ASSUME NEW s \in Ids, NEW c \in Conns \ T PROVE Fares(lis'[s], s, conn'[c])
    <3>1. CASE s = l
      BY <2>3, <3>1, <1>1 DEF ListenerInv, Keeping, Fares, Slots
    <3>2. CASE s # l
      BY <2>3, <3>2, <1>1 DEF ListenerInv, Keeping
    <3> QED BY <3>1, <3>2
  <2>4. \A c \in Conns : Sound(conn'[c])
    BY DEF ListenerInv, Keeping
  <2>5. \A s \in Ids, c \in Conns : Fares(lis'[s], s, conn'[c])
    BY <2>2, <2>3
  <2> QED BY <2>1, <2>4, <2>5 DEF Keeping, InPhase, Fares, Dropped, Sound, Holds
<1>6. Holding' = Holding
  BY <1>1 DEF Holding
<1>7. Slots' = Slots \ T
  <2>1. \A c \in Conns : Holds(conn'[c]) <=> Holds(conn[c]) /\ c \notin T
    BY DEF Slots
  <2> QED BY <2>1 DEF Slots, Holds
<1>8. /\ Cardinality(Slots') = Cardinality(Slots) - Cardinality(T) /\ Cardinality(T) \in Nat
      /\ Cardinality(Slots) \in Nat /\ Cardinality(Holding) \in Nat
  BY SMTT(60), <1>7, Counts
<1>9. limiter'.cur = Cardinality(Holding') + Cardinality(Slots')
  BY <1>3, <1>6, <1>8 DEF ListenerInv, ListenerType
<1> QED BY <1>4, <1>5, <1>9 DEF ListenerInv

\* The connections a server closes
LEMMA ClosedByIs ==
  ASSUME ListenerInv, NEW T \in SUBSET Slots, conn' = [c \in Conns |-> conn'[c]],
         \A c \in Conns \ T : conn'[c] = conn[c],
         \A c \in T : \/ conn'[c] = [conn[c] EXCEPT !.at = "ended", !.cut = FALSE]
                      \/ conn'[c] = [conn[c] EXCEPT !.at = "ended", !.cut = TRUE] /\ conn[c].late
  PROVE  /\ conn' \in [Conns -> Connection]
         /\ \A c \in T : ~Holds(conn'[c]) /\ Sound(conn'[c])
<1>1. ASSUME NEW c \in T PROVE conn'[c] \in Connection /\ ~Holds(conn'[c]) /\ Sound(conn'[c])
  <2>1. conn[c] \in Connection
    BY ZenonT(60), <1>1 DEF ListenerInv, ListenerType, Slots
  <2>2. CASE conn'[c] = [conn[c] EXCEPT !.at = "ended", !.cut = FALSE]
    <3>1. conn'[c] \in Connection /\ conn'[c].at = "ended" /\ conn'[c].cut = FALSE
      BY ZenonT(60), <2>1, <2>2 DEF Connection
    <3> QED BY ZenonT(60), <3>1 DEF Sound, Holds
  <2>3. CASE conn'[c] = [conn[c] EXCEPT !.at = "ended", !.cut = TRUE] /\ conn[c].late
    <3>1. conn'[c] \in Connection /\ conn'[c].at = "ended" /\ conn'[c].late = conn[c].late
      BY ZenonT(60), <2>1, <2>3 DEF Connection
    <3> QED BY ZenonT(60), <2>3, <3>1 DEF Sound, Holds
  <2> QED BY ZenonT(60), <1>1, <2>2, <2>3
<1>2. \A c \in Conns : conn'[c] \in Connection
  <2>1. \A c \in T : conn'[c] \in Connection
    BY ZenonT(60), <1>1
  <2> QED BY <2>1 DEF ListenerInv, ListenerType
<1>3. conn' \in [Conns -> Connection]
  BY ZenonT(60), <1>2
<1>4. \A c \in T : ~Holds(conn'[c]) /\ Sound(conn'[c])
  BY <1>1
<1> QED BY ZenonT(60), <1>3, <1>4

\* dropRetired closes a server, and cuts the late connections.
LEMMA CloseKeeps ==
  ASSUME ListenerInv, Finite, NEW l \in Ids, NEW v \in DOMAIN lis[l].servers, L!CloseServer(l, v)
  PROVE  ListenerInv'
<1> DEFINE t == [lis[l].servers EXCEPT ![v] = "closed"]
           r == [lis[l] EXCEPT !.servers = t]
           T == {c \in Conns : conn[c].on = l /\ conn[c].by \in {v} /\ conn[c].at = "open"}
<1>1. lis[l] \in BoundListener /\ InPhase(lis[l])
  BY DEF ListenerInv, ListenerType, Keeping
<1>2. t \in Seq(ServerState)
  <2>1. lis[l].servers \in Seq(ServerState)
    BY <1>1 DEF BoundListener
  <2>2. \A w \in DOMAIN lis[l].servers : t[w] \in ServerState
    BY <2>1 DEF ServerState
  <2>3. t = [w \in DOMAIN lis[l].servers |-> t[w]]
    OBVIOUS
  <2> HIDE DEF t
  <2> QED BY <2>1, <2>2, <2>3, SequenceOf
<1>3. /\ lis' = [lis EXCEPT ![l] = r]
      /\ lis[l].servers[v] = "dropped"
      /\ limiter' = [limiter EXCEPT !.cur = @ - L!Cardinality({c \in L!Counted(l, v) : conn[c].at = "open"})]
  BY DEF L!CloseServer, L!Released, ListenerInv, ListenerType
<1>4. \A w : w \in DOMAIN t /\ t[w] = "dropped" => w \in DOMAIN lis[l].servers /\ lis[l].servers[w] = "dropped"
  OBVIOUS
<1>5. {c \in L!Counted(l, v) : conn[c].at = "open"} = T
  BY DEF L!Counted
<1>6. limiter' = [limiter EXCEPT !.cur = @ - Cardinality(T)]
  BY <1>3, <1>5, CardinalityIsThat
<1>7. \A c \in T : conn[c].late
  BY <1>3 DEF ListenerInv, Keeping, Fares, Dropped
<1>13. /\ conn' = [c \in Conns |-> conn'[c]]
       /\ \A c \in Conns \ T : conn'[c] = conn[c]
       /\ \A c \in T : conn'[c] = [conn[c] EXCEPT !.at = "ended", !.cut = TRUE]
  BY DEF L!CloseServer, L!ClosedBy
<1>14. T \in SUBSET Slots
  BY DEF Slots, Holds
<1> HIDE DEF t, T
<1>8. /\ r \in BoundListener /\ r.loop = lis[l].loop /\ r.phase = lis[l].phase /\ r.servers = t
      /\ r.sock = lis[l].sock
  BY <1>1, <1>2 DEF BoundListener
<1> HIDE DEF r
<1>9. /\ T \in SUBSET Slots /\ conn' \in [Conns -> Connection]
      /\ \A c \in Conns \ T : conn'[c] = conn[c]
      /\ \A c \in T : ~Holds(conn'[c]) /\ Sound(conn'[c])
  BY <1>7, <1>13, <1>14, ClosedByIs
<1>10. InPhase(r)
  BY <1>1, <1>8 DEF InPhase
<1>11. \A w : Dropped(r, w) => Dropped(lis[l], w)
  BY <1>4, <1>8 DEF Dropped
<1>12. r.phase = "gone" => \A c \in Slots \ T : conn[c].on # l
  BY <1>8 DEF ListenerInv, Keeping, Fares, Slots
<1> QED BY <1>3, <1>6, <1>8, <1>9, <1>10, <1>11, <1>12, SlotsReturned

\* The servers shut down.
LEMMA ShutKeeps ==
  ASSUME ListenerInv, Finite, NEW l \in Ids, L!ServersShut(l)
  PROVE  ListenerInv'
<1> DEFINE t == [v \in DOMAIN lis[l].servers |-> IF lis[l].servers[v] = "stopping" THEN "closed" ELSE lis[l].servers[v]]
           r == [lis[l] EXCEPT !.phase = "waiting", !.servers = t]
           T == {c \in Conns : conn[c].on = l /\ conn[c].by \in L!Stopping(l) /\ conn[c].at = "open"}
<1>1. lis[l] \in BoundListener /\ InPhase(lis[l])
  BY DEF ListenerInv, ListenerType, Keeping
<1>2. t \in Seq(ServerState)
  <2>1. lis[l].servers \in Seq(ServerState)
    BY <1>1 DEF BoundListener
  <2>2. \A w \in DOMAIN lis[l].servers : t[w] \in ServerState
    BY <2>1 DEF ServerState
  <2>3. t = [w \in DOMAIN lis[l].servers |-> t[w]]
    OBVIOUS
  <2> HIDE DEF t
  <2> QED BY <2>1, <2>2, <2>3, SequenceOf
<1>3. /\ lis' = [lis EXCEPT ![l] = r]
      /\ lis[l].phase = "shutting"
      /\ limiter' = [limiter EXCEPT !.cur = @ - Cardinality(T)]
  BY CardinalityIsThat DEF L!ServersShut, L!Released, ListenerInv, ListenerType
<1>4. \A w : w \in DOMAIN t /\ t[w] = "dropped" => w \in DOMAIN lis[l].servers /\ lis[l].servers[w] = "dropped"
  OBVIOUS
<1>13. /\ conn' = [c \in Conns |-> conn'[c]]
       /\ \A c \in Conns \ T : conn'[c] = conn[c]
       /\ \A c \in T : conn'[c] = [conn[c] EXCEPT !.at = "ended", !.cut = FALSE]
  BY DEF L!ServersShut, L!ClosedBy
<1>14. T \in SUBSET Slots
  BY DEF Slots, Holds
<1> HIDE DEF t, T
<1>5. /\ r \in BoundListener /\ r.loop = lis[l].loop /\ r.phase = "waiting" /\ r.servers = t
      /\ r.sock = lis[l].sock
  BY <1>1, <1>2 DEF BoundListener, L!Draining
<1> HIDE DEF r
<1>6. /\ T \in SUBSET Slots /\ conn' \in [Conns -> Connection]
      /\ \A c \in Conns \ T : conn'[c] = conn[c]
      /\ \A c \in T : ~Holds(conn'[c]) /\ Sound(conn'[c])
  BY <1>13, <1>14, ClosedByIs
<1>7. InPhase(r)
  BY <1>1, <1>3, <1>5 DEF InPhase
<1>8. \A w : Dropped(r, w) => Dropped(lis[l], w)
  BY <1>4, <1>5 DEF Dropped
<1> QED BY ZenonT(60), <1>3, <1>5, <1>6, <1>7, <1>8, SlotsReturned

\* The rest is waited for, and closed.
LEMMA DrainedKeeps ==
  ASSUME ListenerInv, Finite, NEW l \in Ids, L!Drained(l)
  PROVE  ListenerInv'
<1> DEFINE r == [lis[l] EXCEPT !.phase = "gone"]
           T == L!Held(l)
<1>1. lis[l] \in BoundListener /\ InPhase(lis[l])
  BY DEF ListenerInv, ListenerType, Keeping
<1>2. /\ lis' = [lis EXCEPT ![l] = r] /\ lis[l].phase = "waiting"
      /\ limiter' = [limiter EXCEPT !.cur = @ - Cardinality(T)]
      /\ conn' = [c \in Conns |-> IF c \notin T THEN conn[c]
                                  ELSE IF conn[c].at = "open" THEN [conn[c] EXCEPT !.at = "ended"] ELSE L!Closed]
  BY CardinalityIsThat DEF L!Drained, L!Released, ListenerInv, ListenerType
<1>3. T = {c \in Slots : conn[c].on = l}
  BY DEF L!Held, L!HoldsSlot, Slots, Holds
<1> HIDE DEF T
<1>4. \A c \in Conns \ T : conn'[c] = conn[c]
  BY <1>2
<1>5. ASSUME NEW c \in T PROVE conn'[c] \in Connection /\ ~Holds(conn'[c]) /\ Sound(conn'[c])
  <2>1. conn[c] \in Connection /\ Sound(conn[c]) /\ c \in Conns
    BY <1>3, <1>5 DEF ListenerInv, ListenerType, Keeping, Slots
  <2>2. CASE conn'[c] = [conn[c] EXCEPT !.at = "ended"]
    <3>1. conn'[c] \in Connection /\ conn'[c].at = "ended" /\ conn'[c].cut = conn[c].cut /\ conn'[c].late = conn[c].late
      BY <2>1, <2>2 DEF Connection
    <3> QED BY <2>1, <3>1 DEF Sound, Holds
  <2>3. CASE conn'[c] = L!Closed
    BY <2>3, ClosedIs
  <2> QED BY <1>2, <1>5, <2>1, <2>2, <2>3
<1>6. conn' \in [Conns -> Connection]
  <2>1. \A c \in Conns : conn'[c] \in Connection
    BY <1>4, <1>5 DEF ListenerInv, ListenerType
  <2>2. conn' = [c \in Conns |-> conn'[c]]
    BY <1>2
  <2> QED BY <2>1, <2>2
<1>7. /\ r \in BoundListener /\ r.loop = lis[l].loop /\ r.phase = "gone" /\ r.servers = lis[l].servers
      /\ r.sock = lis[l].sock
  BY <1>1 DEF BoundListener
<1> HIDE DEF r
<1>8. InPhase(r)
  BY <1>1, <1>2, <1>7 DEF InPhase
<1>9. \A w : Dropped(r, w) => Dropped(lis[l], w)
  BY <1>7 DEF Dropped
<1>10. T \in SUBSET Slots /\ \A c \in Slots \ T : conn[c].on # l
  BY <1>3
<1>11. \A c \in T : ~Holds(conn'[c]) /\ Sound(conn'[c])
  BY <1>5
<1>12. lis' = [lis EXCEPT ![l] = r] /\ limiter' = [limiter EXCEPT !.cur = @ - Cardinality(T)]
  BY <1>2
<1> QED BY <1>4, <1>6, <1>7, <1>8, <1>9, <1>10, <1>11, <1>12, SlotsReturned

\* A server has one connection less, and is dropped with the last one.
LEMMA GoneKeeps ==
  ASSUME ListenerInv, Finite, NEW c \in Conns, L!StateHijacked(c) \/ L!StateClosed(c)
  PROVE  ListenerInv'
<1> DEFINE l == conn[c].on
           v == conn[c].by
           last == L!Counted(l, v) = {c} /\ lis[l].servers[v] = "retired"
           hijacked == [conn[c] EXCEPT !.at = "session", !.by = 0]
<1>1. conn[c] \in Connection /\ Sound(conn[c]) /\ \A s \in Ids : Fares(lis[s], s, conn[c])
  BY DEF ListenerInv, ListenerType, Keeping
<1>2. PICK r \in Connection :
        /\ Sound(r) /\ r.at \notin {"taken", "open"} /\ (Holds(r) <=> Holds(conn[c]))
        /\ Holds(r) => r.on = l
        /\ L!Gone(c, r)
  <2>1. CASE L!StateHijacked(c)
    <3>1. conn[c].at = "open" /\ L!Gone(c, hijacked)
      BY <2>1 DEF L!StateHijacked
    <3>2. /\ hijacked \in Connection /\ hijacked.at = "session" /\ hijacked.on = l
          /\ hijacked.cut = conn[c].cut /\ hijacked.late = conn[c].late
      BY <1>1 DEF Connection
    <3> HIDE DEF hijacked
    <3>3. Holds(hijacked) /\ Holds(conn[c]) /\ Sound(hijacked)
      BY <1>1, <3>1, <3>2 DEF Holds, Sound
    <3> QED BY <3>1, <3>2, <3>3
  <2>2. CASE L!StateClosed(c)
    <3>1. conn[c].at = "ended" /\ L!Gone(c, L!Closed)
      BY <2>2 DEF L!StateClosed
    <3>2. ~Holds(conn[c]) /\ L!Closed.at = "free"
      BY <3>1 DEF Holds, L!Closed
    <3> QED BY <3>1, <3>2, ClosedIs
  <2> QED BY <2>1, <2>2
<1>3. /\ conn' = [d \in Conns |-> IF d = c THEN r
                                  ELSE [conn[d] EXCEPT !.late = @ \/ (last /\ d \in L!Taken(l, v))]]
      /\ lis' = IF last THEN [lis EXCEPT ![l].servers[v] = "dropped"] ELSE lis
  BY <1>2 DEF L!Gone
<1>4. limiter' = limiter
  BY DEF L!StateHijacked, L!StateClosed
<1>5. \A d \in Conns \ {c} :
        /\ conn'[d] \in Connection /\ conn'[d].at = conn[d].at /\ conn'[d].on = conn[d].on
        /\ conn'[d].by = conn[d].by /\ conn'[d].cut = conn[d].cut
        /\ conn'[d].late = (conn[d].late \/ (last /\ d \in L!Taken(l, v)))
  <2> SUFFICES ASSUME NEW d \in Conns \ {c}
      PROVE  /\ conn'[d] \in Connection /\ conn'[d].at = conn[d].at /\ conn'[d].on = conn[d].on
             /\ conn'[d].by = conn[d].by /\ conn'[d].cut = conn[d].cut
             /\ conn'[d].late = (conn[d].late \/ (last /\ d \in L!Taken(l, v)))
    OBVIOUS
  <2>1. conn'[d] = [conn[d] EXCEPT !.late = @ \/ (last /\ d \in L!Taken(l, v))]
    BY <1>3
  <2>2. conn[d] \in Connection
    BY DEF ListenerInv, ListenerType
  <2> HIDE DEF last
  <2> QED BY <2>1, <2>2 DEF Connection
<1>6. conn'[c] = r
  BY <1>3
<1>7. conn' \in [Conns -> Connection]
  <2>1. \A d \in Conns : conn'[d] \in Connection
    BY SMTT(60), <1>2, <1>5, <1>6
  <2>2. conn' = [d \in Conns |-> conn'[d]]
    BY <1>3
  <2> QED BY <2>1, <2>2
<1>8. Slots' = Slots
  <2>1. \A d \in Conns : Holds(conn'[d]) <=> Holds(conn[d])
    BY <1>2, <1>5, <1>6 DEF Holds
  <2> QED BY <2>1 DEF Slots, Holds
<1>9. \A s \in Ids :
        /\ lis'[s] \in BoundListener /\ lis'[s].phase = lis[s].phase /\ lis'[s].loop = lis[s].loop
        /\ lis'[s].sock = lis[s].sock
        /\ \A w : Dropped(lis'[s], w) => Dropped(lis[s], w) \/ (last /\ s = l /\ w = v)
  <2> SUFFICES ASSUME NEW s \in Ids
      PROVE  /\ lis'[s] \in BoundListener /\ lis'[s].phase = lis[s].phase /\ lis'[s].loop = lis[s].loop
             /\ lis'[s].sock = lis[s].sock
             /\ \A w : Dropped(lis'[s], w) => Dropped(lis[s], w) \/ (last /\ s = l /\ w = v)
    OBVIOUS
  <2>1. lis[s] \in BoundListener
    BY DEF ListenerInv, ListenerType
  <2>2. CASE ~last \/ s # l
    <3>1. lis'[s] = lis[s]
      BY SMTT(60), <1>3, <2>2 DEF ListenerInv, ListenerType
    <3> QED BY SMTT(60), <2>1, <3>1
  <2>3. CASE last /\ s = l
    <3> DEFINE t == [lis[s].servers EXCEPT ![v] = "dropped"]
    <3>1. lis'[s] = [lis[s] EXCEPT !.servers = t]
      BY <1>3, <2>3 DEF ListenerInv, ListenerType
    <3>2. t \in Seq(ServerState)
      <4>1. lis[s].servers \in Seq(ServerState)
        BY <2>1 DEF BoundListener
      <4>2. \A w \in DOMAIN lis[s].servers : t[w] \in ServerState
        BY <4>1 DEF ServerState
      <4>3. t = [w \in DOMAIN lis[s].servers |-> t[w]]
        OBVIOUS
      <4> HIDE DEF t
      <4> QED BY <4>1, <4>2, <4>3, SequenceOf
    <3>3. \A w : w \in DOMAIN t /\ t[w] = "dropped" => (w \in DOMAIN lis[s].servers /\ lis[s].servers[w] = "dropped") \/ w = v
      OBVIOUS
    <3> HIDE DEF t
    <3>4. /\ lis'[s] \in BoundListener /\ lis'[s].phase = lis[s].phase /\ lis'[s].loop = lis[s].loop
          /\ lis'[s].sock = lis[s].sock /\ lis'[s].servers = t
      BY SMTT(60), <2>1, <3>1, <3>2 DEF BoundListener
    <3> QED BY <2>3, <3>3, <3>4 DEF Dropped
  <2> QED BY <2>2, <2>3
<1>10. lis' \in [Ids -> BoundListener]
  <2>1. DOMAIN lis' = Ids /\ lis' = [s \in Ids |-> lis'[s]]
    BY <1>3 DEF ListenerInv, ListenerType
  <2> QED BY <1>9, <2>1
<1>11. Holding' = Holding
  BY <1>9 DEF Holding
<1>12. Keeping'
  <2>1. \A s \in Ids : InPhase(lis'[s])
    BY <1>9 DEF ListenerInv, Keeping, InPhase
  <2>2. \A s \in Ids : Fares(lis'[s], s, r)
    BY <1>1, <1>2, <1>9 DEF Fares
  <2>3. ASSUME NEW s \in Ids, NEW d \in Conns \ {c} PROVE Fares(lis'[s], s, conn'[d])
    <3> SUFFICES ASSUME conn'[d].on = s
        PROVE  /\ lis'[s].phase = "gone" => ~Holds(conn'[d])
               /\ conn'[d].at \in {"taken", "open"} /\ Dropped(lis'[s], conn'[d].by) => conn'[d].late
      BY DEF Fares
    <3>1. Fares(lis[s], s, conn[d]) /\ conn[d].on = s
      BY <1>5 DEF ListenerInv, Keeping
    <3>2. lis'[s].phase = "gone" => ~Holds(conn'[d])
      BY <1>5, <1>9, <3>1 DEF Fares, Holds
    <3>3. ASSUME conn'[d].at \in {"taken", "open"}, Dropped(lis'[s], conn'[d].by) PROVE conn'[d].late
      <4>1. CASE Dropped(lis[s], conn[d].by)
        BY <1>5, <3>1, <3>3, <4>1 DEF Fares
      <4>2. CASE last /\ s = l /\ conn[d].by = v
        <5>1. d \notin L!Counted(l, v)
          BY <4>2
        <5>2. conn[d].at = "taken"
          BY <1>5, <3>1, <3>3, <4>2, <5>1 DEF L!Counted
        <5> QED BY <1>5, <3>1, <4>2, <5>2 DEF L!Taken
      <4> QED BY <1>5, <1>9, <3>3, <4>1, <4>2
    <3> QED BY <3>2, <3>3
  <2>4. \A d \in Conns : Sound(conn'[d])
    BY <1>2, <1>5, <1>6 DEF ListenerInv, Keeping, Sound, Holds
  <2>5. \A s \in Ids, d \in Conns : Fares(lis'[s], s, conn'[d])
    BY <1>6, <2>2, <2>3
  <2> QED BY <2>1, <2>4, <2>5 DEF Keeping, InPhase, Fares, Dropped, Sound, Holds
<1> QED BY <1>4, <1>7, <1>8, <1>10, <1>11, <1>12 DEF ListenerInv, ListenerType

\* update, shutdown and newListener: what a listener is after a reload
LEMMA ClosingIs ==
  ASSUME NEW q \in BoundListener, InPhase(q), q.phase = "served"
  PROVE  LET r == L!Closing(q) IN
         /\ r \in BoundListener /\ InPhase(r) /\ r.loop = q.loop /\ r.phase = "closing"
         /\ \A w : Dropped(r, w) => Dropped(q, w)
<1> DEFINE t == [v \in DOMAIN q.servers |-> IF q.servers[v] = "retired" THEN "stopping" ELSE q.servers[v]]
<1>1. L!Closing(q) = [q EXCEPT !.phase = "closing", !.servers = t]
  BY DEF L!Closing, BoundListener
<1>2. t \in Seq(ServerState)
  <2>1. q.servers \in Seq(ServerState)
    BY DEF BoundListener
  <2>2. \A w \in DOMAIN q.servers : t[w] \in ServerState
    BY <2>1 DEF ServerState
  <2>3. t = [w \in DOMAIN q.servers |-> t[w]]
    OBVIOUS
  <2> HIDE DEF t
  <2> QED BY <2>1, <2>2, <2>3, SequenceOf
<1>3. \A w : w \in DOMAIN t /\ t[w] = "dropped" => w \in DOMAIN q.servers /\ q.servers[w] = "dropped"
  OBVIOUS
<1> HIDE DEF t
<1> DEFINE r == [q EXCEPT !.phase = "closing", !.servers = t]
<1>4. r \in BoundListener /\ r.loop = q.loop /\ r.phase = "closing" /\ r.servers = t
  BY <1>2 DEF BoundListener, L!Draining
<1>5. InPhase(r)
  BY <1>4 DEF InPhase
<1>6. \A w : Dropped(r, w) => Dropped(q, w)
  BY <1>3, <1>4 DEF Dropped
<1> HIDE DEF r
<1> QED BY <1>1, <1>4, <1>5, <1>6 DEF r

\* newListener
LEMMA OpenedIs ==
  ASSUME NEW k \in L!Key, NEW timeout \in {1, 2}
  PROVE  LET r == L!Opened(k, timeout) IN
         /\ r \in BoundListener /\ InPhase(r) /\ r.loop = "waiting" /\ r.phase = "served"
         /\ \A w : ~Dropped(r, w)
<1> DEFINE s == IF k.mode = "http" THEN <<"serving">> ELSE <<>>
<1>1. s \in Seq(ServerState) /\ \A w \in DOMAIN s : s[w] # "dropped"
  <2>1. CASE s = <<>>
    BY <2>1
  <2>2. CASE s = <<"serving">>
    <3>1. <<"serving">> \in Seq(ServerState)
      BY DEF ServerState
    <3>2. \A w \in DOMAIN <<"serving">> : <<"serving">>[w] # "dropped"
      OBVIOUS
    <3> QED BY <2>2, <3>1, <3>2
  <2> QED BY <2>1, <2>2
<1> HIDE DEF s
<1> DEFINE r == [key |-> k, phase |-> "served", sock |-> TRUE, loop |-> "waiting", timeout |-> timeout,
                 servers |-> s, deadline |-> FALSE]
<1>2. r \in BoundListener /\ r.loop = "waiting" /\ r.phase = "served" /\ r.servers = s
  BY <1>1 DEF BoundListener
<1>3. L!Opened(k, timeout) = r
  BY DEF L!Opened, s
<1> HIDE DEF r
<1> QED BY <1>1, <1>2, <1>3 DEF InPhase, Dropped

\* update with another client timeout
LEMMA UpdatedIs ==
  ASSUME ListenerInv, NEW l \in Ids, lis[l].phase = "served", NEW timeout \in {1, 2}
  PROVE  LET r == L!Updated(l, timeout) IN
         /\ r \in BoundListener /\ InPhase(r) /\ r.loop = lis[l].loop /\ r.phase = "served"
         /\ \A w : Dropped(r, w) => Dropped(lis[l], w) \/ L!Counted(l, w) = {}
<1> DEFINE q == lis[l]
           n == Len(q.servers)
           one == [q.servers EXCEPT ![n] = IF L!Emptied(l, n) THEN "dropped" ELSE "retired"]
           s == Append(one, "serving")
           u == [q EXCEPT !.timeout = timeout, !.servers = s]
<1>1. q \in BoundListener /\ InPhase(q)
  BY DEF ListenerInv, ListenerType, Keeping
<1>2. L!Updated(l, timeout) \in {q, u}
  BY <1>1 DEF L!Updated, BoundListener
<1>3. q.servers \in Seq(ServerState) /\ n \in Nat /\ DOMAIN q.servers = 1..n
  BY <1>1 DEF BoundListener
<1>4. one \in Seq(ServerState) /\ Len(one) = n
  <2>1. \A w \in DOMAIN q.servers : one[w] \in ServerState
    BY <1>3 DEF ServerState
  <2>2. one = [w \in DOMAIN q.servers |-> one[w]]
    OBVIOUS
  <2> HIDE DEF one
  <2> QED BY <1>3, <2>1, <2>2, SequenceOf
<1>5. \A w \in 1..n : one[w] = "dropped" => q.servers[w] = "dropped" \/ L!Emptied(l, w)
  BY <1>3
<1> HIDE DEF one
<1>6. s \in Seq(ServerState) /\ Len(s) = n + 1 /\ s[n + 1] = "serving" /\ \A w \in 1..n : s[w] = one[w]
  <2>1. "serving" \in ServerState
    BY DEF ServerState
  <2> QED BY <1>3, <1>4, <2>1
<1> HIDE DEF s
<1>7. \A w \in DOMAIN s : s[w] = "dropped" => (w \in DOMAIN q.servers /\ q.servers[w] = "dropped") \/ L!Counted(l, w) = {}
  <2> SUFFICES ASSUME NEW w \in DOMAIN s, s[w] = "dropped"
      PROVE  (w \in DOMAIN q.servers /\ q.servers[w] = "dropped") \/ L!Counted(l, w) = {}
    OBVIOUS
  <2>1. w \in 1..(n + 1) /\ w # n + 1
    BY <1>6
  <2>2. w \in 1..n
    BY <1>3, <2>1
  <2> QED BY <1>3, <1>5, <1>6, <2>2 DEF L!Emptied
<1>8. u \in BoundListener /\ u.loop = q.loop /\ u.phase = q.phase /\ u.servers = s /\ u.sock = q.sock
  BY <1>1, <1>6 DEF BoundListener
<1>9. InPhase(u)
  BY <1>1, <1>8 DEF InPhase
<1>10. \A w : Dropped(u, w) => Dropped(q, w) \/ L!Counted(l, w) = {}
  BY <1>7, <1>8 DEF Dropped
<1> HIDE DEF u
<1> QED BY <1>1, <1>2, <1>8, <1>9, <1>10

\* Every listener may change; it forgets no connection, and what is dropped is
\* what was, or has none counted.
LEMMA ReconfiguredKeeps ==
  ASSUME ListenerInv, Finite,
         lis' \in [Ids -> BoundListener], conn' \in [Conns -> Connection],
         \A l \in Ids : /\ InPhase(lis'[l]) /\ (lis'[l].loop = "holding" <=> lis[l].loop = "holding")
                        /\ lis'[l].phase = "gone" => lis[l].phase = "gone",
         \A l \in Ids : \A w : Dropped(lis'[l], w) => Dropped(lis[l], w) \/ L!Counted(l, w) = {},
         \A c \in Conns :
             /\ conn'[c].at = conn[c].at /\ conn'[c].on = conn[c].on /\ conn'[c].by = conn[c].by
             /\ conn'[c].cut = conn[c].cut /\ (conn[c].late => conn'[c].late),
         \A c \in Conns :
             conn[c].at = "taken" /\ Dropped(lis'[conn[c].on], conn[c].by) => conn'[c].late,
         limiter' = [max |-> limiter'.max, cur |-> limiter.cur]
  PROVE  ListenerInv'
<1>1. Holding' = Holding
  BY DEF Holding
<1>2. Slots' = Slots
  BY DEF Slots, Holds
<1>3. ASSUME NEW l \in Ids, NEW c \in Conns PROVE Fares(lis'[l], l, conn'[c])
  <2> SUFFICES ASSUME conn[c].on = l
      PROVE  /\ lis'[l].phase = "gone" => ~Holds(conn'[c])
             /\ conn'[c].at \in {"taken", "open"} /\ Dropped(lis'[l], conn'[c].by) => conn'[c].late
    BY DEF Fares
  <2>1. Fares(lis[l], l, conn[c])
    BY DEF ListenerInv, Keeping
  <2>2. lis'[l].phase = "gone" => ~Holds(conn'[c])
    BY <2>1 DEF Fares, Holds
  <2>3. ASSUME conn[c].at = "open", Dropped(lis'[l], conn[c].by) PROVE conn'[c].late
    <3>1. c \in L!Counted(l, conn[c].by)
      BY <2>3 DEF L!Counted
    <3>2. Dropped(lis[l], conn[c].by)
      BY <2>3, <3>1
    <3> QED BY <2>1, <2>3, <3>2 DEF Fares
  <2> QED BY <2>2, <2>3
<1>4. \A c \in Conns : Sound(conn'[c])
  BY DEF ListenerInv, Keeping, Sound, Holds
<1>5. Keeping'
  <2>1. \A l \in Ids : InPhase(lis'[l])
    OBVIOUS
  <2> QED BY <1>3, <1>4, <2>1 DEF Keeping, InPhase, Fares, Dropped, Sound, Holds
<1>6. limiter'.cur = limiter.cur /\ limiter.cur \in Int
  BY DEF ListenerInv, ListenerType
<1>7. ListenerType'
  BY <1>6 DEF ListenerType
<1> QED BY <1>1, <1>2, <1>5, <1>6, <1>7 DEF ListenerInv

\* Shutdown: what is served begins to close.
LEMMA StopKeeps ==
  ASSUME ListenerInv, Finite, L!Stop
  PROVE  ListenerInv'
<1>1. \A l \in Ids : lis[l] \in BoundListener /\ InPhase(lis[l])
  BY DEF ListenerInv, ListenerType, Keeping
<1>2. /\ lis' = [l \in Ids |-> IF l \in L!Served THEN L!Closing(lis[l]) ELSE lis[l]]
      /\ conn' = conn /\ limiter' = limiter
  BY DEF L!Stop
<1>3. \A l \in Ids :
        /\ lis'[l] \in BoundListener /\ InPhase(lis'[l]) /\ lis'[l].loop = lis[l].loop
        /\ lis'[l].phase = "gone" => lis[l].phase = "gone"
        /\ \A w : Dropped(lis'[l], w) => Dropped(lis[l], w)
  <2> SUFFICES ASSUME NEW l \in Ids
      PROVE  /\ lis'[l] \in BoundListener /\ InPhase(lis'[l]) /\ lis'[l].loop = lis[l].loop
             /\ lis'[l].phase = "gone" => lis[l].phase = "gone"
             /\ \A w : Dropped(lis'[l], w) => Dropped(lis[l], w)
    OBVIOUS
  <2>1. CASE l \in L!Served
    <3>1. lis'[l] = L!Closing(lis[l]) /\ lis[l].phase = "served"
      BY <1>2, <2>1 DEF L!Served
    <3> QED BY <1>1, <3>1, ClosingIs
  <2>2. CASE l \notin L!Served
    BY <1>1, <1>2, <2>2
  <2> QED BY <2>1, <2>2
<1>4. lis' \in [Ids -> BoundListener]
  BY <1>2, <1>3
<1>5. \A c \in Conns : conn[c].at = "taken" /\ Dropped(lis'[conn[c].on], conn[c].by) => conn'[c].late
  <2> SUFFICES ASSUME NEW c \in Conns, conn[c].at = "taken", Dropped(lis'[conn[c].on], conn[c].by)
      PROVE  conn[c].late
    BY <1>2
  <2>1. conn[c].on \in Ids
    BY DEF ListenerInv, Keeping, Sound, Holds
  <2>2. Dropped(lis[conn[c].on], conn[c].by) /\ Fares(lis[conn[c].on], conn[c].on, conn[c])
    BY <1>3, <2>1 DEF ListenerInv, Keeping
  <2> QED BY <2>2 DEF Fares
<1>6. conn' \in [Conns -> Connection] /\ limiter' = [max |-> limiter'.max, cur |-> limiter.cur]
  BY <1>2 DEF ListenerInv, ListenerType
<1> QED BY <1>2, <1>3, <1>4, <1>5, <1>6, ReconfiguredKeeps

\* A way of giving keys listeners is one, and each gets its own.
LEMMA PlacedIs ==
  ASSUME NEW keys, NEW ids, NEW way \in L!Placed(keys, ids)
  PROVE  \A k \in keys : way[k] \in ids
<1> DEFINE ways == {w \in [keys -> ids] : \A j, k \in keys : w[j] = w[k] => j = k}
<1>1. CASE ways = {}
  BY <1>1 DEF L!Placed
<1>2. CASE ways # {}
  <2>1. way = CHOOSE w \in ways : TRUE
    BY <1>2 DEF L!Placed
  <2>2. way \in ways
    <3> HIDE DEF ways
    <3> QED BY <1>2, <2>1
  <2> QED BY <2>2
<1> QED BY <1>1, <1>2

\* apply: what is served is updated or closes, and others open where nothing is.
LEMMA ReloadKeeps ==
  ASSUME ListenerInv, Finite, NEW conf \in Binds, L!Reload(conf)
  PROVE  ListenerInv'
<1> DEFINE fresh == {l \in Ids : lis[l].phase \in {"none", "gone"} /\ \A c \in Conns : conn[c].on # l}
           new == conf.keys \ L!Bound
<1>1. \A l \in Ids : lis[l] \in BoundListener /\ InPhase(lis[l])
  BY SMTT(60) DEF ListenerInv, ListenerType, Keeping
<1>2. PICK ids \in L!Placed(new, fresh) :
        lis' = [l \in Ids |->
              IF l \in L!Served
              THEN IF lis[l].key \in conf.keys THEN L!Updated(l, conf.timeout) ELSE L!Closing(lis[l])
              ELSE IF \E k \in new : ids[k] = l
                   THEN L!Opened(CHOOSE k \in new : ids[k] = l, conf.timeout) ELSE lis[l]]
  BY DEF L!Reload
<1>3. /\ conn' = [c \in Conns |->
           [conn[c] EXCEPT !.late = @ \/ (/\ conn[c].at = "taken"
                                          /\ lis'[conn[c].on].servers[conn[c].by] = "dropped")]]
      /\ limiter' = [limiter EXCEPT !.max = conf.max]
  BY DEF L!Reload
<1>4. conf.timeout \in {1, 2} /\ new \subseteq L!Key
  BY DEF Finite
<1>5. \A k \in new : ids[k] \in fresh
  BY PlacedIs
<1>6. \A l \in Ids :
        /\ lis'[l] \in BoundListener /\ InPhase(lis'[l])
        /\ lis'[l].loop = "holding" <=> lis[l].loop = "holding"
        /\ lis'[l].phase = "gone" => lis[l].phase = "gone"
        /\ \A w : Dropped(lis'[l], w) => Dropped(lis[l], w) \/ L!Counted(l, w) = {}
  <2> SUFFICES ASSUME NEW l \in Ids
      PROVE  /\ lis'[l] \in BoundListener /\ InPhase(lis'[l])
             /\ lis'[l].loop = "holding" <=> lis[l].loop = "holding"
             /\ lis'[l].phase = "gone" => lis[l].phase = "gone"
             /\ \A w : Dropped(lis'[l], w) => Dropped(lis[l], w) \/ L!Counted(l, w) = {}
    OBVIOUS
  <2>1. CASE l \in L!Served /\ lis[l].key \in conf.keys
    <3>1. lis'[l] = L!Updated(l, conf.timeout) /\ lis[l].phase = "served"
      BY <1>2, <2>1 DEF L!Served
    <3> QED BY <1>4, <3>1, UpdatedIs
  <2>2. CASE l \in L!Served /\ lis[l].key \notin conf.keys
    <3>1. lis'[l] = L!Closing(lis[l]) /\ lis[l].phase = "served"
      BY <1>2, <2>2 DEF L!Served
    <3> QED BY <1>1, <3>1, ClosingIs
  <2>3. CASE l \notin L!Served /\ \E k \in new : ids[k] = l
    <3> DEFINE j == CHOOSE k \in new : ids[k] = l
    <3>1. j \in new /\ ids[j] = l
      BY <2>3
    <3>2. lis'[l] = L!Opened(j, conf.timeout)
      BY <1>2, <2>3
    <3> HIDE DEF j
    <3>3. j \in L!Key /\ lis[l].phase \in {"none", "gone"}
      BY <1>4, <1>5, <3>1
    <3>4. lis[l].loop = "done"
      BY <1>1, <3>3 DEF InPhase
    <3>5. /\ lis'[l] \in BoundListener /\ InPhase(lis'[l]) /\ lis'[l].loop = "waiting"
          /\ lis'[l].phase = "served" /\ \A w : ~Dropped(lis'[l], w)
      BY <1>4, <3>2, <3>3, OpenedIs
    <3> QED BY <3>4, <3>5
  <2>4. CASE l \notin L!Served /\ ~\E k \in new : ids[k] = l
    <3>1. lis'[l] = lis[l]
      BY <1>2, <2>4
    <3> QED BY <1>1, <3>1
  <2> QED BY <2>1, <2>2, <2>3, <2>4
<1>7. lis' \in [Ids -> BoundListener]
  <2>1. lis' = [l \in Ids |-> lis'[l]]
    BY <1>2
  <2> QED BY <1>6, <2>1
<1>8. \A c \in Conns :
        /\ conn'[c] \in Connection
        /\ conn'[c].at = conn[c].at /\ conn'[c].on = conn[c].on /\ conn'[c].by = conn[c].by
        /\ conn'[c].cut = conn[c].cut /\ (conn[c].late => conn'[c].late)
        /\ conn[c].at = "taken" /\ lis'[conn[c].on].servers[conn[c].by] = "dropped" => conn'[c].late
  <2> SUFFICES ASSUME NEW c \in Conns
      PROVE  /\ conn'[c] \in Connection
             /\ conn'[c].at = conn[c].at /\ conn'[c].on = conn[c].on /\ conn'[c].by = conn[c].by
             /\ conn'[c].cut = conn[c].cut /\ (conn[c].late => conn'[c].late)
             /\ conn[c].at = "taken" /\ lis'[conn[c].on].servers[conn[c].by] = "dropped" => conn'[c].late
    OBVIOUS
  <2> DEFINE missed == conn[c].at = "taken" /\ lis'[conn[c].on].servers[conn[c].by] = "dropped"
  <2>1. conn[c] \in Connection
    BY DEF ListenerInv, ListenerType
  <2>2. conn'[c] = [conn[c] EXCEPT !.late = @ \/ missed]
    BY <1>3
  <2> HIDE DEF missed
  <2>3. /\ conn'[c] \in Connection
        /\ conn'[c].at = conn[c].at /\ conn'[c].on = conn[c].on /\ conn'[c].by = conn[c].by
        /\ conn'[c].cut = conn[c].cut /\ conn'[c].late = (conn[c].late \/ missed)
    BY <2>1, <2>2 DEF Connection
  <2> QED BY <2>3 DEF missed
<1>9. conn' \in [Conns -> Connection]
  <2>1. conn' = [c \in Conns |-> conn'[c]]
    BY <1>3
  <2> QED BY <1>8, <2>1
<1>10. \A c \in Conns : conn[c].at = "taken" /\ Dropped(lis'[conn[c].on], conn[c].by) => conn'[c].late
  BY <1>8 DEF Dropped
<1>11. limiter' = [max |-> limiter'.max, cur |-> limiter.cur]
  <2>1. limiter' = [max |-> conf.max, cur |-> limiter.cur]
    BY <1>3 DEF ListenerInv, ListenerType
  <2> QED BY <2>1
<1>12. \A c \in Conns :
         /\ conn'[c].at = conn[c].at /\ conn'[c].on = conn[c].on /\ conn'[c].by = conn[c].by
         /\ conn'[c].cut = conn[c].cut /\ (conn[c].late => conn'[c].late)
  BY <1>8
<1>13. \A l \in Ids :
         /\ InPhase(lis'[l]) /\ (lis'[l].loop = "holding" <=> lis[l].loop = "holding")
         /\ lis'[l].phase = "gone" => lis[l].phase = "gone"
  BY <1>6
<1>14. \A l \in Ids : \A w : Dropped(lis'[l], w) => Dropped(lis[l], w) \/ L!Counted(l, w) = {}
  BY <1>6
<1> QED BY <1>7, <1>9, <1>10, <1>11, <1>12, <1>13, <1>14, ReconfiguredKeeps

\* Relay Balancer starts with its listeners open and no connection.
LEMMA ListenersStart ==
  ASSUME Finite, L!Init
  PROVE  ListenerInv
<1>1. PICK conf \in Binds : \E ids \in L!Placed(conf.keys, Ids) :
        /\ lis = [l \in Ids |-> IF \E k \in conf.keys : ids[k] = l
                                THEN L!Opened(CHOOSE k \in conf.keys : ids[k] = l, conf.timeout)
                                ELSE L!Unbound]
        /\ limiter = [max |-> conf.max, cur |-> 0]
  BY DEF L!Init
<1>2. PICK ids \in L!Placed(conf.keys, Ids) :
        /\ lis = [l \in Ids |-> IF \E k \in conf.keys : ids[k] = l
                                THEN L!Opened(CHOOSE k \in conf.keys : ids[k] = l, conf.timeout)
                                ELSE L!Unbound]
        /\ limiter = [max |-> conf.max, cur |-> 0]
  BY <1>1
<1>3. conn = [c \in Conns |-> L!Closed]
  BY DEF L!Init
<1>4. \A l \in Ids : lis[l] \in BoundListener /\ InPhase(lis[l]) /\ lis[l].loop # "holding"
  <2> SUFFICES ASSUME NEW l \in Ids
      PROVE  lis[l] \in BoundListener /\ InPhase(lis[l]) /\ lis[l].loop # "holding"
    OBVIOUS
  <2>1. CASE \E k \in conf.keys : ids[k] = l
    <3> DEFINE j == CHOOSE k \in conf.keys : ids[k] = l
    <3>1. j \in conf.keys
      BY <2>1
    <3>2. lis[l] = L!Opened(j, conf.timeout)
      BY <1>2, <2>1
    <3> HIDE DEF j
    <3>3. j \in L!Key /\ conf.timeout \in {1, 2}
      BY <3>1 DEF Finite
    <3> QED BY <3>2, <3>3, OpenedIs
  <2>2. CASE ~\E k \in conf.keys : ids[k] = l
    <3>1. lis[l] = L!Unbound
      BY <1>2, <2>2
    <3>2. <<>> \in Seq(ServerState)
      OBVIOUS
    <3> QED BY <3>1, <3>2 DEF L!Unbound, BoundListener, InPhase
  <2> QED BY <2>1, <2>2
<1>5. lis \in [Ids -> BoundListener]
  <2>1. lis = [l \in Ids |-> lis[l]]
    BY <1>2
  <2> QED BY <1>4, <2>1
<1>6. conn \in [Conns -> Connection] /\ \A c \in Conns : ~Holds(conn[c]) /\ Sound(conn[c])
  BY <1>3, ClosedIs
<1>7. \A l \in Ids, c \in Conns : Fares(lis[l], l, conn[c])
  BY <1>3, ClosedIs
<1>8. Holding = {} /\ Slots = {}
  BY <1>4, <1>6 DEF Holding, Slots
<1>9. Cardinality(Holding) = 0 /\ Cardinality(Slots) = 0
  BY <1>8, FS_EmptySet
<1>10. limiter = [max |-> limiter.max, cur |-> limiter.cur] /\ limiter.cur = 0
  BY <1>2
<1> QED BY <1>4, <1>5, <1>6, <1>7, <1>9, <1>10 DEF ListenerInv, ListenerType, Keeping

\* Every step of Listeners
LEMMA ListenersKept ==
  ASSUME ListenerInv, Finite, L!Next
  PROVE  ListenerInv'
<1>1. CASE \E conf \in Binds : L!Reload(conf)
  BY <1>1, ReloadKeeps
<1>2. CASE L!Stop
  BY <1>2, StopKeeps
<1>3. CASE \E l \in Ids : L!Acquire(l) \/ L!GiveUp(l) \/ L!AcceptFails(l) \/ L!Drain(l)
  <2>1. PICK l \in Ids : L!Acquire(l) \/ L!GiveUp(l) \/ L!AcceptFails(l) \/ L!Drain(l)
    BY <1>3
  <2>2. CASE L!ServersShut(l)
    BY <2>2, ShutKeeps
  <2>3. CASE L!Drained(l)
    BY <2>3, DrainedKeeps
  <2> QED BY <2>1, <2>2, <2>3, ListenerKeeps DEF L!Drain
<1>4. CASE \E l \in Ids, c \in Conns : L!Accept(l, c)
  BY <1>4, AcceptKeeps
<1>5. CASE \E c \in Conns : \/ L!Refuse(c) \/ L!Hand(c) \/ L!StateNew(c) \/ L!StateHijacked(c) \/ L!End(c)
                            \/ L!StateClosed(c) \/ L!EndSession(c)
  BY <1>5, ConnectionKeeps, GoneKeeps
<1>6. CASE \E l \in Ids : \E v \in DOMAIN lis[l].servers : L!CloseServer(l, v)
  BY <1>6, CloseKeeps
<1> QED BY <1>1, <1>2, <1>3, <1>4, <1>5, <1>6 DEF L!Next

\* Whatever happens to its connections and whichever configurations are loaded,
\* the limit of Relay Balancer counts exactly the connections there are and the
\* accept loops that wait with a slot, a listener that has shut down has nothing
\* left, and a reload disconnects only a connection that its server had not yet
\* counted.  (acceptLoop, onConnState, dropRetired, shutdown, apply)
THEOREM ConnectionsStay ==
  ASSUME Finite
  PROVE  L!Spec => []L!ConnectionsAreKept
<1>1. ListenerInv /\ UNCHANGED L!vars => ListenerInv'
  BY DEF L!vars, ListenerInv, ListenerType, Keeping, InPhase, Fares, Dropped, Sound, Holds, Holding, Slots
<1>2. ListenerInv => L!ConnectionsAreKept
  <2> SUFFICES ASSUME ListenerInv PROVE L!ConnectionsAreKept
    OBVIOUS
  <2>1. L!SlotsAreReal
    BY CardinalityIsThat DEF L!SlotsAreReal, L!HoldsSlot, ListenerInv, Holding, Slots, Holds
  <2>2. L!GoneIsEmpty
    <3> SUFFICES ASSUME NEW l \in Ids, lis[l].phase = "gone"
        PROVE  lis[l].loop = "done" /\ ~lis[l].sock /\ L!Held(l) = {}
      BY DEF L!GoneIsEmpty
    <3>1. lis[l].loop = "done" /\ ~lis[l].sock
      BY DEF ListenerInv, Keeping, InPhase
    <3>2. \A c \in Conns : conn[c].on = l => ~L!HoldsSlot(c)
      BY DEF ListenerInv, Keeping, Fares, Holds, L!HoldsSlot
    <3> QED BY <3>1, <3>2 DEF L!Held
  <2>3. L!OnlyLateIsCut
    BY DEF L!OnlyLateIsCut, ListenerInv, Keeping, Sound
  <2> QED BY <2>1, <2>2, <2>3 DEF L!ConnectionsAreKept
<1> QED BY <1>1, <1>2, ListenersStart, ListenersKept, PTL DEF L!Spec

\* Configurations have a limit of connections of their own.
Limits == \A b \in Binds : b.max \in 1..2

\* What ListenerInv does not say: each reload adds at most one server to a listener,
\* and a connection is of a server there was.
ListenerBounds ==
    /\ reloads \in 0..MaxReloads /\ stopping \in BOOLEAN /\ limiter.max \in 1..2
    /\ \A l \in Ids : \A v \in DOMAIN lis[l].servers : v <= reloads + 1
    /\ \A c \in Conns : conn[c].by <= reloads + 1

\* acceptLoop, and the steps of shutdown
LEMMA ListenerBoundsKept ==
  ASSUME ListenerInv, ListenerBounds, NEW l \in Ids,
         \/ L!Acquire(l) \/ L!GiveUp(l) \/ L!AcceptFails(l) \/ L!Drain(l)
         \/ (\E c \in Conns : L!Accept(l, c))
         \/ \E v \in DOMAIN lis[l].servers : L!CloseServer(l, v)
  PROVE  ListenerBounds'
<1>1. limiter'.max = limiter.max
  BY DEF L!Acquire, L!GiveUp, L!AcceptFails, L!Drain, L!CloseSocket, L!ShutServers, L!Deadline, L!ServersShut, L!Drained,
     L!Accept, L!CloseServer, L!Released, ListenerInv, ListenerType
<1>2. UNCHANGED <<reloads, stopping>>
  BY DEF L!Acquire, L!GiveUp, L!AcceptFails, L!Drain, L!CloseSocket, L!ShutServers, L!Deadline, L!ServersShut, L!Drained,
     L!Accept, L!CloseServer
<1>3. \A s \in Ids : DOMAIN lis'[s].servers = DOMAIN lis[s].servers
  <2>1. PICK r : lis' = [lis EXCEPT ![l] = r] /\ DOMAIN r.servers = DOMAIN lis[l].servers
    <3>0. lis[l] \in BoundListener
      BY DEF ListenerInv, ListenerType
    <3>1. CASE L!Acquire(l) \/ L!GiveUp(l) \/ L!AcceptFails(l) \/ \E c \in Conns : L!Accept(l, c)
      <4>1. PICK at : lis' = [lis EXCEPT ![l] = [lis[l] EXCEPT !.loop = at]]
        BY <3>1 DEF L!Acquire, L!GiveUp, L!AcceptFails, L!Accept
      <4>2. [lis[l] EXCEPT !.loop = at].servers = lis[l].servers
        BY <3>0 DEF BoundListener
      <4> QED BY <4>1, <4>2
    <3>2. CASE L!CloseSocket(l)
      <4>1. lis' = [lis EXCEPT ![l] = [lis[l] EXCEPT !.phase = "closed", !.sock = FALSE]]
        BY <3>2 DEF L!CloseSocket, ListenerInv, ListenerType
      <4>2. [lis[l] EXCEPT !.phase = "closed", !.sock = FALSE].servers = lis[l].servers
        BY <3>0 DEF BoundListener
      <4> QED BY <4>1, <4>2
    <3>3. CASE L!Deadline(l)
      <4>1. lis' = [lis EXCEPT ![l] = [lis[l] EXCEPT !.deadline = TRUE]]
        BY <3>3 DEF L!Deadline
      <4>2. [lis[l] EXCEPT !.deadline = TRUE].servers = lis[l].servers
        BY <3>0 DEF BoundListener
      <4> QED BY <4>1, <4>2
    <3>4. CASE L!ShutServers(l)
      <4> DEFINE t == [v \in DOMAIN lis[l].servers |->
                         IF lis[l].servers[v] = "serving" THEN "stopping" ELSE lis[l].servers[v]]
      <4>1. lis' = [lis EXCEPT ![l] = [lis[l] EXCEPT !.phase = "shutting", !.servers = t]]
        BY <3>4 DEF L!ShutServers, ListenerInv, ListenerType
      <4>2. DOMAIN t = DOMAIN lis[l].servers
        OBVIOUS
      <4> HIDE DEF t
      <4>3. [lis[l] EXCEPT !.phase = "shutting", !.servers = t].servers = t
        BY <3>0 DEF BoundListener
      <4> QED BY <4>1, <4>2, <4>3
    <3>5. CASE L!ServersShut(l)
      <4> DEFINE t == [v \in DOMAIN lis[l].servers |->
                         IF lis[l].servers[v] = "stopping" THEN "closed" ELSE lis[l].servers[v]]
      <4>1. lis' = [lis EXCEPT ![l] = [lis[l] EXCEPT !.phase = "waiting", !.servers = t]]
        BY <3>5 DEF L!ServersShut, ListenerInv, ListenerType
      <4>2. DOMAIN t = DOMAIN lis[l].servers
        OBVIOUS
      <4> HIDE DEF t
      <4>3. [lis[l] EXCEPT !.phase = "waiting", !.servers = t].servers = t
        BY <3>0 DEF BoundListener
      <4> QED BY <4>1, <4>2, <4>3
    <3>6. CASE L!Drained(l)
      <4>1. lis' = [lis EXCEPT ![l] = [lis[l] EXCEPT !.phase = "gone"]]
        BY <3>6 DEF L!Drained
      <4>2. [lis[l] EXCEPT !.phase = "gone"].servers = lis[l].servers
        BY <3>0 DEF BoundListener
      <4> QED BY <4>1, <4>2
    <3>7. ASSUME NEW v \in DOMAIN lis[l].servers, L!CloseServer(l, v)
          PROVE  \E r : lis' = [lis EXCEPT ![l] = r] /\ DOMAIN r.servers = DOMAIN lis[l].servers
      <4> DEFINE t == [lis[l].servers EXCEPT ![v] = "closed"]
      <4>1. lis' = [lis EXCEPT ![l] = [lis[l] EXCEPT !.servers = t]]
        BY <3>7 DEF L!CloseServer, ListenerInv, ListenerType
      <4>2. DOMAIN t = DOMAIN lis[l].servers
        OBVIOUS
      <4> HIDE DEF t
      <4>3. [lis[l] EXCEPT !.servers = t].servers = t
        BY <3>0 DEF BoundListener
      <4> QED BY <4>1, <4>2, <4>3
    <3> QED BY <3>1, <3>2, <3>3, <3>4, <3>5, <3>6, <3>7 DEF L!Drain
  <2>2. lis'[l] = r /\ \A s \in Ids \ {l} : lis'[s] = lis[s]
    BY <2>1 DEF ListenerInv, ListenerType
  <2> QED BY <2>1, <2>2
<1>4. \A c \in Conns : conn'[c].by \in {conn[c].by, 0}
  <2> SUFFICES ASSUME NEW c \in Conns PROVE conn'[c].by \in {conn[c].by, 0}
    OBVIOUS
  <2>0. conn[c] \in Connection /\ L!Closed.by = 0
    BY DEF ListenerInv, ListenerType, L!Closed
  <2>1. CASE \/ L!Acquire(l) \/ L!GiveUp(l) \/ L!AcceptFails(l) \/ L!CloseSocket(l) \/ L!ShutServers(l) \/ L!Deadline(l)
    BY <2>1 DEF L!Acquire, L!GiveUp, L!AcceptFails, L!CloseSocket, L!ShutServers, L!Deadline
  <2>2. ASSUME NEW vs, NEW cut, conn' = L!ClosedBy(l, vs, cut) PROVE conn'[c].by = conn[c].by
    <3>1. conn'[c] = conn[c] \/ conn'[c] = [conn[c] EXCEPT !.at = "ended", !.cut = cut]
      BY <2>2 DEF L!ClosedBy
    <3> QED BY <2>0, <3>1 DEF Connection
  <2>3. CASE L!ServersShut(l) \/ \E v \in DOMAIN lis[l].servers : L!CloseServer(l, v)
    BY <2>2, <2>3 DEF L!ServersShut, L!CloseServer
  <2>4. CASE L!Drained(l)
    <3>1. conn'[c] \in {conn[c], [conn[c] EXCEPT !.at = "ended"], L!Closed}
      BY <2>4 DEF L!Drained
    <3> QED BY <2>0, <3>1 DEF Connection
  <2>5. ASSUME NEW d \in Conns, L!Accept(l, d) PROVE conn'[c].by \in {conn[c].by, 0}
    <3>1. conn'[c] \in {conn[c], [L!Closed EXCEPT !.at = "handshake", !.on = l]}
      BY <2>5 DEF L!Accept, ListenerInv, ListenerType
    <3>2. [L!Closed EXCEPT !.at = "handshake", !.on = l].by = 0
      BY DEF L!Closed
    <3> QED BY <3>1, <3>2
  <2> QED BY <2>1, <2>3, <2>4, <2>5 DEF L!Drain
<1> QED BY <1>1, <1>2, <1>3, <1>4 DEF ListenerBounds, ListenerInv, ListenerType, Connection

\* handshake and onConnState
LEMMA ConnectionBoundsKept ==
  ASSUME ListenerInv, ListenerBounds, NEW c \in Conns,
         \/ L!Refuse(c) \/ L!Hand(c) \/ L!StateNew(c) \/ L!StateHijacked(c) \/ L!End(c)
         \/ L!StateClosed(c) \/ L!EndSession(c)
  PROVE  ListenerBounds'
<1>0. conn \in [Conns -> Connection] /\ L!Closed.by = 0 /\ reloads \in Nat
  BY DEF ListenerInv, ListenerType, ListenerBounds, L!Closed
<1>1. UNCHANGED <<reloads, stopping>> /\ limiter'.max = limiter.max
  BY DEF L!Refuse, L!Hand, L!StateNew, L!StateHijacked, L!End, L!StateClosed, L!EndSession, L!Released,
     ListenerInv, ListenerType
<1>2. CASE L!StateHijacked(c) \/ L!StateClosed(c)
  <2>1. PICK r : L!Gone(c, r) /\ r.by = 0
    <3>1. [conn[c] EXCEPT !.at = "session", !.by = 0].by = 0
      BY <1>0 DEF Connection
    <3> QED BY <1>0, <1>2, <3>1 DEF L!StateHijacked, L!StateClosed
  <2>2. \A d \in Conns : conn'[d].by \in {conn[d].by, 0}
    <3> SUFFICES ASSUME NEW d \in Conns PROVE conn'[d].by \in {conn[d].by, 0}
      OBVIOUS
    <3>1. conn'[d] = r \/ \E late : conn'[d] = [conn[d] EXCEPT !.late = late]
      BY <2>1 DEF L!Gone
    <3>2. \A late : [conn[d] EXCEPT !.late = late].by = conn[d].by
      BY <1>0 DEF Connection
    <3> QED BY <2>1, <3>1, <3>2
  <2>3. \A s \in Ids : DOMAIN lis'[s].servers = DOMAIN lis[s].servers
    <3> SUFFICES ASSUME NEW s \in Ids PROVE DOMAIN lis'[s].servers = DOMAIN lis[s].servers
      OBVIOUS
    <3> DEFINE v == conn[c].by
               t == [lis[s].servers EXCEPT ![v] = "dropped"]
    <3>1. lis[s] \in BoundListener
      BY DEF ListenerInv, ListenerType
    <3>2. lis'[s] = lis[s] \/ lis'[s] = [lis[s] EXCEPT !.servers = t]
      BY <2>1 DEF L!Gone, ListenerInv, ListenerType
    <3>3. DOMAIN t = DOMAIN lis[s].servers
      OBVIOUS
    <3> HIDE DEF t
    <3>4. [lis[s] EXCEPT !.servers = t].servers = t
      BY <3>1 DEF BoundListener
    <3> QED BY <3>2, <3>3, <3>4
  <2> QED BY <1>0, <1>1, <2>2, <2>3 DEF ListenerBounds, Connection
<1>3. CASE L!Refuse(c) \/ L!Hand(c) \/ L!StateNew(c) \/ L!End(c) \/ L!EndSession(c)
  <2>1. lis' = lis
    BY <1>3 DEF L!Refuse, L!Hand, L!StateNew, L!End, L!EndSession
  <2>2. PICK r : conn' = [conn EXCEPT ![c] = r] /\ r.by <= reloads + 1
    <3>1. CASE L!Refuse(c) \/ L!EndSession(c)
      BY <1>0, <3>1 DEF L!Refuse, L!EndSession
    <3>2. ASSUME NEW at, conn' = [conn EXCEPT ![c] = [conn[c] EXCEPT !.at = at]]
          PROVE  \E r : conn' = [conn EXCEPT ![c] = r] /\ r.by <= reloads + 1
      <4>1. [conn[c] EXCEPT !.at = at].by = conn[c].by
        BY <1>0 DEF Connection
      <4> QED BY <3>2, <4>1 DEF ListenerBounds
    <3>3. CASE L!StateNew(c) \/ L!End(c)
      BY <3>2, <3>3 DEF L!StateNew, L!End
    <3>4. CASE L!Hand(c)
      <4>1. conn[c].on \in Ids
        BY <3>4 DEF L!Hand, ListenerInv, Keeping, Sound, Holds
      <4>2. \/ conn' = [conn EXCEPT ![c] = [conn[c] EXCEPT !.at = "session"]]
            \/ \E v \in DOMAIN lis[conn[c].on].servers : conn' = [conn EXCEPT ![c].at = "taken", ![c].by = v]
        BY <3>4 DEF L!Hand
      <4>3. ASSUME NEW v \in DOMAIN lis[conn[c].on].servers, conn' = [conn EXCEPT ![c].at = "taken", ![c].by = v]
            PROVE  \E r : conn' = [conn EXCEPT ![c] = r] /\ r.by <= reloads + 1
        <5>1. conn' = [conn EXCEPT ![c] = [conn[c] EXCEPT !.at = "taken", !.by = v]]
          BY <1>0, <4>3
        <5>2. [conn[c] EXCEPT !.at = "taken", !.by = v].by = v
          BY <1>0 DEF Connection
        <5>3. v <= reloads + 1
          BY <4>1 DEF ListenerBounds
        <5> QED BY <5>1, <5>2, <5>3
      <4> QED BY <3>2, <4>2, <4>3
    <3> QED BY <1>3, <3>1, <3>3, <3>4
  <2>3. \A d \in Conns : conn'[d].by <= reloads + 1
    BY <1>0, <2>2 DEF ListenerBounds
  <2> QED BY <1>1, <2>1, <2>3 DEF ListenerBounds
<1> QED BY <1>2, <1>3

\* apply and Shutdown
LEMMA ReloadBoundsKept ==
  ASSUME Finite, Limits, MaxReloads \in Nat, ListenerInv, ListenerBounds, L!Stop \/ \E conf \in Binds : L!Reload(conf)
  PROVE  ListenerBounds'
<1>0. (\A l \in Ids : lis[l] \in BoundListener) /\ (\A c \in Conns : conn[c] \in Connection) /\ reloads \in Nat
  BY DEF ListenerInv, ListenerType, ListenerBounds
<1>1. ASSUME NEW l \in Ids PROVE DOMAIN L!Closing(lis[l]).servers = DOMAIN lis[l].servers
  <2> DEFINE t == [w \in DOMAIN lis[l].servers |->
                     IF lis[l].servers[w] = "retired" THEN "stopping" ELSE lis[l].servers[w]]
  <2>1. L!Closing(lis[l]) = [lis[l] EXCEPT !.phase = "closing", !.servers = t]
    BY <1>0 DEF L!Closing, BoundListener
  <2>2. DOMAIN t = DOMAIN lis[l].servers
    OBVIOUS
  <2> HIDE DEF t
  <2>3. L!Closing(lis[l]).servers = t
    BY <1>0, <2>1 DEF BoundListener
  <2> QED BY <2>2, <2>3
<1>2. CASE L!Stop
  <2>1. /\ stopping' = TRUE /\ UNCHANGED <<conn, limiter, reloads>>
        /\ lis' = [l \in Ids |-> IF l \in L!Served THEN L!Closing(lis[l]) ELSE lis[l]]
    BY <1>2 DEF L!Stop
  <2>2. \A l \in Ids : lis'[l] \in {L!Closing(lis[l]), lis[l]}
    BY <2>1
  <2>3. \A l \in Ids : \A v \in DOMAIN lis'[l].servers : v <= reloads + 1
    BY <1>1, <2>2 DEF ListenerBounds
  <2> QED BY <2>1, <2>3 DEF ListenerBounds
<1>3. ASSUME NEW conf \in Binds, L!Reload(conf) PROVE ListenerBounds'
  <2> DEFINE fresh == {l \in Ids : lis[l].phase \in {"none", "gone"} /\ \A c \in Conns : conn[c].on # l}
             new == conf.keys \ L!Bound
  <2>1. /\ reloads < MaxReloads /\ reloads' = reloads + 1 /\ UNCHANGED stopping
        /\ limiter' = [limiter EXCEPT !.max = conf.max]
        /\ conn' = [c \in Conns |->
             [conn[c] EXCEPT !.late = @ \/ (/\ conn[c].at = "taken"
                                            /\ lis'[conn[c].on].servers[conn[c].by] = "dropped")]]
    BY SMTT(60), <1>3 DEF L!Reload
  <2>2. PICK ids \in L!Placed(new, fresh) :
          lis' = [l \in Ids |->
                IF l \in L!Served
                THEN IF lis[l].key \in conf.keys THEN L!Updated(l, conf.timeout) ELSE L!Closing(lis[l])
                ELSE IF \E k \in new : ids[k] = l
                     THEN L!Opened(CHOOSE k \in new : ids[k] = l, conf.timeout) ELSE lis[l]]
    BY <1>3 DEF L!Reload
  <2>3. \A c \in Conns : conn'[c].by = conn[c].by
    <3> SUFFICES ASSUME NEW c \in Conns PROVE conn'[c].by = conn[c].by
      OBVIOUS
    <3>1. \E late : conn'[c] = [conn[c] EXCEPT !.late = late]
      BY <2>1
    <3>2. \A late : [conn[c] EXCEPT !.late = late].by = conn[c].by
      BY <1>0 DEF Connection
    <3> QED BY <3>1, <3>2
  <2>4. limiter'.max \in 1..2 /\ reloads' \in 0..MaxReloads
    BY <2>1 DEF ListenerInv, ListenerType, Limits, ListenerBounds
  <2>5. ASSUME NEW l \in Ids PROVE \A v \in DOMAIN L!Updated(l, conf.timeout).servers : v <= reloads + 2
    <3> DEFINE n == Len(lis[l].servers)
               one == [lis[l].servers EXCEPT ![n] = IF L!Emptied(l, n) THEN "dropped" ELSE "retired"]
               s == Append(one, "serving")
    <3>1. lis[l].servers \in Seq(ServerState) /\ n \in Nat /\ DOMAIN lis[l].servers = 1..n
      BY <1>0 DEF BoundListener
    <3>2. n <= reloads + 1
      <4>1. n = 0 \/ n \in DOMAIN lis[l].servers
        BY <3>1
      <4> QED BY <1>0, <4>1 DEF ListenerBounds
    <3>3. one \in Seq(ServerState) /\ Len(one) = n
      <4>1. \A w \in DOMAIN lis[l].servers : one[w] \in ServerState
        BY <3>1 DEF ServerState
      <4>2. one = [w \in DOMAIN lis[l].servers |-> one[w]]
        OBVIOUS
      <4> HIDE DEF one
      <4> QED BY <3>1, <4>1, <4>2, SequenceOf
    <3>4. L!Updated(l, conf.timeout).servers \in {lis[l].servers, s}
      BY <1>0 DEF L!Updated, BoundListener
    <3> HIDE DEF one
    <3>5. DOMAIN s = 1..(n + 1)
      <4>1. s \in Seq(ServerState) /\ Len(s) = n + 1
        BY <3>1, <3>3 DEF ServerState
      <4> HIDE DEF s
      <4> QED BY <3>1, <4>1
    <3> HIDE DEF s, n
    <3> QED BY <1>0, <3>1, <3>2, <3>4, <3>5
  <2>6. ASSUME NEW k PROVE \A v \in DOMAIN L!Opened(k, conf.timeout).servers : v <= reloads + 2
    <3>1. L!Opened(k, conf.timeout).servers \in {<<"serving">>, <<>>}
      BY DEF L!Opened
    <3>2. \A s \in {<<"serving">>, <<>>} : \A v \in DOMAIN s : v = 1
      OBVIOUS
    <3> QED BY <1>0, <3>1, <3>2
  <2>7. \A l \in Ids : \A v \in DOMAIN lis'[l].servers : v <= reloads + 2
    <3> SUFFICES ASSUME NEW l \in Ids PROVE \A v \in DOMAIN lis'[l].servers : v <= reloads + 2
      OBVIOUS
    <3>1. \/ lis'[l] \in {L!Updated(l, conf.timeout), L!Closing(lis[l]), lis[l]}
          \/ \E k : lis'[l] = L!Opened(k, conf.timeout)
      BY <2>2
    <3>2. \A v \in DOMAIN lis[l].servers : v \in Nat /\ v <= reloads + 1
      BY <1>0 DEF ListenerBounds, BoundListener
    <3>3. \A v \in DOMAIN L!Closing(lis[l]).servers : v \in Nat /\ v <= reloads + 1
      BY <1>1, <3>2
    <3> QED BY <1>0, <2>5, <2>6, <3>1, <3>2, <3>3
  <2>8. \A c \in Conns : conn'[c].by <= reloads' + 1
    BY <1>0, <2>1, <2>3 DEF ListenerBounds, Connection
  <2>9. reloads' + 1 = reloads + 2 /\ stopping' \in BOOLEAN
    BY <1>0, <2>1 DEF ListenerBounds
  <2> QED BY SMTT(60), <2>4, <2>7, <2>8, <2>9 DEF ListenerBounds
<1> QED BY <1>2, <1>3

\* In every reachable state the listeners of Relay Balancer, their servers and their
\* connections are as their types say: a reload adds a server to a listener and no
\* more, and a connection is of a server there was.  TypeOK of Listeners.
\* (apply, update, handshake, onConnState)
THEOREM ListenersTyped ==
  ASSUME Finite, Limits, MaxReloads \in Nat
  PROVE  L!Spec => []L!TypeOK
<1>1. ASSUME L!Init PROVE ListenerBounds
  <2>1. PICK conf \in Binds : \E ids \in L!Placed(conf.keys, Ids) :
          /\ lis = [l \in Ids |-> IF \E k \in conf.keys : ids[k] = l
                                  THEN L!Opened(CHOOSE k \in conf.keys : ids[k] = l, conf.timeout)
                                  ELSE L!Unbound]
          /\ limiter = [max |-> conf.max, cur |-> 0]
    BY <1>1 DEF L!Init
  <2>2. conn = [c \in Conns |-> L!Closed] /\ reloads = 0 /\ stopping = FALSE
    BY <1>1 DEF L!Init
  <2>3. \A l \in Ids : lis[l].servers \in {<<"serving">>, <<>>}
    BY <2>1 DEF L!Opened, L!Unbound
  <2>4. \A s \in {<<"serving">>, <<>>} : \A v \in DOMAIN s : v = 1
    OBVIOUS
  <2>5. \A l \in Ids : \A v \in DOMAIN lis[l].servers : v <= reloads + 1
    BY <2>2, <2>3, <2>4
  <2>6. \A c \in Conns : conn[c].by <= reloads + 1
    BY <2>2 DEF L!Closed
  <2>7. limiter.max \in 1..2 /\ 0 \in 0..MaxReloads
    BY <2>1 DEF Limits
  <2> QED BY <2>2, <2>5, <2>6, <2>7 DEF ListenerBounds
<1>2. ListenerInv /\ ListenerBounds => L!TypeOK
  <2> SUFFICES ASSUME ListenerInv, ListenerBounds PROVE L!TypeOK
    OBVIOUS
  <2>1. \A l \in Ids :
          /\ lis[l].key \in L!Key \cup {None}
          /\ lis[l].phase \in {"none", "served", "gone"} \cup L!Draining
          /\ lis[l].sock \in BOOLEAN /\ lis[l].deadline \in BOOLEAN
          /\ lis[l].loop \in {"waiting", "holding", "done"}
          /\ lis[l].timeout \in {1, 2}
          /\ lis[l].servers \in Seq({"serving", "retired", "dropped", "stopping", "closed"})
    BY DEF ListenerInv, ListenerType, BoundListener, ServerState
  <2>2. conn \in [Conns -> [at : {"free", "handshake", "taken", "open", "ended", "session"},
                            on : Ids \cup {None}, by : 0..MaxReloads + 1, late : BOOLEAN, cut : BOOLEAN]]
    <3> SUFFICES ASSUME NEW c \in Conns
        PROVE  conn[c] \in [at : {"free", "handshake", "taken", "open", "ended", "session"},
                            on : Ids \cup {None}, by : 0..MaxReloads + 1, late : BOOLEAN, cut : BOOLEAN]
      BY DEF ListenerInv, ListenerType
    <3>1. conn[c] \in Connection
      BY DEF ListenerInv, ListenerType
    <3>2. conn[c].by \in 0..MaxReloads + 1
      BY <3>1 DEF Connection, ListenerBounds
    <3> QED BY <3>1, <3>2 DEF Connection
  <2>3. limiter \in [max : 1..2, cur : Nat]
    <3>1. limiter.cur \in Nat
      BY Counts DEF ListenerInv
    <3> QED BY <3>1 DEF ListenerInv, ListenerType, ListenerBounds
  <2> QED BY <2>1, <2>2, <2>3 DEF ListenerBounds, L!TypeOK
<1>3. ListenerInv /\ ListenerBounds /\ [L!Next]_L!vars => (ListenerInv /\ ListenerBounds)'
  <2> SUFFICES ASSUME ListenerInv, ListenerBounds, [L!Next]_L!vars PROVE (ListenerInv /\ ListenerBounds)'
    OBVIOUS
  <2>1. CASE UNCHANGED L!vars
    BY <2>1 DEF L!vars, ListenerInv, ListenerType, Keeping, InPhase, Fares, Dropped, Sound, Holds, Holding, Slots,
       ListenerBounds
  <2>2. CASE L!Next
    <3>1. ListenerInv'
      BY <2>2, ListenersKept
    <3>2. ListenerBounds'
      BY <2>2, ListenerBoundsKept, ConnectionBoundsKept, ReloadBoundsKept DEF L!Next
    <3> QED BY <3>1, <3>2
  <2> QED BY <2>1, <2>2
<1>4. L!Init => ListenerInv
  BY ListenersStart
<1> QED BY <1>1, <1>2, <1>3, <1>4, PTL DEF L!Spec

-----------------------------------------------------------------------------
(* Balancer: the health of a checked server decides whether it runs, what  *)
(* is derived from the servers is current but for who has yet to tell, and *)
(* no result is of a definition to come.                                   *)

\* A configuration defines every server, and every changer is one.
Defined == Backends \subseteq [Servers -> B!Def] /\ None \notin Changers

Server ==
    [conf : B!Def, admin : B!Admins, weight : {0, 1}, running : BOOLEAN, health : Nat, gen : Nat, forced : BOOLEAN]

Change == [at : {"idle", "changed", "counted", "reload"}, up : BOOLEAN]

BalancerType ==
    /\ srv \in [Servers -> Server]
    /\ flight \in [Servers -> SUBSET [gen : Nat, ok : BOOLEAN]]
    /\ changing \in [Changers -> Change]
    /\ reload = [todo |-> reload.todo, conf |-> reload.conf, by |-> reload.by, loaded |-> reload.loaded]
    /\ reload.todo \subseteq Servers /\ reload.conf \in Backends

\* HealthDecides, of one server
Decides(r) ==
    r.conf.check => (r.running <=> r.health >= r.conf.rise) /\ r.health <= r.conf.rise + r.conf.fall - 1

\* Checks, under way and done, are of the present definition or older ones.
NoneAhead(s) ==
    /\ checker[s] # None => checker[s] \in Nat /\ checker[s] <= srv[s].gen
    /\ \A res \in flight[s] :
         res.gen <= srv[s].gen /\ (res.gen = srv[s].gen => (res.ok <=> srv[s].conf.passes))

\* While servers are reconfigured, who does it has yet to tell.
ReloadTells ==
    /\ reload.todo # {} => reload.by # None
    /\ reload.by # None => reload.by \in Changers /\ changing[reload.by].at = "reload"

BalancerInv ==
    /\ BalancerType /\ ReloadTells
    /\ \A s \in Servers : Decides(srv[s]) /\ NoneAhead(s)
    /\ B!TableIsCurrent /\ B!StatusIsCurrent

\* What a step that changes a server makes of it
Succeeds(q, r) ==
    /\ r \in Server /\ Decides(r)
    /\ q.running /\ ~r.running => ~q.conf.passes \/ r.forced

\* applyConfig
LEMMA ReconfiguredIs ==
  ASSUME NEW q \in Server, NEW d \in B!Def
  PROVE  /\ Succeeds(q, B!Reconfigured(q, d))
         /\ B!Reconfigured(q, d).gen = q.gen + 1 /\ B!Reconfigured(q, d).conf = d
<1> DEFINE up == q.running \/ d.check # q.conf.check
           points == IF ~d.check THEN q.health ELSE IF ~q.conf.check THEN d.rise ELSE B!Clamped(q, d)
           admin == IF d.admin # q.conf.admin THEN d.admin ELSE q.admin
           weight == IF d.weight # q.conf.weight THEN d.weight ELSE q.weight
           forced == q.forced /\ ~up
           r == [conf |-> d, admin |-> admin, weight |-> weight, running |-> up, health |-> points,
                 gen |-> q.gen + 1, forced |-> forced]
<1>1. /\ d.rise \in {1, 2} /\ d.fall \in {1, 2} /\ d.check \in BOOLEAN /\ d.admin \in B!Admins /\ d.weight \in {0, 1}
      /\ q.health \in Nat /\ q.running \in BOOLEAN /\ q.conf.check \in BOOLEAN /\ q.gen \in Nat
      /\ q.admin \in B!Admins /\ q.weight \in {0, 1}
  BY DEF Server, B!Def
<1>2. B!Clamped(q, d) \in Nat /\ B!Clamped(q, d) <= d.rise + d.fall - 1 /\ (q.running <=> B!Clamped(q, d) >= d.rise)
  <2> DEFINE best == d.rise + d.fall - 1
             m == IF q.health < best THEN q.health ELSE best
             n == IF m > d.rise THEN m ELSE d.rise
             k == IF q.health < d.rise - 1 THEN q.health ELSE d.rise - 1
  <2>1. best \in Nat /\ d.rise <= best /\ d.rise - 1 \in Nat
    BY SMTT(60), <1>1
  <2> HIDE DEF best
  <2>2. m \in Nat /\ m <= best
    BY <1>1, <2>1
  <2>3. k \in Nat /\ k <= best /\ k < d.rise
    BY <1>1, <2>1
  <2> HIDE DEF m
  <2>4. n \in Nat /\ n <= best /\ n >= d.rise
    BY <1>1, <2>1, <2>2
  <2>5. CASE q.running
    <3>1. B!Clamped(q, d) = n
      BY <2>5 DEF B!Clamped, B!Larger, B!Smaller, B!Best, m, best
    <3> HIDE DEF n
    <3> QED BY <2>4, <2>5, <3>1 DEF best
  <2>6. CASE ~q.running
    <3>1. B!Clamped(q, d) = k
      BY <2>6 DEF B!Clamped, B!Smaller
    <3> HIDE DEF k
    <3>2. ~(k >= d.rise)
      BY <1>1, <2>3
    <3> QED BY <2>3, <2>6, <3>1, <3>2 DEF best
  <2> QED BY <2>5, <2>6
<1>3. points \in Nat /\ up \in BOOLEAN /\ forced \in BOOLEAN /\ admin \in B!Admins /\ weight \in {0, 1}
  BY <1>1, <1>2
<1>4. d.check => (up <=> points >= d.rise) /\ points <= d.rise + d.fall - 1
  <2>1. CASE ~q.conf.check
    <3>1. d.check => up /\ points = d.rise
      BY <2>1
    <3> HIDE DEF up, points
    <3> QED BY <1>1, <3>1
  <2>2. CASE q.conf.check
    <3>1. d.check => (up <=> q.running) /\ points = B!Clamped(q, d)
      BY <1>1, <2>2
    <3> HIDE DEF up, points
    <3> QED BY <1>2, <3>1
  <2> QED BY <1>1, <2>1, <2>2
<1>5. q.running => up
  OBVIOUS
<1> HIDE DEF up, points, admin, weight, forced
<1>6. r \in Server /\ r.conf = d /\ r.running = up /\ r.health = points /\ r.gen = q.gen + 1
  BY <1>1, <1>3 DEF Server
<1>7. Succeeds(q, r)
  BY <1>4, <1>5, <1>6 DEF Succeeds, Decides
<1>8. B!Reconfigured(q, d) = r
  BY DEF B!Reconfigured, up, points, admin, weight, forced
<1> HIDE DEF r
<1> QED BY <1>6, <1>7, <1>8

\* checkResult
LEMMA CheckedIs ==
  ASSUME NEW q \in Server, Decides(q), q.conf.check, NEW ok \in BOOLEAN, ok <=> q.conf.passes
  PROVE  LET r == B!Checked(q, ok) IN
         Succeeds(q, r) /\ r.gen = q.gen /\ r.conf = q.conf /\ r.admin = q.admin /\ r.weight = q.weight
<1> DEFINE better == IF q.health + 1 >= q.conf.rise THEN B!Best(q.conf) ELSE q.health + 1
           well == [q EXCEPT !.health = better, !.running = @ \/ better >= q.conf.rise]
           less == [q EXCEPT !.health = @ - 1]
           down == [q EXCEPT !.health = 0, !.running = FALSE]
<1>1. /\ q.conf.rise \in {1, 2} /\ q.conf.fall \in {1, 2} /\ q.health \in Nat /\ q.running \in BOOLEAN
      /\ (q.running <=> q.health >= q.conf.rise) /\ q.health <= q.conf.rise + q.conf.fall - 1
  BY DEF Server, B!Def, Decides
<1>2. CASE ok
  <2>1. better \in Nat /\ better <= q.conf.rise + q.conf.fall - 1 /\ (q.running => better >= q.conf.rise)
    BY <1>1 DEF B!Best
  <2>2. B!Checked(q, ok) = well
    BY <1>2 DEF B!Checked
  <2> HIDE DEF better
  <2>3. /\ well \in Server /\ well.health = better /\ (well.running <=> better >= q.conf.rise) /\ well.conf = q.conf
        /\ well.gen = q.gen /\ well.admin = q.admin /\ well.weight = q.weight
    BY <1>1, <2>1 DEF Server
  <2> HIDE DEF well
  <2> QED BY <2>1, <2>2, <2>3 DEF Succeeds, Decides
<1>3. CASE ~ok /\ q.health > q.conf.rise
  <2>1. B!Checked(q, ok) = less
    BY <1>3 DEF B!Checked
  <2>2. q.health - 1 \in Nat /\ q.health - 1 >= q.conf.rise
    BY <1>1, <1>3
  <2>3. /\ less \in Server /\ less.health = q.health - 1 /\ less.running = q.running /\ less.conf = q.conf
        /\ less.gen = q.gen /\ less.admin = q.admin /\ less.weight = q.weight
    BY <2>2 DEF Server
  <2> HIDE DEF less
  <2> QED BY <1>1, <2>1, <2>2, <2>3 DEF Succeeds, Decides
<1>4. CASE ~ok /\ ~(q.health > q.conf.rise)
  <2>1. B!Checked(q, ok) = down
    BY <1>4 DEF B!Checked
  <2>2. /\ down \in Server /\ down.health = 0 /\ down.running = FALSE /\ down.conf = q.conf
        /\ down.gen = q.gen /\ down.admin = q.admin /\ down.weight = q.weight
    BY DEF Server
  <2> HIDE DEF down
  <2> QED BY <1>1, <1>4, <2>1, <2>2 DEF Succeeds, Decides
<1> QED BY <1>2, <1>3, <1>4

\* setAdmin, setWeight and forceHealth
LEMMA CommandedIs ==
  ASSUME NEW q \in Server, Decides(q)
  PROVE  /\ \A admin \in B!Admins :
              LET r == B!Administered(q, admin) IN Succeeds(q, r) /\ r.gen = q.gen /\ r.conf = q.conf
         /\ \A w \in {0, 1} :
              LET r == [q EXCEPT !.weight = w] IN Succeeds(q, r) /\ r.gen = q.gen /\ r.conf = q.conf
         /\ \A up \in BOOLEAN :
              LET r == B!Forced(q, up) IN Succeeds(q, r) /\ r.gen = q.gen /\ r.conf = q.conf
<1>1. /\ q.conf.rise \in {1, 2} /\ q.conf.fall \in {1, 2} /\ q.health \in Nat /\ q.running \in BOOLEAN
      /\ q.conf.check \in BOOLEAN /\ q.conf \in B!Def
  BY DEF Server, B!Def
<1>2. ASSUME NEW admin \in B!Admins
      PROVE  Succeeds(q, B!Administered(q, admin)) /\ B!Administered(q, admin).gen = q.gen /\ B!Administered(q, admin).conf = q.conf
  <2> DEFINE rise == q.conf.rise
             up == [q EXCEPT !.admin = admin, !.health = rise, !.running = TRUE]
             same == [q EXCEPT !.admin = admin]
  <2>1. CASE q.admin = "maint" /\ q.conf.check
    <3>1. B!Administered(q, admin) = up
      BY <2>1 DEF B!Administered
    <3>2. rise \in Nat
      BY <1>1
    <3> HIDE DEF rise
    <3>3. /\ up \in Server /\ up.running = TRUE /\ up.health = rise /\ up.conf = q.conf /\ up.gen = q.gen
      BY <3>2 DEF Server
    <3> HIDE DEF up
    <3> QED BY <1>1, <3>1, <3>3 DEF Succeeds, Decides, rise
  <2>2. CASE ~(q.admin = "maint" /\ q.conf.check)
    <3>1. /\ same \in Server /\ same.running = q.running /\ same.health = q.health /\ same.conf = q.conf /\ same.gen = q.gen
      BY DEF Server
    <3>2. B!Administered(q, admin) = same
      BY <2>2 DEF B!Administered
    <3> HIDE DEF same
    <3> QED BY <3>1, <3>2 DEF Succeeds, Decides
  <2> QED BY <2>1, <2>2
<1>3. ASSUME NEW w \in {0, 1}
      PROVE  LET r == [q EXCEPT !.weight = w] IN Succeeds(q, r) /\ r.gen = q.gen /\ r.conf = q.conf
  <2> DEFINE r == [q EXCEPT !.weight = w]
  <2>1. r \in Server /\ r.running = q.running /\ r.health = q.health /\ r.conf = q.conf /\ r.gen = q.gen
    BY DEF Server
  <2> HIDE DEF r
  <2>2. Succeeds(q, r) /\ r.gen = q.gen /\ r.conf = q.conf
    BY <2>1 DEF Succeeds, Decides
  <2> QED BY <2>2 DEF r
<1>4. Succeeds(q, B!Forced(q, TRUE)) /\ B!Forced(q, TRUE).gen = q.gen /\ B!Forced(q, TRUE).conf = q.conf
  <2> DEFINE r == [q EXCEPT !.running = TRUE, !.health = B!Best(q.conf), !.forced = FALSE]
  <2>1. B!Best(q.conf) \in Nat /\ B!Best(q.conf) >= q.conf.rise /\ B!Best(q.conf) <= q.conf.rise + q.conf.fall - 1
    BY <1>1 DEF B!Best
  <2>2. r \in Server /\ r.running = TRUE /\ r.health = B!Best(q.conf) /\ r.conf = q.conf /\ r.gen = q.gen
    BY <2>1 DEF Server
  <2>3. B!Forced(q, TRUE) = r
    BY DEF B!Forced
  <2> HIDE DEF r
  <2> QED BY <2>1, <2>2, <2>3 DEF Succeeds, Decides
<1>5. Succeeds(q, B!Forced(q, FALSE)) /\ B!Forced(q, FALSE).gen = q.gen /\ B!Forced(q, FALSE).conf = q.conf
  <2> DEFINE r == [q EXCEPT !.running = FALSE, !.health = 0, !.forced = TRUE]
  <2>1. r \in Server /\ r.running = FALSE /\ r.health = 0 /\ r.forced = TRUE /\ r.conf = q.conf /\ r.gen = q.gen
    BY DEF Server
  <2>2. B!Forced(q, FALSE) = r
    BY DEF B!Forced
  <2> HIDE DEF r
  <2>3. ~(r.health >= r.conf.rise) /\ r.health <= r.conf.rise + r.conf.fall - 1
    BY <1>1, <2>1
  <2> QED BY <2>1, <2>2, <2>3 DEF Succeeds, Decides
<1> QED BY <1>2, <1>3, <1>4, <1>5

\* No server its checks find well is taken down but by an administrator.
WellStayUp ==
    \A s \in Servers : srv[s].running /\ ~srv'[s].running => ~srv[s].conf.passes \/ srv'[s].forced

\* One server changes, and who changed it has yet to tell, or needs not to.
LEMMA ServerMoves ==
  ASSUME BalancerInv, Defined, NEW s \in Servers, NEW r \in Server,
         Succeeds(srv[s], r), r.gen = srv[s].gen, r.conf = srv[s].conf,
         srv' = [srv EXCEPT ![s] = r],
         flight' \in [Servers -> SUBSET [gen : Nat, ok : BOOLEAN]],
         \A t \in Servers : flight'[t] \subseteq flight[t],
         UNCHANGED <<checker, reload, status, overtaken, table, picker>>,
         NEW x \in Changers, B!Free(x),
         \/ B!WillTell(x)
         \/ changing' = changing /\ r.running = srv[s].running /\ r.admin = srv[s].admin /\ r.weight = srv[s].weight
  PROVE  BalancerInv' /\ WellStayUp
<1>1. srv'[s] = r /\ \A t \in Servers \ {s} : srv'[t] = srv[t]
  BY DEF BalancerInv, BalancerType
<1>2. srv' \in [Servers -> Server]
  BY DEF BalancerInv, BalancerType
<1>3. \A t \in Servers : Decides(srv'[t])
  BY <1>1 DEF BalancerInv, Succeeds
<1>4. \A t \in Servers : NoneAhead(t)'
  <2> SUFFICES ASSUME NEW t \in Servers PROVE NoneAhead(t)'
    OBVIOUS
  <2>1. srv'[t].gen = srv[t].gen /\ srv'[t].conf = srv[t].conf
    BY <1>1
  <2>2. NoneAhead(t)
    BY DEF BalancerInv
  <2> QED BY <2>1, <2>2 DEF NoneAhead
<1>5. WellStayUp
  BY <1>1 DEF WellStayUp, Succeeds
<1>6. CASE B!WillTell(x)
  <2>1. changing' \in [Changers -> Change] /\ changing'[x].at = "changed" /\ \A y \in Changers \ {x} : changing'[y] = changing[y]
    BY <1>6 DEF B!WillTell, BalancerInv, BalancerType, Change
  <2>2. ReloadTells'
    BY <2>1 DEF BalancerInv, ReloadTells, B!Free
  <2>3. (B!TableIsCurrent /\ B!StatusIsCurrent)'
    BY <2>1 DEF B!TableIsCurrent, B!StatusIsCurrent
  <2> QED BY <1>2, <1>3, <1>4, <1>5, <2>1, <2>2, <2>3 DEF BalancerInv, BalancerType, Decides
<1>7. CASE changing' = changing /\ r.running = srv[s].running /\ r.admin = srv[s].admin /\ r.weight = srv[s].weight
  <2>1. \A t \in Servers : srv'[t].running = srv[t].running /\ srv'[t].admin = srv[t].admin /\ srv'[t].weight = srv[t].weight
    BY <1>1, <1>7
  <2>2. B!Usable' = B!Usable
    BY <2>1 DEF B!Usable
  <2>3. (B!TableIsCurrent /\ B!StatusIsCurrent)'
    BY <1>7, <2>2 DEF BalancerInv, B!TableIsCurrent, B!StatusIsCurrent
  <2> QED BY <1>2, <1>3, <1>4, <1>5, <1>7, <2>3 DEF BalancerInv, BalancerType, ReloadTells, Decides
<1> QED BY <1>6, <1>7

\* checkResult and the runtime API
LEMMA ServerKeeps ==
  ASSUME BalancerInv, Defined, NEW x \in Changers, NEW s \in Servers, B!Act(x, s)
  PROVE  BalancerInv' /\ WellStayUp
<1>1. srv[s] \in Server /\ Decides(srv[s]) /\ srv' = [srv EXCEPT ![s] = srv'[s]]
      /\ flight \in [Servers -> SUBSET [gen : Nat, ok : BOOLEAN]]
  <2>1. srv[s] \in Server /\ Decides(srv[s]) /\ flight \in [Servers -> SUBSET [gen : Nat, ok : BOOLEAN]]
    BY DEF BalancerInv, BalancerType
  <2>2. srv' = [srv EXCEPT ![s] = srv'[s]]
    BY DEF B!Act, B!Result, B!SetAdmin, B!SetWeight, B!ForceHealth, BalancerInv, BalancerType
  <2> QED BY <2>1, <2>2
<1>2. B!Free(x) /\ UNCHANGED <<checker, reload, status, overtaken, table, picker>>
  BY DEF B!Act, B!Result, B!SetAdmin, B!SetWeight, B!ForceHealth
<1>3. CASE B!Result(x, s)
  <2>1. PICK res \in flight[s] :
          /\ flight' = [flight EXCEPT ![s] = @ \ {res}]
          /\ IF B!Counts(s, res)
             THEN /\ srv' = [srv EXCEPT ![s] = B!Checked(@, res.ok)]
                  /\ IF srv'[s].running # srv[s].running THEN B!WillTell(x) ELSE UNCHANGED changing
             ELSE UNCHANGED <<srv, changing>>
    BY <1>3 DEF B!Result
  <2>2. flight' \in [Servers -> SUBSET [gen : Nat, ok : BOOLEAN]] /\ \A t \in Servers : flight'[t] \subseteq flight[t]
    BY <1>1, <2>1
  <2>3. CASE B!Counts(s, res)
    <3>1. NoneAhead(s) /\ res.ok \in BOOLEAN
      BY <1>1, <2>1 DEF BalancerInv
    <3>2. srv[s].conf.check /\ res.gen = srv[s].gen
      BY <2>3 DEF B!Counts
    <3>3. res.ok <=> srv[s].conf.passes
      BY <3>1, <3>2 DEF NoneAhead
    <3> DEFINE r == B!Checked(srv[s], res.ok)
    <3>4. Succeeds(srv[s], r) /\ r.gen = srv[s].gen /\ r.conf = srv[s].conf /\ r.admin = srv[s].admin /\ r.weight = srv[s].weight
      BY <1>1, <3>1, <3>2, <3>3, CheckedIs
    <3>5. srv'[s] = r /\ srv' = [srv EXCEPT ![s] = r]
      BY <2>1, <2>3 DEF BalancerInv, BalancerType
    <3>6. B!WillTell(x) \/ (changing' = changing /\ r.running = srv[s].running)
      BY <2>1, <2>3, <3>5
    <3> HIDE DEF r
    <3>7. r \in Server
      BY <3>4 DEF Succeeds
    <3> QED BY <1>2, <2>2, <3>4, <3>5, <3>6, <3>7, ServerMoves
  <2>4. CASE ~B!Counts(s, res)
    <3>1. srv' = [srv EXCEPT ![s] = srv[s]] /\ changing' = changing
      BY <2>1, <2>4 DEF BalancerInv, BalancerType
    <3>2. Succeeds(srv[s], srv[s])
      BY <1>1 DEF Succeeds
    <3> QED BY <1>1, <1>2, <2>2, <3>1, <3>2, ServerMoves
  <2> QED BY <2>3, <2>4
<1>4. CASE (\E admin \in B!Admins : B!SetAdmin(x, s, admin)) \/ (\E w \in {0, 1} : B!SetWeight(x, s, w))
           \/ (\E up \in BOOLEAN : B!ForceHealth(x, s, up))
  <2>1. B!WillTell(x) /\ flight' = flight
    BY <1>4 DEF B!SetAdmin, B!SetWeight, B!ForceHealth
  <2>2. Succeeds(srv[s], srv'[s]) /\ srv'[s].gen = srv[s].gen /\ srv'[s].conf = srv[s].conf
    <3>1. CASE \E admin \in B!Admins : B!SetAdmin(x, s, admin)
      <4>1. PICK admin \in B!Admins : srv'[s] = B!Administered(srv[s], admin)
        BY <3>1 DEF B!SetAdmin, BalancerInv, BalancerType
      <4> QED BY ZenonT(60), <1>1, <4>1, CommandedIs
    <3>2. CASE \E w \in {0, 1} : B!SetWeight(x, s, w)
      <4>1. PICK w \in {0, 1} : srv'[s] = [srv[s] EXCEPT !.weight = w]
        BY <3>2 DEF B!SetWeight, BalancerInv, BalancerType
      <4> QED BY ZenonT(60), <1>1, <4>1, CommandedIs
    <3>3. CASE \E up \in BOOLEAN : B!ForceHealth(x, s, up)
      <4>1. PICK up \in BOOLEAN : srv'[s] = B!Forced(srv[s], up)
        BY <3>3 DEF B!ForceHealth, BalancerInv, BalancerType
      <4> QED BY ZenonT(60), <1>1, <4>1, CommandedIs
    <3> QED BY <1>4, <3>1, <3>2, <3>3
  <2>3. srv'[s] \in Server
    BY <2>2 DEF Succeeds
  <2>4. flight' \in [Servers -> SUBSET [gen : Nat, ok : BOOLEAN]] /\ \A t \in Servers : flight'[t] \subseteq flight[t]
    BY <1>1, <2>1
  <2> QED BY <1>1, <1>2, <2>1, <2>2, <2>3, <2>4, ServerMoves
<1> QED BY <1>3, <1>4 DEF B!Act

\* changed, and the sessions that hash
LEMMA DerivedKeeps ==
  ASSUME BalancerInv, Defined,
         (\E x \in Changers : B!Count(x) \/ B!SetStatus(x)) \/ B!Pick \/ B!Tabulate
  PROVE  BalancerInv' /\ WellStayUp
<1>1. UNCHANGED <<srv, checker, flight, reload>>
  BY DEF B!Count, B!SetStatus, B!Pick, B!Tabulate
<1>2. B!Usable' = B!Usable /\ WellStayUp /\ \A s \in Servers : (Decides(srv[s]) /\ NoneAhead(s))'
  BY <1>1 DEF B!Usable, WellStayUp, BalancerInv, Decides, NoneAhead
<1>3. CASE \E x \in Changers : B!Count(x)
  <2>1. PICK x \in Changers : B!Count(x)
    BY <1>3
  <2>2. ~table'.fresh
    BY <2>1 DEF B!Count, B!TableStale
  <2> DEFINE up == B!Usable # {}
  <2>3. changing' = [changing EXCEPT ![x] = [at |-> "counted", up |-> up]] /\ changing[x].at = "changed"
    BY <2>1 DEF B!Count
  <2>4. up \in BOOLEAN
    OBVIOUS
  <2> HIDE DEF up
  <2>5. /\ changing' \in [Changers -> Change] /\ changing'[x].at = "counted"
        /\ \A y \in Changers \ {x} : changing'[y] = changing[y]
    BY <2>3, <2>4 DEF BalancerInv, BalancerType, Change
  <2>6. ReloadTells'
    BY <1>1, <2>3, <2>5 DEF BalancerInv, ReloadTells
  <2>7. (B!TableIsCurrent /\ B!StatusIsCurrent)'
    BY <2>2, <2>5 DEF B!TableIsCurrent, B!StatusIsCurrent
  <2> QED BY <1>1, <1>2, <2>5, <2>6, <2>7 DEF BalancerInv, BalancerType
<1>4. CASE \E x \in Changers : B!SetStatus(x)
  <2>1. PICK x \in Changers : B!SetStatus(x)
    BY <1>4
  <2>2. /\ changing[x].at = "counted" /\ overtaken' = (status' # (B!Usable # {}))
        /\ changing' = [changing EXCEPT ![x].at = "idle"] /\ UNCHANGED table /\ status' = changing[x].up
    <3>1. overtaken' = (status' # (B!Usable # {}))
      BY <2>1 DEF B!SetStatus
    <3> QED BY <2>1, <3>1 DEF B!SetStatus
  <2>3. /\ changing' \in [Changers -> Change] /\ changing'[x].at = "idle"
        /\ \A y \in Changers \ {x} : changing'[y] = changing[y]
    BY <2>2 DEF BalancerInv, BalancerType, Change
  <2>4. ReloadTells'
    BY <1>1, <2>2, <2>3 DEF BalancerInv, ReloadTells
  <2>5. B!TableIsCurrent'
    BY <1>2, <2>2, <2>3 DEF BalancerInv, B!TableIsCurrent
  <2>6. B!StatusIsCurrent'
    <3>1. status' \in BOOLEAN
      BY <2>2 DEF BalancerInv, BalancerType, Change
    <3>2. ~overtaken' => (status' <=> B!Usable # {})
      BY <2>2, <3>1
    <3> QED BY <1>2, <3>2 DEF B!StatusIsCurrent
  <2> QED BY <1>1, <1>2, <2>3, <2>4, <2>5, <2>6 DEF BalancerInv, BalancerType
<1>5. CASE B!Pick
  BY <1>1, <1>2, <1>5 DEF B!Pick, BalancerInv, BalancerType, ReloadTells, B!TableIsCurrent, B!StatusIsCurrent
<1>6. CASE B!Tabulate
  <2>1. table'.servers = B!Usable /\ UNCHANGED <<changing, status, overtaken>>
    BY <1>6 DEF B!Tabulate
  <2>2. (B!TableIsCurrent /\ B!StatusIsCurrent)'
    BY <1>2, <2>1 DEF BalancerInv, B!TableIsCurrent, B!StatusIsCurrent
  <2> QED BY <1>1, <1>2, <2>1, <2>2 DEF BalancerInv, BalancerType, ReloadTells
<1> QED BY <1>3, <1>4, <1>5, <1>6

\* checkLoop: the result is of the checker's definition.
LEMMA ProbedKeeps ==
  ASSUME BalancerInv, NEW s \in Servers, B!Check(s)
  PROVE  BalancerInv' /\ WellStayUp
<1>1. /\ flight' = [flight EXCEPT ![s] = @ \cup {[gen |-> checker[s], ok |-> srv[s].conf.passes]}]
      /\ checker[s] # None
      /\ UNCHANGED <<srv, checker, reload, changing, status, overtaken, table, picker>>
  BY DEF B!Check
<1>2. \A t \in Servers : NoneAhead(t) /\ srv[t] \in Server
  BY DEF BalancerInv, BalancerType
<1> DEFINE res == [gen |-> checker[s], ok |-> srv[s].conf.passes]
<1>3. res \in [gen : Nat, ok : BOOLEAN] /\ res.gen <= srv[s].gen /\ res.ok = srv[s].conf.passes
  BY <1>1, <1>2 DEF NoneAhead, Server, B!Def
<1> HIDE DEF res
<1>4. flight' = [flight EXCEPT ![s] = @ \cup {res}]
  BY <1>1 DEF res
<1>5. /\ flight' \in [Servers -> SUBSET [gen : Nat, ok : BOOLEAN]]
      /\ flight'[s] = flight[s] \cup {res} /\ \A t \in Servers \ {s} : flight'[t] = flight[t]
  BY <1>3, <1>4 DEF BalancerInv, BalancerType
<1>6. \A t \in Servers : NoneAhead(t)'
  BY <1>1, <1>2, <1>3, <1>5 DEF NoneAhead
<1>7. B!Usable' = B!Usable /\ WellStayUp
  BY <1>1 DEF B!Usable, WellStayUp
<1> QED BY <1>1, <1>5, <1>6, <1>7
        DEF BalancerInv, BalancerType, ReloadTells, Decides, B!TableIsCurrent, B!StatusIsCurrent

\* commit
LEMMA CommitKeeps ==
  ASSUME BalancerInv, Defined,
         \/ \E x \in Changers : \E conf \in Backends : B!Reload(x, conf)
         \/ \E s \in Servers : B!Reconfigure(s)
         \/ B!Loaded
  PROVE  BalancerInv' /\ WellStayUp
<1>1. CASE \E x \in Changers : \E conf \in Backends : B!Reload(x, conf)
  <2>1. PICK x \in Changers, conf \in Backends : B!Reload(x, conf)
    BY <1>1
  <2>2. /\ changing' = [changing EXCEPT ![x].at = "reload"] /\ ~table'.fresh
        /\ reload' = [todo |-> Servers, conf |-> conf, by |-> x, loaded |-> reload.loaded + 1]
        /\ UNCHANGED <<srv, checker, flight, status, overtaken>>
    BY <2>1 DEF B!Reload
  <2>3. changing' \in [Changers -> Change] /\ changing'[x].at = "reload"
    BY <2>2 DEF BalancerInv, BalancerType, Change
  <2>4. ReloadTells' /\ reload' = [todo |-> reload'.todo, conf |-> reload'.conf, by |-> reload'.by, loaded |-> reload'.loaded]
        /\ reload'.todo \subseteq Servers /\ reload'.conf \in Backends
    BY <2>2, <2>3 DEF ReloadTells, Defined
  <2>5. (B!TableIsCurrent /\ B!StatusIsCurrent)'
    BY <2>2, <2>3 DEF B!TableIsCurrent, B!StatusIsCurrent
  <2>6. WellStayUp /\ \A s \in Servers : (Decides(srv[s]) /\ NoneAhead(s))'
    BY <2>2 DEF WellStayUp, BalancerInv, Decides, NoneAhead
  <2> QED BY <2>2, <2>3, <2>4, <2>5, <2>6 DEF BalancerInv, BalancerType
<1>2. CASE \E s \in Servers : B!Reconfigure(s)
  <2>1. PICK s \in Servers : B!Reconfigure(s)
    BY <1>2
  <2> DEFINE r == B!Reconfigured(srv[s], reload.conf[s])
  <2>2. /\ s \in reload.todo /\ srv' = [srv EXCEPT ![s] = r] /\ reload' = [reload EXCEPT !.todo = @ \ {s}]
        /\ UNCHANGED <<checker, flight, changing, status, overtaken, table, picker>>
    BY <2>1 DEF B!Reconfigure, BalancerInv, BalancerType
  <2>3. srv[s] \in Server /\ reload.conf[s] \in B!Def
    BY DEF BalancerInv, BalancerType, Defined
  <2>4. Succeeds(srv[s], r) /\ r.gen = srv[s].gen + 1 /\ r \in Server
    BY <2>3, ReconfiguredIs DEF Succeeds
  <2> HIDE DEF r
  <2>5. srv' \in [Servers -> Server] /\ srv'[s] = r /\ \A t \in Servers \ {s} : srv'[t] = srv[t]
    BY <2>2, <2>4 DEF BalancerInv, BalancerType
  <2>6. /\ reload' = [todo |-> reload.todo \ {s}, conf |-> reload.conf, by |-> reload.by, loaded |-> reload.loaded]
        /\ reload'.by = reload.by
    BY <2>2 DEF BalancerInv, BalancerType
  <2>7. reload.by \in Changers /\ changing'[reload.by].at = "reload"
    BY <2>2 DEF BalancerInv, ReloadTells
  <2>8. ReloadTells' /\ (B!TableIsCurrent /\ B!StatusIsCurrent)'
    BY <2>2, <2>6, <2>7 DEF Defined, ReloadTells, B!TableIsCurrent, B!StatusIsCurrent
  <2>9. WellStayUp /\ \A t \in Servers : Decides(srv'[t])
    BY <2>4, <2>5 DEF WellStayUp, Succeeds, BalancerInv
  <2>10. \A t \in Servers : NoneAhead(t)'
    <3> SUFFICES ASSUME NEW t \in Servers PROVE NoneAhead(t)'
      OBVIOUS
    <3>1. NoneAhead(t) /\ srv[t].gen \in Nat /\ \A res \in flight[t] : res.gen \in Nat
      BY DEF BalancerInv, BalancerType, Server
    <3>2. CASE t = s
      BY <2>2, <2>4, <2>5, <3>1, <3>2 DEF NoneAhead
    <3>3. CASE t # s
      BY <2>2, <2>5, <3>1, <3>3 DEF NoneAhead
    <3> QED BY <3>2, <3>3
  <2> QED BY ZenonT(60), <2>2, <2>5, <2>6, <2>8, <2>9, <2>10 DEF BalancerInv, BalancerType, Decides
<1>3. CASE B!Loaded
  <2> DEFINE x == reload.by
  <2>1. /\ x # None /\ changing' = [changing EXCEPT ![x].at = "changed"] /\ reload' = [reload EXCEPT !.by = None]
        /\ reload.todo = {}
        /\ checker' = [s \in Servers |-> IF srv[s].conf.check THEN srv[s].gen ELSE None]
        /\ UNCHANGED <<srv, status, overtaken, table, picker>>
        /\ flight' = flight \/ flight' = [s \in Servers |-> {}]
    BY <1>3 DEF B!Loaded, B!WillTell
  <2>2. x \in Changers
    BY <2>1 DEF BalancerInv, ReloadTells
  <2>3. changing' \in [Changers -> Change] /\ changing'[x].at = "changed"
    BY <2>1, <2>2 DEF BalancerInv, BalancerType, Change
  <2>4. (B!TableIsCurrent /\ B!StatusIsCurrent)'
    BY <2>2, <2>3 DEF B!TableIsCurrent, B!StatusIsCurrent
  <2>5. reload' = [todo |-> {}, conf |-> reload.conf, by |-> None, loaded |-> reload.loaded]
    BY <2>1 DEF BalancerInv, BalancerType
  <2>6. ReloadTells' /\ reload'.conf \in Backends
    BY <2>5 DEF ReloadTells, BalancerInv, BalancerType
  <2>7. flight' \in [Servers -> SUBSET [gen : Nat, ok : BOOLEAN]] /\ \A s \in Servers : flight'[s] \subseteq flight[s]
    BY <2>1 DEF BalancerInv, BalancerType
  <2>8. \A s \in Servers : NoneAhead(s)'
    <3> SUFFICES ASSUME NEW s \in Servers PROVE NoneAhead(s)'
      OBVIOUS
    <3>1. NoneAhead(s) /\ srv[s].gen \in Nat
      BY DEF BalancerInv, BalancerType, Server
    <3>2. checker'[s] \in {srv[s].gen, None}
      BY <2>1
    <3> QED BY <2>1, <2>7, <3>1, <3>2 DEF NoneAhead
  <2>9. WellStayUp /\ \A s \in Servers : Decides(srv'[s])
    BY <2>1 DEF WellStayUp, BalancerInv
  <2> QED BY <2>1, <2>3, <2>4, <2>5, <2>6, <2>7, <2>8, <2>9 DEF BalancerInv, BalancerType, Decides
<1> QED BY <1>1, <1>2, <1>3

\* Relay Balancer starts with its servers up and nothing derived from them.
LEMMA BalancerStarts ==
  ASSUME Defined, B!Init
  PROVE  BalancerInv
<1>1. PICK conf \in Backends :
         /\ srv = [s \in Servers |->
              [conf |-> conf[s], admin |-> conf[s].admin, weight |-> conf[s].weight, running |-> TRUE,
               health |-> conf[s].rise, gen |-> 0, forced |-> FALSE]]
         /\ checker = [s \in Servers |-> IF conf[s].check THEN 0 ELSE None]
         /\ reload = [todo |-> {}, conf |-> conf, by |-> None, loaded |-> 0]
  BY DEF B!Init
<1>2. /\ flight = [s \in Servers |-> {}]
      /\ changing = [x \in Changers |-> [at |-> "idle", up |-> TRUE]]
      /\ status = (B!Usable # {}) /\ table = [servers |-> {}, fresh |-> FALSE]
  BY DEF B!Init
<1>3. \A s \in Servers : srv[s] \in Server /\ Decides(srv[s])
  <2> SUFFICES ASSUME NEW s \in Servers PROVE srv[s] \in Server /\ Decides(srv[s])
    OBVIOUS
  <2>1. conf[s] \in B!Def
    BY DEF Defined
  <2>2. /\ conf[s].admin \in B!Admins /\ conf[s].weight \in {0, 1} /\ conf[s].rise \in {1, 2} /\ conf[s].fall \in {1, 2}
    BY <2>1 DEF B!Def
  <2>3. srv[s] = [conf |-> conf[s], admin |-> conf[s].admin, weight |-> conf[s].weight, running |-> TRUE,
                  health |-> conf[s].rise, gen |-> 0, forced |-> FALSE]
    BY <1>1
  <2> QED BY SMTT(60), <2>1, <2>2, <2>3 DEF Server, Decides
<1>4. srv \in [Servers -> Server]
  <2>1. srv = [s \in Servers |-> srv[s]]
    BY <1>1
  <2> QED BY <1>3, <2>1
<1>5. \A s \in Servers : NoneAhead(s)
  <2>1. \A s \in Servers : srv[s].gen = 0 /\ checker[s] \in {0, None} /\ flight[s] = {}
    BY <1>1, <1>2
  <2> QED BY <2>1 DEF NoneAhead
<1>6. ReloadTells /\ BalancerType
  BY <1>1, <1>2, <1>4 DEF ReloadTells, BalancerType, Change
<1>7. B!TableIsCurrent /\ B!StatusIsCurrent
  BY <1>2 DEF B!TableIsCurrent, B!StatusIsCurrent
<1> QED BY <1>3, <1>5, <1>6, <1>7 DEF BalancerInv

\* Every step of Balancer
LEMMA BalancerKept ==
  ASSUME BalancerInv, Defined, [B!Next]_B!vars
  PROVE  BalancerInv' /\ WellStayUp
<1>1. CASE \E x \in Changers : B!Count(x) \/ B!SetStatus(x) \/ \E conf \in Backends : B!Reload(x, conf)
  BY <1>1, DerivedKeeps, CommitKeeps
<1>2. CASE \E x \in Changers, s \in Servers : B!Act(x, s)
  BY <1>2, ServerKeeps
<1>3. CASE \E s \in Servers : B!Check(s) \/ B!Reconfigure(s)
  BY <1>3, ProbedKeeps, CommitKeeps
<1>4. CASE B!Pick \/ B!Tabulate \/ B!Loaded
  BY <1>4, DerivedKeeps, CommitKeeps
<1>5. CASE UNCHANGED B!vars
  <2>1. UNCHANGED <<srv, checker, flight, reload, changing, status, overtaken, table, picker>>
    BY <1>5 DEF B!vars
  <2>2. B!Usable' = B!Usable /\ WellStayUp /\ \A s \in Servers : (Decides(srv[s]) /\ NoneAhead(s))'
    BY <2>1 DEF B!Usable, WellStayUp, BalancerInv, Decides, NoneAhead
  <2> QED BY <2>1, <2>2 DEF BalancerInv, BalancerType, ReloadTells, B!TableIsCurrent, B!StatusIsCurrent
<1> QED BY <1>1, <1>2, <1>3, <1>4, <1>5 DEF B!Next

\* A server that is checked runs exactly while its health says so, through reloads,
\* results that come late and the runtime API; the hash table and the status of its
\* backend are current once all who changed a server have told; and no server that
\* its definition's checks find well is taken down by a check: ChecksAreCurrent of
\* Balancer.  (checkResult, applyConfig, forceHealth, changed)
THEOREM ChecksStayCurrent ==
  ASSUME Defined
  PROVE  B!Spec => B!ChecksAreCurrent
<1>1. BalancerInv => B!HealthDecides /\ B!TableIsCurrent /\ B!StatusIsCurrent
  BY DEF BalancerInv, B!HealthDecides, Decides, B!Best
<1>2. BalancerInv /\ [B!Next]_B!vars => BalancerInv' /\ WellStayUp
  BY BalancerKept
<1>3. B!Init => BalancerInv
  BY BalancerStarts
<1> QED BY <1>1, <1>2, <1>3, PTL DEF B!Spec, B!ChecksAreCurrent, WellStayUp

\* What BalancerInv does not say: no server has more health than 3, which is the
\* best there is, and none is of a configuration that is yet to be loaded.
BalancerBounds ==
    /\ \A s \in Servers : /\ srv[s].health <= 3
                          /\ srv[s].gen <= reload.loaded
                          /\ s \in reload.todo => srv[s].gen < reload.loaded
    /\ checker = [s \in Servers |-> checker[s]]
    /\ reload.loaded \in 0..MaxLoads
    /\ status \in BOOLEAN /\ overtaken \in BOOLEAN
    /\ table \in [servers : SUBSET Servers, fresh : BOOLEAN]
    /\ picker \in {"idle", "fresh", "stale"}
    /\ commands \in 0..MaxCommands

\* No reload, check or command gives a server more health than 3.
LEMMA HealthStays ==
  ASSUME NEW q \in Server, q.health <= 3
  PROVE  /\ \A d \in B!Def : B!Reconfigured(q, d).health <= 3
         /\ \A ok \in BOOLEAN : B!Checked(q, ok).health <= 3 /\ B!Checked(q, ok).gen = q.gen
         /\ \A admin \in B!Admins : B!Administered(q, admin).health <= 3 /\ B!Administered(q, admin).gen = q.gen
         /\ \A w \in {0, 1} : [q EXCEPT !.weight = w].health <= 3 /\ [q EXCEPT !.weight = w].gen = q.gen
         /\ \A up \in BOOLEAN : B!Forced(q, up).health <= 3 /\ B!Forced(q, up).gen = q.gen
<1>1. q.health \in Nat /\ q.conf \in B!Def
  BY DEF Server
<1>2. \A d \in B!Def : d.rise \in {1, 2} /\ B!Best(d) \in Nat /\ B!Best(d) <= 3
  BY DEF B!Def, B!Best
<1>3. ASSUME NEW d \in B!Def PROVE B!Reconfigured(q, d).health <= 3
  <2>1. B!Clamped(q, d) <= 3
    <3> DEFINE m == B!Smaller(q.health, B!Best(d))
    <3>1. m \in Nat /\ m <= 3
      BY <1>1, <1>2 DEF B!Smaller
    <3> HIDE DEF m
    <3>2. B!Larger(m, d.rise) <= 3
      BY <1>2, <3>1 DEF B!Larger
    <3>3. B!Smaller(q.health, d.rise - 1) <= 3
      BY <1>1, <1>2 DEF B!Smaller
    <3> QED BY <3>2, <3>3 DEF B!Clamped, m
  <2>2. B!Reconfigured(q, d).health \in {q.health, d.rise, B!Clamped(q, d)}
    BY DEF B!Reconfigured
  <2> QED BY <1>2, <2>1, <2>2
<1>4. ASSUME NEW ok \in BOOLEAN PROVE B!Checked(q, ok).health <= 3 /\ B!Checked(q, ok).gen = q.gen
  <2> DEFINE better == IF q.health + 1 >= q.conf.rise THEN B!Best(q.conf) ELSE q.health + 1
  <2>1. better <= 3 /\ q.health - 1 <= 3
    BY <1>1, <1>2
  <2> HIDE DEF better
  <2> DEFINE well == [q EXCEPT !.health = better, !.running = @ \/ better >= q.conf.rise]
             less == [q EXCEPT !.health = @ - 1]
             down == [q EXCEPT !.health = 0, !.running = FALSE]
  <2>2. B!Checked(q, ok) = well \/ B!Checked(q, ok) = less \/ B!Checked(q, ok) = down
    BY DEF B!Checked, better
  <2>3. /\ well.health = better /\ less.health = q.health - 1 /\ down.health = 0
        /\ well.gen = q.gen /\ less.gen = q.gen /\ down.gen = q.gen
    BY DEF Server
  <2> HIDE DEF well, less, down
  <2> QED BY <2>1, <2>2, <2>3
<1>5. ASSUME NEW admin \in B!Admins
      PROVE  B!Administered(q, admin).health <= 3 /\ B!Administered(q, admin).gen = q.gen
  BY <1>1, <1>2 DEF B!Administered, Server
<1>6. ASSUME NEW w \in {0, 1}
      PROVE  [q EXCEPT !.weight = w].health <= 3 /\ [q EXCEPT !.weight = w].gen = q.gen
  BY DEF Server
<1>7. ASSUME NEW up \in BOOLEAN PROVE B!Forced(q, up).health <= 3 /\ B!Forced(q, up).gen = q.gen
  BY <1>1, <1>2 DEF B!Forced, Server
<1> QED BY <1>3, <1>4, <1>5, <1>6, <1>7

\* Every step of Balancer
LEMMA BoundsMove ==
  ASSUME MaxLoads \in Nat, MaxCommands \in Nat, Defined, BalancerInv, BalancerBounds, [B!Next]_B!vars
  PROVE  BalancerBounds'
<1> DEFINE Same == UNCHANGED <<srv, checker, reload, commands>>
           Derived == /\ status \in BOOLEAN /\ overtaken \in BOOLEAN
                      /\ table \in [servers : SUBSET Servers, fresh : BOOLEAN]
                      /\ picker \in {"idle", "fresh", "stale"}
<1>1. Derived
  BY DEF BalancerBounds
<1>2. CASE Same /\ Derived'
  BY <1>2 DEF BalancerBounds
<1>3. ASSUME NEW x \in Changers, B!Count(x) PROVE Same /\ Derived'
  <2>1. UNCHANGED <<status, overtaken>> /\ table' = [table EXCEPT !.fresh = FALSE] /\ picker' \in {picker, "stale"}
    BY <1>3 DEF B!Count, B!TableStale
  <2> QED BY <1>1, <1>3, <2>1 DEF B!Count
<1>4. ASSUME NEW x \in Changers, B!SetStatus(x) PROVE Same /\ Derived'
  <2>1. status' \in BOOLEAN
    BY <1>4 DEF B!SetStatus, BalancerInv, BalancerType, Change
  <2>2. overtaken' \in BOOLEAN /\ UNCHANGED <<table, picker>>
    BY <1>4 DEF B!SetStatus
  <2> QED BY <1>1, <1>4, <2>1, <2>2 DEF B!SetStatus
<1>5. CASE B!Pick
  BY <1>1, <1>2, <1>5 DEF B!Pick
<1>6. CASE B!Tabulate
  <2>1. B!Usable \subseteq Servers
    BY DEF B!Usable
  <2>2. table' = [servers |-> B!Usable, fresh |-> picker = "fresh"] /\ picker' = "idle" /\ UNCHANGED <<status, overtaken>>
    BY <1>6 DEF B!Tabulate
  <2>3. Derived'
    BY <1>1, <2>1, <2>2
  <2> QED BY <1>2, <1>6, <2>3 DEF B!Tabulate
<1>7. ASSUME NEW s \in Servers, B!Check(s) PROVE Same /\ Derived'
  BY <1>1, <1>7 DEF B!Check
<1>8. CASE UNCHANGED B!vars
  BY <1>1, <1>2, <1>8 DEF B!vars
<1>9. ASSUME NEW x \in Changers, NEW s \in Servers, B!Act(x, s) PROVE BalancerBounds'
  <2>1. srv[s] \in Server /\ srv[s].health <= 3
    BY DEF BalancerInv, BalancerType, BalancerBounds
  <2>2. commands' = commands \/ (commands < MaxCommands /\ commands' = commands + 1)
    BY <1>9 DEF B!Act, B!Result, B!SetAdmin, B!SetWeight, B!ForceHealth, B!Command
  <2>3. UNCHANGED <<checker, reload, status, overtaken, table, picker>>
    BY <1>9 DEF B!Act, B!Result, B!SetAdmin, B!SetWeight, B!ForceHealth
  <2>4. PICK r \in {srv'[s]} : r.health <= 3 /\ r.gen = srv[s].gen /\ srv' = [srv EXCEPT ![s] = r]
    <3>1. CASE B!Result(x, s)
      <4>1. PICK res \in flight[s] : srv' = srv \/ srv' = [srv EXCEPT ![s] = B!Checked(srv[s], res.ok)]
        BY <3>1 DEF B!Result
      <4>2. res.ok \in BOOLEAN
        BY DEF BalancerInv, BalancerType
      <4>3. B!Checked(srv[s], res.ok).health <= 3 /\ B!Checked(srv[s], res.ok).gen = srv[s].gen
        BY <2>1, <4>2, HealthStays
      <4> QED BY <2>1, <4>1, <4>3 DEF BalancerInv, BalancerType
    <3>2. ASSUME NEW admin \in B!Admins, B!SetAdmin(x, s, admin)
          PROVE  srv' = [srv EXCEPT ![s] = srv'[s]] /\ srv'[s].health <= 3 /\ srv'[s].gen = srv[s].gen
      <4>1. srv' = [srv EXCEPT ![s] = B!Administered(srv[s], admin)]
        BY <3>2 DEF B!SetAdmin
      <4>2. B!Administered(srv[s], admin).health <= 3 /\ B!Administered(srv[s], admin).gen = srv[s].gen
        BY <2>1, HealthStays
      <4> QED BY <4>1, <4>2 DEF BalancerInv, BalancerType
    <3>3. ASSUME NEW w \in {0, 1}, B!SetWeight(x, s, w)
          PROVE  srv' = [srv EXCEPT ![s] = srv'[s]] /\ srv'[s].health <= 3 /\ srv'[s].gen = srv[s].gen
      <4>1. srv' = [srv EXCEPT ![s] = [srv[s] EXCEPT !.weight = w]]
        BY <3>3 DEF B!SetWeight
      <4>2. [srv[s] EXCEPT !.weight = w].health <= 3 /\ [srv[s] EXCEPT !.weight = w].gen = srv[s].gen
        BY <2>1, HealthStays
      <4> QED BY <4>1, <4>2 DEF BalancerInv, BalancerType
    <3>4. ASSUME NEW up \in BOOLEAN, B!ForceHealth(x, s, up)
          PROVE  srv' = [srv EXCEPT ![s] = srv'[s]] /\ srv'[s].health <= 3 /\ srv'[s].gen = srv[s].gen
      <4>1. srv' = [srv EXCEPT ![s] = B!Forced(srv[s], up)]
        BY <3>4 DEF B!ForceHealth
      <4>2. B!Forced(srv[s], up).health <= 3 /\ B!Forced(srv[s], up).gen = srv[s].gen
        BY <2>1, HealthStays
      <4> QED BY <4>1, <4>2 DEF BalancerInv, BalancerType
    <3> QED BY <1>9, <3>1, <3>2, <3>3, <3>4 DEF B!Act
  <2>5. srv'[s] = r /\ \A t \in Servers \ {s} : srv'[t] = srv[t]
    BY <2>4 DEF BalancerInv, BalancerType
  <2>6. \A t \in Servers : srv'[t].health <= 3 /\ srv'[t].gen = srv[t].gen
    BY <2>4, <2>5 DEF BalancerBounds
  <2>7. commands' \in 0..MaxCommands
    BY <2>2, CounterStays DEF BalancerBounds
  <2> QED BY <2>3, <2>6, <2>7 DEF BalancerBounds
<1>10. ASSUME NEW x \in Changers, NEW conf \in Backends, B!Reload(x, conf) PROVE BalancerBounds'
  <2>1. /\ reload.loaded < MaxLoads
        /\ reload' = [todo |-> Servers, conf |-> conf, by |-> x, loaded |-> reload.loaded + 1]
        /\ table' = [servers |-> {}, fresh |-> FALSE] /\ picker' = "idle"
        /\ UNCHANGED <<srv, checker, status, overtaken, commands>>
    BY <1>10 DEF B!Reload
  <2>2. /\ reload'.loaded = reload.loaded + 1 /\ reload'.loaded \in 0..MaxLoads
    BY <2>1 DEF BalancerBounds
  <2>3. \A s \in Servers : srv[s].gen < reload'.loaded
    BY <2>2 DEF BalancerBounds, BalancerInv, BalancerType, Server
  <2> QED BY <2>1, <2>2, <2>3 DEF BalancerBounds, BalancerInv, BalancerType, Server
<1>11. ASSUME NEW s \in Servers, B!Reconfigure(s) PROVE BalancerBounds'
  <2> DEFINE r == B!Reconfigured(srv[s], reload.conf[s])
  <2>1. /\ s \in reload.todo /\ srv' = [srv EXCEPT ![s] = r] /\ reload' = [reload EXCEPT !.todo = @ \ {s}]
        /\ UNCHANGED <<checker, status, overtaken, table, picker, commands>>
    BY <1>11 DEF B!Reconfigure
  <2>2. srv[s] \in Server /\ reload.conf[s] \in B!Def /\ srv[s].health <= 3
    BY DEF BalancerInv, BalancerType, BalancerBounds, Defined
  <2>3. r.health <= 3 /\ r.gen = srv[s].gen + 1
    BY <2>2, HealthStays, ReconfiguredIs
  <2> HIDE DEF r
  <2>4. srv'[s] = r /\ \A t \in Servers \ {s} : srv'[t] = srv[t]
    BY <2>1 DEF BalancerInv, BalancerType
  <2>5. reload'.loaded = reload.loaded /\ reload'.todo = reload.todo \ {s}
    BY <2>1 DEF BalancerInv, BalancerType
  <2>6. r.gen <= reload.loaded
    BY <2>1, <2>2, <2>3 DEF BalancerBounds, Server
  <2> QED BY <2>1, <2>3, <2>4, <2>5, <2>6 DEF BalancerBounds
<1>12. CASE B!Loaded
  <2>1. /\ reload.todo = {} /\ reload' = [reload EXCEPT !.by = None]
        /\ checker' = [s \in Servers |-> IF srv[s].conf.check THEN srv[s].gen ELSE None]
        /\ UNCHANGED <<srv, status, overtaken, table, picker, commands>>
    BY <1>12 DEF B!Loaded
  <2>2. reload'.todo = {} /\ reload'.loaded = reload.loaded
    BY <2>1 DEF BalancerInv, BalancerType
  <2>3. checker' = [s \in Servers |-> checker'[s]]
    BY <2>1
  <2> QED BY <2>1, <2>2, <2>3 DEF BalancerBounds
<1> HIDE DEF Same, Derived
<1> QED BY <1>2, <1>3, <1>4, <1>5, <1>6, <1>7, <1>8, <1>9, <1>10, <1>11, <1>12 DEF B!Next

\* In every reachable state no server has more health than its checks can give it, and
\* all that checks, reloads and sessions know is of a configuration that was loaded:
\* TypeOK of Balancer.  (checkResult, applyConfig, startChecks)
THEOREM BalancerTyped ==
  ASSUME Defined, MaxLoads \in Nat, MaxCommands \in Nat
  PROVE  B!Spec => []B!TypeOK
<1>1. ASSUME B!Init PROVE BalancerBounds
  <2>1. PICK conf \in Backends :
          /\ srv = [s \in Servers |->
               [conf |-> conf[s], admin |-> conf[s].admin, weight |-> conf[s].weight, running |-> TRUE,
                health |-> conf[s].rise, gen |-> 0, forced |-> FALSE]]
          /\ checker = [s \in Servers |-> IF conf[s].check THEN 0 ELSE None]
          /\ reload = [todo |-> {}, conf |-> conf, by |-> None, loaded |-> 0]
    BY <1>1 DEF B!Init
  <2>2. status \in BOOLEAN /\ overtaken = FALSE /\ table = [servers |-> {}, fresh |-> FALSE] /\ picker = "idle" /\ commands = 0
    BY <1>1 DEF B!Init
  <2>3. \A s \in Servers : conf[s].rise \in {1, 2}
    BY DEF Defined, B!Def
  <2>4. \A s \in Servers : srv[s].health = conf[s].rise /\ srv[s].gen = 0
    BY <2>1
  <2>5. reload.loaded = 0 /\ reload.todo = {} /\ checker = [s \in Servers |-> checker[s]]
    BY <2>1
  <2>6. 0 \in 0..MaxLoads /\ 0 \in 0..MaxCommands
    OBVIOUS
  <2>7. \A s \in Servers : srv[s].health <= 3 /\ srv[s].gen <= reload.loaded /\ s \notin reload.todo
    BY <2>3, <2>4, <2>5
  <2> QED BY <2>2, <2>5, <2>6, <2>7 DEF BalancerBounds
<1>2. BalancerInv /\ BalancerBounds => B!TypeOK
  <2> SUFFICES ASSUME BalancerInv, BalancerBounds PROVE B!TypeOK
    OBVIOUS
  <2>1. \A n \in Nat : n <= reload.loaded => n \in B!Gens
    BY DEF BalancerBounds, B!Gens
  <2>2. srv \in [Servers -> [conf : B!Def, admin : B!Admins, weight : {0, 1}, running : BOOLEAN,
                             health : 0..3, gen : B!Gens, forced : BOOLEAN]]
    <3> SUFFICES ASSUME NEW s \in Servers
        PROVE  srv[s] \in [conf : B!Def, admin : B!Admins, weight : {0, 1}, running : BOOLEAN,
                           health : 0..3, gen : B!Gens, forced : BOOLEAN]
      BY DEF BalancerInv, BalancerType
    <3>1. srv[s] \in Server
      BY DEF BalancerInv, BalancerType
    <3>2. srv[s].health \in 0..3 /\ srv[s].gen \in B!Gens
      BY <2>1, <3>1 DEF BalancerBounds, Server
    <3> QED BY <3>1, <3>2 DEF Server
  <2>3. checker \in [Servers -> B!Gens \cup {None}]
    <3> SUFFICES ASSUME NEW s \in Servers, checker[s] # None PROVE checker[s] \in B!Gens
      BY DEF BalancerBounds
    <3>1. checker[s] \in Nat /\ checker[s] <= srv[s].gen
      BY DEF BalancerInv, NoneAhead
    <3>2. checker[s] <= reload.loaded
      BY <3>1 DEF BalancerBounds, BalancerInv, BalancerType, Server
    <3> QED BY <2>1, <3>1, <3>2
  <2>4. \A s \in Servers : flight[s] \subseteq [gen : B!Gens, ok : BOOLEAN]
    <3> SUFFICES ASSUME NEW s \in Servers, NEW res \in flight[s] PROVE res \in [gen : B!Gens, ok : BOOLEAN]
      OBVIOUS
    <3>1. res \in [gen : Nat, ok : BOOLEAN] /\ res.gen <= srv[s].gen
      BY DEF BalancerInv, BalancerType, NoneAhead
    <3>2. res.gen <= reload.loaded
      BY <3>1 DEF BalancerBounds, BalancerInv, BalancerType, Server
    <3> QED BY <2>1, <3>1, <3>2
  <2>5. reload \in [todo : SUBSET Servers, conf : Backends, by : Changers \cup {None}, loaded : B!Gens]
    BY DEF BalancerInv, BalancerType, ReloadTells, BalancerBounds, B!Gens
  <2>6. changing \in [Changers -> [at : {"idle", "changed", "counted", "reload"}, up : BOOLEAN]]
    BY DEF BalancerInv, BalancerType, Change
  <2> QED BY <2>2, <2>3, <2>4, <2>5, <2>6 DEF BalancerBounds, B!TypeOK
<1>3. BalancerInv /\ BalancerBounds /\ [B!Next]_B!vars => (BalancerInv /\ BalancerBounds)'
  BY BalancerKept, BoundsMove
<1>4. B!Init => BalancerInv
  BY BalancerStarts
<1> QED BY <1>1, <1>2, <1>3, <1>4, PTL DEF B!Spec

-----------------------------------------------------------------------------
(* Certificates: what a row says was issued is on the disk.  The invariant *)
(* is about a certificate that is not deleted.  An edit that has read the  *)
(* row is a second row that must not be ahead of the files; an order that  *)
(* has obtained a generation knows no later one was written; and what is   *)
(* written was issued, as generations are issued in order.                 *)

CertShape ==
    /\ cert \in C!Row
    /\ order \in [at : {"none", "queued", "asking", "obtained", "keyed", "written", "failing", "ending"},
                  gen : {0} \cup C!Gens]
    /\ editor \in [at : {"idle", "read"}, row : C!Row]
    /\ files \in [key : {0} \cup C!Gens, chain : {0} \cup C!Gens]
    /\ age \in [C!Gens -> {"none", "fresh", "due", "over"}]

\* What the scheduler acts on.
CertListed == sched \in [at : {"idle", "sweep", "check", "renew"}, row : C!Row]

\* Generations are issued one after another.
GensInTurn == \A g, h \in C!Gens : h < g /\ age[g] # "none" => age[h] # "none"

WasIssued(g) == g \in C!Gens => age[g] # "none"

\* What the order under way has written so far.
OrderProgress ==
    /\ order.at = "obtained" => files.key <= order.gen /\ WasIssued(order.gen)
    /\ order.at = "keyed" => files.key = order.gen
    /\ order.at = "written" => files.key = order.gen /\ files.chain = order.gen

CertRows ==
    /\ cert.gen <= files.chain
    /\ editor.at = "read" => editor.row.gen <= files.chain

CertInv ==
    /\ CertShape
    /\ GensInTurn
    /\ remover = "deleted" => ~cert.there
    /\ cert.there => /\ files.chain <= files.key /\ WasIssued(files.key)
                     /\ OrderProgress
                     /\ CertRows

-----------------------------------------------------------------------------

\* The generations of a certificate count up from 1.
LEMMA GensAreNaturals == \A g \in C!Gens : g \in Nat /\ g > 0
  BY DEF C!Gens

\* Relay starts with nothing under way for its certificate.
LEMMA CertInit == C!Init => CertInv
<1> SUFFICES ASSUME C!Init PROVE CertInv
  OBVIOUS
<1>1. CertShape
  <2>1. cert \in C!Row /\ C!NoRow \in C!Row
    <3>1. PICK st \in {"pending", "failed"} : cert = [there |-> TRUE, status |-> st, gen |-> 0, auto |-> TRUE]
      BY DEF C!Init
    <3> QED BY <3>1 DEF C!Row, C!NoRow
  <2>2. order.at \in {"none", "queued"} /\ order = [at |-> order.at, gen |-> 0]
    BY DEF C!Init
  <2>3. editor = [at |-> "idle", row |-> C!NoRow]
    BY DEF C!Init, C!AtRest
  <2>4. age \in [C!Gens -> {"none", "fresh", "due", "over"}]
    BY DEF C!Init
  <2>5. files = [key |-> 0, chain |-> 0]
    BY DEF C!Init
  <2> QED BY <2>1, <2>2, <2>3, <2>4, <2>5 DEF CertShape
<1>2. GensInTurn
  BY DEF C!Init, GensInTurn
<1>3. cert.there => WasIssued(files.key) /\ OrderProgress /\ CertRows /\ files.chain <= files.key
  BY GensAreNaturals DEF C!Init, WasIssued, OrderProgress, CertRows, C!AtRest, C!NoRow
<1> QED BY <1>1, <1>2, <1>3 DEF CertInv, C!Init

\* An order moves on: nothing but the row, and where it is, may change with it.
LEMMA CertLaunched ==
  ASSUME CertInv, NEW r \in C!Row, C!Launch(r),
         UNCHANGED <<editor, remover, files, age>>
  PROVE  CertInv'
<1>1. CertShape' /\ cert'.there = cert.there /\ cert'.gen = cert.gen
  BY DEF CertInv, CertShape, C!Launch, C!Launched, C!Row
<1>2. order' = order \/ order'.at = "queued"
  BY DEF C!Launch, C!Launched
<1> QED BY <1>1, <1>2 DEF CertInv, GensInTurn, WasIssued, OrderProgress, CertRows

\* An order writes the key, the chain and the row in that order, and of one generation.
LEMMA CertOrder ==
  ASSUME CertInv, C!Run
  PROVE  CertInv'
<1> USE DEF CertInv, CertShape
<1>1. CASE C!Load
  BY <1>1 DEF C!Load, C!Finish, C!Goes, GensInTurn, WasIssued, OrderProgress, CertRows
<1>2. CASE C!Obtain
  <2>1. PICK g \in C!Gens : /\ age[g] = "none" /\ \A h \in C!Gens : h < g => age[h] # "none"
                          /\ order' = [at |-> "obtained", gen |-> g]
                          /\ age' = [age EXCEPT ![g] = "fresh"]
    BY <1>2 DEF C!Obtain
  <2>2. UNCHANGED <<cert, editor, remover, files>>
    BY <1>2 DEF C!Obtain
  <2>3. CertShape'
    BY <2>1, <2>2
  <2>4. GensInTurn'
    BY <2>1 DEF GensInTurn
  <2>5. WasIssued(files.key) => files.key <= g
    <3>1. files.key = 0 \/ files.key \in C!Gens
      OBVIOUS
    <3>2. g \in Nat /\ files.key \in Nat
      BY <3>1, GensAreNaturals
    <3>3. age[g] = "none"
      BY <2>1
    <3>4. files.key \in C!Gens /\ g < files.key /\ age[files.key] # "none" => age[g] # "none"
      BY DEF GensInTurn
    <3> QED BY <3>1, <3>2, <3>3, <3>4 DEF WasIssued
  <2>6. WasIssued(files.key) => WasIssued(files.key)'
    BY <2>1, <2>2 DEF WasIssued
  <2>7. order'.at = "obtained" /\ order'.gen = g /\ age'[g] = "fresh"
    BY <2>1
  <2>8. WasIssued(files.key) => OrderProgress'
    BY <2>2, <2>5, <2>7 DEF OrderProgress, WasIssued
  <2>9. CertRows => CertRows'
    BY <2>2 DEF CertRows
  <2> QED BY <2>2, <2>3, <2>4, <2>6, <2>8, <2>9
<1>3. CASE C!Unobtained
  BY <1>3 DEF C!Unobtained, C!Goes, GensInTurn, WasIssued, OrderProgress, CertRows
<1>4. CASE C!WriteKey
  <2>1. /\ files' = [files EXCEPT !.key = order.gen] /\ order' = [order EXCEPT !.at = "keyed"]
        /\ order.at = "obtained" /\ UNCHANGED <<cert, editor, remover, age>>
    BY <1>4 DEF C!WriteKey, C!Goes
  <2>2. CertShape' /\ files'.chain = files.chain /\ files'.key = order.gen
    BY <2>1
  <2>3. order'.at = "keyed" /\ order'.gen = order.gen
    BY <2>1
  <2>4. OrderProgress => (files.chain <= files.key => files.chain <= order.gen)
    BY <2>1, GensAreNaturals DEF OrderProgress
  <2> QED BY <2>1, <2>2, <2>3, <2>4 DEF GensInTurn, WasIssued, OrderProgress, CertRows
<1>5. CASE C!WriteChain
  <2>1. /\ files' = [files EXCEPT !.chain = order.gen] /\ order' = [order EXCEPT !.at = "written"]
        /\ order.at = "keyed" /\ UNCHANGED <<cert, editor, remover, age>>
    BY <1>5 DEF C!WriteChain, C!Goes
  <2>2. CertShape' /\ files'.chain = order.gen /\ files'.key = files.key
    BY <2>1
  <2>3. order'.at = "written" /\ order'.gen = order.gen
    BY <2>1
  <2>4. OrderProgress /\ CertRows /\ files.chain <= files.key => CertRows'
    BY <2>1, <2>2, GensAreNaturals DEF OrderProgress, CertRows, C!Row
  <2>5. OrderProgress => files'.chain <= files'.key
    BY <2>1, <2>2, GensAreNaturals DEF OrderProgress
  <2> QED BY <2>1, <2>2, <2>3, <2>4, <2>5 DEF GensInTurn, WasIssued, OrderProgress
<1>6. CASE C!Unwritten
  BY <1>6 DEF C!Unwritten, C!Goes, GensInTurn, WasIssued, OrderProgress, CertRows
<1>7. CASE C!Store
  <2>1. /\ cert' = IF cert.there THEN [cert EXCEPT !.gen = order.gen, !.status = "valid"] ELSE cert
        /\ order' = [order EXCEPT !.at = "ending"]
        /\ order.at = "written" /\ UNCHANGED <<editor, remover, files, age>>
    BY <1>7 DEF C!Store, C!Goes
  <2>2. CertShape' /\ order'.at = "ending" /\ cert'.there = cert.there
    BY ZenonT(60), <2>1 DEF C!Row
  <2>3. cert.there => cert'.gen = order.gen
    BY <2>1 DEF C!Row
  <2>4. cert.there => CertRows'
    BY <2>1, <2>3, GensAreNaturals DEF OrderProgress, CertRows
  <2> QED BY <2>1, <2>2, <2>4 DEF GensInTurn, WasIssued, OrderProgress
<1>8. CASE C!Fail
  <2>1. /\ cert' = IF cert.there THEN [cert EXCEPT !.status = "failed"] ELSE cert
        /\ order' = [order EXCEPT !.at = "ending"] /\ UNCHANGED <<editor, remover, files, age>>
    BY <1>8 DEF C!Fail, C!Goes
  <2>2. CertShape' /\ order'.at = "ending" /\ cert'.there = cert.there /\ cert'.gen = cert.gen
    BY <2>1 DEF C!Row
  <2> QED BY <2>1, <2>2 DEF GensInTurn, WasIssued, OrderProgress, CertRows
<1>9. CASE C!End
  BY <1>9 DEF C!End, C!Finish, GensInTurn, WasIssued, OrderProgress, CertRows
<1> QED BY <1>1, <1>2, <1>3, <1>4, <1>5, <1>6, <1>7, <1>8, <1>9 DEF C!Run

\* The scheduler starts orders for the row as it listed it, and marks it expired.
LEMMA CertScheduler ==
  ASSUME CertInv, CertListed, C!Scheduler
  PROVE  CertInv'
<1>1. sched.row \in C!Row
  BY DEF CertListed
<1>2. CASE C!List("sweep") \/ C!List("check")
  BY <1>2 DEF C!List, CertInv, CertShape, GensInTurn, WasIssued, OrderProgress, CertRows
<1>3. CASE UNCHANGED <<cert, order, editor, remover, files, age>>
  BY <1>3 DEF CertInv, CertShape, GensInTurn, WasIssued, OrderProgress, CertRows
<1>4. CASE C!Sweep
  <2>1. CASE sched.row.status = "pending"
    BY <1>1, <1>4, <2>1, CertLaunched DEF C!Sweep
  <2>2. CASE sched.row.status # "pending"
    BY <1>3, <1>4, <2>2 DEF C!Sweep
  <2> QED BY <2>1, <2>2
<1>5. CASE C!Check
  <2>1. UNCHANGED <<editor, remover, files, age>>
    BY <1>5 DEF C!Check
  <2>2. CASE inflight
    BY <1>3, <1>5, <2>1, <2>2 DEF C!Check
  <2>3. CASE ~inflight /\ sched.row.status = "pending"
    BY <1>1, <1>5, <2>1, <2>3, CertLaunched DEF C!Check
  <2>4. CASE ~inflight /\ sched.row.status # "pending"
    <3>1. order' = order /\ (cert' = cert \/ cert' = [cert EXCEPT !.status = "expired"])
      BY <1>5, <2>4 DEF C!Check
    <3>2. cert' \in C!Row /\ cert'.there = cert.there /\ cert'.gen = cert.gen
      BY <3>1 DEF CertInv, CertShape, C!Row
    <3> QED BY <2>1, <3>1, <3>2 DEF CertInv, CertShape, GensInTurn, WasIssued, OrderProgress, CertRows
  <2> QED BY <2>2, <2>3, <2>4
<1>6. CASE C!Renewal
  <2>1. UNCHANGED <<editor, remover, files, age>>
    BY <1>6 DEF C!Renewal
  <2>2. C!Launch(sched.row) \/ UNCHANGED <<cert, inflight, order>>
    BY <1>6 DEF C!Renewal
  <2> QED BY <1>1, <1>3, <2>1, <2>2, CertLaunched
<1> QED BY <1>2, <1>4, <1>5, <1>6 DEF C!Scheduler

\* An edit writes back a row that was not ahead of the files when it was read,
\* and they only move forward while the certificate is there.
LEMMA CertAdmin ==
  ASSUME CertInv, C!Admin
  PROVE  CertInv'
<1> USE DEF CertInv, CertShape
<1>1. CASE C!Order
  BY <1>1, CertLaunched DEF C!Order
<1>2. CASE C!EditRead
  <2>1. editor' = [at |-> "read", row |-> cert] /\ UNCHANGED <<cert, order, remover, files, age>>
    BY <1>2 DEF C!EditRead
  <2> QED BY <2>1 DEF GensInTurn, WasIssued, OrderProgress, CertRows
<1>3. CASE C!EditSave
  <2>1. PICK auto \in BOOLEAN : cert' = IF cert.there THEN [editor.row EXCEPT !.auto = auto] ELSE cert
    BY <1>3 DEF C!EditSave
  <2>2. editor.at = "read" /\ editor' = C!AtRest /\ UNCHANGED <<order, remover, files, age>>
    BY <1>3 DEF C!EditSave
  <2>3. cert' \in C!Row /\ (cert.there => cert'.gen = editor.row.gen) /\ (cert'.there => cert.there)
    BY <2>1 DEF C!Row
  <2>4. C!AtRest = [at |-> "idle", row |-> C!NoRow] /\ C!NoRow \in C!Row
    BY DEF C!AtRest, C!NoRow, C!Row
  <2>5. CertShape'
    BY <2>2, <2>3, <2>4
  <2>6. editor'.at = "idle"
    BY <2>2, <2>4
  <2>7. cert'.there /\ CertRows => CertRows'
    BY <2>2, <2>3, <2>6 DEF CertRows
  <2> QED BY <2>2, <2>3, <2>5, <2>7 DEF GensInTurn, WasIssued, OrderProgress
<1>4. CASE C!DeleteAsked
  BY <1>4 DEF C!DeleteAsked, GensInTurn, WasIssued, OrderProgress, CertRows
<1>5. CASE C!Delete
  <2>1. cert' = [cert EXCEPT !.there = FALSE] /\ UNCHANGED <<order, editor, files, age>>
    BY <1>5 DEF C!Delete
  <2>2. cert' \in C!Row /\ ~cert'.there
    BY <2>1 DEF C!Row
  <2> QED BY <2>1, <2>2 DEF GensInTurn
<1>6. CASE C!RemoveFiles
  <2>1. files' = [key |-> 0, chain |-> 0] /\ remover = "deleted" /\ remover' = "idle"
        /\ UNCHANGED <<cert, order, editor, age>>
    BY <1>6 DEF C!RemoveFiles
  <2> QED BY <2>1 DEF GensInTurn
<1>7. CASE C!RevokeAsked
  BY <1>7 DEF C!RevokeAsked, GensInTurn, WasIssued, OrderProgress, CertRows
<1>8. CASE C!Revoked
  <2>1. remover' = "idle" /\ UNCHANGED <<order, editor, files, age>>
        /\ (cert' = cert \/ cert' = [cert EXCEPT !.status = "failed", !.auto = FALSE])
    BY <1>8 DEF C!Revoked
  <2>2. cert' \in C!Row /\ cert'.there = cert.there /\ cert'.gen = cert.gen
    BY ZenonT(60), <2>1 DEF C!Row
  <2> QED BY <2>1, <2>2 DEF GensInTurn, WasIssued, OrderProgress, CertRows
<1> QED BY <1>1, <1>2, <1>3, <1>4, <1>5, <1>6, <1>7, <1>8 DEF C!Admin

\* A panic, a crash and the passing of time
LEMMA CertRest ==
  ASSUME CertInv, C!Panic \/ C!Crash \/ \E g \in C!Gens : C!Ages(g)
  PROVE  CertInv'
<1> USE DEF CertInv, CertShape
<1>1. CASE C!Panic
  BY <1>1 DEF C!Panic, C!Finish, GensInTurn, WasIssued, OrderProgress, CertRows
<1>2. CASE C!Crash
  <2>1. order' = [at |-> "none", gen |-> 0] /\ editor' = [at |-> "idle", row |-> C!NoRow] /\ remover' = "idle"
        /\ UNCHANGED <<cert, files, age>>
    BY <1>2 DEF C!Crash, C!AtRest
  <2>2. C!NoRow \in C!Row
    BY DEF C!NoRow, C!Row
  <2> QED BY <2>1, <2>2 DEF GensInTurn, WasIssued, OrderProgress, CertRows
<1>3. ASSUME NEW g \in C!Gens, C!Ages(g)
      PROVE  CertInv'
  <2>1. age' \in [C!Gens -> {"none", "fresh", "due", "over"}]
    BY <1>3 DEF C!Ages
  <2>2. \A h \in C!Gens : age'[h] = "none" <=> age[h] = "none"
    BY <1>3 DEF C!Ages
  <2>3. UNCHANGED <<cert, order, editor, remover, files>>
    BY <1>3 DEF C!Ages
  <2>4. GensInTurn'
    BY <2>2 DEF GensInTurn
  <2> QED BY <2>1, <2>2, <2>3, <2>4 DEF WasIssued, OrderProgress, CertRows
<1> QED BY <1>1, <1>2, <1>3

\* What the scheduler lists is a row.
LEMMA CertListedStep ==
  ASSUME CertInv, CertListed, C!Next
  PROVE  CertListed'
<1>1. C!AtRest \in [at : {"idle", "sweep", "check", "renew"}, row : C!Row]
  BY DEF C!AtRest, C!NoRow, C!Row
<1>2. CASE UNCHANGED sched
  BY <1>2 DEF CertListed
<1>3. CASE sched' = C!AtRest
  BY <1>1, <1>3 DEF CertListed
<1>4. CASE C!List("sweep") \/ C!List("check")
  BY <1>4 DEF C!List, CertListed, CertInv, CertShape
<1>5. CASE C!Check
  <2>1. [cert EXCEPT !.status = "expired"] \in C!Row /\ sched.row \in C!Row
    BY DEF CertInv, CertShape, C!Row, CertListed
  <2>2. sched' = C!AtRest \/ sched' = [at |-> "renew", row |-> [cert EXCEPT !.status = "expired"]]
                         \/ sched' = [at |-> "renew", row |-> sched.row]
    BY <1>5 DEF C!Check
  <2> QED BY <1>3, <2>1, <2>2 DEF CertListed
<1>6. CASE C!Sweep \/ C!Renewal \/ C!Crash
  BY <1>3, <1>6 DEF C!Sweep, C!Renewal, C!Crash
<1>7. CASE C!Run \/ C!Panic \/ C!Admin \/ \E g \in C!Gens : C!Ages(g)
  BY <1>2, <1>7 DEF C!Run, C!Panic, C!Admin, C!Ages, C!Load, C!Obtain, C!Unobtained, C!WriteKey, C!WriteChain, C!Unwritten, C!Store,
     C!Fail, C!End, C!Order, C!EditRead, C!EditSave, C!DeleteAsked, C!Delete, C!RemoveFiles, C!RevokeAsked, C!Revoked
<1> QED BY <1>4, <1>5, <1>6, <1>7 DEF C!Next, C!Scheduler

\* Every step of Certificates
LEMMA CertificatesKept ==
  /\ C!Init => CertInv /\ CertListed
  /\ CertInv /\ CertListed /\ [C!Next]_C!vars => (CertInv /\ CertListed)'
<1>1. C!Init => CertInv /\ CertListed
  <2>1. C!Init => CertListed
    BY DEF C!Init, CertListed, C!AtRest, C!NoRow, C!Row
  <2> QED BY <2>1, CertInit
<1>2. CertInv /\ CertListed /\ [C!Next]_C!vars => (CertInv /\ CertListed)'
  <2> SUFFICES ASSUME CertInv, CertListed, [C!Next]_C!vars PROVE (CertInv /\ CertListed)'
    OBVIOUS
  <2>1. CASE C!Next
    <3>1. CertInv'
      BY <2>1, CertOrder, CertScheduler, CertAdmin, CertRest DEF C!Next
    <3> QED BY <2>1, <3>1, CertListedStep
  <2>2. CASE UNCHANGED C!vars
    BY <2>2 DEF C!vars, CertInv, CertListed, CertShape, GensInTurn, WasIssued, OrderProgress, CertRows
  <2> QED BY <2>1, <2>2
<1> QED BY <1>1, <1>2

\* In every reachable state, a certificate that is not deleted has on the disk what
\* its row says was issued, or a later generation: FilesAreNotBehind holds for
\* every number of generations, calls and faults.  (run, writeCertFiles, the edit
\* of api/crud.go)
THEOREM FilesAreKept == C!Spec => []C!FilesAreNotBehind
<1>1. CertInv => C!FilesAreNotBehind
  BY GensAreNaturals DEF CertInv, CertShape, C!Row, CertRows, C!FilesAreNotBehind
<1> QED BY <1>1, CertificatesKept, PTL DEF C!Spec

\* In every reachable state the row, the files and what runs know of them are of
\* generations there are: TypeOK of Certificates.  (run, writeCertFiles, runRenewals)
THEOREM CertificateTyped ==
  ASSUME MaxGens \in Nat, MaxCalls \in Nat, MaxMishaps \in Nat
  PROVE  C!Spec => []C!TypeOK
<1> DEFINE Rest == /\ inflight \in BOOLEAN /\ remover \in {"idle", "delete", "deleted", "revoke"}
                   /\ calls \in 0..MaxCalls /\ mishaps \in 0..MaxMishaps
           I == CertInv /\ CertListed
           Moves == /\ inflight' \in {inflight, TRUE, FALSE}
                    /\ remover' \in {remover, "idle", "delete", "deleted", "revoke"}
                    /\ calls' = calls \/ (calls < MaxCalls /\ calls' = calls + 1)
                    /\ mishaps' = mishaps \/ (mishaps < MaxMishaps /\ mishaps' = mishaps + 1)
<1>1. ASSUME C!Init PROVE Rest
  <2>1. inflight \in BOOLEAN /\ remover = "idle" /\ calls = 0 /\ mishaps = 0
    BY <1>1 DEF C!Init
  <2>2. 0 \in 0..MaxCalls /\ 0 \in 0..MaxMishaps
    OBVIOUS
  <2> QED BY <2>1, <2>2
<1>2. ASSUME Rest, [C!Next]_C!vars PROVE Rest'
  <2>1. CASE C!Run \/ C!Panic
    <3>1. Moves
      BY <2>1 DEF C!Run, C!Panic, C!Load, C!Obtain, C!Unobtained, C!WriteKey, C!WriteChain, C!Unwritten, C!Store,
         C!Fail, C!End, C!Goes, C!Finish, C!Fault
    <3> QED BY <1>2, <3>1, CounterStays
  <2>2. CASE C!Scheduler
    <3>1. Moves
      BY <2>2 DEF C!Scheduler, C!List, C!Sweep, C!Check, C!Renewal, C!Launch, C!Launched
    <3> QED BY <1>2, <3>1, CounterStays
  <2>3. CASE C!Admin
    <3>1. Moves
      BY <2>3 DEF C!Admin, C!Order, C!EditRead, C!EditSave, C!DeleteAsked, C!Delete, C!RemoveFiles, C!RevokeAsked,
         C!Revoked, C!Launch, C!Launched, C!Call
    <3> QED BY <1>2, <3>1, CounterStays
  <2>4. CASE C!Crash \/ (\E g \in C!Gens : C!Ages(g)) \/ UNCHANGED C!vars
    <3>1. Moves
      BY <2>4 DEF C!Crash, C!Ages, C!vars, C!Fault
    <3> QED BY <1>2, <3>1, CounterStays
  <2> QED BY <1>2, <2>1, <2>2, <2>3, <2>4 DEF C!Next
<1>3. I /\ Rest => C!TypeOK
  BY DEF CertInv, CertShape, CertListed, C!TypeOK
<1>4. (C!Init => I) /\ (I /\ [C!Next]_C!vars => I')
  BY CertificatesKept
<1> HIDE DEF Rest, I
<1> QED BY <1>1, <1>2, <1>3, <1>4, PTL DEF C!Spec

-----------------------------------------------------------------------------
(* Discovery: the record that reconcile holds is one while it works on it, *)
(* and what it makes of a container is a record and a table of hosts.      *)

Thing == [state : {"stopped", "running"}, dom : D!Domains, addr : Addrs]

Event == [what : {"start", "destroy", "rename"}, name : Names, new : Names]

HostRow == D!Host \cup {D!Unused, D!Deleted}

Kept == [r : D!Record, h : [D!Ids -> HostRow]]

DockerSide ==
    /\ containers \in [Names -> D!Container] /\ listed \in [Names -> D!Container]
    /\ events \in Seq(Event)
    /\ removals \in [Names -> {None, "waiting", "due"}]

HostSide ==
    /\ session \in {"down", "refresh", "listed", "sync", "process", "watch"}
    /\ initial \in BOOLEAN
    /\ record \in D!Record \cup {None}
    /\ session = "sync" => record \in D!Record
    /\ hosts \in [D!Ids -> HostRow]
    /\ managed \in D!Record /\ unseen \in SUBSET Names
    /\ hostEdit \in {None} \cup [id : D!Ids, host : D!Host]

DiscoveryInv == DockerSide /\ HostSide /\ moves \in 0..MaxMoves /\ errors \in 0..MaxErrors

\* A container that is there has a label and an address.
LEMMA ThereIsAThing ==
  ASSUME NEW c \in D!Container
  PROVE  /\ c # D!Absent => c \in Thing
         /\ c.state = "running" => c # D!Absent
BY DEF D!Container, D!Absent, Thing

\* linkPending makes a record of a record, and hosts of hosts.
LEMMA LinkedIsKept ==
  ASSUME NEW st \in Kept, NEW n \in Names, NEW c \in Thing
  PROVE  D!Linked(st, n, c) \in Kept
<1> DEFINE r == [i \in D!Ids |-> IF ~D!Waits(st.r[i], n) THEN st.r[i]
                          ELSE IF D!Served(st.h, i) THEN [st.r[i] EXCEPT !.link = FALSE] ELSE None]
           h == [i \in D!Ids |-> IF D!Waits(st.r[i], n) /\ D!Served(st.h, i) /\ ~st.h[i].on /\ st.h[i].addr = n
                          THEN [st.h[i] EXCEPT !.addr = c.addr, !.on = TRUE] ELSE st.h[i]]
<1>1. st.r \in D!Record /\ st.h \in [D!Ids -> HostRow]
  BY DEF Kept
<1>2. r \in D!Record
  <2>1. ASSUME NEW i \in D!Ids PROVE r[i] \in D!Entry \cup {None}
    <3>1. st.r[i] \in D!Entry \cup {None}
      BY <1>1 DEF D!Record
    <3>2. D!Waits(st.r[i], n) => [st.r[i] EXCEPT !.link = FALSE] \in D!Entry
      BY <3>1 DEF D!Waits, D!Entry
    <3> QED BY <3>1, <3>2
  <2> HIDE DEF r
  <2>2. r = [i \in D!Ids |-> r[i]]
    BY DEF r
  <2> QED BY <2>1, <2>2 DEF D!Record
<1>3. h \in [D!Ids -> HostRow]
  <2>1. ASSUME NEW i \in D!Ids PROVE h[i] \in HostRow
    <3>1. st.h[i] \in HostRow
      BY <1>1
    <3>2. D!Served(st.h, i) => [st.h[i] EXCEPT !.addr = c.addr, !.on = TRUE] \in D!Host
      BY <3>1 DEF D!Served, HostRow, D!Host, Thing
    <3> QED BY <3>1, <3>2 DEF HostRow
  <2> HIDE DEF h
  <2>2. h = [i \in D!Ids |-> h[i]]
    BY DEF h
  <2> QED BY <2>1, <2>2
<1>4. D!Linked(st, n, c) = [r |-> r, h |-> h]
  BY DEF D!Linked
<1> HIDE DEF r, h
<1> QED BY <1>2, <1>3, <1>4 DEF Kept

\* syncUpstreams makes hosts of hosts.
LEMMA SyncedIsKept ==
  ASSUME NEW st \in Kept, NEW n \in Names, NEW c \in Thing
  PROVE  D!Synced(st, n, c) \in Kept
<1> DEFINE h == [i \in D!Ids |->
        IF st.r[i] # None /\ st.r[i].name = n /\ ~st.r[i].link /\ st.r[i].sync /\ D!Served(st.h, i)
        THEN [st.h[i] EXCEPT !.addr = c.addr] ELSE st.h[i]]
<1>1. st.r \in D!Record /\ st.h \in [D!Ids -> HostRow]
  BY DEF Kept
<1>2. h \in [D!Ids -> HostRow]
  <2>1. ASSUME NEW i \in D!Ids PROVE h[i] \in HostRow
    <3>1. st.h[i] \in HostRow
      BY <1>1
    <3>2. D!Served(st.h, i) => [st.h[i] EXCEPT !.addr = c.addr] \in D!Host
      BY <3>1 DEF D!Served, HostRow, D!Host, Thing
    <3> QED BY <3>1, <3>2 DEF HostRow
  <2> HIDE DEF h
  <2>2. h = [i \in D!Ids |-> h[i]]
    BY DEF h
  <2> QED BY <2>1, <2>2
<1>3. D!Synced(st, n, c) = [st EXCEPT !.h = h]
  BY DEF D!Synced
<1> HIDE DEF h
<1> QED BY <1>1, <1>2, <1>3 DEF Kept

\* What ensureHost creates is an entry and a host.
LEMMA CreatedIsKept ==
  ASSUME NEW st \in Kept, NEW n \in Names, NEW c \in Thing
  PROVE  D!Created(st, n, c) \in Kept
<1> DEFINE e == [name |-> n, auto |-> TRUE, sync |-> TRUE, link |-> FALSE, dom |-> c.dom]
           made == [dom |-> c.dom, addr |-> c.addr, on |-> TRUE]
<1>1. e \in D!Entry /\ made \in HostRow
  BY DEF D!Entry, HostRow, D!Host, Thing
<1> HIDE DEF e, made
<1>2. st.r \in [D!Ids -> D!Entry \cup {None}] /\ st.h \in [D!Ids -> HostRow]
  BY DEF Kept, D!Record
<1>3. \A i : [st.r EXCEPT ![i] = e] \in [D!Ids -> D!Entry \cup {None}] /\ [st.h EXCEPT ![i] = made] \in [D!Ids -> HostRow]
  BY <1>1, <1>2
<1>4. D!Created(st, n, c) = st
        \/ D!Created(st, n, c) = [r |-> [st.r EXCEPT ![D!New(st.h)] = e], h |-> [st.h EXCEPT ![D!New(st.h)] = made]]
  BY DEF D!Created, e, made
<1> QED BY <1>3, <1>4 DEF Kept, D!Record

\* What ensureHost does for a container is one of these.
LEMMA EnsuredIsKept ==
  ASSUME NEW st \in Kept, NEW n \in Names, NEW c \in Thing, NEW end \in D!Ensures(st, n, c)
  PROVE  end \in Kept
<1>1. st.r \in [D!Ids -> D!Entry \cup {None}] /\ st.h \in [D!Ids -> HostRow]
  BY DEF Kept, D!Record
<1>2. ASSUME NEW i \in D!Ids, st.r[i] # None PROVE D!Ensured(st, n, c, i) \in Kept
  <2>1. [st EXCEPT !.r[i] = None] \in Kept
    BY <1>1 DEF Kept, D!Record
  <2>2. D!Created([st EXCEPT !.r[i] = None], n, c) \in Kept
    BY <2>1, CreatedIsKept
  <2>3. ASSUME D!Served(st.h, i)
        PROVE  [r |-> [st.r EXCEPT ![i].dom = c.dom],
                h |-> [st.h EXCEPT ![i].dom = c.dom, ![i].addr = c.addr]] \in Kept
    <3>1. st.r[i] \in D!Entry /\ st.h[i] \in D!Host
      BY <1>1, <1>2, <2>3 DEF D!Served, HostRow
    <3>2. [st.r[i] EXCEPT !.dom = c.dom] \in D!Entry
      BY <3>1 DEF D!Entry, Thing
    <3>3. [[st.h[i] EXCEPT !.dom = c.dom] EXCEPT !.addr = c.addr] \in HostRow
      BY <3>1 DEF D!Host, Thing, HostRow
    <3>4. [st.r EXCEPT ![i].dom = c.dom] = [st.r EXCEPT ![i] = [st.r[i] EXCEPT !.dom = c.dom]]
      BY <1>1
    <3>5. [st.h EXCEPT ![i].dom = c.dom, ![i].addr = c.addr]
            = [st.h EXCEPT ![i] = [[st.h[i] EXCEPT !.dom = c.dom] EXCEPT !.addr = c.addr]]
      BY <1>1
    <3>6. [st.r EXCEPT ![i].dom = c.dom] \in D!Record
      BY <1>1, <3>2, <3>4 DEF D!Record
    <3>7. [st.h EXCEPT ![i].dom = c.dom, ![i].addr = c.addr] \in [D!Ids -> HostRow]
      BY <1>1, <3>3, <3>5
    <3> QED BY <3>6, <3>7 DEF Kept
  <2> QED BY <2>2, <2>3 DEF D!Ensured
<1>3. D!Created(st, n, c) \in Kept
  BY CreatedIsKept
<1> QED BY <1>2, <1>3 DEF D!Ensures

\* Events are taken from the front, one after another.
LEMMA EventsAre ==
  ASSUME NEW E, NEW s \in Seq(E)
  PROVE  /\ \A i \in DOMAIN s : s[i] \in E
         /\ s # <<>> => Head(s) \in E /\ Tail(s) \in Seq(E)
OBVIOUS

\* What containers do, what admins do with hosts, and faults
LEMMA DockerMoves ==
  ASSUME DiscoveryInv,
         NEW n \in Names, D!Start(n) \/ D!Die(n) \/ D!Destroy(n) \/ (\E new \in Names : D!Rename(n, new))
  PROVE  DockerSide' /\ UNCHANGED <<session, initial, listed, record, hosts, managed, removals, unseen, hostEdit>>
<1> USE DEF DiscoveryInv, DockerSide
<1>1. containers[n] \in D!Container /\ (D!There(n) => containers[n] \in Thing) /\ (D!Runs(n) => containers[n] \in Thing)
  BY ThereIsAThing DEF D!There, D!Runs
<1>2. ASSUME NEW what \in {"start", "destroy", "rename"}, NEW new \in Names, D!Heard(what, n, new)
      PROVE  events' \in Seq(Event)
  <2>1. [what |-> what, name |-> n, new |-> new] \in Event
    BY DEF Event
  <2>2. events' = events \/ events' = Append(events, [what |-> what, name |-> n, new |-> new])
    BY <1>2 DEF D!Heard
  <2> QED BY <2>1, <2>2
<1>3. ASSUME NEW c \in D!Container PROVE [containers EXCEPT ![n] = c] \in [Names -> D!Container]
  BY <1>3
<1>4. D!Absent \in D!Container /\ Thing \subseteq D!Container
  BY DEF D!Container, Thing
<1>5. CASE D!Start(n)
  <2>1. PICK d \in Labels[n], a \in Addrs :
            containers' = [containers EXCEPT ![n] = [state |-> "running", dom |-> d, addr |-> a]]
    BY <1>5 DEF D!Start
  <2>2. [state |-> "running", dom |-> d, addr |-> a] \in D!Container
    BY <1>4 DEF Thing, D!Domains
  <2>3. containers' \in [Names -> D!Container]
    BY <1>3, <2>1, <2>2
  <2>4. D!Heard("start", n, n) /\ UNCHANGED <<session, initial, listed, record, hosts, managed, removals, unseen, hostEdit>>
    BY <1>5 DEF D!Start
  <2> QED BY <1>2, <2>3, <2>4
<1>6. CASE D!Die(n)
  <2>1. /\ D!Runs(n) /\ containers' = [containers EXCEPT ![n].state = "stopped"]
        /\ UNCHANGED <<events, session, initial, listed, record, hosts, managed, removals, unseen, hostEdit>>
    BY <1>6 DEF D!Die
  <2>2. [containers[n] EXCEPT !.state = "stopped"] \in Thing
    BY <1>1, <2>1 DEF Thing
  <2>3. containers' = [containers EXCEPT ![n] = [containers[n] EXCEPT !.state = "stopped"]]
    BY <2>1
  <2>4. containers' \in [Names -> D!Container]
    BY <1>3, <1>4, <2>2, <2>3
  <2> QED BY <2>1, <2>4
<1>7. CASE D!Destroy(n)
  <2>1. /\ containers' = [containers EXCEPT ![n] = D!Absent] /\ D!Heard("destroy", n, n)
        /\ UNCHANGED <<session, initial, listed, record, hosts, managed, removals, unseen, hostEdit>>
    BY <1>7 DEF D!Destroy
  <2> QED BY <1>2, <1>3, <1>4, <2>1
<1>8. ASSUME NEW new \in Names, D!Rename(n, new)
      PROVE  DockerSide' /\ UNCHANGED <<session, initial, listed, record, hosts, managed, removals, unseen, hostEdit>>
  <2>1. /\ containers' = [containers EXCEPT ![n] = D!Absent, ![new] = containers[n]] /\ D!Heard("rename", n, new)
        /\ UNCHANGED <<session, initial, listed, record, hosts, managed, removals, unseen, hostEdit>>
    BY <1>8 DEF D!Rename
  <2>2. containers' \in [Names -> D!Container]
    BY <1>1, <1>4, <2>1
  <2> QED BY <1>2, <2>1, <2>2
<1> QED BY <1>5, <1>6, <1>7, <1>8

\* What the session does, but for the hosts and the record
LEMMA SessionMoves ==
  ASSUME DiscoveryInv,
         D!Connect \/ D!Refresh \/ D!RefreshFails \/ D!Reconcile \/ D!Reconciled \/ D!Processed \/ D!Resync \/ D!Handle
  PROVE  DockerSide' /\ HostSide'
<1> USE DEF DiscoveryInv, DockerSide, HostSide
<1>1. CASE D!Connect \/ D!RefreshFails \/ D!Processed \/ D!Resync \/ D!Reconcile
  <2>1. <<>> \in Seq(Event)
    OBVIOUS
  <2> QED BY <1>1, <2>1 DEF D!Connect, D!RefreshFails, D!Processed, D!Resync, D!Reconcile
<1>2. CASE D!Refresh
  <2>1. listed' \in [Names -> D!Container]
    BY <1>2 DEF D!Refresh, D!Container
  <2> QED BY <1>2, <2>1 DEF D!Refresh
<1>3. CASE D!Reconciled
  <2>1. managed' \in D!Record /\ unseen' \in SUBSET Names
    BY <1>3 DEF D!Reconciled
  <2>2. removals' \in [Names -> {None, "waiting", "due"}]
    BY <1>3 DEF D!Reconciled
  <2> QED BY <1>3, <2>1, <2>2 DEF D!Reconciled
<1>4. CASE D!Handle
  <2> DEFINE e == Head(events)
  <2>1. e \in Event
        /\ events' \in Seq(Event)
    BY <1>4, EventsAre DEF D!Handle
  <2>2. UNCHANGED <<containers, session, initial, listed, record, hosts, unseen, hostEdit>>
    BY <1>4 DEF D!Handle
  <2>3. removals' \in {[removals EXCEPT ![e.name] = "waiting"], [removals EXCEPT ![e.name] = None], removals}
        /\ managed' \in {managed, D!Renamed(managed, e)}
    BY <1>4, <2>1 DEF D!Handle, Event
  <2> HIDE DEF e
  <2>4. removals' \in [Names -> {None, "waiting", "due"}]
    BY <2>1, <2>3 DEF Event
  <2>5. D!Renamed(managed, e) \in D!Record
    <3>1. ASSUME NEW i \in D!Ids, managed[i] # None PROVE [managed[i] EXCEPT !.name = e.new] \in D!Entry
      BY <2>1, <3>1 DEF D!Record, D!Entry, Event
    <3> QED BY <3>1 DEF D!Renamed, D!Record
  <2> QED BY <2>1, <2>2, <2>3, <2>4, <2>5
<1> QED BY <1>1, <1>2, <1>3, <1>4

\* Hosts and the record change for a container, as what was made for it goes,
\* and as admins ask.
LEMMA HostsChange ==
  ASSUME DiscoveryInv,
         \/ \E n \in Names : D!Ensure(n) \/ D!Removal(n) \/ D!RemovalFails(n) \/ D!GraceEnds(n) \/ D!CreateHost(n)
         \/ \E i \in D!Ids : D!DeleteHost(i) \/ D!Edit(i)
         \/ D!Save \/ D!Lose \/ D!Crash
  PROVE  DockerSide' /\ HostSide'
<1> USE DEF DiscoveryInv, DockerSide, HostSide
<1>1. ASSUME NEW n \in Names, D!Ensure(n) PROVE DockerSide' /\ HostSide'
  <2>1. listed[n] \in Thing /\ record \in D!Record
    BY <1>1, ThereIsAThing DEF D!Ensure
  <2>2. PICK st \in D!Ensures(D!Linked([r |-> record, h |-> hosts], n, listed[n]), n, listed[n]) :
           record' = D!Synced(st, n, listed[n]).r /\ hosts' = D!Synced(st, n, listed[n]).h
    BY <1>1 DEF D!Ensure
  <2>3. [r |-> record, h |-> hosts] \in Kept
    BY <2>1 DEF Kept
  <2>4. D!Synced(st, n, listed[n]) \in Kept
    BY <2>1, <2>2, <2>3, LinkedIsKept, EnsuredIsKept, SyncedIsKept
  <2>5. record' \in D!Record /\ hosts' \in [D!Ids -> HostRow]
    BY <2>2, <2>4 DEF Kept
  <2>6. listed' \in [Names -> D!Container]
        /\ UNCHANGED <<containers, events, session, initial, managed, removals, unseen, hostEdit>>
    BY <1>1 DEF D!Ensure, D!Container
  <2> QED BY <2>5, <2>6
<1>2. ASSUME NEW n \in Names, D!Removal(n) PROVE DockerSide' /\ HostSide'
  <2>1. PICK gone : /\ managed' = [i \in D!Ids |-> IF i \in gone THEN None ELSE managed[i]]
                    /\ hosts' = [i \in D!Ids |-> IF i \in gone THEN D!Deleted ELSE hosts[i]]
    BY <1>2 DEF D!Removal
  <2>2. managed' \in D!Record
    BY <2>1 DEF D!Record
  <2>3. hosts' \in [D!Ids -> HostRow]
    BY <2>1 DEF HostRow
  <2>4. removals' \in [Names -> {None, "waiting", "due"}]
        /\ UNCHANGED <<containers, events, session, initial, listed, record, unseen, hostEdit>>
    BY <1>2 DEF D!Removal
  <2> QED BY <2>2, <2>3, <2>4
<1>3. ASSUME NEW n \in Names, D!GraceEnds(n) \/ D!RemovalFails(n) PROVE DockerSide' /\ HostSide'
  BY <1>3 DEF D!GraceEnds, D!RemovalFails
<1>4. ASSUME NEW n \in Names, D!CreateHost(n) PROVE DockerSide' /\ HostSide'
  <2>1. PICK d \in D!Domains, sync \in BOOLEAN :
           /\ hosts' = [hosts EXCEPT ![D!New(hosts)] =
                 [dom |-> d, addr |-> IF ~D!Runs(n) THEN n ELSE containers[n].addr, on |-> ~(~D!Runs(n))]]
           /\ managed' = [managed EXCEPT ![D!New(hosts)] =
                 [name |-> n, auto |-> FALSE, sync |-> sync, link |-> ~D!Runs(n), dom |-> d]]
    BY <1>4 DEF D!CreateHost
  <2>2. D!Runs(n) \in BOOLEAN
    BY DEF D!Runs
  <2>3. containers[n] \in Thing
    BY <1>4, ThereIsAThing DEF D!CreateHost, D!There
  <2>4. [dom |-> d, addr |-> IF ~D!Runs(n) THEN n ELSE containers[n].addr, on |-> ~(~D!Runs(n))] \in HostRow
    BY <2>2, <2>3 DEF Thing, HostRow, D!Host
  <2>5. [name |-> n, auto |-> FALSE, sync |-> sync, link |-> ~D!Runs(n), dom |-> d] \in D!Entry
    BY <2>2 DEF D!Entry
  <2>6. hosts' \in [D!Ids -> HostRow]
    BY <2>1, <2>4
  <2>7. managed' \in D!Record
    BY <2>1, <2>5 DEF D!Record
  <2> QED BY <1>4, <2>6, <2>7 DEF D!CreateHost
<1>5. ASSUME NEW i \in D!Ids, D!DeleteHost(i) PROVE DockerSide' /\ HostSide'
  <2>1. hosts' \in [D!Ids -> HostRow]
    BY <1>5 DEF D!DeleteHost, HostRow
  <2> QED BY <1>5, <2>1 DEF D!DeleteHost
<1>6. ASSUME NEW i \in D!Ids, D!Edit(i) PROVE DockerSide' /\ HostSide'
  <2>1. hosts[i] \in D!Host
    BY <1>6 DEF D!Edit, D!Served, HostRow
  <2> QED BY <1>6, <2>1 DEF D!Edit
<1>7. CASE D!Save
  <2>1. hostEdit \in [id : D!Ids, host : D!Host]
    BY <1>7 DEF D!Save
  <2>2. PICK on \in BOOLEAN :
          hosts' = IF D!Served(hosts, hostEdit.id) THEN [hosts EXCEPT ![hostEdit.id] = [hostEdit.host EXCEPT !.on = on]]
                   ELSE hosts
    BY <1>7 DEF D!Save
  <2>3. [hostEdit.host EXCEPT !.on = on] \in HostRow
    BY <2>1 DEF HostRow, D!Host
  <2>4. hosts' \in [D!Ids -> HostRow]
    BY <2>1, <2>2, <2>3
  <2> QED BY <1>7, <2>4 DEF D!Save
<1>8. CASE D!Lose \/ D!Crash
  <2>1. D!Nobody \in [Names -> D!Container]
    BY DEF D!Nobody, D!Container
  <2>2. <<>> \in Seq(Event)
    OBVIOUS
  <2>3. /\ UNCHANGED <<containers, hosts, managed>> /\ session' = "down" /\ events' = <<>>
        /\ initial' = FALSE /\ unseen' = {}
    BY <1>8 DEF D!Lose, D!Crash
  <2>4. /\ listed' \in {listed, D!Nobody} /\ record' \in {record, None} /\ hostEdit' \in {hostEdit, None}
        /\ removals' \in [Names -> {None, "waiting", "due"}]
    BY <1>8 DEF D!Lose, D!Crash
  <2> QED BY <2>1, <2>2, <2>3, <2>4
<1> QED BY <1>1, <1>2, <1>3, <1>4, <1>5, <1>6, <1>7, <1>8

\* At most so much happens, and so many calls fail, as a run bounds.
LEMMA MovesStay ==
  ASSUME MaxMoves \in Nat, MaxErrors \in Nat, moves \in 0..MaxMoves, errors \in 0..MaxErrors, [D!Next]_D!vars
  PROVE  moves' \in 0..MaxMoves /\ errors' \in 0..MaxErrors
<1>1. /\ moves' = moves \/ (moves < MaxMoves /\ moves' = moves + 1)
      /\ errors' = errors \/ (errors < MaxErrors /\ errors' = errors + 1)
  <2>1. CASE D!Docker
    BY <2>1 DEF D!Docker, D!Moved, D!Start, D!Die, D!Destroy, D!Rename
  <2>2. CASE D!Session \/ D!Timely \/ UNCHANGED D!vars
    BY <2>2 DEF D!Session, D!Timely, D!vars, D!Connect, D!Refresh, D!Reconcile, D!Ensure, D!Reconciled, D!Processed,
       D!Resync, D!Handle, D!Removal, D!GraceEnds, D!Erred
  <2>3. CASE D!Admin \/ D!Lose \/ D!Crash
    BY <2>3 DEF D!Admin, D!Moved, D!CreateHost, D!DeleteHost, D!Edit, D!Save, D!Lose, D!Crash
  <2>4. CASE D!Errors
    BY <2>4 DEF D!Errors, D!Erred, D!RefreshFails, D!RemovalFails
  <2> QED BY <2>1, <2>2, <2>3, <2>4 DEF D!Next
<1> QED BY <1>1, CounterStays

\* Hosts, the record, containers and events are what sync.go takes them for: in
\* particular reconcile has a record for as long as it works on one, although
\* admins, timers and crashes come between.
THEOREM DiscoveryTyped ==
  ASSUME MaxMoves \in Nat, MaxErrors \in Nat
  PROVE  D!Spec => []D!TypeOK
<1>1. ASSUME D!Init PROVE DiscoveryInv
  <2>1. D!Nobody \in [Names -> D!Container] /\ \A n \in Names, c \in D!Container :
            [D!Nobody EXCEPT ![n] = c] \in [Names -> D!Container]
    BY DEF D!Nobody, D!Container
  <2>2. containers \in [Names -> D!Container] /\ listed \in [Names -> D!Container]
    BY <1>1, <2>1 DEF D!Init
  <2>3. <<>> \in Seq(Event)
    OBVIOUS
  <2>4. DockerSide
    BY <1>1, <2>2, <2>3 DEF D!Init, DockerSide
  <2>5. HostSide
    BY <1>1 DEF D!Init, HostSide, HostRow, D!Record
  <2>6. moves \in 0..MaxMoves /\ errors \in 0..MaxErrors
    BY <1>1 DEF D!Init
  <2> QED BY <2>4, <2>5, <2>6 DEF DiscoveryInv
<1>2. ASSUME DiscoveryInv, [D!Next]_D!vars PROVE DiscoveryInv'
  <2>1. moves' \in 0..MaxMoves /\ errors' \in 0..MaxErrors
    BY <1>2, MovesStay DEF DiscoveryInv
  <2>2. CASE D!Docker
    <3>1. DockerSide' /\ UNCHANGED <<session, initial, listed, record, hosts, managed, removals, unseen, hostEdit>>
      BY <1>2, <2>2, DockerMoves DEF D!Docker
    <3> QED BY <1>2, <2>1, <3>1 DEF DiscoveryInv, HostSide
  <2>3. CASE UNCHANGED D!vars
    BY <1>2, <2>3 DEF D!vars, DiscoveryInv, DockerSide, HostSide
  <2>4. CASE D!Session \/ D!Timely \/ D!Admin \/ D!Errors \/ D!Lose \/ D!Crash
    <3>1. DockerSide' /\ HostSide'
      BY <1>2, <2>4, SessionMoves, HostsChange DEF D!Session, D!Timely, D!Admin, D!Errors
    <3> QED BY <2>1, <3>1 DEF DiscoveryInv
  <2> QED BY <1>2, <2>2, <2>3, <2>4 DEF D!Next
<1>3. DiscoveryInv => D!TypeOK
  <2> SUFFICES ASSUME DiscoveryInv PROVE D!TypeOK
    OBVIOUS
  <2>1. \A i \in DOMAIN events : events[i] \in Event
    BY EventsAre DEF DiscoveryInv, DockerSide
  <2> QED BY <2>1 DEF D!TypeOK, DiscoveryInv, DockerSide, HostSide, HostRow, Event
<1> QED BY <1>1, <1>2, <1>3, PTL DEF D!Spec

=============================================================================
