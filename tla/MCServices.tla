----------------------------- MODULE MCServices -----------------------------
(***************************************************************************)
(* The parts of Relay that share no state, each on an instance of its own: *)
(* in a behaviour one of them moves, and the others rest as they begin.    *)
(***************************************************************************)
EXTENDS Naturals

CONSTANTS
    Parts,   \* the parts a run is about
    Depth,      \* bound: of Certificates and Alerts
    Judges,     \* who decide approvals
    None, one, two, three, left, right

VARIABLES
    focus,
    draft, versions, ag, running, stopped, apply, recon, crash,
    store, proc, want, timer, op, answer,
    box, upgrade, saved, pinned, up, rec, begun, crashes,
    relay, image, update, task, helper, together, kills,
    row, file, engine, since, writer, unwritten, unread, rowEdit, starter, polled, news, att, gw, tokens, deeds,
    rows, client, decider, usable, perm, faults,
    srv, checker, flight, reload, changing, status, overtaken, table, picker, commands,
    lis, conn, limiter, reloads, stopping,
    cert, inflight, order, sched, editor, remover, files, age, calls, mishaps,
    containers, events, session, initial, listed, record, hosts, managed, removals, unseen, hostEdit, errors, moves,
    host, bus, kick, loop, check, health, told, intake, recent, queue, worker, held, quiet, changes, glitches

pipelineVars == <<draft, versions, ag, running, stopped, apply, recon, crash>>
agentVars    == <<store, proc, want, timer, op, answer>>
upgradeVars  == <<box, upgrade, saved, pinned, up, rec, begun, crashes>>
updateVars   == <<relay, image, update, task, helper, together, kills>>
pairingVars  == <<row, file, engine, since, writer, unwritten, unread, rowEdit, starter, polled, news, att, gw, tokens, deeds>>
approvalVars == <<rows, client, decider, usable, perm, faults>>
balancerVars == <<srv, checker, flight, reload, changing, status, overtaken, table, picker, commands>>
listenerVars == <<lis, conn, limiter, reloads, stopping>>
certVars     == <<cert, inflight, order, sched, editor, remover, files, age, calls, mishaps>>
dockerVars   == <<containers, events, session, initial, listed, record, hosts, managed, removals, unseen, hostEdit, errors, moves>>
alertVars    == <<host, bus, kick, loop, check, health, told, intake, recent, queue, worker, held, quiet, changes, glitches>>

-----------------------------------------------------------------------------
(* The instances                                                           *)

Reloads == { [pe |-> "nginx", ph |-> h, le |-> "haproxy", lh |-> h, run |-> TRUE, th |-> one, tun |-> FALSE] :
               h \in {one, two} }

L == INSTANCE Pipeline WITH Hash <- {one, two, three}, Boot <- left, Keep <- 10, MaxHistory <- 50,
        Snapshots <- Reloads, MaxVersions <- 2, MaxFaults <- 1, Faults <- {"exit", "restart", "crash"},
        Docker <- FALSE, Managed <- {"haproxy"},
        rows <- versions, up <- running, job <- apply, rec <- recon, faults <- crash

G == INSTANCE Agent WITH Hash <- {one, two, three}, Boot <- left, Keep <- 1, MaxHistory <- 3,
        AlwaysOn <- FALSE, IOErrors <- FALSE, ExecFails <- FALSE, OldRejected <- FALSE,
        Kills <- FALSE, Selected <- TRUE

U == INSTANCE Upgrade WITH Images <- {one, two}, Overlap <- FALSE,
        MaxUpgrades <- 3, MaxCrashes <- 2, job <- upgrade

S == INSTANCE SelfUpdate WITH Commits <- {one, two},
        MaxUpdates <- 2, MaxFaults <- Depth, job <- update, faults <- kills

P == INSTANCE Pairing WITH Addresses <- {one, two}, Attempts <- {left, right},
        MaxTokens <- 2, MaxMoves <- 4,
        editor <- rowEdit, moves <- deeds

A == INSTANCE Approvals WITH Clients <- {left}, Deciders <- Judges,
        MaxApprovals <- 2, MaxFaults <- 1

Plain == [admin |-> "ready", weight |-> 1, check |-> FALSE, rise |-> 1, fall |-> 1, passes |-> TRUE]

\* a server checked and well beside one without traffic; and the first one
\* failing at once beside one in maintenance
Backends ==
    { [s \in {one, two} |-> IF s = one THEN [Plain EXCEPT !.check = TRUE, !.rise = 2, !.fall = 2]
                                 ELSE [Plain EXCEPT !.weight = 0]],
      [s \in {one, two} |-> IF s = one THEN [Plain EXCEPT !.check = TRUE, !.passes = FALSE]
                                 ELSE [Plain EXCEPT !.admin = "maint", !.check = TRUE]] }

B == INSTANCE Balancer WITH Servers <- {one, two}, Configs <- Backends, Changers <- {left, right},
        MaxReloads <- 1, MaxCommands <- 1

\* a website; with more time for its clients; and a TCP service for it
Binds == { [keys |-> {[mode |-> "http", addr |-> 1]}, timeout |-> 1, max |-> 2],
           [keys |-> {[mode |-> "http", addr |-> 1]}, timeout |-> 2, max |-> 2],
           [keys |-> {[mode |-> "tcp", addr |-> 2]}, timeout |-> 1, max |-> 1] }

N == INSTANCE Listeners WITH Ids <- {one, two}, Conns <- {left, right}, Configs <- Binds, MaxReloads <- 2

C == INSTANCE Certificates WITH MaxGens <- Depth, MaxCalls <- 1, MaxFaults <- 1, faults <- mishaps

D == INSTANCE Discovery WITH Names <- {left, right}, Labels <- [n \in {left, right} |-> IF n = left THEN {one, two} ELSE {one}],
        Addrs <- {one, two}, MaxHosts <- 2, MaxErrors <- 1, MaxMoves <- 2,
        list <- listed, m <- record, editor <- hostEdit

H == INSTANCE Alerts WITH Targets <- {one}, Workers <- {left}, Room <- 1, MaxChanges <- Depth + 1, MaxFaults <- 1

-----------------------------------------------------------------------------

Init ==
    /\ focus \in Parts
    /\ L!Init /\ G!Init /\ U!Init /\ S!Init /\ P!Init /\ A!Init /\ B!Init /\ N!Init /\ C!Init /\ D!Init
    /\ H!Init
    /\ focus # "pipeline" => draft.ph = one
    /\ focus # "upgrade" => pinned = one
    /\ image = one
    /\ row.address = one /\ (focus # "pairing" => row.paired)
    /\ focus # "balancer" => srv[two].conf.admin = "maint"
    /\ limiter.max = 2 /\ lis[one].timeout = 1
    /\ focus # "certificates" => cert.status = "failed"
    /\ containers \in [{left, right} -> {D!Absent} \cup [state : {"stopped", "running"}, dom : {one, two}, addr : {one}]]
    /\ focus # "docker" => containers = D!Nobody
    /\ focus # "alerts" => host[one].doc = "none"

Next ==
    \/ /\ focus = "pipeline" /\ L!Next
       /\ UNCHANGED <<focus, agentVars, upgradeVars, updateVars, pairingVars, approvalVars, balancerVars,
                      listenerVars, certVars, dockerVars, alertVars>>
    \/ /\ focus = "agent" /\ G!Next
       /\ UNCHANGED <<focus, pipelineVars, upgradeVars, updateVars, pairingVars, approvalVars, balancerVars,
                      listenerVars, certVars, dockerVars, alertVars>>
    \/ /\ focus = "upgrade" /\ U!Next
       /\ UNCHANGED <<focus, pipelineVars, agentVars, updateVars, pairingVars, approvalVars, balancerVars,
                      listenerVars, certVars, dockerVars, alertVars>>
    \/ /\ focus = "update" /\ S!Next
       /\ UNCHANGED <<focus, pipelineVars, agentVars, upgradeVars, pairingVars, approvalVars, balancerVars,
                      listenerVars, certVars, dockerVars, alertVars>>
    \/ /\ focus = "pairing" /\ P!Next
       /\ UNCHANGED <<focus, pipelineVars, agentVars, upgradeVars, updateVars, approvalVars, balancerVars,
                      listenerVars, certVars, dockerVars, alertVars>>
    \/ /\ focus = "approvals" /\ A!Next
       /\ UNCHANGED <<focus, pipelineVars, agentVars, upgradeVars, updateVars, pairingVars, balancerVars,
                      listenerVars, certVars, dockerVars, alertVars>>
    \/ /\ focus = "balancer" /\ B!Next
       /\ UNCHANGED <<focus, pipelineVars, agentVars, upgradeVars, updateVars, pairingVars, approvalVars,
                      listenerVars, certVars, dockerVars, alertVars>>
    \/ /\ focus = "listeners" /\ N!Next
       /\ UNCHANGED <<focus, pipelineVars, agentVars, upgradeVars, updateVars, pairingVars, approvalVars,
                      balancerVars, certVars, dockerVars, alertVars>>
    \/ /\ focus = "certificates" /\ C!Next
       /\ UNCHANGED <<focus, pipelineVars, agentVars, upgradeVars, updateVars, pairingVars, approvalVars,
                      balancerVars, listenerVars, dockerVars, alertVars>>
    \/ /\ focus = "docker" /\ D!Next
       /\ UNCHANGED <<focus, pipelineVars, agentVars, upgradeVars, updateVars, pairingVars, approvalVars,
                      balancerVars, listenerVars, certVars, alertVars>>
    \/ /\ focus = "alerts" /\ H!Next
       /\ UNCHANGED <<focus, pipelineVars, agentVars, upgradeVars, updateVars, pairingVars, approvalVars,
                      balancerVars, listenerVars, certVars, dockerVars>>

vars == <<focus, pipelineVars, agentVars, upgradeVars, updateVars, pairingVars, approvalVars,
          balancerVars, listenerVars, certVars, dockerVars, alertVars>>

Spec == Init /\ [][Next]_vars

\* As in FairSpec of each part: a part at rest owes nothing.
FairSpec ==
    /\ Spec
    /\ WF_agentVars(focus = "agent" /\ G!Work)
    /\ SF_agentVars(focus = "agent" /\ G!Retry)
    /\ WF_upgradeVars(focus = "upgrade" /\ U!RunUpgrade) /\ WF_upgradeVars(focus = "upgrade" /\ U!Restart)
    /\ WF_upgradeVars(focus = "upgrade" /\ U!Recover) /\ WF_upgradeVars(focus = "upgrade" /\ U!Reconcile)
    /\ \A u \in 1..2 :
         WF_updateVars(focus = "update" /\ S!Work(u)) /\ WF_updateVars(focus = "update" /\ S!Script(u))
    /\ WF_updateVars(focus = "update" /\ S!Restart)
    /\ WF_approvalVars(focus = "approvals" /\ A!CallStep(left) /\ UNCHANGED <<decider, usable, perm, faults>>)
    /\ \A d \in Judges :
         WF_approvalVars(focus = "approvals" /\ A!DecideStep(d) /\ UNCHANGED <<client, usable, perm>>)
    /\ \A i \in 1..2 :
         WF_approvalVars(focus = "approvals" /\ A!TimePasses(i) /\ UNCHANGED <<client, decider, usable, perm, faults>>)
    /\ WF_certVars(focus = "certificates" /\ C!Run) /\ WF_certVars(focus = "certificates" /\ C!Scheduler)
    /\ WF_dockerVars(focus = "docker" /\ D!Session) /\ SF_dockerVars(focus = "docker" /\ D!Timely)
    /\ WF_alertVars(focus = "alerts" /\ H!Loop) /\ WF_alertVars(focus = "alerts" /\ H!Sweep)
    /\ WF_alertVars(focus = "alerts" /\ H!Watch) /\ WF_alertVars(focus = "alerts" /\ H!Notify)
    /\ WF_alertVars(focus = "alerts" /\ H!Morning) /\ WF_alertVars(focus = "alerts" /\ H!Deliver(left))

-----------------------------------------------------------------------------
(* The properties, as each module states them                              *)

\* A part at rest is as it begins.
TypeOK ==
    CASE focus = "pipeline" -> L!TypeOK
      [] focus = "agent" -> G!TypeOK
      [] focus = "upgrade" -> U!TypeOK
      [] focus = "update" -> S!TypeOK
      [] focus = "pairing" -> P!TypeOK
      [] focus = "approvals" -> A!TypeOK
      [] focus = "balancer" -> B!TypeOK
      [] focus = "listeners" -> N!TypeOK
      [] focus = "certificates" -> C!TypeOK
      [] focus = "docker" -> D!TypeOK
      [] focus = "alerts" -> H!TypeOK

AdminStopHolds       == L!AdminStopHolds
RollbackUndoes       == G!RollbackUndoes
EventuallyRuns       == G!EventuallyRuns
EngineKept           == U!EngineKept
FailureKeepsOld      == U!FailureKeepsOld
EngineReturns        == U!EngineReturns
SuccessIsTrue        == S!SuccessIsTrue
UpdateEnds           == S!UpdateEnds
ListIsNotOlder       == P!ListIsNotOlder
PairedByConfirmation == P!PairedByConfirmation
AnswerIsTrue         == A!AnswerIsTrue
CallIsAnswered       == A!CallIsAnswered
ChecksAreCurrent     == B!ChecksAreCurrent
ConnectionsAreKept   == N!ConnectionsAreKept
NobodyIsCut          == N!NobodyIsCut
FilesAreNotBehind    == C!FilesAreNotBehind
PendingEnds          == C!PendingEnds
HostsFollow          == D!HostsFollow
AlertsAreTrue        == H!AlertsAreTrue
AlertsFollow         == H!AlertsFollow
=============================================================================
