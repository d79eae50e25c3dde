# Relay in TLA+

Specifications of Relay: how an edited configuration becomes the files the engines run,
how each engine is kept on them, how published hosts reach a gateway through the tunnel,
what the services beside that pipeline do over crashes and races, and what the two proxy
engines and the two load balancers answer. TLC checks them on small instances, TLAPS proves
the most important safety properties for every instance. `PROJECT.json` maps every
definition to the source lines it stands for.

Paths are relative to the repository (`src/internal/...` is `internal/...` there).

## 1. The system

Relay is one Go binary with several roles: the *relay app* (configuration, UI, API), an
*engine agent* in each engine container (nginx, edge, haproxy, balancer, tunnel), three
engines of its own (edge, balancer, tunnel) and a *gateway server* on a rented host.

| Component | State | Operations | Interacts with |
|---|---|---|---|
| release store (`agent/releases.go`) | `releases/`, `current` link, `history.json`, `stopped` marker | write, remove, swap, activate, revert, rollback, prune | agent; it is all that survives a kill |
| engine agent (`agent/server.go`, `supervisor.go`) | the engine process, `want`, the restart timer, the `op` lock | apply, apply+stop, stop only, rollback, start, stop, reload, boot, retry | answers requests of the relay app; starts, reloads and watches the engine |
| apply pipeline (`apply/service.go`) | config versions, the pipeline in progress, `applyMu` | apply, rollback to a version, discard, failure handling | agents (requests), store (snapshot, rows), Docker |
| reconcile loop (`apply/service.go`, `containers.go`) | `kvStoppedEngines`, statuses read before the lock | every 10 s: apply, stop, start; start and stop containers | agents, Docker, excluded from applies by `applyMu` |
| tunnel engine (`tunnel/`) | per gateway: settings, routes and their generation, connection loop, status | configure, dial, hello, push routes, read acks, serve streams, drain | gateway server, proxy engine (streams) |
| gateway server (`gateway/`) | newest and active session, routes, port listeners, pairing | attach, hello, apply routes, forward clients, pair | tunnel engine, clients |
| tunnel transports (`tunnel/mux`) | streams of a session, their windows and half-closes | open, copy, close a direction, reset | tunnel engine, gateway server |
| pairing (`tunnel/pair`, `gateway/tunnel.go`, `tunnels/`) | token, pinned keys, gateway rows | pair, reset, poll the status into the rows | tunnel engine, gateway server |
| engine upgrades (`engines/`) | the upgrade job, old and new container, pinned image | upgrade, undo, recover after a crash | Docker, `applyMu`, agents |
| update of Relay (`engines/relay_update.go`) | the job, the helper container, the checkout | check, start the helper, follow it, roll back | Docker, Git |
| balancer engine (`balancer/`) | server states, check results, slots, listeners | check, set state, reload, drain, route | backends, relay app (runtime socket) |
| edge engine (`edge/`) | compiled configuration, listeners, certificates and staples, rate limits, cache | reload, drain, poll, serve | backends, ACME (files) |
| renderers (`render/`) | none | snapshot to the engines' files | apply pipeline |
| MCP (`mcp/`) | approvals, tokens | request, decide, expire, execute, wait | all services |
| ACME (`acme/`) | accounts, orders, certificates and their files | issue, renew, edit, revoke, delete | CA, DNS providers, apply pipeline |
| Docker discovery (`docker/`) | hosts managed for containers, removals that are due | list, follow events, sync, remove | Docker, store |
| health and notifications (`health/`, `notify/`) | states of hosts, queues, what waits for the morning | sweep, check, announce, deliver | event bus, store |
| the rest (auth, store, logs, backup, import, API, web) | see `components` in `PROJECT.json` | | |

### What is hard, and what correct means

*Release store and agent.* A kill between two file operations; an engine that dies,
refuses a release, or loads it after the agent stopped waiting; a restart timer that
fires during a request. Correct: the current link always names a release on disk; an
answer says what is active and served; a refused apply leaves what it found; a rollback
is one step back; an engine stopped on purpose is down; one that is wanted and down comes
back; a request is atomic towards its caller.

*Apply pipeline and reconcile.* Up to five agents change one after the other; each
request may fail, be lost, or take effect without an answer; statuses are read long before
they are used; versions are edited, rolled back and discarded meanwhile; the relay app
crashes at any step; an admin stops engines. Correct: a linear history; a version goes
live only when it is active everywhere; a failure restores the live version; never two
owners of the ports; the proxy never routes to frontends that are not there; the proxy
engine's container is never stopped; an admin's stop holds; and reconcile brings the
engines back.

*Tunnel.* Connection loops that were canceled and sessions that were replaced go on for a
while next to their successors; routes, acks and the attachment of sessions come late or
out of order; either side restarts; streams arrive during a drain. Correct: what is
confirmed is served; routes only move forward; the status is that of the current loop; a
drain cuts off nothing; a stream's end is told only after its data; the current routes are
published in the end.

*Services.* Relay dies between any two calls of Docker or of the store, and what the next
Relay finds is all it knows (upgrade, update, orders, approvals, managed hosts). Rows are
read, changed and written back whole while others do the same (gateways, certificates,
hosts). Several deciders, callers and timers meet on one row. Queues drop what does not
fit. Correct: there is one container with the engine's name, and the old one after a
failure; a success is of the build it names; a call is executed once or not at all and
answered truthfully; a gateway pairs once until it is reset, and an older list of gateways never
replaces a newer one; the files are never behind the row; hosts come to fit their containers; who is recorded as down
was announced as down.

*Data planes.* Two engines are to behave alike although one is nginx or HAProxy and the
other is Relay's own code: an access rule that only one of them applies is a hole nobody
sees. A reload meets renewals, accept loops and clients that are half accepted.

`hazards` in `PROJECT.json` lists these places line by line, with the property that covers
each.

## 2. The modules

| Module | What it is |
|---|---|
| `Releases` | the release store: a record and the operators for each file operation and for whole requests |
| `Agent` | one agent, one action per file operation and per wait on the engine |
| `AgentContract` | abstract specification: a request takes effect at once, or not at all |
| `AgentCalls` | an agent as the relay app sees it: whole requests from the operators of `Releases` |
| `Pipeline` | the relay app over five agents: apply, rollback, discard, start, stop, reconcile, containers |
| `Tunnel` | one gateway entry at home, the gateway server, the sessions between them, the clients' connections |
| `Streams` | one client's connection through a session: both copies, the HTTP/2 stream, its half-closes |
| `Upgrade` | replacing an engine's container, and the recovery after a crash |
| `SelfUpdate` | Relay replacing its own container through a helper |
| `Pairing` | a gateway's row, its writers, the list the engine reads, and both sides of pairing |
| `Approvals` | MCP calls that wait for an administrator |
| `Balancer` | servers of a backend: checks, runtime API, reloads, derived status and hash table |
| `Listeners` | listeners of the balancer and their clients |
| `Certificates` | one certificate: orders, edits, the sweep, the files |
| `Discovery` | hosts for the containers of one Docker endpoint |
| `Alerts` | health checks and the notifications they lead to |
| `Edge` | Relay Edge taking configurations and certificates while it serves |
| `Serving` | what nginx and Relay Edge answer to a request under one snapshot |
| `Balancing` | what HAProxy and Relay Balancer do with a session under one snapshot |
| `ReleasesProofs`, `AgentProofs`, `PipelineProofs`, `TunnelProofs`, `EdgeProofs`, `UpgradeProofs`, `ControlProofs`, `ServicesProofs` | theorems |
| `MCAgent`, `MCEngine`, `MCPipeline`, `MCTunnel`, `MCServices` | compositions and values for TLC |

Three modules compose parts that share no state, so that one run asks about each of them:
`MCEngine` (`Agent`, `Edge`, `Serving`, `Balancing`), `MCTunnel` (`Tunnel` and one of its
`Streams`) and `MCServices` (all that is called a service above, with instances of
`Pipeline` and `Agent` for the questions they ask of small ones). In a behaviour one part,
`focus`, moves; the others rest as they begin. A product of all their states would say no
more, as no action reads or writes two parts.

### Agent

`Agent` implements `AgentContract` (property `RequestsAreAtomic`): the contract's store is
the agent's when no request is under way, and otherwise the store the request found. The
contract and `AgentCalls` are built from the same whole-request operators of `Releases`
(`Applied`, `Undone`, `RolledBack`, `Marked`); that is what lets `Pipeline` take a request
as one step.

`store` is the disk, `proc` the release the engine has loaded, `want` and `timer` the
supervisor's, `op` the request that holds `supervisor.op` with its next step (`op.pc`), and
`answer` the last answer. `Write`, `Validate`, `Swap`, `Record`, `Mark`, `Prune` and `Trim`
are the steps of `Agent.apply` up to the load; `LoadAccepted`, `LoadRejected`, `LoadLate`
(accepted after the wait ended), `LoadGone`, `Spawn` and `Settle` the engine's part;
`Unswap`, `Unrecord` and `Resume...` the undoing; `Rewind`, `Rerecord`, `Unmark` a
rollback. `EngineExits`, `Retry` and `Kill` happen between any two steps. The engines
differ in `AlwaysOn` only (nginx and edge boot on a bootstrap release and are never without
one). What validates, loads and stays up is the environment's choice; constants
(`IOErrors`, `ExecFails`, `OldRejected`, `Kills`) switch the faults on.

### Pipeline

`rows` are the versions, `job` the pipeline in progress (`job.pc` its step, `job.did` the
fields of `proxySwap`, `job.undo` what is left of `failAfterSwap`), `rec` a reconcile with
the statuses it read before it took the lock, `ag[e]` an agent, `up[e]` its container,
`stopped` the engines an admin stopped. A snapshot of the configuration is what it
renders to: an engine and a hash for each part. Every request to an agent is a step
(`Send`) answered with "ok", "refused", or "unavailable" with or without effect. Edits,
exits, restarts of containers and crashes of the relay app happen in between.

Simplifications: reconcile reads the statuses of its five agents at one instant; a release
an agent accepted once is accepted again on the way back; port conflicts between engines
that overlap are only stated (`OnePortOwner`), not acted on; a failing `PromoteVersion` is
a crash at that point; Docker itself does not fail; edits are not computed from requests
but chosen among `Snapshots`; progress events, diffs, notifications and `EngineAction`
reload (which changes no modelled state) are left out; a status error during the health
check is ignored, as in the code (`apply/service.go:1237`).

### Tunnel and Streams

`home` is the engine and its entry for the gateway (`run` numbers its processes, `gen` and
`tgen` the generations of one process), `loops` the connection loops (the current one and
canceled ones), `sess` the sessions with both ends (`hs` the conn at home, `gs` the control
goroutine), their two queues of messages, the pending kick and `sentGen`; `gw` the server's
`session`, `active`, routes and listeners; `conns` the clients. `Reload`, `Shutdown`,
`Drained`, `Exited`, `EngineStarts` are the engine's; `Dial`, `DialDone`, `DialFails` the
loop's; `GetControl`, `GetHello`, `WriteRoutes`, `GetAck`, `ConnEnds` the connection's;
`Attach`, `Establish`, `ApplyRoutes`, `GatewayEnds` the server's; `Accept`, `Open`,
`Count`, `Handle`, `Finish` follow a client's connection. `EngineDies`, `GatewayRestarts`,
`Breaks` and `DialFails` are the faults.

Simplifications: `configure` stores the routes and sets the status in one step (it holds the
gateway's lock; only the reader of `g.routes` without it could tell, and reads either
table); opening the control stream and sending the gateway's hello is part of `Attach`;
names stand for whatever needs no listener and ports for what does; a session or a loop
takes the lowest free number, so that numbers carry no history; a restarted engine has the
configuration it had. Left out: an entry leaving the gateway list, the choice of QUIC or
TCP, pings and statistics, limits and bans (the home never sends the unpair message of
`tunnel/wire/wire.go:248`).

`Streams` is one stream over TCP from the moment it is served: `copy[s]` are the two copying
goroutines of a side (`forward` in `gateway/clients.go`, `pipe` in `tunnel/conn.go`), `gate`
the gateway's HTTP/2 stream with its request body, `serve` the home's handler, `way[w]` the
frames of a direction and what can be read of it, `late` the `IdleTimeout` that passes while
the body is written. HTTP/2's order, windows and resets are external. Chunks stand for
whatever amount of data.

### The services

*Upgrade*: `box[i]` are the engine's containers with their names, `job` the upgrade with the
step its goroutine is at, `saved` the job in the store, `pinned` the image in the settings,
`rec` `recoverInterrupted`. A call of Docker whose error the code looks at may fail; one
whose error it ignores fails only when there is no such container or the name is taken.
Pulling, validating and cloning are one step (`Prepare`). With `Overlap` an upgrade may begin
in the 15 s before a recovery.

*SelfUpdate*: `relay` is the container, `task[u]` what Relay does about request `u`,
`helper[u]` the helper container and the place its script is at. What counts of the helper's
output is how it ended, and whether its end was seen. `Check` looks for a running job and `Begin` sets
the new one, with calls of Docker between and no second look, so two requests may be let in together
(`together`). Both then report to the job that was set last, and the helper of the second has the name of
that job too, in place of the first one's.

*Pairing*: `row` is read, changed and written back whole by an edit (`editor`), the start of a pairing
(`starter`), attempts (`att[a].row`) and the status poll (`polled`), each holding on to what it read while the others
write. Edits, attempts and the re-pairing of a paired gateway then rewrite the list and reload the engine
(`writer[w]`: `ReadRows`, `WriteList` under the lock, `Reload`); a failed write leaves the engine alone (`unwritten`), a failed or
skipped reload leaves it with what it had (`unread`). An attempt has both sides; the proof is good when
both have the same token. `gw.disk` is the pairing the gateway saved, which a reset removes under its feet.

*Approvals*: `rows[i]` outlive the goroutines that wait for them (`client[c]`) and decide
them (`decider[d]`); the token may be revoked and the permission changed once.

*Balancer*: `srv[s]` is a `srvState`, `checker[s]` and `flight[s]` its check goroutine and
results on their way, `changing[x]` the calls of `beState.changed`, which count, and then set
`status`; `table` the hash table with the version it was computed for. *Listeners*: `lis[l]`
is a `boundListener` with its accept loop, servers and phase, `conn[c]` a client with the
place it is at, `limiter` the global limit. A reload is one step (it holds `Server.mu`).

*Certificates*: `order` is the one goroutine of `run`, `sched` the hourly sweep with the
listing it acts on, `editor` an edit with the row it read, `files` the generations on the
disk. What the CA does is a step that succeeds or fails.

*Discovery*: `m` is the record of managed hosts while `reconcile` holds `syncMu`, `managed`
the one in the store, `events` those not read yet, `removals` the timers. A call to Docker may fail (`RefreshFails`,
`RemovalFails`, and in `Reconciled` the look for orphans); `unseen` are the containers that could not be looked for when the
connection began. *Alerts*: `check[t]`
is the check under way, `health[t]` the state and its row, `told[t]` what was announced last
(a ghost), and the queues and workers of `notify`, each of which drops what does not fit.

### Edge, Serving, Balancing

*Edge*: `load` is `Reload` with the sockets it opened so far and the certificates it made,
`poll` the background loop that looks at the files and staples, `files` the pair a renewal
replaces one after the other, `held` the addresses the kernel holds.

*Serving* and *Balancing* have no behaviour to speak of: a snapshot, a request, and what each
engine answers, computed from what the renderers write. The location search and the phases
of nginx, and HAProxy's choice of rules and servers, are external; the rest is the code's.
`Serving` leaves out the cases where the engines are known to differ, by name: requests that
only one engine has a path for (`OneEngineOnly`) and those whose answer depends on the order
of checks (`OrderMatters`), for which it still states that neither passes on what the other
refuses. The differences are listed in section 6. The auth service answers 200, 401, 403 or fails.

## 3. The runs

| Run | Checks | Instance | States |
|---|---|---|---|
| `AgentRequests` | `AnswerHolds`, `WantedIsRestarted`, `RequestsAreAtomic`; of Edge `SocketsAreAccounted`, `NoRenewalIsMissed`; `EnginesAgree`, `BalancersAgree` | nginx or edge with kills, 3 releases, 1 kept, history of 3; 4 configurations of Edge, 2 renewals; some hundreds of snapshots, every request of a set | 1,183,000 |
| `AgentFaults` | `StoppedStaysDown` | the same agent with failing file operations, starts and loads too | 885,000 |
| `PipelineReload` | `OnePortOwner`, `RoutesBehindFrontends`, `ChangeIsTakenBack` | versions that change hosts, backends and tunnel and switch both engines; 3 versions, one restart of a container, no Docker | 1,590,000 |
| `PipelineLive` | `PromotedIsActive`, `LiveIsServed` | one fault of any kind, fair, with Docker; 2 versions | 91,000 |
| `TunnelRoutes` | `AckedIsServed`, `StatusIsOwn`, `DrainSparesStreams`, `RoutesMoveForward`, `EventuallyPublished`; of a stream `NothingIsCut`, `StreamsEnd` | one edit, one fault, 2 loops, 2 sessions, a client, fair; a stream with two chunks up, one down, a window of one | 651,000 |
| `ServicesSafe` | `TypeOK`, `AdminStopHolds`, `EngineKept`, `FailureKeepsOld`, `SuccessIsTrue`, `ListIsNotOlder`, `PairedByConfirmation`, `AnswerIsTrue`, `ChecksAreCurrent`, `ConnectionsAreKept`, `FilesAreNotBehind`, `AlertsAreTrue` | nine services, each with its crashes, races and lost messages | 2,760,000 |
| `ServicesLive` | `RollbackUndoes`, `EventuallyRuns`, `EngineReturns`, `UpdateEnds`, `CallIsAnswered`, `PendingEnds`, `HostsFollow`, `AlertsFollow` | seven services, fair | 341,000 |
| `AgentExecFails` | violates `WantedIsRestarted` | a fork that fails | |
| `PipelineNoopApply` | violates `RollbackRestores` | versions that change the backends only | |
| `PipelineCrashSwitch` | violates `LiveIsServed` | a crash in a switch of proxy engines | |
| `ListenersCut` | violates `NobodyIsCut` | a client timeout that changes while a client is being taken | |
| `UpgradeOverlap` | violates `RollbackRestarts` | an upgrade in the 15 s before a recovery | |

### Why the bounds are enough

*Agent.* Three releases are the fewest with which the current release, the one before it
and the one applied differ, so that a rollback, an undone apply and a prune can be
confused. `Keep = 1` and `MaxHistory = 3` put prune and the history at their limits with
those three. The number of requests is not bounded. Releases are symmetric, and the
symmetry set is used in the runs without liveness.

*Pipeline.* Three versions give a live one, the one before it, and one that fails: the
least with which the agents' "previous release" can differ from the live one. With faults
two versions suffice for the live one and the one that is interrupted. Faults are bounded
because each may strike at any step; everything else, edits, rollbacks, discards,
reconciles, admin actions, is unbounded. The store's bounds are those of the code (10 and
50), which three hashes never reach.

*Tunnel.* Two loops are the current and a canceled one, two sessions the current and one
that is replaced or comes late; one edit is a reload to another table, to other settings, or a
shutdown; one fault of each kind at any step. Larger instances were explored without a
violation: three sessions (safety and liveness), two faults (2.8 million states), two edits
(4.0 million). A stream's window of one chunk makes every write wait for a read; two chunks
one way tell "some" from "all".

*Services.* Upgrade: three upgrades and two crashes, so that a crash during the recovery of an
interrupted upgrade is followed by another upgrade. SelfUpdate: two updates, one after
the other or together, and two faults. Pairing: two attempts, two tokens, two addresses, and four moves, of which an edit, a
status poll, the start of a pairing, the start of the gateway, a lost connection and a failing save, write or reload each take one:
a pairing takes two (its token and the gateway's start), so that two are left for a lost connection or a failing save with a restart or
another writer; resets are free. Approvals: two deciders over two approvals of one
caller (several callers were explored apart). Balancer: a server checked and well beside one without
weight, and one failing at once beside one in maintenance; one reload, one command, two changers.
Listeners: two connections, a limit of two, a first configuration and two reloads, shutdown at any
time. Certificates: two generations. Discovery: two containers, two hosts, two
moves and one failing call. Alerts: one
target, one worker, queues of one place, so that each drops. Edge: two stream and HTTP listeners that
share an address, so that a reload may find it taken; three versions of the files, so that a torn
pair is of neighbours.

### Deadlock

`AgentFaults` and `AgentRequests` check it. The others switch it off, because what they model can
rest: all versions used and nothing to reconcile; an engine that was shut down and no faults left; a
service whose bounds are used up and whose work is done.

### Fairness

`Agent`: `WF(Work)`, because every step of a request has a timeout and the lock is released;
`SF(Retry)`, because the timer is armed again by an attempt that finds the lock taken, so it
fires again and again. Requests, exits and kills are not fair.
`Pipeline`: `WF` of a pipeline's steps and of the reconcile loop (every request has a client
timeout, the loop a ticker) and of `EngineReturns` (the property `EventuallyRuns` of the agent). A
reconcile that finds the lock taken gives up and comes back with the next tick, which is a step of
`Reconcile` too; that it meets the lock free in the end comes from the bound on versions: applies
without end, one under way at each tick, would starve it.
`Tunnel`: `WF` of each goroutine's steps, `WF(Attach)` because an accepted handshake is
attached. Clients, dial results beyond the fault bound, edits and faults are not fair.
`Streams`: `WF(Step)`: goroutines that can go on do, and frames arrive; what clients and engines
send, failures and the death of the session are not fair.
`Upgrade`, `SelfUpdate`: `WF` of the goroutines and scripts, of a restart (the container's restart
policy) and of the reconcile ticker. `Approvals`: `WF` of a call's and a decision's steps and of the
expiry timer; deciders need not come. `Certificates`: `WF` of the order, whose calls have
timeouts, and of the hourly scheduler. `Discovery`: calls fail, as other moves come, at most so often and need not. `WF` of the session, which reconnects, and `SF` of
its timers, as an event may come between a timer's firing and its turn. `Alerts`: `WF` of the loop,
its ticker, the bus reader, the dispatcher, the end of quiet hours and the workers.
In `MCServices` the guard `focus = ...` stands in the fair actions a part at rest would otherwise owe.

## 4. The properties

They are stated next to the module's specification, each with the code it is about. Where a
property is restricted, the restriction is the code's:

- `OnePortOwner` and `ChangeIsTakenBack` are checked without crashes and lost answers in
  the switch (a crash in the middle, or a stop whose answer is lost, does leave two owners or none
  until reconcile), and without containers Relay stops: with `Docker` and four versions a status read before
  the lock lets reconcile stop the container of the load balancer just switched to (section 6), whose agent
  keeps no stopped marker; the next switch takes it for down, and a later `ensureEngine` boots it next to the other.
- `ChangeIsTakenBack` is `RollbackRestores` for versions that do change the proxy
  engine or its release, the others being the finding below, that leave the load balancer running and the tunnel
  published or not (`Steady`), and the first time a version fails; it says nothing after a fault or an admin's stop.
- `LiveIsServed` says nothing of an engine whose container is down: reconcile starts the container of the
  selected proxy engine only (`apply/containers.go:83`), the others' wait for an apply (`ensureEngine`) or an admin.
- `AdminStopHolds` is checked with versions that keep the load balancer running, without Docker
  and without lost answers, and proved under the same conditions. Taking back a version that stops the load balancer starts an engine
  that was stopped (`apply/service.go:910-923`), starting a container that Relay had stopped starts
  its engine (`containers.go:23-25`), and a reply that is lost leaves the admin's stop unrecorded.
- `EventuallyPublished` is for a configuration that publishes something on a compatible gateway.
- `StatusIsCurrent` (in `ChecksAreCurrent`) says nothing of a status two concurrent calls of
  `changed` set in the wrong order (`balancer/state.go:61-82`): `overtaken` remembers it.
- `OnlyLateIsCut` (in `ConnectionsAreKept`) leaves out the clients the finding `ListenersCut` is
  about, and no others.
- `AlertsAreTrue` excuses a target since a crash, an edit or a deletion: nothing restores what was
  announced before.
- `ListIsNotOlder` compares the list with what the row said since it was last saved by one who then rewrites the list
  (`since`), and not with the row as it is: a poll, or the start of a pairing over a row it read as pending, writes a row back that
  was read earlier and rewrites no list (section 6). A list whose write or reload failed is one the code only logs.
- `PairedByConfirmation` counts pairings until a reset (`gw.pairs`): a gateway that was reset and started with the same token
  takes it again, as the code has it (`gateway/gateway.go:215-222`).
- `SuccessIsTrue` claims the job's own helper, unless two requests were let in together; then it is one of the two that report to the
  job.
- `HostsFollow` leaves out the removal of hosts whose container could not be looked for when the connection began (`unseen`):
  no later listing looks for orphans.
- `EnginesAgree` leaves out `OneEngineOnly`, and says less where `OrderMatters` (section 6).

Each property has a mutant: one definition changed as a plausible bug would change it
(`mutants` in `PROJECT.json`; the mutated operators stand before the originals, "As X, but ..."),
under which TLC finds the property violated in the same run.

## 5. The proofs

A theorem is from the constants' `ASSUME`s and the hypotheses in its statement only, so it is for
every set of releases, configurations, route tables, clients and callers, any number of sessions,
loops and crashes, and every combination of faults. Where a hypothesis restricts it, the hypothesis
names the condition the code needs; those of `ServicesProofs` only say which model values differ.

| Theorem | States | Hypothesis |
|---|---|---|
| `AgentProofs!TypeCorrect` | `Spec => []TypeOK` | |
| `AgentProofs!BootFindsIt` | `Spec => []CurrentPresent` | |
| `AgentProofs!StopHolds` | `Spec => []StoppedStaysDown` | |
| `AgentProofs!RestartIsScheduled` | `Spec => []WantedIsRestarted` | `~ExecFails` |
| `AgentProofs!AnswersHold` | `Spec => []AnswerHolds` | `~IOErrors`, `~OldRejected` |
| `AgentProofs!AgentImplementsContract` | `Spec => RequestsAreAtomic` | the same |
| `AgentProofs!RollbackGoesBack` | `Spec => []RollbackUndoes` | the same, `~Kills`, `Keep > 0`, `MaxHistory > 1` |
| `PipelineProofs!TypeCorrect`, `!HistoryHolds` | `Spec => []TypeOK`, `[]History` | |
| `PipelineProofs!ContainerStays`, `!PromotionIsSound` | `Spec => ProxyContainerStays`, `PromotedIsActive` | |
| `PipelineProofs!PortsAreOwned` | `Spec => []OnePortOwner` | `Calm`: no Docker, no fault but exits and restarts |
| `PipelineProofs!FrontendsAreThere` | `Spec => []RoutesBehindFrontends` | `"exit" \notin Faults` |
| `PipelineProofs!ChangesAreTakenBack` | `Spec => ChangeIsTakenBack` | `Plain`: no Docker, `Managed = {}`, a store keeps the release before the active one (`Keep > 0`, `MaxHistory > 1`) |
| `PipelineProofs!StopsHold` | `Spec => []AdminStopHolds` | `Heard`: no Docker, no lost answers, every version runs the load balancer, and the tunnel if an admin may stop it |
| `TunnelProofs!TypeCorrect` | `Spec => []TypeOK` | |
| `TunnelProofs!RoutesStay` | `Spec => RoutesMoveForward` | |
| `TunnelProofs!StreamsSpared` | `Spec => []DrainSparesStreams` | |
| `TunnelProofs!StatusStays` | `Spec => []StatusIsOwn` | |
| `TunnelProofs!AcksAreServed` | `Spec => []AckedIsServed` | |
| `TunnelProofs!NothingIsCutHolds` | `MCInit /\ [][MCNext]_<<focus, vars, streamVars>> => []NothingIsCut` | `None` is no mark of an end |
| `EdgeProofs!SocketsAreKept` | `EngineSpec => []SocketsAreAccounted` | |
| `EdgeProofs!RenewalsAreSeen` | `EngineSpec => []NoRenewalIsMissed` | |
| `EdgeProofs!EnginesAlwaysAgree` | `EngineSpec => []EnginesAgree` | `SettingsAreProper`, assumed of the constants |
| `EdgeProofs!BalancersAlwaysAgree` | `EngineSpec => []BalancersAgree` | `PlansAreTyped`, assumed of the constants |
| `UpgradeProofs!TypeCorrect`, `!EngineIsKept`, `!FailuresKeepOld` | types, `EngineKept`, `FailureKeepsOld` | `Orderly`: no overlap, `None` is no container |
| `ControlProofs!AnswersAreTrue` | `Spec => []AnswerIsTrue` | |
| `ControlProofs!ListIsKeptInOrder`, `!PairedOnlyWhenConfirmed` | `Spec => []ListIsNotOlder`, `PairedByConfirmation` | attempts, edits and starts of a pairing are told apart by their names |
| `ControlProofs!SuccessIsOfTheBuild` | `Spec => SuccessIsTrue` | `None` is no commit |
| `ControlProofs!AlertsStayTrue` | `Spec => []AlertsAreTrue` | `None` is no status |
| `ControlProofs!ConnectionsStay` | `Spec => []ConnectionsAreKept` | `Finite`: finitely many listeners and connections, configurations of known keys |
| `ControlProofs!ChecksStayCurrent` | `Spec => ChecksAreCurrent` | `Defined`: configurations define every server, `None` is no changer |
| `ControlProofs!FilesAreKept` | `Spec => []FilesAreNotBehind` | |
| `ControlProofs!ApprovalsTyped`, `!PairingTyped`, `!UpdateTyped`, `!CertificateTyped`, `!AlertsTyped`, `!BalancerTyped`, `!ListenersTyped`, `!DiscoveryTyped` | `Spec => []TypeOK` of each part | the bounds are numbers; `Limits`: limits of 1 or 2 connections, those `TypeOK` knows; `None` is no status; writers of the list are told apart; `Finite` and `Defined` as above |
| `ServicesProofs` (thirteen) | the same for `MCServices`; its `TypeOK`, of all eleven parts | `None` is no number, no status, no commit and no changer; `left`, `None` and the three hashes differ; `left` and `right` are not the names of the other writers of gateway rows; for `TypeOK`, `Parts` are some of the eleven and `Depth` is a number |

Type invariants, `CurrentPresent`, `History` and `ProxyContainerStays` are proved and no longer
run: a run would repeat for three hashes what the theorem says for all.

*Releases.* `StoreOperations` says that each operator maps stores to stores. The lemmas
about sequences (`PushType`, `CutType`, ...) and about `Latest` are what it rests on;
`PreviousOnDisk` that a rollback's target is on disk. `Topped` says that a history ends with the active release;
every whole request leaves it so (`AppliedTopped`, `UndoneTopped`, `RolledBackTopped`, `MarkedTopped`), and `AppliedPrevious`, the
lemma on which a rollback's meaning rests, that an apply over a `Topped` store has the release it replaced as `Previous`,
whatever `Cut`, `Pruned` and `Trimmed` drop.

*Agent.* `TypeOK` is not inductive: a request must also know what it is doing
(`OpKnown`: a step that writes or undoes a release has one). `CurrentPresent` is not
either: the undoing of an apply swaps back to `op.before.current`, so that release must
still be on disk while the undoing may come (`DiskKnown`: the store only grows between the
begin of a request and the point of no return), and boot must find the current one.
`StoppedStaysDown` needs to know, step by step, when `want` is already down while the
marker is set (`StopKnown`). `AgentInv` is their conjunction, proved with one step per
action. `WantedIsRestarted` needs what each step knows of `want`, the process and the timer
(`WantKnown`): a request may leave the engine down in the middle, and every way out starts it, arms
the timer or takes `want` back. Where a process cannot be started that fails, which is the finding
`AgentExecFails`, hence `~ExecFails`.

The answers and the refinement share their invariant: `PhaseKnown` (which steps belong to
which request), `StoreKnown` (at each step, the store is the one the request found with this and that
done to it, so that a step that ends a request leaves what the contract's operators say) and `ServeKnown`
(which release the process has loaded at that step). A file operation that fails leaves an apply where it stands,
and a release that is rejected on the way back leaves the link moved: both by design
of the code, and both excluded by the hypotheses. The refinement is then a case per action: a step in the middle of
a request leaves the contract's store, the one the request found, as it is; a step that finishes one is the
contract's action of that request; a kill is the contract's, which may take the request's
effect or not; and the begin of a boot is the contract's `Booted`.

`RollbackUndoes` is then proved of the contract and carried over by the refinement: `ContractSteps` says that a step is
the contract's `Killed` only if the agent is killed, and every other action of the contract keeps the store that requests see
`Topped` (`ShownInv`, `UndoLives`). A kill in the middle of an apply does not (section 6), hence `~Kills`. TLC checked `ShownInv`
with both kinds of engine before it was proved.

*Pipeline.* `TypeInv` adds to `TypeOK` that what is queued are requests an agent
takes, with a release where one is due. `HistoryInv` adds that apply and reconcile exclude each other
and that the last row is the draft of the apply in progress; without it `Promote` could mark a
version live that is not the newest. `ContainerInv` adds that no queued container stop is for
the live version's proxy engine; it is kept because only `ReconcileLock` queues such stops, after it
took the lock under which the live version cannot change. `PromotedInv` relates
what was read to what is: while an apply is between the status of an agent and its use,
that status still names the agent's current release (only holders of `applyMu` change it),
and after each swap the release is active.

`OnePortOwner` is far from inductive: that one engine is down today says nothing about its supervisor, or about
the next boot of its container. `PortsInv` says which engines are asleep (`Asleep`: down, not wanted, and stopped or without
a release in the store, so that no restart wakes them): all but the live version's until that one is stopped,
all of the kind between the stop and the apply, all but the new one's after it (`ProxiesOwned`, `BalancersOwned`), with the marks of
`did` that make the undoing stop the new engine before it starts the old one (`StopsFirst`; `UndoFacts` reads
that off the sequence `Undo` builds). What is queued, in an undoing or a reconcile, wakes nothing but the old
engine (`Returns`). The premise `Calm` is needed: with a lost answer, a crash or containers that Relay stops the
code does have two owners for a while (section 4). TLC checked `PortsInv` on 11.9 million states before it was proved.

`RoutesBehindFrontends` holds with Docker, lost answers and crashes as well, but not when the load balancer exits by itself, hence
`"exit" \notin Faults`. Then every agent is `Coherent`: its engine runs the active release exactly if it is wanted,
and no request, refusal, lost answer or restart ends that (`CoherentFacts`, `CoherentSend`, `CoherentBoot`). `FrontInv` follows the load balancer
through the swap: what its status said to be running still is, it runs the new version before the proxy engine is given it, and
while the version is undone either the first request takes it from the proxy engine and no later one goes there (`TakesBack`,
read off `Undo` by `UndoLeads`), or that is done and the proxy engine is asleep or back on another release (`RollbackMoves`), and
no request to come goes there (`Spares`). TLC checked `FrontInv` on 3.1 million states, with Docker and every fault but exits, before it was proved.

`ChangeIsTakenBack` is about the end of an undoing, so `BackInv` has to say where every engine is from the start of the swap.
Always (`BackBase`): no container is down, a running reconcile asks only for what the live version has. And while nothing has
gone wrong (`BackGood`): every agent is `Settled`, with nothing to restart; every store is `Topped`, its history ends with the
active release, so that an install over another release has that one as `Previous` (`AppliedPrevious`); `ProxyStage`, `LbStage` and `TunnelStage` place each engine between
the live version and the new one at every step, with what was read about it (`Seen`); and `ProxyBack`, `LbBack`, `TunBack` relate
the marks in `did` to how far the engine got. From the marks, `BackDue` shows that each request of `Undo`, answered OK, takes
its engine back (`Due`), and every step of the undoing keeps that (`DueStep`). `Plain` is needed: without the room in the store
a rollback has nothing to return to, and an admin's stop or a container Relay stops is undone differently (section 4). TLC
checked `BackInv` on 793,611 states before it was proved.

`AdminStopHolds` speaks of the engine's process, but what an admin stopped can be woken by a restart of its agent, by a
request of an undoing and by one of a reconcile. `StopInv` says of the engines on the list that they are `Asleep`, that the
undoing and the reconcile in progress wake none of them (`Sparing`; `SparingUndo` and `SparingCorrections` read that
off the calls `Undo` and `Corrections` queue, which look at the list when they are built), and that an engine the apply has installed
a release on (`lbChange`, `tunnel`) is not on the list, so that to roll it back is no start of a stopped one. Nobody else can change
the list under them: an admin waits for the lock that apply and reconcile hold. Each part of `Heard` is
needed: section 4 says what the code does without it. It holds with crashes, exits, restarts and engines that
do not answer; TLC checked `StopInv` with all of these and three stoppable engines on 10.5 million states.

*Tunnel.* `TypeOK` and `RoutesMoveForward` need to know what is on the way. `TunnelInv` says
that a published table has the last generation assigned; that the routes in a session's queue
are in order and none is ahead of the home (`InOrder`); that those of the gateway's session are
not behind the gateway (`Ahead`; those of a replaced session may be, which is why `applyRoutes`
looks at the session); that a hello comes first in each queue and nowhere else
(`HelloFirst`); and that neither side is further in the handshake than the other's messages
let it be (`InStep`). Most steps leave each queue as it was, or empty: the lemma `QueuesKept` is
about them. `DrainSparesStreams` is inductive as it stands, given the types.

`StatusIsOwn` says that the status is the current loop's whatever canceled ones still do. Its invariant
`StatusInv` pairs the sessions that home still has in hand with the loops that are at a
connection, one to one (`Paired`), and says that a shutdown waits for every loop (`LoopsEnd`): a canceled
loop may write the status only when there is no other.

`AckedIsServed` is the farthest from inductive: an ack is read long after the gateway sent it. `AckInv` says that
a connection pushes each generation at most once (`Pushed`: a pending kick that finds a
table has one to push that was not sent, `Early`: a connection that has sent nothing has nothing on the way); that the acks on
the way to the home are older than the pushes on the way to the gateway, in order, and none newer than what
was sent (`Ordered`, `Answers`); that what was confirmed was sent and is older than all pushes on the way (`Confirmed`);
and that the ack of the last push sent means that the gateway of that session has exactly that table, with the
port errors the ack names (`Serves`). The lemmas on queues (`TailSteps`, ...) say what taking the first message or
appending one does to each. TLC checked `AckInv` on 4.0 million states with two edits before it was proved.

`NothingIsCut` is about one stream, for any amount of data and any window (`Most` and `Window`, which
`TunnelRoutes.cfg` sets to two chunks up, one down and a window of one). `StreamInv` accounts for every chunk: while
nobody gave a direction up, what was sent is what was got, what a copy has in its hands and what is on its way, and on the way
data comes first (`UpFlow`, `DownFlow`). `UpEnds` and `DownEnds` say what each mark on the way tells of the side that sent it: a
fin, an end or a reset is there only because that side ended its body, closed its stream or returned, and the end of a
response comes after its fin. `Ending` ties what an end was told to what its copies did; that is the first half of the
property, whatever fails. The second half needs more, and only while nothing failed (`Orderly`): each copy ends by
its EOF, so no stream is closed before both are over, no reset overtakes an end, and the transport never gives up. The lemmas
about queues (`Grown`, `Shrunk`) say what sending and reading a frame do to all of this. TLC checked `StreamInv` with a
window of two before it was proved.

*Edge.* `EdgeInv` is for any listeners, addresses, configurations and number of renewals (in the run, `AgentRequests.cfg` sets
them). For the sockets, what a reload opened must be of its configuration and held for nothing else (`SocketInv`), or the swap would
not leave exactly what the new configuration listens on. For the certificate, a reading in progress must say what it may have seen:
the four looks are at the chain, the key, the chain and the key, and versions only go up (`Observed`). So the stamp is never
later than the content, and if it is what the files are now, nothing was replaced in between (`Current`); that holds of the entry that serves
and of the one a reload made but did not swap in yet, and a poll or a fetch that goes on has an entry as long as it is live.

*Serving.* `EnginesAgree` is proved for any set `Settings` of snapshots and any set `Questions` of requests; the run takes some
hundreds of the former (`AllSettings`) and all of `Asked`. `SettingsAreProper` says what the code lets a host be: its locations have different
paths that begin with "/" (`model/validate_host.go`), as the path of a request does that is not rejected. A location
strictly below `/.well-known/acme-challenge/` is one the validation admits and nginx serves, being the longer prefix, where Relay Edge
answers the challenge first ("always answered from the webroot", `render/nginx/nginx.go:543`): `OneEngineOnly` names the requests it
is for (`BelowAcme`). The proof
goes from the location to the answer. The prefixes of a path are ordered by length and there is a longest one, which no other
location shares (`LongestIs`, `LongestOnly`; by well-foundedness, not induction); nginx's longest block is therefore the block of Relay Edge's
longest location, whatever else nginx has (`NginxFinds`, `EdgeFinds`), and a challenge is its own location's (`NginxFindsAcme`). The access phase of nginx is
computed from the codes of its checks, all or any of which must pass, and Relay Edge's sequence of ifs from the same
settings; `AccessIsSame` takes them apart by which checks a location has. `HostsAgree`, `ServersAgree` and `AnswersAgree` put
that together with redirects, limits, maintenance and the choice of the server.

*Balancing.* `BalancersAgree` is proved for any plans, sessions and client addresses, so for access lists and rules of any length. The two renderers write an
access list differently: HAProxy gets deny lines, each with the negations of the allow rules before it, Relay Balancer
rules of which the first match wins. A client's first match denies exactly if some rule does and none before it lets the client in
(`HaproxyDeniesWhom`, `BalancerDeniesWhom`, `DenialsAgree`). HAProxy leaves a rule with an unknown condition in as `always_false`, Relay Balancer
leaves out the rule, or the condition where it is negated (`RoutesAgree`).

*Upgrade.* The invariant says for each step of the upgrade which container has which name and
which one runs (`Swapped` and the like), the same for each place a crash may have left and for each
step of the recovery. `Orderly` is that no upgrade begins while a recovery is due: with it, it is what the run checks;
without it the finding `UpgradeOverlap` is a counterexample.

*Approvals.* Only one decider is ever at work on a row, and what is decided never changes: the update in
`MCPDecideApproval` is conditional on "pending". A row that ran is approved, and the answer a client read
was the row's at the end.
*Pairing.* As long as the list may be older than the row, somebody is about to read the rows, or to write what he read since; what was
written, somebody is about to have read; and of those who write there is one at a time (`ListFollows`). What a writer holds is listed
since the row's last listed save, or another has yet to read. An attempt the gateway gave its proof in is of the token it has, and a gateway
that paired since its last reset is paired, and on its disk (`AttemptsAgree`, `GatewayAgrees`).
*SelfUpdate.* Unless two requests were let in together, one task at most is at work and the job there is is its own (`TasksAgree`). What
the job says was pulled is what the helper of one that reported to it pulled (`JobAgrees`), and a helper pulls once; so a success is of that
helper's build.
*Alerts.* A check compares what it found with the status it replaces, so what was told fits the recorded status while no
check is between its record and its word, and the replaced status while one is (`ToldFits`); a sweep and a kick begin
checks, and forget targets, only when none is under way (`LoopWaits`), or a word could be about a status that is no more.

*Listeners.* The limit is the number of loops that hold a slot and of connections that are not closed (`ListenerInv`), so each
step changes both alike; the lemma `SlotsReturned` is for the steps that close many connections at once. A server is dropped
only when none of its connections is counted, so what it still has is `late` (`Fares`), and a listener that is gone has no
connection that holds a slot. `ReconfiguredKeeps` is for a reload and for the end, which change every listener.

*Balancer.* `Decides` is kept by each way a server changes (`ReconfiguredIs`, `CheckedIs`, `CommandedIs`), whatever else is going
on. A result counts only for the definition it is of: no check, under way or done, has a later generation than its server
(`NoneAhead`), so one of the same generation found what the present definition's checks find. Whoever changes a server has
yet to tell (`ReloadTells` for a reload, which changes many), so what is derived from them is only claimed when all have.

*Certificates.* What the row says was issued is never ahead of what is written, at each step of an order, and
what an editor holds of the row is not either; the two files are renamed key first.

*Discovery.* `TypeOK` is not inductive: `reconcile` changes the record `m` and the hosts by turns, so `m` must be a record,
not `None`, all the while the session is in `sync` (`HostSide`), although admins edit hosts and timers fire meanwhile; and what
is listed as running must have a label and an address (`ThereIsAThing`). `LinkedIsKept`, `EnsuredIsKept` and `SyncedIsKept` say
that `linkPending`, `ensureHost` and `syncUpstreams` make a record and hosts of a record and hosts.

*Types of the other parts.* Each adds to the part's invariant what that leaves out: queues with no more than `Room` (`Buses`,
`Notifying`), a listener with at most one server more than there were reloads (`ListenerBounds`), health of at most 3 and
generations no later than the last one loaded (`BalancerBounds`), and counters with their bounds (`CounterStays`).

*ServicesProofs.* A behaviour of `MCServices` is, for each part, one of that part's
specification. The instance with the proofs has the definitions of the instance in `MCServices`, so each
lemma `...IsThat` expands both and finds them the same; then the part's theorem applies.

### Only model-checked

- Liveness (`EventuallyRuns`, `LiveIsServed`, `EventuallyPublished`, `StreamsEnd`, `EngineReturns`, `UpdateEnds`,
  `CallIsAnswered`, `PendingEnds`, `HostsFollow`, `AlertsFollow`): fairness and `ENABLED` are out of TLAPS's reach.
- `RollbackRestores`, the statement the code violates (section 6).

## 6. Findings

Runs that violate what the repository says of itself:

- `AgentExecFails`: a retry, or the start at boot, that cannot fork the engine schedules no
  further attempt (`agent/supervisor.go:201`, against `:22`).
- `PipelineNoopApply`: an apply that leaves the proxy engine's release as it is still counts
  as a swap, so when it fails the proxy engine is rolled back to the release before the live
  one (`apply/service.go:724`, against `:861`).
- `PipelineCrashSwitch`: after a crash in a switch of proxy engines neither engine runs: the
  old one is down with its live release active, which reconcile takes for served
  (`apply/service.go:1413`, against `docs/EDGE.md:59`).
- `UpgradeOverlap`: a recovery that is due 15 s after a restart removes the old container of an upgrade begun
  meanwhile; when that upgrade fails there is nothing to go back to (`engines/recover.go:56`, against
  `deploy/UPGRADES.md:85-88`).
- `ListenersCut`: a replaced HTTP server without counted connections is closed at once, and with it a client that was
  accepted and not yet counted (`balancer/listener.go:259`, against `:251-253` and `docs/BALANCER.md:43-45`).

Seen while modelling, in the model where it says so, without a run of their own.

Agent, pipeline, tunnel:

- A rollback whose reload is rejected is answered as an error with the link already
  moved; the next apply of that release is "configuration already active"
  (`agent/server.go:279-283`, `:398-421`). `OldRejected` models it; `AnswerHolds` is
  checked and proved without.
- A kill between the swap and `saveHistory` (`agent/releases.go:144`, `:154`) loses a release from the history;
  the bootstrap release is swapped in without history, so the first apply has no previous one
  (`agent/server.go:157`). `RollbackUndoes` is checked and proved without kills, which excludes it.
- A kill between the bootstrap swap and the stopped marker starts an engine that is not
  selected (`agent/server.go:157-164`).
- First backend: taking back a version that starts the load balancer for the first
  time rolls it back to a start although it is recorded as stopped (`apply/service.go:911`).
- A swap whose answer is lost is not taken back, and the row says the live version is live
  again (`apply/service.go:674-682`, `:717`, `:928`; `agent/client.go:32`, `:55-58`).
- A stop that is not answered leaves the old engine down after the rollback
  (`apply/service.go:702-704`, `:885`).
- An edit between the restore of a snapshot and the apply of `RollbackTo` is published as the rollback
  (`apply/service.go:1336`, `:425`).
- A status read before the lock can stop the load balancer's container although the live version has
  just come to need it (`apply/service.go:1389`, `:1396`; `apply/containers.go:83`, `:104`), until the next apply or an
  admin's start: reconcile brings back the container of the selected proxy engine only.
- "session up, routes pushed" (`tunnel/config.go:180`): the state is set before the first push
  (`tunnel/conn.go:112-128`).
- A host that is no longer published at all leaves the gateway with its routes and ports
  bound, though refusing clients: the home hangs up without an empty push.
- Streams: after the engine's EOF the gateway notices a dead session, and either side an end that went away
  after its EOF, only when it is written to; "after CloseWrite, data already written is still delivered" (`mux.go`)
  is bounded by `IdleTimeout` at the gateway (`h2.go:357`, `late`).

Services:

- Upgrade: a crash between removing the old container (`upgrade.go:371`) and `PutSettings` leaves the old image pinned.
- SelfUpdate: two requests may both pass the check for a running update, which is made under another lock than the one the job is set
  under (`relay_update.go:47-56`, `:85-87`): both then report to the one job, the second helper replaces the first one's container, and the job may end
  with the outcome of the other request's helper. A job whose helper is still at work may be said to have ended (`relay_update.go:380`, when
  its inspection fails); an upgrade does not look for a running update under its later lock.
- Pairing: an edit, the start of a pairing and the status poll write a row back that they read before the body of the request, the
  making of a token, or a status request of up to three seconds (`api/crud.go:168`, `pairing.go:47`, `service.go:248`), and undo what was
  saved meanwhile; the poll, and the start of a pairing that read a pending row, do so without rewriting the list. A gateway list that could
  not be written, or that the engine was not told of because its status could not be had, stays so until the next change
  (`service.go:174-192`). A reset of a gateway that runs has no effect until it is restarted, and then its old token pairs again.
- Approvals: find and insert of an identical call are not atomic, so two callers may file two; `runWrite` reads the permission
  again after the approval (`mcp/service.go:521`).
- Certificates: an edit reads the row before the body and writes it whole; a crash between the two renames leaves a
  mismatched pair until the renewal; a revocation looks at `inflight` without registering; a deletion against a launch leaves files; a
  listing that is stale starts a second order; concurrent requests may create duplicates; a reload that failed after a
  renewal is not tried again.
- Discovery: when the first listing of a connection fails, or a container cannot be looked for in it, the hosts of containers that went
  while Relay did not watch stay for as long as the connection holds: only the first listing looks for orphans
  (`docker/service.go:518-521`, `conn.go:201`, `sync.go:652`; `unseen`). A crash between `saveHost` and `saveManaged` leaves a host that is never synced or removed; a removal whose
  context was canceled is dropped (`conn.go:228`, `sync.go:672-690`); destroying one container and renaming another to its name within the grace keeps
  the first one's host; renaming a stopped container loses the link; entries are forgotten when `BeforeDelete` blocks.
- Alerts: within five minutes a second "down" of the same text is dropped ("down/failed events always go through",
  `NotificationsSettings.tsx:442`); two workers with retries may deliver "recovered" before "down"; a crash between the row and
  the notification loses it, one in `flushHeld` after the write the digest.
- Balancer: a status set by the slower of two concurrent calls of `changed` stays stale until the next change
  (`state.go:61-82`). Idle accept loops hold slots of the limiter (`listener.go:298-304`); a change of mode at the same
  address cannot be reloaded.
- Edge: a reload that read the pair before a renewal may serve the older one until the next poll; a torn pair fails
  a reload; re-adding a listener right after its removal, or moving one to an address its predecessor still holds, fails the reload
  (`server.go:125-140`); an old unix listener's close unlinks the path of a new one (`tunnel.go:163`).

Where the engines are known to differ (`OneEngineOnly`, `OrderMatters` in `Serving`):

- Over the rate limit on a path that is redirected, denied or in maintenance: nginx's `return` precedes `limit_req`, Edge
  answers 429 first, as `docs/EDGE.md` orders it (`render/edge/render.go:3-5` promises "exactly like").
- A body that is too large and a limit that is met (413 or 429), or on a redirecting or default server (nginx's http-level 1m).
- A bad path of a blocked client (400 or 403); a blocked client at a tunnel name that is not published (444 or 403).
- A location below `/.well-known/acme-challenge/`, which nginx serves and Edge answers as a challenge.
- `/.relay/auth` and `/.relay-errors/` are internal in nginx (404) and proxied by Edge.
- A cached asset, or a missing slash, under a path redirect.

## 7. Not modelled, and the plan

Within the modelled components: overlapping redirect groups, the default host's limiter zone, path
normalisation, "all" in a list of exemptions; regular expressions, wildcard binds, weights and hash tables, header lists, the
time HAProxy is without the runtime states after a reload; weights of the runtime API, drains lost on a restart, updates of two
servers of one backend that overwrite each other's row (`lb/service.go`); the balancer's connections to servers with their
retries; Edge's cache (`variantKey` leaves out header names, `cache.go:88-98`), buckets and streams; the unpairing and
deletion of gateways, the rewriting of their list when Relay starts; several endpoints, certificates, engines, channels at a time.

Not modelled as components, as `components` says one by one:

- Backup and import: a crash leaves a row "running" for ever; pruning counts failed rows; a deletion that does not take `s.mu`
  leaves an orphan in the bucket; edits between the backup before a restore and the restore are lost. Sequential code around
  archives; candidates for a module of their own.
- Accounts: two admins who demote each other at once (`users.go:150-220`); throttling and session expiry.
- Configuration editing: references are checked and then written; `frontendDependents` leaves out streams,
  `checkHostRefs` all but the upstream's backend, `accessUsage` the bypass lists of maintenance.
- Protocol framing, sniffing and TLS (libraries), the store's SQL (taken to be atomic transactions), logs, GeoIP, the web.

What is left, in this order:

1. `Discovery`: the promise behind `HostsFollow` (what a poll writes back is what the containers said last) as a theorem,
   beside its types.
2. A module for backup and import, next to the pipeline: its rows, its lock and a crash between two of its steps.
3. A module for accounts and one for the references of the configuration, whose checks and writes are apart.
