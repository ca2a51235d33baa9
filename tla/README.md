# ezpug-iron in TLA+

ezpug-iron rents game servers, plays a match on each and tells the client what happened. This
directory holds TLA+ models of the parts of it that are concurrent, TLC configurations that check
them on small instances, and proofs, checked by TLAPS, of what must hold on every instance.
Every definition is translated from the code; `PROJECT.json` names, for each, the lines it stands for.

1. [The system](#1-the-system)
2. [The plan](#2-the-plan)
3. [The modules and the code](#3-the-modules-and-the-code)
4. [What the runs check](#4-what-the-runs-check)
5. [What is proved](#5-what-is-proved)
6. [What was found](#6-what-was-found)
7. [What is not modelled](#7-what-is-not-modelled)

To check a module: `tlc -config MachineMishaps.cfg MCMatchMachine.tla`. To check proofs:
`tlapm MatchMachineProofs.tla`.

---

## 1. The system

### 1.1 The parts

One orchestrator process (`apps/orchestrator`) keeps everything durable in Postgres. Around it:
game servers, each running a plugin that dials in over a websocket; boxes, each running a node
agent that dials in the same way; rented-server providers spoken to over HTTP; and clients, who
call the Match API, hold a stream open, and receive webhooks.

| component | state | operations | what makes it correct |
|---|---|---|---|
| **Match machine** `match/machine.ts` | the match row, the servers ledger, the event log; in memory a *chain* of steps per match, its timers, its runtime (recovering, paused, demo wait, hints seen) | create, walk of the candidates, deadlines, loss and recovery, server events, client commands, reprovision, end, `resume()` | a match ends once and for ever, and always ends; never two open ledger rows, none that outlives the match; a recovery is told only after its connect facts; no open match is left without a deadline, after a restart either |
| **Reaper** `providers/reaper.ts` | a snapshot of open rows, servers seen orphaned | sweep: expire, list providers, deallocate orphans, suspect | a server nobody accounts for is reaped; one just bound is not; an overdue row ends its match |
| **Match API lifecycle** `packages/match-api` | what a client sees: the state and the `match.*` facts | read and stream | each change of state is announced by its fact, in the promised order |
| **Match store** `match/*store.ts` | the tables | one statement or transaction per call | a state and the fact that says so change together |
| **Server link, plugin side** `EZPug.Sdk/Link`, `Gamemodes` | the event buffer (on disk), the socket served, the match held and its last hint | emit, dial, welcome, ack, assignment | an event is forgotten only when the orchestrator has it |
| **Server link, orchestrator side** `link/server-link.ts` | a session per socket, who answers for a server, the row's acked seq | hello, replace, assign, ingest, ack, silence | the log has every event, in order, once |
| **Webhook worker** `webhooks/worker.ts` | delivery rows; in memory one pass, a kicked flag, timers | emit's row, kick, sweep, pass, attempt, retry, 410 | every delivery settles; first tries keep the log's order; the schedule bounds the POSTs; 410 is the last |
| **Webhook consumer kit** `packages/match-api/src/webhooks` | keys seen | verify, dedupe | a fact is handled once, on whatever path it comes |
| **Node link, registry** `link/node-link.ts`, `nodes/*` | nodes, their socket, what they report | enrol, replace, drain | a node's commands go to the socket that answers for it |
| **Nodes provider** `providers/nodes/provider.ts` | warm pool, claims | claim, adopt, sweep strays, refill | a warm server is claimed by one match only; a stray is never one just claimed |
| **Node agent** `apps/node` | the containers of a box, known by their labels; the node's identity on disk | create, stop, report, read back after a restart | what it reports is what runs; a crash loses no container |
| **Dathost and sim providers** | the remote account | allocate, status, list, deallocate | fresh handles; deallocation is idempotent |
| **Provider selection** | offerings, capacity | rank | pure |
| **GSLT pool** `gslt/*` | tokens and leases | lease, mint, release, sweep | a token is on one server at a time |
| **Budget** `budget/service.ts` | a mark per threshold crossed; reads the ledger | check on create, warn | concurrent servers, lifetime and spend within the key's ceilings; a crossing is warned of once |
| **Keys** | keys and secrets | CRUD, rotation | revoked keys open nothing |
| **Event stream** `stream/*` | subscribers, batched ticks | subscribe, hello, publish, close | every fact after the hello's `seq` reaches a subscriber that stays |
| **Widget sockets** `widget/*` | sessions opened with a player's token | hello, relay a tap, push | a tap is relayed for a live match only, and answered once |
| **Game watcher, canary** `game/*` | the builds providers run, canary runs | poll the feeds, play a match of bots on a new build, judge it | a build that moved is played once, and judged on what was played |
| **MatchZy door, match configuration, RCON, routes** | none of their own | translate, compose, ask | pure, or someone else's state |
| **Process lifecycle** `main.ts`, `shutdown*.ts` | the boot and drain order | boot, drain | nothing is accepted after the drain begins |
| **Fake orchestrator, simulated server** `packages/match-api/src/fake`, `packages/sim` | a record per match with a chain, deadlines, a server; the server's story, its place in it | as the machine's, in memory; a server plays, dies, is replaced from a backup | what a client is tested against is the promised lifecycle |
| **Server plugins** `EZPug.Core`, gamemodes | the game | rounds, scores, flow | game logic |
| vendored plugins, client package, CLI, HUD, scripts, docs | | | not this project's subject |

### 1.2 How they interact

* **Chain.** Whatever concerns a match, a client's command, a server's event, a deadline, the
  reaper, is put on the match's chain (`machine.ts` `enqueue`), a promise each step is appended to. A
  step reads the row afresh and holds the chain across its awaits, so two steps of one match never
  interleave. Everything decided *before* a step was queued is stale when it runs.
* **Deadlines.** A timer that fires queues a step; cancelling it after that is too late.
* **Ledger.** The machine opens a row before it asks a provider for a server; the reaper compares
  open rows with what providers list. Neither locks the other out.
* **Websocket.** The plugin numbers events and keeps them until acknowledged; the orchestrator
  runs a session's frames one after another, and several sessions of one server beside each other.
  An event goes through the machine's `ingest` and so through the chain.
* **Facts.** `emit` appends to the log in one transaction with the state it announces, publishes
  to the stream, and then, in another write, queues the delivery the webhook worker POSTs.
* **Memory and rows.** The process may die at any await. What it knew is rebuilt from rows by
  `resume()`, by the plugin's hello, and by the worker's sweep.

### 1.3 What is hard

Handlers that write several times, cut anywhere by a death or a throw. Deadlines that fire while
the step that should have cancelled them is queued. Late events of a server that was replaced. Two
sockets of one server ingesting the same events. Counters kept in three places, each written at
its own time. A POST that was made and whose answer was not written. Queries that take a batch,
flags that coalesce kicks, timers that die with the process. `PROJECT.json` lists forty such
hazards at their lines, and the property that would catch each, or why there is none.

---

## 2. The plan

| order | modules | state |
|---|---|---|
| 1 | `MatchMachine`, its promise `MatchLifecycle`; proofs `MatchMachineProofs` | done |
| 2 | `ServerLink`, its promise `EventFeed`; proofs `ServerLinkProofs` | done |
| 3 | `WebhookWorker`, proofs `WebhookWorkerProofs`; `WebhookConsumer` composes it with a client's deduper | done |
| 4 | `NodeFleet` composes the nodes provider, the node link, the agent, and what the walk and the reaper ask of them; proofs `NodeFleetProofs` | done |
| 5 | `RentedServers` composes the walk, the dathost provider, the token pool, the reaper and Steam; proofs `RentedServersProofs` | done |
| 6 | `EventStream` composes the emit of the machine, hub, fan-out, both doors and a client that pages; proofs `EventStreamProofs` | done |
| 7 | `EventFile`: the lines of `FileEventBuffer`, cut writes and cut compactions, against the buffer `ServerLink` takes for one value; proofs `EventFileProofs` | done |
| 8 | `FakeMatch`: the fake orchestrator's match on a simulated server; implements `MatchLifecycle` too; proofs `FakeMatchProofs` | done |
| 9 | the create check of `budget/service.ts` against rows that walks open later | left |

*Proofs left.* Every invariant and every action property of a passing run is a theorem, `MatchLifecycle` and the
steps of `EventFeed` are shown to be implemented; what the runs check beside that is liveness, which the
prover has no means for.

Written for proof: parameters are CONSTANTS with a named assumption, an action is an operation,
and no module uses a RECURSIVE operator.

---

## 3. The modules and the code

### 3.1 `MatchMachine`

**Grain.** One action is what a handler does up to its next awaited write. A handler that writes
twice is two actions joined by `job.pc`, the place the step on the chain stands at: `"close"` is
the ledger update of `closeRow`, `"bind"` the bind after `allocate` answered, `"lost_state"` the
`setState` after `match.recovering` was emitted. `job.after` is where `closeRow` returns to,
`job.ending` the verdict `end()` carries, `job.cand` the row a walk is on.

| state | in the code |
|---|---|
| `match`, `ledger`, `backup`, `logged`, `said` | rows of `matches`, `servers` and the stored backups; of `match_events`, what `resume()` reads back (the series' end, the map of the last `going_live`, the demos and how often one was announced) and the last `match.*` fact |
| `server` | each row's server as its provider would list it (external) |
| `chain`, `job` | the promise per match, the step that holds it |
| `timers` | `runtime.timers`: allocate, boot, join, recovery, heartbeat, ttl, demo |
| `runtime` | `recovering`, `replacementReady`, `resumePending`, `paused`, the demo wait, `currentMap`, `demos.announced` and the demos in `seen` |
| `reaper` | the snapshot of a sweep, and what was orphaned last time |
| `crashes`, `faults`, `unread`, `forgot` | history, for properties: deaths, store calls that threw, rows whose provider threw under `server_ready`, whether a restart came when `resume()` does not read the log |

| actions | in the code |
|---|---|
| `Provision`, `Recover`, `WalkInsert` ... `Walked` | `provision`, `recover`, `walk` |
| `EndStep`, `Deallocate`, `CloseRow`, `EndFact` | `end`, `closeRow` |
| `Probe`, `Suspect`, `LostState`, `LostClosed` | `suspect`, `lost` |
| `ServerReady` ... `DemoAvailable`, with `NextMap` and `EventIgnored` | `onServerEvent`; `Resumed`, `LiveState` are `resumed` |
| `Reprovision` ..., `Restore`, `PauseOrUnpause` | the commands |
| `Fire`, `Say`, `Ask`, `Touch`, `Backup`, `Die`, `OperatorRelease` | timers, and whoever is off the chain |
| `ReaperLook`, `ReaperList`, `ReaperBlind` | `reaper.ts` |
| `Crash`, `StoreFails`, `Resume` | a death, a throwing store call, `resume()` |

*Abstractions.* Time: an armed deadline may fire at any moment, which covers every duration. A row
and its server share a name, since `allocate` returns a fresh handle. Candidates come in any order
and number. `row.connect`, once ready, is taken to be there. `StoreFails` drops the whole action a
write belongs to. The reaper's own list of providers is one. A provider may throw when `server_ready` asks it for the
address of any row (1370); the code asks only of a row that was bound without one. A series is `MaxMaps` maps
at most; of what plugins number, only the demos' marks are kept (a demo is announced for a map that was played, and
a second announcement in one life is a duplicate). `runtime.seen` is in memory, as in the code, so a restart counts
a demo that is sent again once more. After `end()` a terminal match may get
a fresh runtime and chain beside the old; its steps do nothing to the match, so one chain suffices.

### 3.2 `MatchLifecycle`

The states and `match.*` facts of `packages/match-api`, and nothing of servers: what a client may
rely on. `MatchMachine` implements it with `state <- match.state, fact <- said.fact` until its process
dies or its store throws, and `FakeMatch` implements it with variables of the same names.

### 3.3 `ServerLink` and `EventFeed`

One server that plays one match which does not end, its plugin, and as many sockets as overlap.
Events carry three numbers: `seq`, the link's counter in the plugin's buffer file; `hint`, the
vocabulary's per-match seq in the plugin's memory; `id`, the event itself, which no code sees.

| actions | in the code |
|---|---|
| `Emit` | `GamemodeRuntime` stamps, `LinkClient.EmitBatch` keeps and sends |
| `Dial`, `OnWelcome`, `OnAck`, `OnAssign`, `Notice` | `LinkClient` sessions |
| `Pump` | the game thread takes the assignment: `GamemodeRuntime.OnAssign`, `MatchContext.Reset` |
| `Greet`, `GreetTooLate`, `Admit` | `greet`: read the row, await, replace and answer |
| `Take`, `Ingest`, `Persist` | `ingestBatch`: a frame, an event at a time through the machine's `ingest`, then the row's acked seq and the ack |
| `Silence`, `DropAtPlugin`, `DropAtOrchestrator` | timeouts and breaks, seen at either end first |
| `Crash`, `Throw`, `Reload`, `Wipe` | the process, the store under `emit`, the plugin, its disk |

*Abstractions.* A frame of events is the set of them: both ends take it in seq order. What is
pending is resent in one frame (`EVENTS_BATCH_MAX` cuts it in the code; the frames would follow one
another on the same chain). A socket that is closing still carries what was sent; one that broke
keeps the first *n* frames that had arrived, for any *n*. A socket's name is dialled again only
when nothing of it is left. Fatal close codes, commands, backups and rebinding are left out. The buffer is
one value here and its steps are atomic; its files are the subject of `EventFile`.

`EventFeed` promises two counters: events said, and events known, the second following the first
by one at a time (`Unbroken`) and for ever (`CatchesUp`). What is known of a link is how far its log holds
everything that was said (`Known`), so an event logged ahead of an earlier one would count for nothing, and the two
together for a jump. The link implements the feed under `SteadySpec`, where the plugin is not
loaded anew, the disk not wiped, the store does not throw, and the plugin dials only with no
assignment on its hands (the backoff between two sockets is far longer than a tick of the game).

### 3.4 `WebhookWorker` and `WebhookConsumer`

`Say` and `Queue` are the two writes of `emit`. `List` is `listDueDeliveries` and the grouping
of `runPass`: rows by match and seq, `Batch` of them, `Concurrency` matches. Within a match rows
are attempted in order (`Least`); `at` is the place of the attempt. `Post` is the reads of
`attempt` and the `fetch`; `Answer` the race with the timeout; `Delivered`, `Retry`, `Gone`,
`StopMatch` the writes. `Kick` is `schedule`: a pass, or a flag for the one that is on.

*Abstractions.* Time: `Ripen` ends a wait at any moment, `Sweep` may kick at any moment, and so
stands for a retry's own timer too. The reads of an attempt and its POST are one step, because one
worker does a match's rows one at a time and nobody else writes what it reads. `emit`'s view of
`webhooks_stopped_at` may be stale, so a stopped match gets a row or none. The branch for an event
that has no row in the log is left out: the log is written first. `busy` is empty at every
listing, since passes do not overlap.

`WebhookConsumer` adds a client that takes facts from its webhooks and from its stream behind one
deduper: `has`, `has`, `add`, `add` (`deduper.ts`), each an await. The handler around it is the
one `docs/match-api.md` gives, and is external.

### 3.5 `NodeFleet`

One box. A container's id is a number, its own (warm) row and the rows of the walks that hold it
are the ledger. What the provider remembers of a container (`held`), what it told the node
(`told`), what each session last heard (`view`), what runs (`box`) and which row each container's
server link stands under (`bound`) are five pictures of one thing, each written by its own event.

| actions | in the code |
|---|---|
| `ListRows`, `AdoptOne` | `adopt`: the open rows, and for each an await of its token |
| `Judge` | `sweepStrays`: what the last row of a container nobody remembers says |
| `NodeRead`, `OpenWarm`, `StartWarm`, `Unsent` | `topUp`, `openRow`, `startWarm`: one warm container at a time, each await a step |
| `OpenRow`, `Claim`, `Cold`, `Rejected`, `NameServer`, `Configure`, `CloseWarm`, `Rebind`, `StartCold` | a walk of the machine: `allocate`, the bind, `configure`, `start` |
| `EndMatch`, `GiveUp`, `CloseRow` | the end or the failure of the walk: `deallocate`, then the row |
| `ReadExpired`, `Expire`, `ReapOrphan` | `reaper.ts` on a warm row, and on a container no row names |
| `Dial`, `Welcome`, `Hangup` | the agent's socket; a frame it received stays on its chain when the socket is gone |
| `OnStart`, `Created`, `Started`, `OnStop`, `Stopped` | `instances.ts`: a frame is applied across two awaits of docker |
| `Greet`, `Attach`, `Close`, `OnInstances` | `node-link.ts`: the hello, the await in it, the session and its snapshots |
| `Relink`, `Unlink` | a container's plugin dials the server link (section 3.3) and is placed by its token |
| `Restart`, `AgentRestart`, `Break`, `Reconcile`, `StopRefused` | deaths, breaks, a container that failed, a stop docker refuses |

*Abstractions.* A match is one walk; what a restart walks again is another. Ports, images, rcon and
prices are left out, so is enrolment: the node is known. `told` and `view` belong to a session and
go with it; an adopt that goes on to the sweep first forgets what the node reports no longer (`Swept`). The last
row of a container is the code's newest by `allocatedAt`: the model takes a walk's row for newer than the warm
one's, though a walk may have opened its row before the container was minted. A snapshot is the whole box, as in the code; of more than `MaxSnapshots` on one socket
the newest replaces the one before it. The agent's backoff, a second or more, outlasts a greeting,
so two greetings of one node do not overlap.

*Unlucky moments.* Besides mishaps that are counted, three that take no fault are named, so that a
run can leave them out: a container that changes between a hello and its welcome (`unheard`), a
frame read after its socket was replaced (`late`), a walk that claims a container whose open row an
adopt has read and which that adopt does not hold yet (`overtaken`). What each breaks is in section 6. `Settled`
keeps the run of `PictureCatchesUp` from them: containers change while no hello is on its way to be welcomed.

### 3.6 `EventStream`

One match, its facts numbered. `Say`, `Published` and `Throw` are `emit`: the fact is in the log
before it is published, and the end is followed by the order to close. `channel` is the fan-out
(Redis in production), in order; `Deliver` hands its head to every subscriber.

| actions | in the code |
|---|---|
| `Subscribe`, `ReadRow`, `Greet` | `serve` of `stream/upgrade.ts`: subscribe, await the row, hello, what was held |
| `Deliver`, `DeliverClose`, `Leave` | `hub.ts` `deliver`, the subscriber's `send` with its filter, the widget's `end` |
| `Break`, `Stop` | a socket that breaks; the process stops, drained or not |
| `EmitTo`, `SayQueued` | `emitTo`: the state is checked before the fact is queued |
| `Read`, `ReadClose`, `Ask`, `PageList` | a client: the match-api's `subscribeStream`, and pages of the events route as the follower script reads them |

A stream's socket that closes while its credential is looked up is subscribed all the same, dead (the second
half of `Subscribe`): its close listener comes too late, and it leaves the hub only when the match is closed.

`PageList` reads the match's row, then its events (`machine.ts` `events`), each at its own time.
*Abstractions.* Ticks, presence and command results share the hub, have no seq and are not
replayed. The client dials again until a socket was closed as of an ended match, and then pages to
the end of the log.

### 3.7 `RentedServers`

The walk of a rented server from its row to its match, with the two services behind it. A row makes
one clone at most, and the clone has the row's name. `queue` is the serial chain of the pool
(`gslt/pool.ts` `serial`), `job` the place of the one at work: every await of it is a step.
A token is an account and a number, as Steam counts resets.

| actions | in the code |
|---|---|
| `OpenRow`, `Duplicate`, `Put`, `Name`, `StartServer`, `Found` | the walk around `allocate` of the dathost provider: clone, lease, plant, bind, start |
| `Scrap`, `End`, `Return`, `CloseRow` | a failed allocation, and the end: `deallocate`, the release, the row |
| `Claim`, `Dry`, `Mint`, `Insert` | `lease`: a free account, or one Steam makes, or none |
| `Release`, `Reset`, `Write` | `release` and `releaseRow`, with the reset of a lost server's token |
| `Arm`, `SweepLeaks`, `FreeLeaked`, `ListAccounts`, `Square`, `RenewExpired`, `Adopt` | the sweep, row by row |
| `ReadLedger`, `ReadList`, `Reap`, `EndPass` | the reaper against dathost's list |
| `Crash`, `Vanish`, `Website` | the process; a server gone from the API that still runs; somebody at Steam's website |

*Abstractions.* A call that is retried has the outcome of its last try: done and answered, done and
not answered, or not done. The grace of the reaper is longer than an allocation (120 s), unless the
mishap `slow` happens. The match is here only in that it ends; a walk cut by a crash is walked
again with another row, or, when its match had a server, waits in the recovery window.

### 3.8 `EventFile`

The buffer `ServerLink` takes for one value, as `EZPug.Sdk/Link/FileEventBuffer.cs` keeps it: two
files that grow by a line, a list and two counters in memory.

| actions | in the code |
|---|---|
| `Load`, `Create`, `WriteHeader` | the constructor: read both files, or make the first and its header |
| `Say` | `Append`: the line, then the list and the count |
| `Acked` | `Ack`: a line in `acked.log`, the list cut, a compaction when `Threshold` acks were written |
| `Move`, `Truncate` | `Compact`: the new file over the old, then `acked.log` emptied, two steps |
| `Crash`, `Cut` | the process dies between two steps, or in the middle of a line |
| `Hello`, `Take` | the link and the orchestrator, external: the count in a hello, an event taken once by its seq |

*Abstractions.* A cut line is one that cannot be parsed, or a whole line without its newline; the
line written next goes on behind it. A cut ack reads as a smaller number. Nothing that was written
whole is lost later: what a failing disk or a box that loses its cache may take is left out.

`StepsOfABuffer` says what `ServerLink` assumes: without a cut, an event in the buffer stays until
it is acknowledged, what is acknowledged does not come back once the loader is done, and the count
only grows. `LostAtMostTwoPerTear` says what a cut costs: the event being written, and the one
written behind it.

### 3.9 `FakeMatch`

The orchestrator that clients and the repository's own tests are run against: the same API over memory, a
clock and a simulated server. A step of its chain is synchronous, and a subscriber is called at each fact in
the middle of it. So an action does the private writes of a step at once and leaves in `out` what a client
will see, one write after the other (`Show`); nothing else happens until `out` is empty. Only `uploadDemo`
waits (`busy`), and the chain fills behind it.

| actions | in the code |
|---|---|
| `Allocated`, `Expire`, `NeverReady`, `NotRestored`, `Silent` | the steps its deadlines queue: `allocated`, `expire`, `neverReady`, the end of the window, `lost` |
| `ServerReady`, `GoingLive`, `DemoAvailable`, `Uploaded`, `SeriesEnd`, `Else`, `Unheard` | `onServerEvent`, `uploadDemo` |
| `Cancel`, `Release`, `Restore`, `ForceEnd`, `Reprovision`, `Pause`, `Unpause`, `Again` | `cancelMatch`, `releaseServer`, `command` with its cached results |
| `Beat`, `Heartbeat`; `Crash`, `Stop`, `Start`, `Dealt` | `sim/src/server.ts`: `scheduleNext` and `emitBeat`, the heartbeat; what they do to a server |
| `Kill`, `Hold`, `LetGo` | `kill`, and a beat the server's chaos delays; in configurations of section 4.3 only |

*Abstractions.* A story is the beats a match listens to, of one map, and may stop anywhere. A deadline fires
whenever it is armed, but a server that beats is heard in time, unless the chain is held up: its interval is
a third of the silence allowed. A replacement's crash is disarmed (`resumeStory`); a match restarted before
it was live plays its plan again. Each command has one correlationId, so that a second one is a retry.

---

## 4. What the runs check

### 4.1 Passing runs

| run | properties | what it shows | instance |
|---|---|---|---|
| `machine_mishaps` | `TerminalIsClosed`, `OneOpenRow`, `MishapsStrandRows`, `Attended`, `Watched`, `StaysEnded`, `ImplementsLifecycle` | until the first mishap: one open row at most, none after the end, and the promised lifecycle; with two deaths or throws anywhere: the end closes its row, a mishap strands at most one other, no open match is unattended after a restart, an ended match stays as it ended | 2 rows, 4 events, 5 commands, chain of 1, 2 mishaps; 6.6 M states |
| `machine_live` | `EventuallyEnds`, `OrphanIsReaped`, `DemoIsWaitedFor` | every match ends, every orphan is reaped, and before its demo deadline a live match is completed only with as many demos in its log as maps, across restarts | 1 row, recording, 2 maps, reaper, 1 crash; 0.5 M states |
| `link_mishaps` | `NothingLost`, `InOrder`, `LoggedOnce`, `NeverAhead` | the log has every event the plugin forgot, without gaps, once in a life of the process; no session counts past what was handed out | 3 events, 2 sockets, 2 breaks, 1 mishap of four kinds; 5.1 M states |
| `link_feed` | `ImplementsFeed` | the log learns the events one by one, and learns all of them | 2 events, 2 sockets, 1 break, 1 crash |
| `webhooks` | `AttemptsBounded`, `FirstInOrder`, `NothingAfterGone`, `EverySettled` | POSTs within schedule and mishaps, first tries in log order, 410 is the last, every delivery settles | 2 matches, 3 facts, batch of 2, one match a pass, 2 attempts, 1 mishap; 0.24 M states |
| `fleet_claims` | `OneMatchEach`, `SessionIsTheMatchs`, `OnlyTheEndStops` | a container is with one match, its plugin's session stands under that match's row, and no stop is sent to a container a match plays on | 2 walks, 2 tasks of the provider, 1 container, 2 sockets, 1 mishap of five kinds; 3.2 M states |
| `fleet_live` | `ForeignIsLeftAlone`, `StraysAreStopped`, `PictureCatchesUp` | another deployment's container is let be, one that outlived its rows is stopped, and the provider's picture becomes what runs | 1 walk, 2 containers and a foreign one, 1 mishap of five kinds; 0.23 M states |
| `streams` | `Unbroken`, `EndIsToldFirst`, `LastPageIsLast`, `SocketsClose`, `FollowedToTheEnd` | no frame repeats what its hello covers and none is skipped, the end is told before the close, a page that says it is the last is, every socket of an ended match closes, and a client that dials again and pages has the whole match | 2 streams, 1 widget, 2 facts, pages of 1, 1 mishap of five kinds; 1.1 M states |
| `rented` | `OneServerPerToken`, `OnlyOrphansAreReaped`, `RentEnds`, `PoolHeals` | one token is in one running server, the reaper takes only what nobody uses, everything rented is given back, and the pool becomes what Steam says | 2 rows, 2 accounts, ceiling of 1, 1 mishap of six kinds; 0.63 M states |
| `event_file` | `FilesBounded`, `StepsOfABuffer`, `LostAtMostTwoPerTear` | the files stay bounded, they are the buffer `ServerLink` takes them for, and a cut write costs two events at most | 5 events, 3 deaths, 2 cut writes, compaction after 2 acks; 0.55 M states |
| `fake` | `RowsAreHeld`, `ImplementsLifecycle`, `EventuallyEnds` | the fake orchestrator shows the lifecycle the orchestrator shows, its ledger row comes and goes with its server, and its match ends | 3 servers, crashes with and without a backup, 5 commands and their retries, at most 4 sent, chain of 2; 0.41 M states |

*Why the bounds are enough.* Two rows are a server and its replacement; that a third changes nothing
of the rows or of the lifecycle is proved (section 5). Two maps are one whose demo comes and one whose demo
does not; `MachineDemo.cfg` checks `DemoIsWaitedFor` with a replacement, too. Two mishaps let the second hit the recovery from
the first. A chain of one has a step of an outsider go stale while a handler runs (steps a handler
queues are not bounded by `MaxChain`). The types (`TypeOK`) are proved for every instance and not run; those of `EventFile` and `FakeMatch` are the
first conjuncts of their inductive invariants. Two sockets are the one
replaced and the one that replaces it; a third would have to find both of them undead. Three events make
a gap, a resend and a new event. A batch of two over three facts of two matches leaves rows unlisted
*and* a match untaken; two attempts are a retry and an end of the schedule.

Two walks contend for one warm container, two tasks are two overlapping ticks of the provider, and the
second id is the container that is opened cold, or warm again. A ceiling of one with two accounts has a
pool that runs dry, mints, and comes to know an account that Steam made and did not answer for. Two
facts are one before the end and the end, and with pages of one each page is a cut. Three deaths and two
cuts let a cut line be written behind, loaded, compacted and cut again. Three servers are one, the one
it is replaced by before it is live, and the one that replaces it when it is lost; a chain of two lets
a repeated beat, or a deadline, wait behind an upload with a command. `RentedTwice.cfg` checks the
safety properties of `RentedServers` with two mishaps and takes longer than a run should.

Each passing property has a mutant: a definition changed as a plausible bug would change it
(a dropped guard, an unread row, a swapped order), under which TLC finds the property violated. The
mutants stand beside their definitions, marked *Mutant*.

`CHECK_DEADLOCK FALSE` everywhere but in `rented`: an ended match, a log that is complete and
deliveries that are settled are ends of the system, and the bounds stop the environment. In `rented`
the reaper and the sweep come round for ever, and deadlock is checked.

### 4.2 Fairness

* *Machine.* Weak for the handlers and `Resume`: a handler's awaits come back and the
  process is supervised. Strong for the ttl's firing, because the bound on the chain, which is the model's
  and not the code's, may disable it now and then. Strong for the reaper's look and list, and for each
  server's deallocation: the reaper comes back on its interval, a provider that cannot be listed or a
  failed deallocation is tried again, and is assumed not to fail for ever. Nothing is assumed of
  servers, clients or operators.
* *Link.* Weak for each end's event loop and for dialling (`RunAsync` loops with a backoff). Nothing
  makes a server speak or a network break. `MaxDrops` says breaks are finitely many.
* *Worker.* Weak for emit's second write, each match's attempt (a POST has ten seconds), the end of a
  wait, listing, the pass's end, the sweep (armed anew when it fires) and the restart.
* *Fleet.* Weak for each step of the agent, for a socket's greeting and for its snapshots, for each
  task of the provider (topUp, adopt, sweep) and each walk, and for the reaper on each container: event
  loops, awaits that come back, a reaper on an interval. Nothing makes a match end, a container fail,
  or an agent's socket break.
* *Stream.* Weak for the orchestrator as a whole, since its steps on one match are bounded, and for the
  client as a whole, which reads, dials again with a backoff, and pages.
* *Fake.* Weak for the chain and for the upload's answer, strong for the ttl, whose step may find the chain
  at its bound again and again.
* *Rented servers.* Weak for the walks together, the reaper, and the pool's chain with its sweep: both
  sweeps are intervals, and a call that failed is made again at the next one. Calls fail finitely often,
  which is `MaxMishaps`.

### 4.3 Configurations that show a disagreement

`machine_leak` is a run whose property TLC finds violated. The configurations below are further ones of
the kind, each for one sentence of a document, a comment or an interface that the code does not keep
(section 6). They are not among the runs of `PROJECT.json`; `tlc -config <file> <module>` shows the
behaviour.

| configuration | module | property |
|---|---|---|
| `MachineStuck.cfg` | `MCMatchMachine` | `EventuallyEnds`, with one throw of the store |
| `MachineSign.cfg` | `MCMatchMachine` | `SignIsItsOwn` |
| `MachineBlind.cfg` | `MatchMachine` | `WaitsHaveDeadlines` |
| `MachineResent.cfg` | `MatchMachine` | `EveryDemoHasCome` |
| `LinkThrow.cfg` | `MCServerLink` | `KeptThroughThrows` |
| `LinkReload.cfg` | `MCServerLink` | `KeptThroughReloads` |
| `WebhookTwice.cfg` | `WebhookConsumer` | `HandledOnce` |
| `FleetClaim.cfg` | `MCNodeFleet` | `ClaimIsAssigned` |
| `FleetExpiry.cfg` | `MCNodeFleet` | `OnlyTheEndStops`, with an expiry |
| `FleetUnheard.cfg` | `MCNodeFleet` | `PictureCatchesUp`, with a snapshot between a hello and its welcome |
| `RentedLease.cfg` | `RentedServers` | `CrashLeaksNoLease` |
| `RentedToken.cfg` | `RentedServers` | `TokenIsNeverShared` |
| `EventTorn.cfg` | `EventFile` | `CountGoesOn` |
| `FakeSilence.cfg` | `FakeMatch` | `Watched` |
| `FakeKilled.cfg` | `FakeMatch` | `ImplementsLifecycle`, with a killed box |
| `FakeChaos.cfg` | `FakeMatch` | `ImplementsLifecycle`, with beats that come late |
| `StreamHello.cfg` | `EventStream` | `HelloFirst` |
| `StreamPhones.cfg` | `EventStream` | `PhonesAreOpen` |
| `StreamLast.cfg` | `EventStream` | `EndIsLast` |

---

## 5. What is proved

For every value of the constants, from `MachineAssumption` (finitely many rows), `LinkAssumption`,
`WebhookAssumption`, `FileAssumption`, `StreamAssumption` and `FakeAssumption` (bounds are numbers; matches are
numbered), `FleetAssumption` (foreign containers are containers; the pool fits the box; the name of a walk is
none of the words `warm` and `none` that stand beside it) and `RentAssumption` (`None` is neither a row nor an
account; bounds are numbers).

| module | invariant | theorem: property |
|---|---|---|
| `MatchMachineProofs` | `TypeInvariant` | `TypeCorrect`: `TypeOK`; `EndIsFinal`: `StaysEnded` |
| | `RowInvariant` | `EndClosesItsRow`: `TerminalIsClosed`; `MishapsStrandAtMostOneEach`: `MishapsStrandRows`; `OneRowAtATime`: `OneOpenRow` |
| | `LifeInvariant` | `MachineImplementsLifecycle`: `ImplementsLifecycle` |
| | `TendedInvariant` | `OpenIsAttended`: `Attended`; `ServerIsWatched`: `Watched` |
| | `DemoInv` | `DemoIsAwaited`: `DemoIsWaitedFor` |
| `ServerLinkProofs` | `TypeInvariant` | `TypeCorrect`: `TypeOK` |
| | `LogInvariant` | `NothingIsLost`: `NothingLost`; `LoggedAtMostOnce`: `LoggedOnce` |
| | `OrderInvariant` | `LoggedInOrder`: `InOrder`; `NeverCountedAhead`: `NeverAhead` |
| | `AssignedOnce` | `LinkKeepsTheFeed`: `FeedIsUnbroken`, the safety half of `ImplementsFeed` |
| `WebhookWorkerProofs` | `WebhookInvariant` | `TypeCorrect`: `TypeOK`; `AttemptsAreBounded`: `AttemptsBounded` |
| | `OrderInvariant` | `FirstTriesInOrder`: `FirstInOrder`; `GoneIsTheLast`: `NothingAfterGone` |
| `NodeFleetProofs` | `FleetIsKnown` | `FleetTypes`: `TypeOK`; `ForeignersAreLeftAlone`: `ForeignIsLeftAlone`; `OneMatchForEach`: `OneMatchEach` |
| | `FleetIsTold` | `SessionIsOfTheMatch`: `SessionIsTheMatchs`; `OnlyEndsStop`: `OnlyTheEndStops` |
| `RentedServersProofs` | `TokenInvariant` | `OneTokenOneServer`: `OneServerPerToken` |
| | `PoolInv` | `TypeCorrect`: `TypeOK`, the pool's ceiling with it |
| | `ReapInvariant` | `OnlyOrphans`: `OnlyOrphansAreReaped` |
| `EventFileProofs` | `FileInvariant` | `FilesAreBounded`: `FilesBounded`; `TearsCostTwo`: `LostAtMostTwoPerTear`; `DiskTakesSteps`: `StepsOfABuffer` |
| `EventStreamProofs` | `StreamInvariant` | `TypesHold`: `TypeOK`; `HelloIsFollowed`: `Unbroken`; `EndIsTold`: `EndIsToldFirst`; `PagesReachTheEnd`: `LastPageIsLast` |
| `FakeMatchProofs` | `FakeInvariant` | `LedgerIsHeld`: `RowsAreHeld`; `FakeDoesNotLie`: `ImplementsLifecycle` |

**Machine, types.** `TypeOK` is not inductive: what a handler does at its second write depends on
what its first left in `job`. `JobInv` says what each place holds (a row to close, a candidate, a
verdict with a terminal state, and that the match is not terminal anywhere but between steps). From
it `EndIsFinal` follows step by step: on a terminal match the only actions enabled are those of an
idle chain, and none of them writes the match.

**Machine, rows.** "At most one row" is not inductive either, since a walk opens a row while the
last may be stranded. `RowInv` states at each place of a handler which rows may be open beside the
candidate and the current one, and that they number no more than the mishaps (`Few`). `FewerRows`
and `OneMoreRow` carry the counting; each handler is one of a few kinds of moves (`QuietMove`,
`EndMove`, `WalkMove`), or opens or closes a row, and a crash or a throw buys the row it strands.

**Machine, lifecycle.** The lifecycle's guards are about states and facts, the machine's about the
place a handler stands at. `LifeInv` relates them: a walk runs while the match is allocating or
recovering and says so, a loss is told before its state is written and a recovery too, a ready match was
announced or its handler is at the write that announces it, and `replacementReady` is only set when the
replacement's address was told. With it every action is matched by name: each of the machine's steps is one
of the lifecycle's or changes nothing a client sees. It holds until the first mishap (`UnharmedInv`): a death or
a throw between a state and its fact breaks it (section 6), and `BeforeMishaps` says that up to then every
step is one of a living process.

**Machine, attended.** What must be armed between two steps says nothing of the places within one,
where deadlines were just cancelled and their successors are yet to be armed. `Owed` is the
kinds of the armed timers and of the steps in line, and `AttendInv` says at each place of a handler that what the
state calls for (its ttl, and the walk, boot, join or recovery of its state) is owed, or that the
rest of the handler owes it: walks on, arms it, or ends the match. `WatchInv` says the same of a server's silence.
A refused write leaves a handler in the
middle, so both properties end at the first one (`MachineStuck` in section 6 shows that it costs the match
its deadlines); a death does not, since `resume` arms what the row calls for. The throw of a provider under
`server_ready` is not left out: it takes the deadline that was cancelled for it, so that both the invariant and
`Attended` say, of a match whose provider threw (`unread`), that its ttl is all it has for sure (`MachineBlind`).

**Machine, demo.** `Ended("completed")` is decided at five places, and the ones that could come too early go by a
count in memory. `Counted` says that the count is never ahead of the log and that the map in play is the log's: what `onServerEvent` counts
it has logged, and what a new process counts it reads back, unless it finds the match in a state of which `resume`
does not read the log (`forgot`). The step `resume` queues for a series the log calls over is alone at the head of
the chain, and no handler ran since (`DemoInv`); so whichever of them completes a live match, the log has as many
demos as maps. It does not follow that each map's demo is there (`MachineResent`).

**Link, types.** Which frame a session finds at the head of its socket is what the protocol's order
is for: `FrameInv` says what a socket may carry at each stage, hello first and alone, nothing down
before the answer.

**Link, log.** `World` is every event there is a copy of: in the buffer, on a socket, in a batch, in
the log. Only `Emit` adds to it. `WorldInv` says copies agree; `NamesInv` that, as long as nothing
known to lose events happened, the three numbers of an event are one; `CountInv` that whatever
anyone counts as taken (an ack, a welcome, a session's floor and window, the row, the hints seen) is in
the log. Then forgetting is safe, which is `NothingLost`; and `SeenInv`, hints seen are of the log
and distinct, is `LoggedOnce`.

**Link, order.** An event is logged after those said before it because of what is in front of it on its
socket, so that is the invariant: `PipeInv` says each event of a batch or a queue has all earlier ones in
the log or before it (`Piped`, with one lemma per thing that is done to a queue), and `FlowInv` that a
session the plugin was welcomed on carries whatever the log lacks. The resend after a welcome starts it
from `NothingLost`; an event that is said prolongs it; a batch's first event then has all others in the log
when it is taken. `WithinInv` bounds everything a session counts or is to count by the plugin's own count,
and needs none of this: it holds through a wipe, since no session outlives its plugin's socket.

**Link, feed.** The one exception of `Sound` a plugin that runs on could meet is to be assigned its match a second
time, which starts its hints over. `AssignInv` follows the assignment: whether the plugin holds a match is said in the
hello of the socket it is on, and stays true until that hello is answered, because it dials with no
assignment on its hands; one is on its way only to a plugin that holds none, and only one. So `Sound` holds for good,
and with the log in order, and no event in it that was not said, an event that is logged for the first time is
the next one (`UptoGrows`).

**Worker.** The bound counts POSTs, the code counts answers. `CountInv` relates them: POSTs made
are at most the attempts written, the mishaps, and one if an answer is in flight. It needs `PassInv`
(a pass holds pending rows, or the one a 410 just stopped), `LeftInv` (a pending row has an attempt
left), and `RowInv` (emit writes a row only where there is none, or a count would be reset).

**Worker, order.** A pass takes a batch of what is due and POSTs it by match, so a late fact could be in a
batch that an early one missed. `OrderInv` excludes it: a row that was never tried is due, and a pass that
holds a row holds, in front of it, every untried row of its match with a smaller seq. The query's order by due time and seq
and the group's order both enter there. `GoneInv` says of a match whose endpoint
answered 410 that it is stopped or the attempt that will stop it stands at that write.

**Fleet, known.** No property of a container is inductive while the model knows nothing of where a container
can be. `FleetInv` says it picture by picture: what a walk has was minted here (`WalkInv`), what is
recorded, held or told to stop has a row or was a walk's (`LedgerInv`), a task that mints is alone with its container
(`MintInv`), and of a container that was never started nothing is on the wire, on the box or with a walk
(`HiddenInv`). `ForeignIsLeftAlone` is read off it, and holds under every mishap. The proof has a lemma per
action, and each action is one of a few kinds of moves: of the wire alone, of one walk, of one task.

**Fleet, one match.** `OwnerInv` adds that the row of a walk with a container names it, that what is held of that container has an
owner, and that no adopt has read it as nobody's and is yet to hold it. The last is what a claim beside such
an adopt breaks. The proof showed that the moment is wider than the await of the token the model had first
named: with two adopts at once, any row an adopt has read and not reached is enough (`ToRead`; two
warm containers and 26 steps, as TLC then found). So `overtaken` names all of it, and the theorems say that it is absent.

**Fleet, told.** The last two properties hold only while no row expires under a walk (`"expiry" \notin Mishaps`). `SpareInv` says that what is
held for nobody, and what an adopt has read as nobody's, is of the pool: an open row, no walk's, a token that opens nothing else.
`StartInv` follows a walk to its container's start, and says which row and token stand behind it at each
place; `ColdInv` that a cold container is of one walk for good; `StopInv` that what was told to stop is of no walk
before its end, so that nothing can claim it between the stop and its arrival.

**Tokens.** That two servers are not logged in with one token says nothing of the leases the pool
decides by. `HoldersLease` does: whoever holds a token Steam honours, in the hands of its walk or planted
in a clone that is there, has the account's lease, unless a lease was once freed under a reset that Steam
refused (`unreset`; section 6 has what becomes of that). A lease is of one row, so a token is. It is
inductive only with where each walk can stand beside its clone (`Walks`), with what is known of a job
that waits in the chain (`Placed`: its row is not yet past the lease it asks for, or is past its server),
with the numbers a token may have (`Numbers`: none is ahead of Steam's), and with what a job at its write
has seen to (`WriteFrees`: nobody holds the account that is about to be freed). A row asks for a lease
once (`AsksOnce`), or the second lease would strand the first.

**Rented servers, ceiling.** The table counts what it holds, so the accounts Steam has can be more than the ceiling
only by those the table does not know of. `Ceiling` charges each of these (`Uncounted`: made and not answered, made
before a death, dropped from the table) to a mishap; a mint starts only while the table has room, with nobody else
at work on it, and makes one. It needs `LentOnce`, that a row has the lease of one account, which is what a walk
that has not asked yet gives. `TypeCorrect` follows from these two and from the types in `TokenInvariant`.

**Rented servers, reaped.** A pass of the reaper deletes later what it judged earlier. `Reapable` says that a
server a walk works on or a match plays on has an open row, and one that is to start or has started a row that names
it; so a server that was listed on no open row for the length of the grace is of no allocation, unless one outlasted
the grace (`slowed`), and since a walk never comes back to a server it left, it still is when its turn comes.

**File.** What a buffer knows and what its file would tell a fresh load drift apart with a torn line: the load
skips it and whatever was written on the same line after it. `CostInv` charges each tear with the events that are lost or at risk (in the
file on a line nobody ends, or known to memory only), with the seqs memory counted and the file does not tell
of (`Holes`), and with two for a line that still lacks its end; every step keeps the sum under two per tear.
With no tear the charge is nothing, and the file takes the steps of a buffer.

**Stream.** A fact on its way to a subscriber is in the fan-out, held at its door while the hello's row is
read, or written. `FlowInv` says that, of each subscriber, the three together have all facts past the row it was or will
be greeted with (`Caught`), and of the fan-out that it holds them in order up to what was said,
the order to close behind the end (`InFlight`); the claim on what was written is of open sockets, since one that
was subscribed dead is never written a thing. An emit that threw ends that claim, and the properties with it. `DoorInv` carries a
socket's own guarantee from the door to the wire, `EndInv` relates the end to the machine's row and the pages a
client reads.

**Fake.** A handler's writes are queued in `out` and shown one at a time, while a server's story goes on. `Script`
says what may be left in `out`: three writes at most, each allowed by the lifecycle where it comes.
`Playing` is a server's story up to a beat: what it said was heard or stands in the chain, in its order;
`Reached` how far the match has come with it; `ChainInv` that a server is obtained once at a time, and that
the step that obtains it finds none. `Show` is then the only step that changes what a client sees, and it takes
what the script allows.

**Only model-checked:** liveness (`EventuallyEnds`, `OrphanIsReaped`, `EverySettled`,
`StraysAreStopped`, `PictureCatchesUp`, `SocketsClose`, `FollowedToTheEnd`, `RentEnds`, `PoolHeals`,
and of `ImplementsFeed` that the feed catches up) is out of the prover's reach and stays with TLC, as
ENABLED, induction over data and RECURSIVE operators would; none of the modules uses the last.

---

## 6. What was found

By a run:

* **A stranded row is open for ever** (`machine_leak`). A walk writes its row before the match
  points at it; a death in between leaves a row that names a match. Once the match is terminal,
  `expire` is a no-op on it and the ceiling does not close it.

By a configuration of section 4.3:

* **A throw inside `end()` leaves a match without deadlines** (`MachineStuck`). The timers are
  cancelled before the writes they would retry.
* **A provider's throw takes a deadline** (`MachineBlind`). `server_ready` cancels `boot`, or `recovery`, and then
  asks the provider of a row without an address for one, with no try (`machine.ts:1366-1370`; a DatHost clone may be
  bound without one, and its `status()` throws when the API does, `dathost/provider.ts:682-684`, `753-754`). The
  match stays configuring, or recovering, with its ttl only; `machine.ts:79` says "Every wait is a deadline on the
  clock". In recovering, a late `server_ready` of the dead server can do it to its replacement.
* **A demo that is resent counts for another map's** (`MachineResent`). The marks of what was counted are in memory:
  a `demo_available` that was logged and not acknowledged before a death is counted from the log and again when
  it is resent (`machine.ts:1344-1348`, `1445`, `2016`), and a series of two maps ends, and gives its server back,
  without the second demo; `machine.ts:748-751` says it is held while "fewer demos have arrived than maps were played".
* **A dead server's late sign counts as the replacement's** (`MachineSign`). Events are told apart
  by `match.serverId`, which names the dead server until the replacement is bound.
* **A store that throws under `emit` loses an event** (`LinkThrow`). The hint is marked as seen
  first, and the resend is then a duplicate.
* **A plugin loaded anew loses what it says next** (`LinkReload`). Its hints begin again at 1, and
  the machine has seen them.
* **A deduper asked twice at once says "new" twice** (`WebhookTwice`). It asks and tells in
  separate awaits.
* **A warm container claimed before its first report is never told its match** (`FleetClaim`).
  `adopt` takes a row the node has not reported yet for a cold one (`nodes/provider.ts:549`); the walk
  that claims it sends `start` (`:868-872`), the agent ignores a `start` for what it runs
  (`instances.ts:246-250`), nobody binds its session to the match's row, and the match ends by its boot
  deadline. `provider.ts:838-840` says a claim is assigned.
* **The reaper stops a container a match has just claimed** (`FleetExpiry`). It reads a warm row as
  expired and deallocates by container (`reaper.ts:125`); a walk that claims it in between keeps a
  container that is being stopped.
* **A snapshot sent before the welcome is dropped** (`FleetUnheard`). The agent counts it as told
  (`agent.ts:106-111`, `176-187`), and the provider's picture is stale until something else changes.
* **A death in a first walk strands its lease** (`RentedLease`). The row it leaves is open, the sweep
  frees leases of closed rows only, and the row is never closed (see `machine_leak`); `gslt/pool.ts:40`
  says "A crash cannot leak a lease".
* **A token whose reset Steam refused is lent again** (`RentedToken`). `releaseRow` frees the lease
  whatever the reset answered (`gslt/pool.ts:199-203`), although the lost server may still be logged in;
  `pool.ts:26` says "One token, one running server".
* **A line written behind a cut one is lost at the next load, and its seq is handed out again**
  (`EventTorn`). `FileEventBuffer.cs:223` appends without looking at how the file ends;
  `IEventBuffer.cs:12-14` says "LastSeq survives a restart", so that "a fresh process continues the
  count rather than starting a second one".
* **In the fake, a pause outlives its server** (`FakeSilence`). `paused` is neither cleared with the server
  nor by an `unpause` that throws on a crashed one before it re-arms the detector (`core.ts:1207-1218`,
  `1625-1629`), so a server that plays, or has died, has no deadline against its silence; `core.ts:1193-1198`
  says it is "suspended while the server is parked".
* **The fake says a match recovers that never was live** (`FakeKilled`). `lost` does not ask the state
  (`core.ts:1276-1287`); the orchestrator fails such a match (`machine.ts:953`).
* **The fake takes beats in any order** (`FakeChaos`). A `going_live` that overtakes `server_ready`, which
  the server's own chaos may do, makes a configuring match live, and then ready (`core.ts:1395`, `1428`);
  `sim/src/server.ts:364-366` says a consumer promises to survive a delay.
* **A socket is closed as of an ended match and was told nothing** (`StreamHello`). The close finds it
  between its subscription and its hello (`hub.ts:100-103`); `docs/match-api.md` says the first frame is
  a hello, always.
* **The widget service tracks a phone that is gone** (`StreamPhones`). Its session is tracked after an
  await in which the match's close may come (`widget/service.ts:339`).
* **A fact can follow `match.ended`** (`StreamLast`). `emitTo` asks whether the match is open and queues
  `fleet.orphan_found` behind the step that ends it (`machine.ts:1946`); `docs/match-api.md:1065` says
  the end is the last.

Read off the code while modelling it, and left to the reader:

* `match/machine.ts`: A match restarted while it recovers has its demos and its map forgotten, as `resume` reads the log
  of a ready or live match only (2055-2059; the history `forgot`). A match whose
  series ended while still `ready` loses its demo wait in a crash. An event can be logged twice across a
  crash, because the row's acked seq is written after the batch and the hints are in memory (1344;
  `LoggedOnce` is bounded to one life for it). A death between the write of `ready` and its fact (1391),
  between `match.recovering` and its state (963), between a fact and its delivery row (599), or between
  a command's effect and its result (1834) leaves the two apart. Two creates pass a budget that has room
  for one, as a match's row is opened by its walk (1623). `closeMatch` is not called when the delivery
  row's write throws (784-785).
* `match-api/src/fake/core.ts`: a restored server that is lost before it is live again is ignored until the
  ttl (1277; `neverReady` returns, since `readyAt` is of the first server, 1257). The PUT of a demo has no
  timeout and holds the chain: as long as it hangs, the ttl waits too, and the silence deadline may fire on
  a server whose beats are in the chain behind it (1432, 1473). `sim.mode` arms the detector before
  `server_ready` (1676), and a `sim.speed` below a third makes heartbeats rarer than the silence allowed.
  A replacement opens a row without a check of the budget (1308). A release queued behind a loss ends the
  match that was restored meanwhile (2162).
* `stream/hub.ts`: a close that Redis refuses is given up (111-115). `stream/upgrade.ts`: a socket that closes while its
  credential is looked up stays subscribed until its match is closed (146-201).
* `nodes/provider.ts`: two `topUp`s at once may overfill the warm pool (446-508); a stop that docker
  refused is not asked again on the same socket (588-591; `instances.ts:336-337`); an adopt that has read
  a container's open row and is overtaken by a claim of that container, beside a second adopt, holds it as
  unclaimed again, and a second match can have it (536-541; the mishap `overtaken`).
* `webhooks`: a 410 the key's *fleet* endpoint answers stops the webhooks of the match as well; a 410
  whose second write is lost does not stop the match's other rows (`NothingAfterGone` is bounded to a
  life without mishaps); a deduper that recorded a fact answers the retry of a handler that failed as a
  duplicate (`deduper.ts:74`), where `docs/match-api.md` says the handler runs again.

---

## 7. What is not modelled

* *Of the nodes:* enrolment, revocation and draining of a node, ports, the probe, the grace of a node
  that lost its socket, rcon, offerings, the cache of a stray's verdict.
* *Of the stream and the widgets:* ticks, presence, command results, authentication and origins, a
  widget's commands and pushes, the rate limiter.
* *Of rented servers:* template synchronisation, files, passwords, prices, console and status, the
  order in which idle accounts are taken, the mode without Steam, the tags of other deployments. A
  lease asked for again by its holder is the same lease, and no walk does it.
* *Of the machine and the link:* request validation, presence, sim stepping, rcon, command results and
  idempotency keys; the link's commands, backups, console and widget frames, token revocation, fatal
  close codes; a webhook's bytes and signature.
* *Of the fake and its simulated server:* keys, budgets, webhooks and streams, fleet and nodes, the game's
  picture, the commands of the simulation but for a killed box, step mode, a story of several maps.
* *Left out:* the budget (the check and the ledger it reads are two reads of one store; its race is in
  section 6), the sim provider (a server played in the process), selection (a pure ranking), keys
  (CRUD), match configuration and the MatchZy door (pure mappings), rcon (request and answer), routes
  (validation and reads), game watcher and canary (a client of the machine, on a schedule of its own),
  the orderly drain, game logic of the plugins, vendored code, clients, assets, scripts.
