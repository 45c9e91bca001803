# Vitals: a verification of the coordinator, its workers and its dashboard

Vitals is a task queue for demonstrations of failover. A Node.js server keeps
tasks, workers and events in an embedded PostgreSQL; worker processes claim
tasks under leases and acknowledge them; a dashboard mirrors the server over a
WebSocket. This directory holds TLA+ specifications of that program, TLC
configurations that check them on small instances, and TLAPS proofs for every
size. Source paths below are relative to the repository.

Contents: [inventory](#1-inventory), [plan](#2-plan), [modules and
code](#3-modules-and-how-they-correspond-to-the-code), [runs and
bounds](#4-runs), [fairness](#5-fairness), [findings and
divergences](#6-findings-and-divergences), [proofs](#7-proofs), [what is not
modelled](#8-what-is-not-modelled), [how to run](#9-how-to-run).

## 1. Inventory

### Components, their state and their operations

| component | source | state | operations |
|---|---|---|---|
| Task queue | `apps/server/src/repos/tasks.ts`, `routes/tasksRoutes.ts` | table `tasks` | create, claim (batch, `SKIP LOCKED`), extendLease, complete, fail, reassign, retryNow, promoteScheduled, recoverExpired |
| Worker registry | `repos/workers.ts`, `routes/workerRoutes.ts` | table `workers` | register (upsert by name), heartbeat, shutdown, markTimedOut, releaseRunningTasks, deleteOffline |
| Scheduler, reaper | `scheduler/*.ts` | timers | promote due tasks; mark silent workers, then recover expired leases |
| Worker process | `apps/worker/src/{worker,api,index,handlers}.ts` | lease map, abort map, `executing`, `paused` | heartbeat loop, claim loop, executions, stop |
| Event log, bus, hub | `repos/events.ts`, `events/*.ts`, `util.ts` | table `task_events`, ring of the newest, sockets | publish, warm, snapshot on connect, broadcast |
| Snapshot cache | `server.ts` | cached lists | refreshed every second |
| Live store | `apps/dashboard/src/store.ts` | mirror, event ring, mode, timers | connect, poll, reconnect, handle messages |
| Boot, migrations | `embeddedPg.ts`, `db/migrations.ts`, `server.ts`, `index.ts` | data directory, `postmaster.pid`, `schema_migrations` | adopt or boot PostgreSQL, migrate, listen, close |
| Chaos supervisor | `chaos/chaosSupervisor.ts`, `routes/chaosRoutes.ts` | map of children, paused names, counter | spawn, kill, pause, resume, seed, reset |
| Chaos console | `apps/dashboard/src/pages/kit/ChaosPage.tsx` | one flow in progress per button | load test, fencing demo, scenario |
| Metrics | `repos/metrics.ts`, `routes/systemRoutes.ts`, `scheduler/loops.ts` | cached counters, calls under way | several read-only statements per snapshot, a push every second |
| Seed planner, backoff | `packages/core/src/{seed,backoff}.ts`, `seedBridge.ts` | none | pure functions |
| Dashboard pages | `MissionControlApp.tsx`, `pages/kit/*.tsx`, `components/*.tsx` | selection, press under way, hidden workers, timers | bulk reprocess, clear offline, rendering, single API calls |
| Demo scripts | `demo/{scenario,reset}.ts` | the stage of the script | boot a server, seed, poll, conclude |
| Configuration | `config.ts` (both apps) | intervals | parsing of the environment |

### How they interact

* Workers call the server over HTTP with a retry that sends the same request
  again when no answer comes (`api.ts:75-86`): a call may be served twice, and a
  call that was served may look lost.
* Every operation on the tables is one SQL statement in its own transaction. A
  handler that needs several (fail, reassign, shutdown, heartbeat, both ticks of
  the reaper) runs them one after the other, and any other statement may run in
  between. The modules therefore have one action per statement.
* A change of a task publishes an event (an INSERT, a push to the ring, a
  broadcast) and, when the INSERT is answered, emits the update of the task on the
  bus (`after()`, `tasks.ts:325-329`). The answers to INSERTs of different handlers
  arrive in any order.
* A pause reaches a worker in the answer to its heartbeat; a revoked lease too.
* The supervisor starts workers as child processes and knows them by name, the
  registry by an id that belongs to the name, the page by that id.
* A restart of the server keeps the tables and loses the ring, the caches, the
  sockets, the supervisor and every handler that is between two statements.

### What is hard, and what makes each part correct

| part | hard behaviours | properties |
|---|---|---|
| tables and handlers | a decision taken on a SELECT and carried out by a later UPDATE; acknowledgements of former holders; leases that expire but have not been recovered; multi-row statements | one holder, newest lease wins, completion is final, retry budget, no task stuck |
| worker processes | late answers, lost answers, the same task claimed twice by one process, stop in the middle of a claim, crash | lease map agrees with executions, capacity, tasks finish, dead workers are detected, live ones come back |
| feed and dashboard | reordering, ring overflow, gap between snapshot and deltas, restart, one source of data in every mode | feed is what the ring held, polling converges, newest events arrive |
| boot | several processes over one data directory, whatever killed processes left behind | schema complete before the first request, each migration once, a lone boot always succeeds |
| failure detection | heartbeats, leases, calls and ticks with a length of their own; a stalled process that goes on | the healthy are never taken for dead, the dead are detected before their task is recovered, in bounded time |
| pages | a snapshot read by several statements, a press of many calls, timers over stale renders | counters agree, a press does all or says so, who is alive is shown |
| supervisor and console | names and pauses that outlive children, closures that outlive their render, polling through restarts and resets | no child forgotten, no inherited pause, the demo tells the truth and ends |

`PROJECT.json` lists the 40 hazards found while reading, each with its line and
the properties that would notice it.

## 2. Plan

Order in which the modules were, and are to be, written:

| step | module | state |
|---|---|---|
| 1 | `TaskStore`: the tables, one operator per SQL statement | done |
| 2 | `TaskServer`: routes, scheduler, reaper as actions over the store; `TaskLifecycle`: the abstract contract; refinement | done |
| 3 | `TaskServerProofs`: type, consistency, budget, contract for every size | done |
| 4 | `WorkerFleet`: worker processes over the same store | done |
| 5 | `LiveFeed`: events, ring, hub, cache, dashboard | done |
| 6 | `Boot`, `BootProofs` | done |
| 7 | `ChaosConsole`: supervisor, routes, flows of the page | done |
| 8 | `FailureDetection` with a clock, `FailureDetectionProofs`; `SeedPlan`, `DemoScenario` over it | done |
| 9 | `LiveView`, `Metrics`, `DlqPage`, `WorkersPage`, composed by `Dashboard`; `DashboardProofs` | done |
| 10 | `ChaosConsoleProofs`, `LiveFeedProofs` | done |
| 11 | `TaskStoreProofs` split out of `TaskServerProofs`; `WorkerFleetProofs`, with the refinement of `TaskLifecycle` | done |
| 12 | theorems about `DemoScenario` (cascade, truth and time of a PASS) in `FailureDetectionProofs`; the feed of `LiveFeed` | done |
| 12a | failing handlers, retries and dead letters in `FailureDetection`; a killed initdb in `Boot`; a kill that throws in `ChaosConsole`; failing pushes and first registrations in the pages | done |
| 13 | `FailureDetection` as an implementation of `TaskLifecycle`, with a proof | to do |
| 14 | the reset in `LiveFeed` (ring, caches and event ids that come again) | to do |
| 15 | a model of the Tasks page and its timeline; two flows of the chaos page at once | to do |

Composition: `TaskServer` and `WorkerFleet` both extend `TaskStore`, so a
statement is translated once and used with coarse clients (every call at any
time) and with real ones (loops, maps, answers). `LiveFeed`, `Boot` and
`ChaosConsole` abstract the tables to what they need of them. `FailureDetection`
has one row per task and one lease per process, and the clock the others leave
out; `DemoScenario` extends it with the script. `Dashboard` composes the three
pages over `LiveView`. The MC modules only give constants their values.

## 3. Modules, and how they correspond to the code

### TaskStore

`tasks`, `workers` are functions from ids to rows; a row that does not exist has
status `none`, one that was truncated `wiped`. **One operator is one SQL
statement**: its WHERE clause is the guard or the filter, its SET list the new
row. Lease tokens are numbers drawn from `grants`, a counter per task, so a token
also says how new it is. Time is abstracted to what statements compare:
`lease` is `live`, `expired` or `none`, `runAt` is `past` or `future`, `lastBeat`
is `recent` or `old`; the actions `LeaseLapses`, `RunAtPasses` and
`HeartbeatGoesStale` let time pass. `ORDER BY priority DESC ... LIMIT`
becomes the choice of any set of claimable tasks that no left-out task outranks;
`SKIP LOCKED` lets a claim pass over rows a handler holds. Two auxiliary
variables count accepted failures (`failures`) and remember the last
acknowledgement (`acker`) for the properties.

### TaskServer

Every route and both ticks. Handlers with several statements are split, and what
they carry across is kept in a set of requests in flight:

| code | actions |
|---|---|
| `fail()` (`tasks.ts:238-279`) | `FailRead`, `FailWrite` |
| `reassign()` (281-307) | `MoveRead`, `MoveWrite` |
| POST shutdown (`workerRoutes.ts:61-68`) | `StopRead`, `StopRelease`, `StopOffline` |
| POST heartbeat (40-59) | `BeatStart`, `BeatExtend` per lease |
| `Reaper.tick` (`reaper.ts:18-44`) | `ReaperMark`, `ReaperRecover` |
| everything else | one action each |
| the server dies | `Restart`: requests in flight are gone, the boot tick runs |

Clients are unconstrained: any worker id may send any call with any token it
could ever have seen.

### TaskLifecycle

The abstract specification: a task is absent, waiting, held, done, dead or wiped;
leases are numbered by epochs; it is granted to one holder at a time, revoked,
or acknowledged *by the holder of the newest epoch*. `TaskServer!KeepsContract`
instantiates it with the refinement mapping `life` (status to phase, token to
epoch, last acknowledgement). An acknowledgement by a former holder, a
completion that is undone, a lease with an old number are steps it does not have.
The mapping (`LifeOf`, `Contract`) stands in `TaskStore`: `WorkerFleet!KeepsContract`
is the same property of the same rows, with processes and a network around them.

### WorkerFleet

Worker processes with both loops, their maps keyed by task id, and calls that are
sent, served and delivered in separate steps. A call or its answer may be lost
(`MaxLost`), a process killed (`MaxKills`), a task reassigned (`MaxMoves`); a
handler may fail (`MayFail`), a process be stopped (`MayStop`), heartbeats be
paused (`MayPause`). `Timely = TRUE` says that a lease or heartbeat lapses only
when nobody tends it (that the intervals of `config.ts` leave room for that is
shown in `FailureDetection`),
`FALSE` lets it lapse at any time, which is what a stalled process looks like.
An execution is a record (task, token it was started with, stage, aborted); the
lease map is `task -> token`, as in `api.ts:38`, which is the point of
`AckOfItsExecution`.

### LiveFeed

Changes of tasks in the table, publication (change, INSERT answered, announce),
the ring with its capacity, `warm()` at a boot, the refreshed cache, the hub's
snapshot, the socket as a FIFO queue, polling with answers in flight, and the
dashboard's mirror and mode. `version` numbers the changes of a task. `MaxInserts`
is the size of the connection pool (`pool.ts`: 12): as many INSERTs of events are
under way at a time, and as many events may overtake one another.

### Boot

`startServer()` step by step for several processes over one data directory:
probe of the port, removal of `postmaster.pid`, initdb, postmaster, migrations
statement by statement with their transaction, listening, recovery, close; kills
of processes, of postmasters and of initdb at any point. Operators `Pg...` model
the external PostgreSQL by what `embeddedPg.ts` relies on: lock file, port,
transactional DDL, unique key of `schema_migrations`. initdb writes files before
`PG_VERSION`, and `PG_VERSION` before the rest: `cluster` is absent, bare, partial or
ready. Killed between, it leaves a directory initdb refuses (bare), or one that is
started although it is incomplete (partial); no later boot succeeds over either
(`TROUBLESHOOTING.md:9`: remove it by hand). `AloneBootServes` therefore speaks of
whatever *else* was left behind, and section 6 lists `KilledInitIsRepaired`.

### ChaosConsole

`counter`, `managed`, `paused` are the fields of `ChaosSupervisor`; `life` the
processes of its children, told apart by boot and number; `row` the rows their
names have; `flow` the flow of the page with the snapshot its click handler
closed over (`known`, `online`). `killWorker()` takes the entry out of the map before
it kills (`chaosSupervisor.ts:71-81`); a child whose `kill()` throws lives on, in no
map, and is remembered in the auxiliary `spared`. Whatever is not the flow (other clients, crashes,
resets, restarts, slow leases) is an action of its own. One flow runs at a time:
the effects of another one on workers are those of the calls anybody may make.
The scenario ends in `stages`: the interval of `ChaosPage.tsx:223-234` looks at
`feed` of the click's render, which holds no event younger than the click.

### FailureDetection

The same processes with a clock. Every timer is an age; `Tick` makes everything
older by one unit unless something is due (`BeatLimit`, `ClaimLimit`, the sweep,
the end of a call that takes at most `Delay` each way, of a handler that takes at
most `Work`). A process is steady, stalled (the event loop stands still, or the
machine sleeps), or dead; ticks of the reaper may fail `Skips` times in a row.
`TimingAssumption` is what the intervals must satisfy; nothing in the code
compares them. The defaults (1.5 s, 5 s, 7 s, 1 s) satisfy it with calls of up to
one second each way.

How a handler ends depends on the type of its task and on the attempt (`Kills`,
`Fails`, `Slow`, from `handlers.ts`): only `demo.sleep` and the killing attempt of
`demo.crash` take time. Served, an acknowledgement completes the task, sends it back
as `retrying` until its `Backoff` has passed, or makes it a dead letter
(`tasks.ts:263-279`). A lease of a failed task may be named by a heartbeat that is
under way when the task is claimed again; `RetryAssumption` (a backoff longer than
three times `Delay`) says that it is not, and the default of one second satisfies it
with calls of up to a third of a second.

### SeedPlan, DemoScenario

`PlanSeedMix` and `CapCrashes` are `planSeedMix()` and the cap of
`seedTasksDeterministic()` as functions of the draws of the generator; the
`failUntilAttempt` of a payload is part of the name of its type.
`DemoScenario` is `demo/scenario.ts` over `FailureDetection`: seed, list the
crash task, poll (at least once a unit), and conclude `pass`, `fail` (deadline) or
`abort`.

### LiveView, Metrics, DlqPage, WorkersPage, Dashboard

`LiveView` holds what the pages share: a socket that is there or not and a budget
of troubles. An announcement follows its statement in one step and a message
arrives when it is sent; the order of announcements is free, and `LiveFeed` takes
the rest apart.

* `Metrics`: `metrics()` is two reads (`dead`, then `failed`) by any number of
  calls under way: refreshes, pushes of the loop (which may fail and then send
  nothing, `loops.ts:16`), polls. A call is in the state from its first statement
  on; what precedes it reads nothing. `cached` is
  `metricsCache`, `counters` the mirror. `owed` counts the dead letters whose
  event was missing when the rows were counted.
* `DlqPage`: the selection, `reprocess()` with one call at a time, other clients,
  lost answers, restarts, resets. `left` is what the press has not done yet.
* `WorkersPage`: rows, announcements, `clearOffline()` with its stale render, the
  ids it hides and the timeouts that show them again. An id that was never used is
  `fresh`: `Register` upserts a row, or inserts one under a fresh id when the name has
  none. A clear whose DELETE is committed may still answer 500, when the INSERT of its
  event fails (`workers.ts:158-160`): `AnswerClearFails`.
* `Dashboard`: one page is open and stays open. The three pages read disjoint
  parts of the snapshot and share no call, so nothing one of them does is seen by
  another; keeping one open at a time leaves out no interaction.

## 4. Runs

| run | module, cfg | instance | distinct states | what it shows |
|---|---|---|---|---|
| task_server | MCTaskServer, TaskServer.cfg | 1 task, 2 workers, 3 leases, 2 requests in flight, symmetry of workers | 672 k | every interleaving of two split handlers with all statements; contract and invariants |
| task_server_live | TaskServerLive.cfg | 2 tasks of different priority, 1 worker, 2 leases each, 1 request | 105 k | multi-row statements; nothing stuck, waiting tasks offered and never withdrawn |
| reassign_holder | ReassignHolder.cfg | as task_server | violation | finding 1 |
| fleet_one | MCWorkerFleet, FleetOne.cfg | 1 process, capacity 1, one lost call, crash, reassignment, stop, pauses, late lapses | 141 k | maps, executions and rows agree; capacity; the contract; live worker online, dead one detected |
| fleet_live | FleetLive.cfg | 2 processes, 1 crash, failing handlers, 4 leases | 208 k | tasks finish |
| fleet_zombie | FleetZombie.cfg | capacity 2 | violation | finding 2 |
| feed | MCLiveFeed, Feed.cfg | 2 changes of 1 task, 2 INSERTs under way, ring 2, snapshot tail 1, feed 2, two disconnects or restarts, silent changes, failing INSERTs | 216 k | feed follows the ring, ring holds the log, one source; polling converges, events arrive |
| feed_stale | FeedStale.cfg | 1 change | violation | finding 3 |
| boot | MCBoot, Boot.cfg | 2 processes on one HTTP port, 2 kills (of a process, a postmaster or initdb) | 8.8 k | schema, migrations, lone boot serves |
| console | MCChaosConsole, Console.cfg | 2 boots, 1 initial worker, 2 names per boot, 2 polls, 2 troubles, kills that throw | 717 k | supervisor and fencing demo |
| scenario | MCDemoScenario, Scenario.cfg | 2 tasks with 2 attempts each, 2 workers (symmetric), smallest intervals, a handler longer than a lease, one stall, kill or failed sweep | 2.2 M | failure detection in time; the script passes exactly after a recovery, and in time |
| dashboard | Dashboard.cfg | 2 tasks, 2 workers, 2 refreshes, 1 push and 1 poll of the counters, 2 calls of a clear or timers, 2 announcements due, 2 troubles | 1.4 M | counters agree and catch up, bulk press is whole, who is alive is shown |

Why the bounds are enough:

* *One task, two workers, three leases.* A stale acknowledgement needs an old
  lease, a new one and a holder that differs; a third lease lets the new one be
  lost too. Tasks interact only through batch claims, multi-row statements and
  `ORDER BY`, which the two-task run has.
* *Two requests in flight.* Any two split handlers overlap; a third adds only a
  statement between two others, which another client's call already does.
* *MaxAttempts* is 2 for the first task and 1 for the second: retry, last
  attempt and dead letter are all reached.
* *Ring of two, two INSERTs at a time*: two events may overtake one another. The
  dashboard keeps more (2) than a snapshot sends (1), as in the code. The ring
  overflows with `MaxVersion = 3`: the safety properties were also checked with
  that (`MaxDrops = 1`, 3.0 M states) and with two tasks of one change each, and they
  are proved for every size. One poll is under way at a time (`MaxReads = 1`).
* *Smallest intervals in `Scenario`*: `Beat = Silence = Lease = Sweep = 1` with
  `Delay = 0` meets `TimingAssumption` with equality, so every bound is tight; the
  handler (2) outlives a lease, so heartbeats must keep it. Longer delays are
  covered by the proofs. Draws 8 and 9 give a task that always fails and a crash task:
  a retry and a dead letter compete with the recovery for the workers. `Deadline = 11`
  is the least for which `PassesBeforeDeadline` is proved (section 7).
* *Dashboard*: a press over two tasks may break off in the middle; two refreshes of
  the counters overlap, beside a push and a poll (two overlapping pushes, and two
  overlapping polls, were checked with `MaxRefreshes = 1` in the same way, 1.3 M
  states); a worker is offline in the render and online in the table; two troubles
  are a death and a restart, a reset and a lost socket, and so on.
* *Two processes in `Boot`* give every race of a pair. The safety properties
  were also checked with `Procs <- ThreeProcs` (two HTTP ports, 693 k states).
* *Two troubles in `ChaosConsole`*: an inherited pause needs two (pause, reset),
  a shared name one (restart). `LoadWanted` is 3 in the code; the run takes 2 so
  that the load test also gets past its loop, when enough workers are online at
  the click. Above `MaxSpawns` a spawn of the load test still succeeds, the child
  is just not told apart.
* At capacity 2 with two tasks (`FleetOne.cfg` with `Capacity = 2`,
  `Tasks <- TwoTasks`, `MaxLost`, `MaxKills`, `MaxMoves` 0, no failures, stops
  or pauses, `Spec`, only `ExecutionsBounded`), 616 k states, the capacity is
  kept as well.

Deadlock is checked except in boot (processes end) and console (boots, troubles
and clicks are used up, a scenario never ends): there the model really may stop.
The script of `DemoScenario` ends as well; what its process does afterwards is the
one stutter `Over`, so that a deadlock before its verdict is still noticed.

Each property of a passing run has a mutant in `PROJECT.json`: a plausible slip
in a mapped definition (a dropped comparison of the token, an inverted
comparison, a missing reset, a requeue at a later moment, ...) under
which the property fails in that very run.

## 5. Fairness

| module | weakly fair | why the code does it | owes nothing |
|---|---|---|---|
| TaskServer | both ticks, passing of time | `setInterval` timers of `scheduler/loops.ts`; the clock of the database | clients, the operator, restarts |
| WorkerFleet | loops, executions and stop of a live process, ticks, lapse of neglected leases and heartbeats, first start of a process | `while (this.running)` loops that sleep a bounded time and catch errors; handlers of the demo end; HTTP answers come or are lost | operator, lost calls, crashes, resumption of a pause |
| LiveFeed | publication, refresh, browser callbacks, polling answers, reconnection | INSERTs are answered, timers of `server.ts` and `store.ts` fire | new changes, disconnects, silent changes |
| Boot | the steps of a process and of the PostgreSQL it started | statements and connection attempts are answered | kills, further processes |
| ChaosConsole | the steps of the flow | timers of an open page fire, fetch answers or rejects | workers, leases, the server, everybody else |
| Dashboard | event INSERTs, refreshes, pushes and polls of the counters; announcements, the refresh of the workers, the call of a clear, its timer, the heartbeat of every online process; each while its page is open | statements are answered, `setInterval` and `setTimeout` fire, a live process beats | clicks, sockets, deaths, resets |
| FailureDetection, DemoScenario | none: "in time" is a bound on a clock, hence safety | `Tick` may not pass what is due | stalls, kills, failing sweeps |

Only weak fairness is used. Some liveness properties have premises of their own,
written in the formulas and not in the specification: `NoTaskStuckRunning`
assumes that restarts end (`ServerStaysUp`) and that nobody extends the lease
any more (`HeartbeatsCease`), `AloneBootServes` that no other process runs and
nothing is killed meanwhile, `PollingConverges` that the dashboard stays
disconnected, `EventsArrive` that it stays connected. These two are about
the state after the last change; changes are bounded by `MaxVersion`.
`AliveIsShown` assumes that the worker stays online and the socket open.
`CountersCatchUp` is about what follows the last trouble (`MaxTroubles`), since
the model, like an operator, runs out of them.

## 6. Findings and divergences

Findings, each shown by a run that expects the violation:

1. **reassign() may take a task from a worker nobody named**
   (`tasks.ts:287-300`). The comment promises null when the current worker
   is not `fromWorkerId`; the comparison is made on a SELECT, the UPDATE
   repeats only `status='running'`. (`reassign_holder`)
2. **A zombie write is accepted** (`api.ts:132`). Leases are looked up by task
   id when the handler ends. A process of capacity 2 that lost a lease and
   claimed the task again acknowledges the first execution with the second's
   token. `README.md:61` excludes zombie writes. (`fleet_zombie`; at capacity 1,
   which the supervisor uses, `fleet_one` shows it cannot happen)
3. **A connected dashboard may stay stale** (`hub.ts:14`, `server.ts:94-124`).
   The snapshot's tasks are up to a second old, deltas start now.
   (`feed_stale`)

Further statements of the documentation the code does not keep. The properties
are defined in the modules and were seen to fail; adding the line to the cfg
named shows it again:

| property | add to | statement | what happens |
|---|---|---|---|
| DeadLetterAfterFailures | TaskServer.cfg INVARIANTS | API.md:13 | lost leases count as attempts: a task whose earlier leases were lost is dead-lettered by fewer failures |
| ShutdownLeavesNothing | FleetOne.cfg INVARIANTS | API.md:195 | a claim served after the release leaves the exiting process a task until its lease expires |
| CutIsOffline | FleetOne.cfg PROPERTIES | API.md:246-247 | "paused" is told in the answer to a heartbeat that refreshed the row: the worker stays online, it only stops claiming |
| MovedIsExecuted | FleetOne.cfg PROPERTIES | tasks.ts:99-100 | nothing delivers a reassigned lease to the worker it names; it runs out |
| EveryChangeLogged | Feed.cfg INVARIANTS | README.md:84 | promotion, release and status changes publish no event; an INSERT may fail |
| RingInOrder | Feed.cfg INVARIANTS | API.md:313 | answers to INSERTs arrive in any order |
| RemovesStalePidFileOnly | Boot.cfg PROPERTIES | embeddedPg.ts:40 | a postmaster writes its lock file before it opens its port; a process that probes in between removes the file of a live postmaster |
| KilledInitIsRepaired | Boot.cfg PROPERTIES | embeddedPg.ts:44 | `PG_VERSION` is taken for a complete cluster: after a killed initdb no boot succeeds until the directory is removed by hand, as TROUBLESHOOTING.md:9 asks |
| EventsShown | Feed.cfg PROPERTIES | README.md:84 | `useEventFeed` (`store.ts:168-178`) is told of events, not of a snapshot: what a reconnection brought shows when the next event comes |
| PressGoesThrough | Dashboard.cfg PROPERTIES | README.md:42 | a press that broke off leaves the tasks it has reprocessed ticked; the next press sends them again, gets a 409 and breaks off before the others |
| HiddenIsDeleted | Dashboard.cfg INVARIANTS | WorkersPage.tsx:46 | the page hides who was offline in its render, the server deletes who is offline in the table |
| ClearedStaysAway | Dashboard.cfg PROPERTIES | WorkersPage.tsx:52 | no snapshot comes to a connected dashboard: cleared workers are listed again after four seconds |
| LoadTestStarts | Console.cfg PROPERTIES | ChaosPage.tsx:60-63 | the loop tests the `online` of the render the handler belongs to: with fewer than three workers online at the click, and a boot gives two, it deploys workers for ever |
| ScenarioEnds | Console.cfg PROPERTIES | ChaosPage.tsx:222 | the stages read the feed of the click's render: stage 2 is never reached and the button stays busy |
| KillsOnlyHolder | Console.cfg PROPERTIES | API.md:238 | children outlive a server (neither `close()` nor a crash kills them), the next one counts from 1 again: two processes share a name and a row, the kill hits the wrong one. Holds with `MaxBoots = 1` |

Remarks that are not properties of a model:

* `dbNeedsCreation` (`embeddedPg.ts:85-88`) looks for `3D000` in the message,
  where PostgreSQL does not put it, and the URL names database `postgres`
  anyway: the CREATE DATABASE branch is not reached.
* The pool has no `error` listener: an idle client that loses its connection
  ends the process (`Boot!LosePool`).
* `ChaosPage.tsx:166` replays a token nobody was ever given, so the 409 it shows
  would also come if the lease had not changed; what the demo shows rests on
  `ReassignedIsReclaimed`, and the fence itself on `KeepsContract`.
* `killWorker()` (`chaosSupervisor.ts:71-81`) answers true for a child whose `kill()`
  threw; the child is in no map any more, so no later kill, reset or pause by name
  reaches it (API.md:238, 275).
* Clients that connect between `listen` and the first refresh (`server.ts:138`,
  151) get an empty snapshot.
* The tick at a boot (`server.ts:148`) marks as offline every worker whose
  heartbeats the server could not take while it was down; `heartbeat` brings it
  back.
* Nothing compares the intervals of `config.ts`; `TimingAssumption` says what they
  must satisfy for a healthy worker never to be taken for dead.
* `s.queue` of the mirror is set by a snapshot only: the queue depth of the
  Overview stands still between connections.
* `pollOnce` (`store.ts:73-86`) fetches tasks and counters, never workers, and does
  not look at `r.ok`: the Workers page is frozen while polling.
* After a reset a connected dashboard keeps the deleted rows until it reconnects.
* The Tasks page (`TasksPage.tsx:30-31`) orders the stages of a task as they stand
  in `FLOW`, not as they came: a task recovered before it was retried shows
  `RECOVERED` last.
* "Covers every dead-lettered task" (`systemRoutes.ts:34`): the report lists at
  most 1000, the DLQ page those among the newest 200 tasks.
* "capacity 2 each" (`scenario.ts:35`): the supervisor gives capacity 1
  (`chaosSupervisor.ts:47-48`).
* "attempt unchanged" (`README.md:38`, 57): the recovery leaves the counter, the
  claim that follows increments it.

## 7. Proofs

TLAPS proves, with no bound on tasks, workers, processes, leases, requests,
intervals or calls:

| module | theorem | states | run that checks it small |
|---|---|---|---|
| TaskServerProofs | TypeCorrect | `Spec => []TypeOK` | task_server |
| | RowsConsistent | `Spec => []LeaseConsistent` | task_server |
| | FailDecides | `Spec => []FailDecisionFresh` | task_server |
| | BudgetKept | `Spec => []RetryBudget` | task_server |
| | LeaseIsHolders | `Spec => LeaseKeptByHolder` (a step property) | task_server |
| | ContractKept | `Spec => KeepsContract` (refinement of TaskLifecycle) | task_server |
| WorkerFleetProofs | TypeCorrect | `Spec => []TypeOK` | |
| | CapacityKept | `Spec => []ExecutionsBounded` | fleet_one |
| | ContractKept | `Spec => KeepsContract` | fleet_one |
| | OwnLease | at capacity 1, `Spec => []LeaseOfExecution` | fleet_one |
| | NoZombieWrite | at capacity 1, `Spec => []AckOfItsExecution` | fleet_one |
| FailureDetectionProofs | HealthyOnline | `Spec => []HealthyStaysOnline` | scenario |
| | HealthyLease | `Spec => []HealthyKeepsLease` | scenario |
| | Recovery | `Spec => []RecoveredInTime` | scenario |
| | DetectionFirst | `Spec => DetectedFirst` (a step property) | scenario |
| | DemoIsDetection | `SSpec => Spec`: the demo is a run of the timed system | |
| | CrashesAreCapped | `SSpec => []NoCascade` | scenario |
| | PassTellsTheTruth | `SSpec => []PassIsRecovery` | scenario |
| | PassesBeforeDeadline | for one crash task, two workers or more, two attempts or more and `Deadline >= Last + 2`, `SSpec => []PassesInTime` | scenario |
| LiveFeedProofs | TypeCorrect | `Spec => []TypeOK` | |
| | SourceIsOne | `Spec => []OneSource` | feed |
| | RingIsTail | `Spec => []RingHoldsLog` | feed |
| | FeedIsTail | `Spec => []FeedFollowsRing` | feed |
| DashboardProofs | TypeCorrect | `Spec => []TypeOK` | dashboard |
| | CountsAreOrdered | `Spec => []CountsOrdered` | dashboard |
| | BulkIsDone | `Spec => []BulkIsWhole` | dashboard |
| ChaosConsoleProofs | NoneForgotten | `Spec => []NoChildForgotten` | console |
| | BornUnpaused | `Spec => NeverBornPaused` (a step property) | console |
| | ReassignedTruly | `Spec => []ReassignedIsReclaimed` | console |
| BootProofs | TypeCorrect | `Spec => []TypeOK` | |
| | SchemaServed | `Spec => []SchemaBeforeServing` | boot |
| | AppliedIsRecorded | `Spec => []RecordedIffApplied` | boot |
| | AppliedOnce | `Spec => []EachMigrationOnce` | boot |

Assumptions: the named ASSUMEs of the modules, which TLC evaluates on every run
(`NoWorker` is no worker, tasks are finitely many, every task has at least one
attempt, ports are a function on processes, bounds are naturals), and
`TimingAssumption` and `RetryAssumption` for the theorems of `FailureDetection` and of
the demo, whose tasks are numbered from 1. `OwnLease` and
`NoZombieWrite` assume `Capacity = 1` in their statements, because they fail
otherwise (finding 2).

**TaskStoreProofs** holds what any client of the tables may use: `StoreInv` (types,
and `RowOK` for each task: `Consistent`, running iff token iff lease, token = newest
grant, worker set or not by status; `Budgeted`, failures bounded by attempts and by
maxAttempts, strictly while running). Its lemmas go from rows (`LeasedOK`,
`RequeuedOK`, ...) to statements (`ClaimKeeps`, `RecoverKeeps`, ...) to any step of
the store: `StoreStepKeeps` (the invariant), `StoreStepSteady` (attempts and grants
of a row move together), `StoreStepLegal` (each task makes a step of the contract or
none), `OthersReviveNone` (no statement but an extension brings an expired lease back
to life).

**TaskServerProofs** relates the actions of `Next` to statements
(`ActionsAreStatements`). The properties are not inductive by themselves: `fail()`
decides on a fresh attempt only because a token in flight is never newer than
`grants`, which is what `Fresh` adds for each `fail()` in flight.

**WorkerFleetProofs** does the same for the processes: a heartbeat refreshes rows
and extends leases (`Refreshed`), every other action is one store step or none. `Slots`
bounds the executions of a process together with the batch of its claim under way, so
that the answer of a claim never exceeds the capacity. For `Capacity = 1` the
invariant is `Owned`: an execution at work finds its own entry in the abort map, and
its own token in the lease map unless it was aborted; it holds because a process with
one slot never receives a lease while it executes. At capacity 2 it does, which is
what `fleet_zombie` shows.

**FailureDetectionProofs.** The invariant bounds the age of a row's last heartbeat
(`SilenceBound`) and of a lease (`LeaseBound`) by the phase of the heartbeat loop and
the age of that phase; `TimingAssumption` turns these bounds into "below the
timeout". A lease that ended by an acknowledgement of its own process may still be named
by a heartbeat: `Closed` and `Settled` say that its task has then failed or finished so
recently (`Trail`, at most three `Delay`) that by `RetryAssumption` nobody can have
claimed it again. `Watched` and `Mourned` bound the same ages from the other side for a
process that is dead, and `Swept` the time since the last tick of the reaper that
succeeded, which gives `RecoveredInTime`. That a dead worker is marked before its task
is recovered needs `Silence + 2 * Delay <= Lease`.

About the demo the same module proves `DemoInv`. *Who dies*: `CapHolds` says that the
cap of `seedBridge.ts` lets at most `CrashCount` crash tasks pass, whatever is drawn;
`CrashInv` that whoever died of one names the lease of its first attempt (`Fatal`), and
`LeaseInv` that a lease has one process. So the dead that were not killed map one to
one into the crash tasks. *What a PASS means*: a row is recovered only when its lease
lapsed, which a process that is neither dead nor stalled never lets happen
(`HealthyKeepsLease`), hence, as crash tasks never fail, a second attempt of one
means that the first died (`RecoverInv`);
`PassInv` adds what the script has seen. *When it comes*: as long as nobody kills from
outside, `OnTime` adds up the time elapsed and what each phase may still take: the turn
of a steady worker (`Turn`) and one `Cycle` for each attempt, of any task, that no claim
has taken yet (`Load`) until a claim takes the crash task; what the first holder has
`Spent` until its lease is recovered; what its second holder has `Left`. A tick moves one
unit from one side to the other; a claim takes a `Cycle` off `Load`, whether its task
completes, is retried or becomes a dead letter, and no step adds one. `BudgetInv` says that
what waits has an attempt left. The last moment is

    Cycle = 4 * Delay + Poll
    Lost  = 2 * Delay + Work + Lease + Sweep * (Skips + 1)
    Full  = Cardinality(Tasks) * MaxAttempts * Cycle
    Last  = Full + Lost + 2 * Delay

and `Deadline >= Last + 2` leaves the two units in which the script looks. `Work` is in
`Lost` alone: of the handlers that run here only the killing attempt of a crash task takes
time. The other hypotheses are what the demo is: one crash task, a second worker and a
second attempt to finish it. With the defaults (24 tasks of 3 attempts, polls of 0.4 s, a
crash after 0.8 s, a lease of 7 s, a sweep per second, none of which fails) `Last` is 28.8 s + 8.8 s =
37.6 s with calls that take no time, and 52.2 s with calls of up to 50 ms each way: the
deadline of 60 s is met. The bound counts one worker doing everything and every task using
all of its attempts, hence is not tight. For the instance of Scenario.cfg `Last` is 9, and
`Deadline = 11` is the bound itself.
That the script has seen the first attempt in time rests on `VictimInv`: no lease ends
within the unit it was granted in, and the script polls in every unit.

**DashboardProofs.** One invariant per page. Counters: every snapshot that is read, on
its way or shown is `Ordered`, which each second read keeps because of `DeadCovered`
(every dead letter has its event, or it is due, or `lost`); `Spent` bounds them all.
Press: `Undone` says that what is left to do is still to be sent, or that the press has
broken off and says so. Clear: `Room`, its timer finds room.

**ChaosConsoleProofs.** `SupervisorInv`: `NoChildForgotten` itself, and no number above
the counter is in the map, among the paused or a process of this server, which gives
the first two theorems; the first but for the children in `spared`. `FlowInv` follows the fencing demo from step to step:
what it has seen of the task is overtaken only by a newer claim, or by a wipe.

**LiveFeedProofs.** `RingInv` adds to the tail property that no event is written twice
(`LogOnce`, `RingOnce`); `RingNew` that an event of the ring was overtaken by fewer than
`MaxInserts` older ones, which are behind it in the ring or not announced yet, and
hence that an event a full ring has let go has enough newer ones there.
`FeedInv` says what a socket carries since it was attached:
pairs of an event and its update, after a snapshot or half a pair (`Pairs`), and that
the feed of the page, or of the snapshot, extended by those events ends like the ring
(`Agree`). The property lists the events by an increasing function instead of a filter
of the sequence, because what a filter keeps could not be reasoned about.

**BootProofs.** `IInv` adds `Recorded` (names, schema and
commit counts agree), `TxOK` per process (what its transaction holds at each control
point, and that what it has passed is recorded) and `Exclusive` (no two open
transactions hold the same DDL or name, the interlock of PostgreSQL).

Every safety property that a passing run checks is stated by one of these theorems.
Only model-checked is liveness, which is out of the prover's reach with fairness and
ENABLED: `NoTaskStuckRunning`, `WaitingTaskOffered`, `RunningIsOnline`,
`DeadIsDetected`, `TasksFinish`, `PollingConverges`, `EventsArrive`, `AloneBootServes`,
`FencingEnds`, `CountersCatchUp`, `AliveIsShown`.

## 8. What is not modelled

* The Tasks page, the rest of the Overview and the reports: they render the mirror or
  one query and keep no state a second actor can see.
* Of `metrics()`, all counters but `dead` and `failed`, and completed-by-worker: each
  is one more read-only statement of the same snapshot. An answer with status 500 to
  a poll.
* Of the seed planner the generator (32-bit hashing), of the backoff its jitter: its
  length is a constant of `FailureDetection`, a task that is due elsewhere.
* Rendering, logging, static files, CORS, the parsing of the environment.
* In `TaskStore`: payload, result, error text, type, timestamps, capacity and
  metadata of rows, which no statement compares. A statement that fails is
  modelled for event INSERTs (`LiveFeed`), failing sweeps (`FailureDetection`) and the
  calls of the pages.
* Clocks that differ: `run_at` and `promoteScheduled` take the server's
  (`tasks.ts:263`), leases and claims the database's. They are taken to agree.
* In `LiveFeed`: worker and metrics messages (`Metrics` and `WorkersPage` have them),
  the reset, the length of the reconnection delay, polls of the tasks that overlap in a
  run (`MaxReads = 1`).
* In `FailureDetection`: retries of calls, restarts of the server, more than one
  lease per process.
* In `Boot`: an external `DATABASE_URL`, the timeout of a slow answer in
  `tcpAlive()`, the branch that creates a database.
* In `ChaosConsole`: seeding (`DemoScenario` has it), the chart of the load
  test, two flows at once, the claim that was sent before a pause was known.

## 9. How to run

    tlc -config TaskServer.cfg MCTaskServer        # and so on, see section 4
    tlc -config Scenario.cfg MCDemoScenario
    tlc -config Dashboard.cfg Dashboard
    tlapm TaskServerProofs.tla                     # and every other *Proofs.tla

The longest runs (dashboard, scenario) take about three minutes on two cores, each
proof module a few minutes from nothing.
