# A verification of expresto-server in TLA+

expresto-server (`src/`) is a Node.js framework around Express 5: one call of
`createServer()` sets up configuration, logging, lifecycle hooks, an event bus,
a service registry, a job scheduler, security, controllers and an optional
Socket.IO server, and a command line starts it in a single process, in a
cluster of worker processes, or as a scheduler alone. JavaScript runs one
callback at a time, so the interesting interleavings are those of promises:
everything between two `await`s is atomic, and anything may happen at an
`await`. The cluster adds real processes, signals and messages.

The models below follow the source; where a document and the source differ, the
source is modelled, and the difference is a run that is expected to fail or is
named under Findings.
`PROJECT.json` lists the runs, the mutants that show that each property can
fail, the source lines of every definition, the findings and the hazards.

## Inventory

| Component | State | Operations | Model |
|---|---|---|---|
| cluster primary, `src/src/lib/cluster/runtime.ts`, `context.ts`, `runtime-cli.ts` | slots (ordinal, restart count, leader mark, worker), `workerToSlot`, `readySlots`, `readyPromise`, `shuttingDown` | `start`, events `listening` / `message` / `exit`, `shutdown`, `performShutdown`, `waitForWorkerExit`, `flushLogger` | `ClusterPrimary` |
| worker process, `index.ts`, `runtime-cli.ts` | phase, attached scheduler, port | bootstrap, `listen`, ready message, shutdown | `ClusterPrimary` |
| scheduler, `src/src/lib/scheduler/scheduler-service.ts`, `runtime.ts` | `tasks` by name, `running` flag of each, timers | `init`, `register`, `scheduleTimeout`, `cancel`, `cancelAll`, ticks, `startScheduler`, `stopScheduler` | `SchedulerService` |
| service registry, `src/src/lib/services/service-registry.ts` | a Map of services | `register`, `set`, `remove`, `delete`, `shutdownAll` | `ServiceRegistry` |
| end of a process, `src/src/index.ts` `shutdown`, `onFatal` | HTTP server, running shutdowns, timers | signals, fatal errors | `RuntimeShutdown` |
| event bus, `src/src/lib/events.ts` | exact, namespace and wildcard handlers | `on`, `once`, `off`, `onNamespace`, `onAny`, `emit`, `emitAsync`, `runHandler` | `EventBus` |
| request path, `index.ts`, `security-provider.ts`, `monitoring.ts`, `otel.ts` | layers of the app, gauge, span, `req.auth` | middleware, guards, hooks, error handler | `RequestPipeline` |
| start of a process, `src/src/index.ts` `createServer` | layers of the app, configuration, `runtimeServer`, `wsManager`, timer of the error handler | its steps, `app.listen`, callbacks of hooks | `RuntimeBootstrap` |
| lifecycle hooks, `src/src/lib/hooks.ts` | callbacks by hook | `register` / `on`, `emit` | `RuntimeBootstrap`; SHUTDOWN in `RuntimeShutdown`, SECURITY in `RequestPipeline` |
| controller loader and route registry, `src/src/lib/controller-loader.ts`, `routing/route-registry.ts` | registered routes, mounted routers, conflicts | `load`, `registerSimpleRoute`, `initializeController`, `detectConflicts` | `ControllerLoading`; the guard of a route in `RequestPipeline` |
| WebSocket manager, `src/src/lib/websocket/websocket-manager.ts` | Socket.IO server, `data.auth` and `data.context` of sockets | handshake, connection events, `shutdown` | `WebSocketSessions` |
| ops endpoints, `src/src/core/ops/` | none of their own | readers of routes, services, configuration, logs | their guard in `RequestPipeline`, `/__routes` in `RuntimeBootstrap` |
| configuration, logging, errors, `cli.ts`, sample jobs | none of interest | validation, wiring | not modelled |

How they interact:

- The primary forks workers with their ordinal and a leader mark in the
  environment; each worker runs `createServer()`, and only the leader's
  `startScheduler()` starts the attached jobs. Workers report through the
  cluster's `listening` event and a ready message; the primary answers with
  SIGTERM, SIGKILL and `process.exit()`.
- `startScheduler()` puts the scheduler into the registry; `shutdown()` stops it
  first, then emits the SHUTDOWN hook, then calls `shutdownAll()`, then closes
  the HTTP server, which the WebSocket service may have closed before.
- Guards emit authorize events on the event bus and run SECURITY hooks; the
  error handler emits events and answers.
- `createServer()` emits the lifecycle hooks between its own steps. A callback gets
  the app, the registry and the configuration object itself, and may use and
  change all of them while `createServer()` waits for it, or keep them for later.
- The controller loader enters routes into its table one by one and mounts whole
  routers; the registry gets a copy of the table, which `/__routes` answers with.
- `app.listen()` creates the WebSocket manager on its server. The manager verifies
  tokens, calls the guards that the application added to Socket.IO, and reports the life of each
  session on the event bus; its `shutdown()` closes the HTTP server too.

What makes them hard, by component, is the list of hazards in `PROJECT.json`:
late events of exited workers, respawn of the leader, limits reached during a
shutdown; flags read before an `await` and set after it; names reused while an
old callback still runs; Maps and Sets iterated live across awaits; runs of
`shutdown()` that overlap; timeouts that race what they guard; listeners that
fail while errors are being reported; connections that break under a handler;
a configuration that changes after it was validated; controllers that fail half-way;
clients that leave, and servers that close, in the middle of a handshake.

## Modules

| Module | What it models |
|---|---|
| `SchedulerOwner` | abstract: at most one process owns the scheduler, and ownership never returns to a process that lost it |
| `ClusterPrimary` | the primary, its workers, and the events and signals between them; implements `SchedulerOwner` |
| `SchedulerService` | one scheduler, its cron tasks, timeouts and callbacks |
| `ServiceRegistry` | the registry and any number of calls of `shutdownAll()` |
| `RegistryConstants` | the constants of `ServiceRegistry` and of what instantiates it, with their assumption |
| `RuntimeShutdown` | runs of `shutdown()` over an instance of `ServiceRegistry` |
| `EventBus` | subscriptions, emissions and the reporting of listener errors |
| `RequestPipeline` | requests on their way through the Express stack |
| `ControllerLoading` | the loader: files, the table of routes, mounted routers, conflicts |
| `RuntimeBootstrap` | `createServer()`, hooks and `app.listen()`; extends `ControllerLoading` |
| `WebSocketSessions` | handshakes, sessions and shutdowns of the WebSocket manager |
| `MC...` | the systems for TLC: values for constants that a cfg cannot write |
| `...Proofs` | the inductive invariant of the module it is named after, and the theorems about it; `RuntimeBootstrapProofs` covers `ControllerLoading` too |

An action stands for a handler from one `await` to the next. Some conventions:

- **ClusterPrimary.** Worker ids count the forks. `events` holds what
  node:cluster has yet to deliver; it is a set, so deliveries are in any order.
  Events nobody listens for any more are dropped. `onWorkerExit()` is one
  action with its four outcomes as disjuncts; `performShutdown()` is split at
  its awaits into its synchronous part, the race of exits against the timer, the
  SIGKILLs, and the log flush. A worker may crash at any moment, leave through
  `cluster.worker.disconnect()`, or hang for good. `SecondSignal` is the default
  action of a signal once the manager has taken its handlers off.
- **SchedulerService.** Entries (`Scheduled` objects and timers) have an identity
  of their own, the `tasks` map knows names only. Several callbacks of an entry may
  be under way. `stopScheduler()` is one step: what it awaits is already resolved.
  The application calls the service only while the registry hands it out. The phase
  "own" is a service that a caller builds by itself with a `leaderCheck`, which
  `startScheduler()` never passes; only there a tick asks for the leader (`Asks`).
- **ServiceRegistry.** A JavaScript Map is a list of slots that grows at its end;
  deletion empties a slot, `set()` of a present key replaces its value in place,
  and an iterator is a position. Hence `Ahead`.
- **RuntimeShutdown.** Every run of `shutdown()` is a process and makes one call of
  `shutdownAll()` on the instance `Registry`. `exit` is where the process ended:
  "complete" after the last step, "aborted" by the outer catch block, "fatal" by
  the timer of `onFatal()`. `stopScheduler()` calls what is registered as the scheduler,
  which may take its time, fail (`unstopped`: logged, and the run goes on), or be none.
  Anything may delete any name; under `scheduler` and `websocketManager` the framework
  registers before a shutdown, and the application is taken not to do so during one.
- **EventBus.** `onUnhandledListenerError` is set, as `createServer()` does. Exact listeners are copied by an emission, namespace and wildcard
  handlers are iterated live, as Sets keep their order. `heard`, `owed`, `failed`
  and `fallback` are history.
- **RequestPipeline.** Only layers that decide something are in `stack`; `Pass` is
  `next()`. Metrics and telemetry call `next()` at once and are part of `Arrive`.
  A token is a class of the Authorization header. Statuses of errors are those of
  the guards, and 500 for any error of a handler or a hook but a 403. A response is
  "open", "begun" (headers sent), "ended", "finished" (handed over), or "cut" off by
  Express, which does so for errors that come before `errorHandler` is mounted.
  `handler.middlewares`, which stand before the guard of a route, are left out: they
  are the application's, and a request that one of them answers meets no guard.
- **ControllerLoading.** `readdir()` gives files in any order. A route has the fields of
  `ControllerRouteInfo`, with its relative and its full path; one table stands for the list
  of the loader and for its `RouteRegistry`, which hold the same routes. A controller
  fails before its first handler, after any number of them, when it is mounted, or in its
  `init()`. Routes that an `init()` puts on its router itself are in nobody's table, in the
  code as in the model.
- **RuntimeBootstrap.** `phase` is the hook under way or the step between two; `stack`
  names who put each layer on the app. Middleware of packages is the one layer
  "builtin". Of the configuration there is what decides about secrets. A
  callback, once called, may listen, change the configuration, mount layers ("late" once
  it has settled) and withdraw the list of routes at any later time. That somebody replaces the list
  in the registry by one of their own is left out; `/__routes` then answers theirs.
- **WebSocketSessions.** A socket goes through the manager's middleware, the guards
  of the application, and the tick in which Socket.IO decides. `log` holds the
  events about it in order. A guard passes, refuses, throws, or waits; one that
  passes and then throws all the same is left out (the manager's middleware then reports
  `invalid_token` for a socket that connects). `io.close()` is its three steps: sessions and adapters,
  engine and HTTP server, and the callback when the last connection is gone.

Definitions that begin with the comment `Mutant:` are no part of the models:
each is the wrong form of the definition it precedes, and shows that the
property named with it in `PROJECT.json` notices such a mistake.

## Runs

| Run | Instance | What it shows |
|---|---|---|
| `cluster_safety` | 2 workers, 1 restart each, respawn, workers may leave | books, singleton scheduler, readiness, restart budget, kill escalation, refinement of `SchedulerOwner` |
| `cluster_ends` | 2 workers, no respawn, workers may hang or leave, fair | shutdown ends, no worker outlives it, `waitUntilReady()` settles |
| `scheduler` | 2 configured jobs, 2 free names, 3 entries, 2 callbacks each, the service of `startScheduler()` or a caller's own with a job that asks for the leader, fair | the guard, the map, silence after the stop, timeouts free their names |
| `shutdown` | 4 services at boot, 1 more or replaced later, 2 runs, a scheduler, hooks and services that fail, fair | order of the shutdown, complete sweeps, no request cut, a lone run waits, the process ends |
| `events` | 3 subscriptions, 2 handlers, an event and 2 error events | order and completeness of emissions, each error reported once, no chain of errors |
| `requests` | 2 requests, 3 routes, ops, a late and an unknown path | entitlement, one verdict, one answer, one span end, a gauge that never says too little |
| `sockets` | 2 clients, one with any tokens, 2 shutdowns, a packet each, fair | authentication, true events, no session after a shutdown, every handshake decided |
| `bootstrap` | 2 callbacks, 3 controllers with 4 handlers and a file that is none, 1 extra layer, 1 `listen()` | order of hooks and layers, usable secrets, `/__routes` is true of the app, conflicts between files are counted |
| `scheduler_stolen_name` | timeouts cancelled while they run | **fails**: a task survives the stop |
| `shutdown_twice` | 2 runs | **fails**: exit under an awaited service |
| `gauge_leak` | 1 request | **fails**: the gauge stays raised when a client leaves |
| `events_once` | `once()`, 2 emissions | **fails**: called by every emission |

Bounds and why they do: two workers give a leader and another, and the limit of
one restart makes the first exit a respawn and the second the end; both happen
with the other worker in every state. Three entries are enough for a task, its
successor under the same name, and another; two callbacks for an overlap. Two
sweeps are enough since calls meet only in the map; a late service (`MaxInstances` is 5) may
appear behind an iterator, replace one, or return after removal. Three emissions are
an event, its error event, and the error of that, which must not have a successor.
Requests meet only in the stack and the gauge, hence two; each has the full choice
of paths and headers. Handshakes meet only in the server that closes: one client
tries every combination of tokens while the other is anywhere in its life. Two
callbacks are one and its successor on any hook, or two on different hooks; one extra layer
can stand anywhere in the stack. Three routes of one key are a pair in one file and pairs across
files, with three modes and in every order of loading. What is loaded does not depend on callbacks:
where some are registered, controllers with handlers fail at once (`FewRoutes`, the constraint of `bootstrap`),
so that only one with `init()` is mounted among their layers, and without them everything is loaded in every way.
Symmetry is used for handlers and requests, in runs without liveness. The bounds
`MaxEntries`, `MaxCallbacks`, `MaxInstances`, `MaxRuns`, `MaxSubs`, `MaxEmits`,
`MaxEmissions`, `MaxMessages`, `MaxLayers`, `MaxListens`, `Requests` and `Sockets`
stop the growth in the guards, and the configuration stops changing when nothing is left that reads
it (`Read`). The forks of the cluster need no bound, `maxRestarts` is one. One
constant leaves behaviour out of the passing runs: `CancelRunning` (the first of
the findings). `MayReplace` is one service, `db`: a service that `set()` puts in the place of
one already asked is dropped by `clear()` without being asked. `SweepComplete`
speaks of the services a name has had (`held`), and so says what is guaranteed then: one of
them was asked.

Deadlock is not checked: all the systems really stop, by exit or by having
nothing left to do.

Fairness: timers fire, promises that are settled continue, the operating system
delivers events and SIGKILL; workers that do not hang get on. Nothing makes an
application call an operation, a cron task tick, a signal or a crash come.
Assumptions about the application are stated with the formula that makes them:
`scheduler` assumes that functions of timeouts settle; `sockets` that token
verification and the guards of the application do, and neither that clients leave nor that
a shutdown ends; `shutdown` assumes neither services nor the scheduler's shutdown and hooks after a fatal
error to settle, but that these two do after a signal and that connections drain.
Whether a call of `shutdownAll()` ever returns is its services' business, which is
why `shutdown()` has its timeout, and the application's: one that registers services
for ever, faster than they are visited, keeps the iteration over the live map going.

## Findings

1. `scheduler_stolen_name`: the end of a cancelled timeout deletes the entry of
   its successor, which `cancelAll()` then misses (`docs/scheduler.md:65`).
2. `shutdown_twice`: nothing stops a second run of `shutdown()`; the one that is
   done first exits under the other (`docs/startup-sequence.md:67-70`).
3. `gauge_leak`: `http_requests_in_flight` goes down on `finish` only, which a response whose
   connection breaks may never emit (`src/src/lib/monitoring.ts:39`).
4. `events_once`: `emitAsync()` calls the bare functions of `once()`, which
   therefore are never removed (`src/src/lib/events.ts:122`).

Where the passing properties stop, because code and documents part there:

- `AnswerOnce` leaves out a handler that has sent its headers and then throws. `errorHandler` does
  nothing then (`index.ts:342`) and hands the error to nobody, so the response stays open, although
  `docs/request-lifecycle.md:324` wants every error converted into a structured response.
- `OpsTruth` compares routes, whatever their fields are called. `/__routes` answers the loader's records,
  with a relative `path`, `fullPath` and `controller`, where `docs/routing.md:19` and
  `ops-controller.ts:224-228` promise a full `path` and a `source`. And it lets routes of a controller
  that failed half-way stay in the list, where `docs/routing.md:3` speaks of loaded controllers.
- `ConflictsCounted` is about routes of two files with one literal path. Routes of one file
  are counted as well, against `docs/routing.md:30`, and paths that differ in the name of a
  parameter are not, against `docs/routing.md:98`.
- `Guarded` leaves out jobs that ask for the leader: `running` is read before `leaderCheck()` is awaited
  and set after it, so two ticks run such a job in parallel, against `docs/scheduler.md:63`. The defect is
  latent in the class: `startScheduler()` passes no `leaderCheck` (`scheduler/runtime.ts:126`) and the
  package does not export the class; only the tests build one with it
  (`tests/scheduler/scheduler-service.test.ts:125-151`).

The models also contain, without a run that judges them: the loss of the leader
for good when respawn is off; an unhandled rejection of `readyPromise` in the
command line's path (`ReadyObserved = FALSE`); a SHUTDOWN hook that throws and so
skips all services; a log flush that is called and not awaited; the guard of the ops endpoints, which meets unknown paths too;
a failed `createServer()`, which leaves a started scheduler and a listening server
behind; a server that listens although the WebSocket manager could not be made; a list
of routes that `shutdownAll()` has withdrawn while requests are still served, so that `/__routes` answers
with an empty one (`OpsTruth` speaks of the time before); a worker that hangs before it is ready, and keeps
`waitUntilReady()` waiting (`ReadySettles` excuses it); a guard of the application that throws and is reported as `invalid_token`; and
an empty token string, which hides a valid token of lower priority.

Seen in the source, outside the models:

- `/__config` always answers 500 in a running server: `getConfig()` serves what
  `initConfig()` has loaded, which `createServer()` does not call
  (`src/src/lib/config.ts:164-177`).
- Without `auth.jwt.algorithm`, the WebSocket manager verifies HS256 and the
  security provider HS512 (`websocket-manager.ts:65`, `security-provider.ts:64`).
- The answer `jwt_not_configured` of a handshake is out of reach: the constructor
  has asserted before that JWT is enabled (`websocket-manager.ts:53` and `:87`).

## Proofs

Every invariant and every action or refinement property of the passing runs is
also a theorem, for every value of the constants: any number of workers, entries,
services, runs, subscriptions, requests, sockets, callbacks and controllers, and any bound. The only
assumptions are the named ones on the constants, and one hypothesis (of `ArmedIsTracked`).

| Module | Theorem | Property |
|---|---|---|
| `ClusterPrimaryProofs` | `TypeCorrect`, `Singleton`, `Ownership`, `Readiness`, `Escalation`, `Supervision`, `Budget`, `Verdict` | `TypeOK`, `SchedulerSingleton`, `OwnerSpec`, `ReadyIsCurrent`, `KillEscalation`, `SlotsSupervised`, `RestartBudget`, `ReadyVerdict` |
| `SchedulerServiceProofs` | `TypesHold`, `GuardHolds`, `ArmedIsTracked` | `TypeOK`, `Guarded`, `Tracked` |
| `ServiceRegistryProofs` | `TypesHold`, `SweepIsComplete` | `TypeOK`, `SweepComplete` |
| `RuntimeShutdownProofs` | `SweepIsComplete`, `TypesHold`, `SchedulerGoesFirst`, `ExitIsComplete` | `SweepComplete`, `TypeOK`, `SchedulerFirst`, `CompleteExit` |
| `EventBusProofs` | `TypesHold`, `CallsInOrder`, `EveryoneHears`, `ErrorsAreReported` | `TypeOK`, `InOrder`, `AllHear`, `ErrorsReported` |
| `RequestPipelineProofs` | `TypesHold`, `HandlersAreEntitled`, `GuardsDecideOnce`, `AnswersOnce`, `EndsAreCounted` | `TypeOK`, `Entitled`, `OneVerdict`, `AnswerOnce`, `EndsCounted` |
| `WebSocketSessionsProofs` | `TypesHold`, `SessionsAreAuthenticated`, `EventsAreTrue`, `ShutdownClosesForGood` | `TypeOK`, `Authenticated`, `EventsTrue`, `ClosedForGood` |
| `RuntimeBootstrapProofs` | `TypesHold`, `StartupIsOrdered`, `SecretsHold`, `OpsTellTheTruth`, `ConflictsAreCounted` | `TypeOK`, `DocumentedOrder`, `SecretsUsable`, `OpsTruth`, `ConflictsCounted` |

Each module has one inductive invariant `IInv` (`RegistryInv` and `ProcessInv` in
`RuntimeShutdownProofs`), lemmas for its groups of actions with one step per action and
conjunct, and temporal steps by PTL. Hardly any property is inductive by itself; what must be added
says why the code works:

- **ClusterPrimary**, `IInv == TypeOK /\ Bookkeeping`. To keep
  `SchedulerSingleton` over a respawn one must know that the process being replaced
  is dead (`EventsTrue`: an exit event tells the truth), that a slot has one live
  process (`LiveInSlot`), and that only slot 0 ever leads (`LeaderSlotOnly`).
  `ReadyIsCurrent` needs that `workerToSlot` forgets a worker before its slot is
  filled again (`MappedInSlot`, `SlotsMapped`), so that late events find no slot.
  `KillEscalation` needs `KillOrder`: while the primary waits, each live worker has a listener.
  `Ownership` adds `YoungestInSlot`: forks get ids in order. `Supervision` needs `IInv`
  only: `onWorkerExit()` has three outcomes for a known worker, and each leaves the other
  slots as they were. `Budget` needs the exact count (`BudgetInv`): a slot that holds a worker has
  had `restartCount` + 1 of them. `Verdict` follows from `ReadyIsCurrent` after the
  step, and from counting: as many ready ordinals as workers are all of them (`AllReported`).
- **SchedulerService**. A callback that waits for `leaderCheck()` has room kept for its run
  (`RoomKept`), a job nobody asks the leader about runs under its flag (`FlagHeld`),
  a timeout whose function runs cannot fire again (`FiresOnce`), and, if running
  timeouts are not cancelled, a timeout holds its name until its function has ended (`NameHeld`).
  The last is the hypothesis of `ArmedIsTracked`, `~CancelRunning`: without it the
  property is false, which is the first of the findings. The other two theorems need no such hypothesis.
- **ServiceRegistry** and **RuntimeShutdown**. `SweptBehind`: nothing that can be closed lies
  unasked behind an iterator, in spite of `set()`, `remove()` and other sweeps. The
  theorems about the registry are proved once, for any callers;
  `RuntimeShutdownProofs` instantiates them with the runs of `shutdown()`, shows that every step
  of the process is a step of the registry or none, and so takes over both the invariant and
  `SweepComplete`. Above it, `SchedulerGone` (a run that is past `stopScheduler()`
  has failed to stop the scheduler, or it is gone and does not come back) and `Shape`, where each run and
  its sweep are together.
- **EventBus**. `Placed` says of an emission between two awaits: the copied listeners
  that are left are newer than those called, nothing called lies beyond the live iterator,
  and whoever is owed a call has had it, is among those left, or lies ahead. `Counted` and `Origin`
  say that the errors of an emission are its error events and its fallback reports,
  and that an error event comes from an event that is none.
- **RequestPipeline**. `Walked`, along the stack: the guards before a request have let it
  through, those after it have not spoken, and handlers that ran lie behind. `StackOK`: what is
  added after the bottom of the stack is neither a guard nor what one protects. `Tallied` and
  `Spanned` relate answers and span ends to the response.
- **WebSocketSessions**. `Fits` gives the shape of a socket's log in each phase, and ties the
  context it carries to the token the documented order chooses; `StaysDrained`: once a shutdown
  has settled, no connection is left and none comes back.
- **RuntimeBootstrap**. `CallsInv` and `LayersInv` bound what has been called and mounted by how
  far `createServer()` has come, `PublishedInv` says that what is published is the finished
  table, and `LoadInv` is `TrueOfApp` of the loader's own table with where each
  file is (`Placed`, `RoutersNamed`). TLC has checked this `IInv` on the system of `bootstrap` and on
  larger ones before it was proved.

The proofs changed the models where they could not be reasoned about:

- `EventBus` (`NextKind`) and `RequestPipeline` (`TokenOptional`, `HandleJwt`, `HandleBasic`)
  had CASE expressions whose arms overlap. TLC takes the first that is true; TLA+ leaves
  the choice open, and the theorems were not provable. They are IF / ELSE now, like the
  early returns of the code.
- `RequestPipeline` now states what it had always meant: `Requests` is finite, late routes lie
  outside of the `contextRoot` (the guard of the ops endpoints must not apply to them), and they are
  not named like another layer.
- `TrueOfApp` said with a filter of the list that a controller's routes are in the table
  in order; it now says that they stand there as one block (`StandIn`), which is stronger and needs no recursion.

Out of the provers' reach, and only model-checked: liveness (`ShutdownEnds`,
`NoWorkerOutlives`, `ReadySettles`, `TimeoutsSettle`, `ProcessEnds`, `HandshakeSettles`), since
fairness and `ENABLED` are; nor could facts that need induction over data be proved.

## Not modelled

Durations, cron expressions and restart delays; payloads and log texts; the
`schedulerOnly` command, which is `startScheduler()` without the server. Of the ops
endpoints, `/__health`, `/__config` and `/__logs`: they read what others keep, and mask or
cut it. Loading a configuration against its schema, logging and the sample jobs, which
keep no state; counters and histograms of the metrics. Namespaces of Socket.IO other than
the default one, which the manager has no part in. A second
runtime in one process, and further servers of one runtime: the process handlers
and `runtimeServer` belong to one of them only.

## Plan

1. Done: the core modules, their runs, and the theorems about the cluster.
2. Done: `RuntimeBootstrap` with `ControllerLoading`, `WebSocketSessions`; the
   registry is checked as `RuntimeShutdown` uses it, and listener errors in the same
   run as the order of handlers.
3. Done: theorems for all invariants and for the action and refinement properties of the passing runs.
4. Next: abstract specifications, and that the models implement them: a session that opens and
   closes for good, a request that is answered once, an emission as one ordered round;
   and what the findings leave true, such as `Tracked` for jobs alone when running
   timeouts are cancelled.
