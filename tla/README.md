# TLA+ models of pushpin-proxy

This directory holds TLA+ models of the parts of pushpin whose source is in
`src/`. Each model comes with TLC configurations that check it on small
instances and, for the supervisor and the updater, TLAPS proofs that hold for
every value of the constants.

## The system and its parts

| Part | Source | State it owns | Module |
|---|---|---|---|
| Worker supervisor | `src/src/proxy/app.cpp` 190-389, 649-785 | the `threads` list, each EngineThread's mutex `m`, condition `w` and `worker` pointer, each worker's engine and DeferCall queue | `Supervisor` (+ `MCSupervisor`, `SupervisorProofs`, `SupervisorExitProofs`); abstract specification `SupervisorAbstract`, refinement proof `SupervisorRefinement` |
| Per-worker configuration | `app.cpp` 48-94, 457-618, 719-739 | the global `Engine::Configuration` and the copy handed to each worker | `WorkerConfig` (+ `MCWorkerConfig`); C++ int division in `CInt` (+ `CIntProofs`) |
| DeferCall | `src/src/core/defercall.h` (header only) | a per-thread FIFO of closures, cancelled when the DeferCall is destroyed | inside `Supervisor` (`Defer`, `queue`) |
| Updater | `src/unnamed/part_002` 70-263 | timer, outstanding request, buffered body, usage report, last log time | `Updater` (+ `MCUpdater`, `UpdaterProofs`) |
| ControlRequest RPC clients | `src/src/handler/controlrequest.cpp` 33-153 | one ZrpcRequest each | `ControlRequest` (+ `MCControlRequest`, `ControlRequestProofs`); abstract specification `ControlRequestAbstract`, refinement proof `ControlRequestRefinement` |
| SetReadiness FFI wrapper, CLI parsing, CI/Docker/Cargo files | `controlrequest.cpp` 156-191, `app.cpp` 121-188, `part_000`, `part_001`, `part_002` 264+ | none of their own, or build-only | not modelled |

### How the parts interact

The main thread of `pushpin-proxy` runs `runLoop`, which defers one closure
onto its own DeferCall. That closure builds the DomainMap and connects three
handlers:

- `changed`: routes changed;
- `quit`: SIGINT or SIGTERM;
- `hup`: SIGHUP, which reloads the routes.

The closure then starts the workers one at a time. For worker `n` it copies the
global configuration, specialised for `n` (`WorkerConfig`), and calls
`EngineThread::start()`. That locks `m`, spawns the thread and waits on `w`.
The worker's `run()` takes `m`, creates its `EngineWorker` and defers
`EngineWorker::start()` onto the worker's own DeferCall. The `started` or
`error` handler then wakes the main thread and unlocks `m`.

Later calls reach a worker the same way: `routesChanged()` and `stop()` take
`m`, test `worker` and defer a closure. The worker thread's `stopped` handler
resets `worker` without taking `m`, then leaves the loop.

The Updater is a separate event-driven object of the same process. Its timer
starts an HTTP check, and `setReport` feeds it usage counters.

The ControlRequest clients run in the handler process. Each call
(`connCheck`, `refresh`, `report`) is a Deferred that starts one ZrpcRequest
to the control server and emits `finished` once. The caller deletes the
Deferred on that signal. For a conncheck, the stats component is the server.

## Modules

### `Supervisor.tla`

**Constants.** `N` is the number of workers. `MaxReloads` bounds the routes
changes.

**Variables.**

- Main thread: `mainPc` is its position, and `cur` is the startup loop's `n`.
- Lists: `threads` and `deleting` (the threads still to delete).
- `seen` holds the value of `worker` that `stop()` read but has not yet used.
- `quitReason` records whether the process is quitting on a signal or
  exiting with code 1.
- `version` counts the DomainMap reloads.
- Per worker:
  - `threadPc`, `mutex` (holder of `m`) and `woken` (whether `w` was signalled);
  - `worker` (the unique_ptr), `engine` and `queue` (its DeferCall);
  - `applied`: the DomainMap version its engine last re-read.
- `dangling` records a defer onto a destroyed EngineWorker.

**Main-thread actions.**

- `ThreadStart` (start(): lock, spawn, wait).
- `ThreadStarted` (wait returns: keep the thread, or delete it and all
  earlier ones).
- `RoutesChanged` (the `changed` handler: routesChanged() on every thread).
- `Quit` (the quit handler: stop() on every thread, then the deletes).
- The delete of one thread is three steps: `DeleteStopRead` (stop() locks
  `m` and reads `worker`), `DeleteStopDefer` (defers onto what it read and
  unlocks) and `DeleteJoin` (`thread.join()`).
- `Terminated`: after the last join the loop exits.

**Worker actions.**

- `WorkerRun` (run(): lock, create the worker, defer start).
- `WorkerStart` (EngineWorker::start with its started/error handlers).
- `WorkerStop` (EngineWorker::stop and the stopped handler).
- `WorkerRoutesChanged`.

Splitting `stop()` into a read step and a use step is what lets the model see
the worker thread reset `worker` in between. That is legal, because the reset
does not take `m`. Every other handler is one atomic step, because it runs
entirely on one thread's event loop or under `m`.

**Fairness.** `WF` on the main thread's steps and on each worker's steps: every
thread runs its own event loop and the OS schedules every runnable thread.
Signals (routes change, quit) are environment steps and get no fairness.

### `SupervisorAbstract.tla` and the refinement

`SupervisorAbstract` says what the supervisor promises, with no threads,
locks or queues. Its state is each engine's status, the routes version, the
version each engine last re-read, the quit reason and an exit flag. Its
actions are:

- `EngineStart(t)`: only while not shutting down, and only after every
  engine before `t` runs;
- `GiveUp`: after a failed start;
- `Reload`: only while every engine serves;
- `Apply(t)`: an engine re-reads the routes;
- `Quit`;
- `Stop(t)`: only once shutting down;
- `Exit`: only when no engine runs.

`Supervisor.Abs` instantiates it with `reason <- quitReason` and
`exited <- (mainPc = "exited")`. The other variables are hidden.
`AbstractSpec == Abs!Spec`, fairness included, is a property of
`supervisor_core`.

The step mapping is:

| Supervisor step | Abstract step |
|---|---|
| `WorkerStart` | `EngineStart` |
| `ThreadStarted` of a failed worker | `GiveUp` |
| `RoutesChanged` | `Reload` |
| `WorkerRoutesChanged` on a stale running engine | `Apply` |
| `Quit` | `Quit` |
| `WorkerStop` | `Stop` |
| the last `DeleteJoin` | `Exit` |
| every other step | a stutter |

### `WorkerConfig.tla`

This module models how the configuration of each worker is built.

- **Init** chooses the settings: the worker count, `max_open_requests`,
  `client_maxconn`, one single-spec setting and two list settings whose
  entries are `ipc:`, other or empty.
- **Init** applies `trimlist` to every list and computes the clamp and the
  division `sessionsMax / workerCount`.
- `DeriveWorker` is one iteration of runLoop's loop (`WorkerConfigOf`): set
  `id`, suffix the client id and the endpoint specs via `suffixSpec`/`suffixSpecs`.

An endpoint is abstracted to its kind, the setting and position it came from,
and the suffixes appended to it. `trimlist` and `parse_xffRule` are translated
loop-for-loop as recursive operators (`TrimFrom`, `ParseXffFrom`) and compared
with reference definitions (`TrimmedRef`, `XffRef`) over all lists of up to
three entries.

The division `sessionsMax / workerCount` is `CDiv`, in `CInt.tla`. C++ int
division truncates toward zero, while `\div` in TLA+ rounds toward minus
infinity. `CInt` has no RECURSIVE operator, so TLAPS can prove facts about
`CDiv` (see `CIntProofs.tla`). `IsTruncQuotient` states what C++ requires of
a quotient.

### `Updater.tla`

**Variables.**

- `req`: the outstanding request.
- `bytes`: `bytesAvailable`.
- `finished`: `isFinished()` of the last ZhttpRequest started. A request
  whose response is complete emits no more `readyRead` or `error`.
- `cmax`, `counts`: the report. The four additive counters are updated by
  identical code and are one counter here.
- `sinceLog`: the time since `lastLogTime`, saturated at the throttle, which
  is all the log guard compares.
- History variables: `reportedTotal`, `sentTotal`, `window`.

**Actions.**

- `TimerTimeout`: `if(!req) doRequest()`. `doRequest` copies the report into
  the query and resets it.
- `ReqReadyRead`: a chunk arrives. Its disjuncts follow the early returns of
  `req_readyRead`: too large, not finished, finished. Every finished path
  (bad status, bad body, checked) calls `cleanupRequest()`; only a checked
  update with status 200 logs, throttled.
- `ReqError`: only an unfinished request fails.
- `SetReport`.

**Fairness.** The timer is periodic (`timer->start()` in the constructor), so
`TimerTimeout` is weakly fair. `ReqError` is also weakly fair. This stands
for the timeouts of ZhttpRequest, which is not under `src/`: a request whose
response never completes eventually fails. Without that assumption a request
that never ends blocks every later report, and no liveness property can
hold. `ReqError` is enabled only while the response is unfinished, so the
fairness does not end a request whose response is complete: that is left to
the handler's own `cleanupRequest()` on each finished path, which is what
`ReportEventuallySent` tests (its mutant drops the cleanup after a bad
status).

### `ControlRequest.tla`

**Constants.** `Cids` are the client ids. `Calls` are the Deferred objects a
behaviour may create. `NotBytes` is a reply element that is not a
`QByteArray`.

**Variables.**

- `kind`: the class of each Deferred.
- `args`: the ids a conncheck asks about.
- `zr`: the state of each ZrpcRequest.
- `net`: the requests and replies in transit.
- `known`: the ids the stats component knows.
- `served`: what the server answered. This is a history variable.
- `finished`: the results each Deferred emitted, in order.

**Actions.**

- `Create`: one of the factories, with its constructor (`ConnCheck`,
  `Refresh`, `Report`). It starts the request.
- `Deliver`: a reply reaches a waiting call and runs its `req_finished`
  (`ConnCheckFinished`, `RefreshFinished`, `ReportFinished`). A late reply is
  discarded by id.
- `Timeout`: the deadline ends a waiting call.
- `Serve`: the server answers. A conncheck gets the known ids in any order,
  or a malformed list.
- `Lose`: a request or reply is lost.
- `SessionChange`: a client connects or disconnects.

A conncheck reply is a record `[list, items]`. The byte arrays are
`Utf8(c)`, and decoding is `FromUtf8`. ZrpcRequest, ZrpcManager, Deferred and
the server are not under `src/`. Their behaviour (`ZrpcStart`, `Serve`,
`Lose`, `Deliver`, `Timeout`, `SetFinished`) follows the specification and is
marked `spec_modelled` in `PROJECT.json`.

**Fairness.** Only `Timeout(c)` is weakly fair: a call's deadline is an
event-loop timer. Delivery and serving get no fairness, because messages may
be lost.

### `ControlRequestAbstract.tla` and the refinement

`ControlRequestAbstract` is what a Deferred promises its caller, with the
transport hidden. It keeps `kind`, `args`, `known`, `served` and `finished`,
and has these actions:

- `Create`: a factory runs.
- `Answer(c)`: the stats component records its answer to conncheck `c`,
  either well formed or not. It does this only while `c` has not succeeded.
- `Finish(c)`: `c` finishes once with a result in `Allowed(c)`:
  - a failure carries no ids;
  - a success carries no error condition;
  - a successful refresh or report carries no ids;
  - a successful conncheck needs a well-formed last answer and carries
    exactly its ids.
- `SessionChange`: a client connects or disconnects.

`WF(Finish(c))` says every Deferred finishes. `ControlRequest` checks
`AbstractSpec == Abs!Spec`. The refinement mapping is the identity on the
shared variables: `zr` and `net` are hidden.

## Runs

| Run | Config | Expect | What it shows |
|---|---|---|---|
| `supervisor_core` | `MCSupervisor.cfg` (N = 3, 2 reloads) | pass | `AcceptedWorkersRunning`: start() accepts only workers whose engine started. `CleanExit`: at exit every spawned thread was joined and the exit code is 1 exactly when an engine failed. `IInv`: handshake and phase invariant. `RoutesPropagate`: every routes change reaches every running engine (liveness). `AbstractSpec`: the supervisor implements `SupervisorAbstract`, fairness included. `EngineStartsInHandshake` (action property): an engine starts only while the main thread waits in start() for that same worker. |
| `supervisor_stop_race` | `MCSupervisorRace.cfg` | violation | `NoDeferOnDestroyedWorker`: at quit, the second `stop()` (from `~EngineThread`) can defer onto an EngineWorker the worker thread has just destroyed (finding 1). |
| `updater_report` | `MCUpdater.cfg` (ReportMode, limit 2 bytes, chunks of 0-2) | pass | `ReportConserved`: every usage increment is in the report or in exactly one query. `CmaxIsWindowMax`: `connectionsMax` is the maximum of the current window or stale. `ReportEventuallySent`: reported usage is eventually put into a query, so every path that ends a complete response clears `req` (liveness, under the fairness above). |
| `worker_config` | `MCWorkerConfig.cfg` (1-3 workers, lists of 0-2 specs) | pass | `SingletonIpcPerWorker`, `ClientIdsDistinct`, `SessionsWithinTotal` (the caps add up to at most the clamped total), `TrimlistCorrect`, `XffRuleCorrect`. |
| `worker_config_ipc_lists` | `MCWorkerConfigIpc.cfg` | violation | `IpcEndpointsDistinct`: a list of two `ipc:` specs is shared by all workers (finding 2). |
| `worker_config_workers` | `MCWorkerConfigWorkers.cfg` (proxy/workers in {-1, 0, 1}) | violation | `StartsWorkers`: 0 workers divides by zero, and -1 starts no worker (finding 3). |
| `controlrequest_core` | `MCControlRequest.cfg` (2 calls, 2 client ids) | pass | `ConnCheckResultExact`: a conncheck succeeds only on a well-formed reply and returns exactly the ids served. `FinishedAtMostOnce`: no Deferred finishes twice, even when a reply races the deadline. `EveryCallFinishes`: every created call finishes, even with lost messages (liveness). `AbstractSpec`: the clients implement `ControlRequestAbstract`, fairness included. |

**Why these bounds are enough.**

- **Supervisor.** Three workers cover a failure of the first, a middle or the
  last worker, with started threads before and after it. Two reloads put one
  "routes" call behind another on the same queue.
- **Updater.** A 2-byte limit with chunks of up to 2 bytes reaches exactly 2
  bytes both in one chunk and in two, and passes the limit only across chunks.
  A throttle of two report intervals makes a second update log both
  suppressed and allowed.
- **WorkerConfig.** Lists of two entries are the smallest that expose the
  suffixing gap and two consecutive empty entries for `trimlist`.
- **ControlRequest.** Two calls can be of different kinds or both
  conncheck. Two client ids give replies of zero, one and two elements, in
  both orders, and a bad element after a good one. The known set changes
  between the request and the reply.

Each property of a passing run has a mutant in `PROJECT.json`: a plausible bug
in a mapped definition, defined next to it, that TLC finds violating the
property. The mutants are:

- the error handler does not reset `worker`;
- only the failed thread is deleted;
- `threads.clear()` is missing;
- the broadcast skips the last thread;
- the report counters or `connectionsMax` are not reset;
- the size limit is applied per chunk;
- `id`, the client-id suffix or the suffix condition is wrong;
- the division rounds up;
- `trimlist` does not step back;
- the first `truncate:` wins;
- `engine_.reset()` is missing from `EngineWorker::stop()`;
- `req_error()` does not clean up the request;
- a conncheck skips bad elements, or forgets `fromUtf8`;
- a late reply is not discarded;
- `Refresh` finishes only on success.

## Findings

1. **Data race at quit (code bug, `app.cpp:346`).** The stopped handler resets
   `worker` without `m`. Meanwhile the main thread's second `stop()` (from
   `delete t`) tests and dereferences `worker` under `m`. The trace:
   - `Quit` defers stop to all workers;
   - `DeleteStopRead` reads a live `worker`;
   - `WorkerStop` resets it;
   - `DeleteStopDefer` defers onto the destroyed object.
2. **IPC suffixing (spec/code divergence, `app.cpp:90`).** The specification
   says every IPC endpoint is suffixed with `-n` per worker. `suffixSpecs`
   suffixes only one-element lists.
3. **Unchecked worker count (code bug, `app.cpp:618`).** `proxy/workers` is
   read with `toInt()` at line 459 and never checked. With 0,
   `sessionsMax / workerCount` traps (SIGFPE). With a negative value,
   `sessionsMax` is negative and the loop starts no worker.

## Proofs

### `SupervisorProofs.tla`

The proofs assume `NAssumption` (`N \in Nat \ {0}`) and
`MaxReloadsAssumption`. They establish, for every `N` and `MaxReloads`:

- `IInvHolds`: `Spec => []IInv`;
- `AcceptedRunning`: `Spec => []AcceptedWorkersRunning`;
- `TypeCorrect`: `Spec => []TypeOK`.

**Why a strengthening is needed.** `AcceptedWorkersRunning` is not inductive.
A step of `ThreadStarted` keeps a worker whose `worker` is live, and that says
nothing about its engine unless we know how the handshake went. `IInv`
conjoins `TypeOK` with two invariants:

- `Handshake(t)`, for each worker:
  - before it runs, its queue is empty;
  - until it wakes the main thread, it is not in `threads`, its engine has
    not started, and the only queued call is the one `start`;
  - after it wakes, `start` is no longer queued;
  - a live worker that has woken the main thread has a running engine.
- `PhaseInv`, for the main thread:
  - `quitReason` is `"none"` exactly in the startup and running phases;
  - `threads` is empty once quitting, and a `stop` is only ever queued then;
  - members of `threads` are live and woken, and members of `deleting` are woken;
  - `Len(threads) = cur`;
  - the workers beyond `cur` are still idle.

**How the proof is built.**

- `InitIInv` shows `Init => IInv`.
- One lemma per action shows that `IInv` is preserved. Each lemma first
  extracts the action's primed values, then proves `TypeOK'`, `HandshakeInv'`
  and `PhaseInv'` separately. The broadcast actions share `BroadcastIInv`.
- `NextIInv` combines the action lemmas.
- Each theorem ends `BY ..., PTL DEF Spec`.
- Lemmas about `ToSet` (empty sequence, `Append`, `Tail`, `<<x>> \o s`,
  singletons) are proved once and cited by name.

### `SupervisorRefinement.tla`

`RefinementSafety` proves `Spec => Abs!Init /\ [][Abs!Next]_Abs!avars` for
every `N` and `MaxReloads`: every step of the supervisor is a step of the
abstract specification or a stutter.

The abstract guards need facts that `IInv` does not give, so `RefInv` adds
them:

- `WaitingIsCur`: a thread that has not woken the main thread is the one
  `start()` waits for.
- `StartedAccepted`: every worker before `cur` is in `threads`.
- `RunningAccounted`: before shutdown, a running engine is in `threads` or
  is the one being started.
- `RunningDeleting`: during shutdown, a running engine is in `deleting`.
- `DoneNotRunning`: a finished thread's engine is failed or stopped.
- `ExecLive`: a thread in its loop owns its EngineWorker.
- `FailedWithoutWorker`: a woken worker without EngineWorker failed.
- `AppliedBelow`: no engine read a future version.

`IInv /\ RefInv` was checked with TLC before it was proved. The proof has one
lemma per action, each of which shows `RefInv'` and the abstract step. For
example, `Exit` at the last join holds because `RunningDeleting` and
`DoneNotRunning` leave no running engine. `NextRef` combines them with
`NextIInv`.

### `UpdaterProofs.tla`

`ReportConservedHolds`, `CmaxIsWindowMaxHolds` and `TypeCorrect` hold
for every size limit, chunk size, interval and set of values. They rest on
`UpdaterIInvHolds`.

The inductive invariant adds `WindowMax`, which says what the CHOOSE in
`CmaxIsWindowMax` picks: `cmax` is in the window and bounds it. `TypeOK` and
`ReportConserved` need each other, because the counters stay bounded only
since they never exceed what was reported. `SetMaxIs` is a lemma about the
CHOOSE.

`TypeCorrect` proves `Spec => []TypeOK` from the same invariant.

### `SupervisorExitProofs.tla`

`CleanExitHolds` proves `Spec => []CleanExit` for every `N`. It rests on
`ExitInvHolds`, which proves `Spec => [](Inv /\ ExitInv)`. Here `Inv` is the
invariant of `SupervisorRefinement`, and `ExitInv` adds these conjuncts:

- `JoinPending`: once quitting, every thread that was spawned and has not
  finished is still in `deleting`. Without it, the last join could not tell
  whether some thread was never joined.
- `ExitedJoined`: after the exit, `deleting` is empty.
- `FailedMeansGiveUp` and `GiveUpFailed`: an engine fails only during the
  handshake of worker `cur`. The `"startFail"` quit reason is set exactly
  when `cur`'s engine failed. These two give the exit code.
- `FailedDone`: a failed engine's thread has finished.

There is one lemma per action, plus `ExitInvClean`, which shows that
`Inv /\ ExitInv` implies `CleanExit`.

`EngineStartsInHandshakeHolds`, in `SupervisorRefinement.tla`, proves the
action property `EngineStartsInHandshake`. Lemma `HandshakeStep` shows that,
under `Inv`, a step that moves an engine out of `"none"` is `WorkerStart(t)`.
That step is enabled only while `mainPc = "wait"` and `cur = t`.

### `ControlRequestProofs.tla`

`FinishedOnce`, `ConnCheckExact` and `TypeCorrect` prove `FinishedAtMostOnce`,
`ConnCheckResultExact` and `TypeOK` for every finite set of calls and client
ids. They assume `NotBytesAssumption`, which says the non-byte-array marker is
not a byte array. The inductive invariant `IInv` conjoins `TypeOK`,
`ConnCheckResultExact` and these:

- `KindStarted`: a call has a kind exactly when it has left `"idle"`.
- `FinishedCount`: a call has one result when finished and none otherwise.
  This is the strengthening of `FinishedAtMostOnce`. A late reply or a second
  deadline finds the call finished, and those steps are guarded on that.
- `NetStarted` and `OneMsgPerCall`: every message in the network belongs to
  a started call, and no call has two messages. Without these, a reply could
  finish a call that is not waiting, or finish it twice.
- `ReqPending`: while a request is in flight, its call has no successful
  result.
- `RepServed`: a well-formed conncheck reply in flight carries exactly the
  encoding of the ids the server recorded in `served`. When the reply is
  delivered, `ConnCheckResultExact` follows from this conjunct and from the
  lemmas on `Decoded`.

There is one lemma per action, with one step per conjunct. `DropIInv` covers
every step that only removes a message: a loss, or a late reply that is
discarded.

`ReqFinishedResult` also gives `ResultShape` for what a `req_finished` slot
emits:

- a success carries no error condition;
- a success carries ids only for a conncheck;
- a failure carries no ids.

The refinement proof needs this.

### `ControlRequestRefinement.tla`

`RefinementSafety` proves `Spec => Abs!Init /\ [][Abs!Next]_Abs!avars` for
every set of calls and client ids. It rests on `IInv` from
`ControlRequestProofs`, and needs no new invariant. The concrete steps map
to abstract ones as follows:

- `Create` is `Abs!Create`.
- Serving a conncheck request is `Abs!Answer`. Its guard (no success yet)
  is `ReqPending`. Serving any other request is a stutter.
- `Timeout`, and a `Deliver` that ends a waiting call, are `Abs!Finish`. The
  call has emitted nothing yet (`NothingBeforeFinish`, from
  `FinishedCount`). The result is in `Allowed` (`AllowedResult`), by
  `ResultShape` and, for a conncheck that succeeds, by `RepServed`.
- `Lose`, and a `Deliver` of a late reply, are stutters.
- `SessionChange` is `Abs!SessionChange`.

The fairness part of `AbstractSpec` (every Deferred finishes) stays with TLC.

### `CIntProofs.tla`

- `CDivTruncates` proves `IsTruncQuotient(a, b, CDiv(a, b))` for every
  integer `a` and non-zero `b`. No run checks this, since every division
  the runs reach has a non-negative total and a positive worker count, where
  truncation and `\div` agree. The proof splits on the signs. It uses the
  bounds Z3 knows for `\div` on magnitudes (`MagnitudeDiv`), and the
  magnitude and sign of `b * CDiv(a, b)` (`ProductOfQuotient`).
- `ShareWithinTotal` shows that `w >= 1` workers' shares of a non-negative
  total are non-negative and add up to at most the total. This is the
  arithmetic behind `SessionsWithinTotal`.

### Checked only by TLC

- **Liveness.** `RoutesPropagate`, `ReportEventuallySent`,
  `EveryCallFinishes` and the fairness part of `AbstractSpec` are checked only
  by TLC. tlapm cannot reason about fairness and ENABLED.
- **`WorkerConfig`.** Its properties are checked only by TLC, except the
  division, which was moved to `CInt`.
  - The module uses RECURSIVE operators (`TrimFrom`, `ParseXffFrom`), which
    take away tlapm's SMT backend.
  - Recasting them as recursive functions would not help. Whatever they
    return, including the type of a trimmed list that `TypeOK` and
    `SingletonIpcPerWorker` need, takes induction over data to prove. So do
    `TrimlistCorrect`, `XffRuleCorrect` and the `FoldLeft` sum of
    `SessionsWithinTotal`.
  - The installed provers cannot instantiate the library's induction
    theorems.
  - `ShareWithinTotal` proves the arithmetic of `SessionsWithinTotal` for
    every total and worker count.
- **The `stop()` race.** `NoDeferOnDestroyedWorker` is a violation run, so
  there is nothing to prove.

## Not modelled

- The `timersMax` overflow at `app.cpp:312`. The product is a 32-bit int.
  TLC's integers are themselves 32-bit, and `TIMERS_PER_SESSION` is defined
  outside `src/`, so the model cannot state the bound.
- `Event::SetReadiness`: a forwarding wrapper with no state.
- Command-line and settings I/O, and the build files.

## Plan for the next sittings

1. Model the fixed `stop()` (the reset taken under `m`) and show
   `NoDeferOnDestroyedWorker` then holds.
2. Compose `ControlRequest` with a caller that deletes the Deferred on
   `finished`, and check it against `ControlRequestAbstract`.
