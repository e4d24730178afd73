----------------------------- MODULE Supervisor -----------------------------
(***************************************************************************)
(* The worker supervisor of pushpin-proxy (src/proxy/app.cpp).             *)
(*                                                                         *)
(* The main thread runs one deferred closure (runLoop) that spawns the     *)
(* worker threads one after the other.  For each worker, EngineThread::    *)
(* start() locks the thread's mutex m, spawns the thread and waits on the  *)
(* condition w; the worker thread's run() locks m, creates its             *)
(* EngineWorker and defers EngineWorker::start() onto the worker's own     *)
(* DeferCall queue.  When the engine starts (or fails) the worker's        *)
(* started (or error) handler wakes the main thread and unlocks m, and     *)
(* start() returns whether the worker object still exists.                 *)
(*                                                                         *)
(* Afterwards the main thread forwards "routes changed" (SIGHUP or a       *)
(* routes-file change) and "quit" (SIGINT/SIGTERM) to the workers by       *)
(* deferring closures onto each worker's DeferCall queue.  A worker        *)
(* executes its queue in FIFO order.  Destroying the EngineWorker          *)
(* destroys its DeferCall, which cancels the calls still queued on it.     *)
(*                                                                         *)
(* The `worker` pointer of an EngineThread is read by the main thread      *)
(* under m (stop(), routesChanged()) but reset by the worker thread's      *)
(* stopped handler without m: main's read and its use of the pointer are   *)
(* two steps here, so that the worker may destroy the object in between.   *)
(***************************************************************************)
EXTENDS Naturals, Sequences, SequencesExt

CONSTANTS
    N,           \* number of worker threads (proxy/workers)
    MaxReloads   \* bound on the number of routes changes in a behaviour

ASSUME NAssumption == N \in Nat \ {0}
ASSUME MaxReloadsAssumption == MaxReloads \in Nat

\* worker ids, wconfig.id = n for n in 0..workerCount-1
Ids == 0 .. N - 1

\* the closures deferred onto a worker's DeferCall
Calls == {"start", "stop", "routes"}

VARIABLES
    mainPc,     \* where the main thread is in runLoop and its handlers
    cur,        \* index n of the startup loop
    threads,    \* the std::list<EngineThread*> threads, in order
    deleting,   \* EngineThreads still to be deleted by the running handler
    seen,       \* main's value of (bool)worker read in stop(), not yet used
    quitReason, \* "none", "quit" (signal) or "startFail" (a worker failed)
    version,    \* number of routes changes of the shared DomainMap
    threadPc,   \* per worker thread: "idle", "lock", "exec", "done"
    mutex,      \* per EngineThread::m: "none", "main" or "worker"
    woken,      \* per EngineThread: w.wakeOne() was called
    worker,     \* per EngineThread: the unique_ptr worker, "null" or "live"
    engine,     \* per worker: "none", "running", "failed", "stopped"
    queue,      \* per worker: the calls deferred on worker->deferCall
    applied,    \* per worker: DomainMap version the engine last re-read
    dangling    \* a closure was deferred onto a destroyed EngineWorker

vars == <<mainPc, cur, threads, deleting, seen, quitReason, version,
          threadPc, mutex, woken, worker, engine, queue, applied, dangling>>

MainPcs == {"spawn", "wait", "running", "delStop", "delDefer", "delJoin",
            "exited"}

TypeOK ==
    /\ mainPc \in MainPcs
    /\ cur \in 0 .. N
    /\ threads \in Seq(Ids)
    /\ deleting \in Seq(Ids)
    /\ seen \in BOOLEAN
    /\ quitReason \in {"none", "quit", "startFail"}
    /\ version \in 0 .. MaxReloads
    /\ threadPc \in [Ids -> {"idle", "lock", "exec", "done"}]
    /\ mutex \in [Ids -> {"none", "main", "worker"}]
    /\ woken \in [Ids -> BOOLEAN]
    /\ worker \in [Ids -> {"null", "live"}]
    /\ engine \in [Ids -> {"none", "running", "failed", "stopped"}]
    /\ queue \in [Ids -> Seq(Calls)]
    /\ applied \in [Ids -> 0 .. MaxReloads]
    /\ dangling \in BOOLEAN

Init ==
    /\ mainPc = "spawn"
    /\ cur = 0
    /\ threads = <<>>
    /\ deleting = <<>>
    /\ seen = FALSE
    /\ quitReason = "none"
    /\ version = 0
    /\ threadPc = [t \in Ids |-> "idle"]
    /\ mutex = [t \in Ids |-> "none"]
    /\ woken = [t \in Ids |-> FALSE]
    /\ worker = [t \in Ids |-> "null"]
    /\ engine = [t \in Ids |-> "none"]
    /\ queue = [t \in Ids |-> <<>>]
    /\ applied = [t \in Ids |-> 0]
    /\ dangling = FALSE

(* defer(): append a closure to the worker's DeferCall queue.              *)
Defer(t, c) == queue' = [queue EXCEPT ![t] = Append(@, c)]

(***************************************************************************)
(* Main thread.                                                            *)
(***************************************************************************)

\* new EngineThread(...); t->start(): lock m, spawn the thread, w.wait(&m)
\* (which releases m atomically).
ThreadStart ==
    /\ mainPc = "spawn"
    /\ mainPc' = "wait"
    /\ threadPc' = [threadPc EXCEPT ![cur] = "lock"]
    /\ UNCHANGED <<cur, threads, deleting, seen, quitReason, version, mutex,
                   woken, worker, engine, queue, applied, dangling>>

\* Mutant of ThreadStarted: on a failed start only the failed thread is
\* deleted, the threads started before it are leaked.
ThreadStartedLeak ==
    /\ mainPc = "wait"
    /\ woken[cur]
    /\ mutex[cur] = "none"
    /\ IF worker[cur] = "live"
       THEN /\ threads' = Append(threads, cur)
            /\ cur' = cur + 1
            /\ mainPc' = IF cur + 1 = N THEN "running" ELSE "spawn"
            /\ UNCHANGED <<deleting, quitReason>>
       ELSE /\ deleting' = <<cur>>
            /\ threads' = <<>>
            /\ quitReason' = "startFail"
            /\ mainPc' = "delStop"
            /\ UNCHANGED cur
    /\ UNCHANGED <<seen, version, threadPc, mutex, woken, worker, engine,
                   queue, applied, dangling>>

\* Mutant of ThreadStarted: start() returns as soon as m is free, without
\* waiting for the worker's started or error handler to wake it.
ThreadStartedNoWait ==
    /\ mainPc = "wait"
    /\ mutex[cur] = "none"
    /\ IF worker[cur] = "live"
       THEN /\ threads' = Append(threads, cur)
            /\ cur' = cur + 1
            /\ mainPc' = IF cur + 1 = N THEN "running" ELSE "spawn"
            /\ UNCHANGED <<deleting, quitReason>>
       ELSE /\ deleting' = <<cur>> \o threads
            /\ threads' = <<>>
            /\ quitReason' = "startFail"
            /\ mainPc' = "delStop"
            /\ UNCHANGED cur
    /\ UNCHANGED <<seen, version, threadPc, mutex, woken, worker, engine,
                   queue, applied, dangling>>

\* w.wait() returns once woken and m is free again; start() returns
\* (bool)worker.  On success the thread is kept; on failure the failed
\* thread and all threads started before it are deleted, then exit(1).
ThreadStarted ==
    /\ mainPc = "wait"
    /\ woken[cur]
    /\ mutex[cur] = "none"
    /\ IF worker[cur] = "live"
       THEN /\ threads' = Append(threads, cur)
            /\ cur' = cur + 1
            /\ mainPc' = IF cur + 1 = N THEN "running" ELSE "spawn"
            /\ UNCHANGED <<deleting, quitReason>>
       ELSE /\ deleting' = <<cur>> \o threads
            /\ threads' = <<>>
            /\ quitReason' = "startFail"
            /\ mainPc' = "delStop"
            /\ UNCHANGED cur
    /\ UNCHANGED <<seen, version, threadPc, mutex, woken, worker, engine,
                   queue, applied, dangling>>

\* Mutant of RoutesChanged: the loop over threads skips the last one.
RoutesChangedSkipLast ==
    /\ mainPc = "running"
    /\ version < MaxReloads
    /\ version' = version + 1
    /\ queue' = [t \in Ids |->
                   IF t \in ToSet(SubSeq(threads, 1, Len(threads) - 1))
                      /\ worker[t] = "live"
                   THEN Append(queue[t], "routes") ELSE queue[t]]
    /\ UNCHANGED <<mainPc, cur, threads, deleting, seen, quitReason,
                   threadPc, mutex, woken, worker, engine, applied, dangling>>

\* ProcessQuit hup (or a routes-file change): domainMap->reload() fires
\* changed, which calls routesChanged() on every thread: under m, if
\* worker is set, defer worker->routesChanged().
RoutesChanged ==
    /\ mainPc = "running"
    /\ version < MaxReloads
    /\ version' = version + 1
    /\ queue' = [t \in Ids |->
                   IF t \in ToSet(threads) /\ worker[t] = "live"
                   THEN Append(queue[t], "routes") ELSE queue[t]]
    /\ UNCHANGED <<mainPc, cur, threads, deleting, seen, quitReason,
                   threadPc, mutex, woken, worker, engine, applied, dangling>>

\* Mutant of Quit: threads.clear() is missing.
QuitNoClear ==
    /\ mainPc = "running"
    /\ queue' = [t \in Ids |->
                   IF t \in ToSet(threads) /\ worker[t] = "live"
                   THEN Append(queue[t], "stop") ELSE queue[t]]
    /\ deleting' = threads
    /\ quitReason' = "quit"
    /\ mainPc' = "delStop"
    /\ UNCHANGED <<cur, threads, seen, version, threadPc, mutex, woken, worker,
                   engine, applied, dangling>>

\* ProcessQuit quit: cleanup the handler, t->stop() for every thread
\* (defer worker->stop()), then delete every thread.
Quit ==
    /\ mainPc = "running"
    /\ queue' = [t \in Ids |->
                   IF t \in ToSet(threads) /\ worker[t] = "live"
                   THEN Append(queue[t], "stop") ELSE queue[t]]
    /\ deleting' = threads
    /\ threads' = <<>>
    /\ quitReason' = "quit"
    /\ mainPc' = "delStop"
    /\ UNCHANGED <<cur, seen, version, threadPc, mutex, woken, worker, engine,
                   applied, dangling>>

\* delete t: ~EngineThread() calls stop(): lock m and read worker.
DeleteStopRead ==
    LET t == Head(deleting) IN
    /\ mainPc = "delStop"
    /\ mutex[t] = "none"
    /\ mutex' = [mutex EXCEPT ![t] = "main"]
    /\ seen' = (worker[t] = "live")
    /\ mainPc' = "delDefer"
    /\ UNCHANGED <<cur, threads, deleting, quitReason, version, threadPc,
                   woken, worker, engine, queue, applied, dangling>>

\* ... and if it read a worker, defer worker->stop() on that object, then
\* unlock m.  If the worker thread destroyed the object since the read,
\* the closure goes to a destroyed DeferCall.
DeleteStopDefer ==
    LET t == Head(deleting) IN
    /\ mainPc = "delDefer"
    /\ IF seen /\ worker[t] = "live" THEN Defer(t, "stop")
                                     ELSE UNCHANGED queue
    /\ dangling' = (dangling \/ (seen /\ worker[t] = "null"))
    /\ mutex' = [mutex EXCEPT ![t] = "none"]
    /\ seen' = FALSE
    /\ mainPc' = "delJoin"
    /\ UNCHANGED <<cur, threads, deleting, quitReason, version, threadPc,
                   woken, worker, engine, applied>>

\* ... then thread.join(); after the last thread, loop->exit(code).
DeleteJoin ==
    LET t == Head(deleting) IN
    /\ mainPc = "delJoin"
    /\ threadPc[t] = "done"
    /\ deleting' = Tail(deleting)
    /\ mainPc' = IF Tail(deleting) = <<>> THEN "exited" ELSE "delStop"
    /\ UNCHANGED <<cur, threads, seen, quitReason, version, threadPc, mutex,
                   woken, worker, engine, queue, applied, dangling>>

(***************************************************************************)
(* Worker thread t.                                                        *)
(***************************************************************************)

\* run(): m.lock(), create the event loop and the EngineWorker, defer
\* worker->start(), enter exec() still holding m.
WorkerRun(t) ==
    /\ threadPc[t] = "lock"
    /\ mutex[t] = "none"
    /\ mutex' = [mutex EXCEPT ![t] = "worker"]
    /\ worker' = [worker EXCEPT ![t] = "live"]
    /\ Defer(t, "start")
    /\ threadPc' = [threadPc EXCEPT ![t] = "exec"]
    /\ UNCHANGED <<mainPc, cur, threads, deleting, seen, quitReason, version,
                   woken, engine, applied, dangling>>

\* Mutant of WorkerStart: the error handler does not reset worker.
WorkerStartKeepWorker(t) ==
    /\ threadPc[t] = "exec"
    /\ queue[t] # <<>>
    /\ Head(queue[t]) = "start"
    /\ \/ /\ engine' = [engine EXCEPT ![t] = "running"]
          /\ queue' = [queue EXCEPT ![t] = Tail(@)]
          /\ UNCHANGED <<threadPc>>
       \/ /\ engine' = [engine EXCEPT ![t] = "failed"]
          /\ queue' = [queue EXCEPT ![t] = <<>>]
          /\ threadPc' = [threadPc EXCEPT ![t] = "done"]
    /\ woken' = [woken EXCEPT ![t] = TRUE]
    /\ mutex' = [mutex EXCEPT ![t] = "none"]
    /\ UNCHANGED <<mainPc, cur, threads, deleting, seen, quitReason, version,
                   worker, applied, dangling>>

\* EngineWorker::start(): engine_->start(config_).  On success the started
\* handler wakes start() and unlocks m.  On failure engine_ is reset and
\* the error handler resets worker (destroying its DeferCall), exits the
\* loop, wakes start() and unlocks m.
WorkerStart(t) ==
    /\ threadPc[t] = "exec"
    /\ queue[t] # <<>>
    /\ Head(queue[t]) = "start"
    /\ \/ /\ engine' = [engine EXCEPT ![t] = "running"]
          /\ queue' = [queue EXCEPT ![t] = Tail(@)]
          /\ UNCHANGED <<worker, threadPc>>
       \/ /\ engine' = [engine EXCEPT ![t] = "failed"]
          /\ worker' = [worker EXCEPT ![t] = "null"]
          /\ queue' = [queue EXCEPT ![t] = <<>>]
          /\ threadPc' = [threadPc EXCEPT ![t] = "done"]
    /\ woken' = [woken EXCEPT ![t] = TRUE]
    /\ mutex' = [mutex EXCEPT ![t] = "none"]
    /\ UNCHANGED <<mainPc, cur, threads, deleting, seen, quitReason, version,
                   applied, dangling>>

\* Mutant of WorkerStop: engine_.reset() is missing, the engine keeps
\* running after its worker is gone.
WorkerStopKeepEngine(t) ==
    /\ threadPc[t] = "exec"
    /\ queue[t] # <<>>
    /\ Head(queue[t]) = "stop"
    /\ worker' = [worker EXCEPT ![t] = "null"]
    /\ queue' = [queue EXCEPT ![t] = <<>>]
    /\ threadPc' = [threadPc EXCEPT ![t] = "done"]
    /\ UNCHANGED <<mainPc, cur, threads, deleting, seen, quitReason, version,
                   mutex, woken, engine, applied, dangling>>

\* EngineWorker::stop(): engine_.reset(), then the stopped handler resets
\* worker (without m), destroying its DeferCall, and exits the loop; run()
\* returns after DeferCall::cleanup().
WorkerStop(t) ==
    /\ threadPc[t] = "exec"
    /\ queue[t] # <<>>
    /\ Head(queue[t]) = "stop"
    /\ engine' = [engine EXCEPT ![t] = "stopped"]
    /\ worker' = [worker EXCEPT ![t] = "null"]
    /\ queue' = [queue EXCEPT ![t] = <<>>]
    /\ threadPc' = [threadPc EXCEPT ![t] = "done"]
    /\ UNCHANGED <<mainPc, cur, threads, deleting, seen, quitReason, version,
                   mutex, woken, applied, dangling>>

\* EngineWorker::routesChanged(): if the engine exists it re-reads the
\* shared DomainMap.
WorkerRoutesChanged(t) ==
    /\ threadPc[t] = "exec"
    /\ queue[t] # <<>>
    /\ Head(queue[t]) = "routes"
    /\ applied' = IF engine[t] = "running"
                  THEN [applied EXCEPT ![t] = version] ELSE applied
    /\ queue' = [queue EXCEPT ![t] = Tail(@)]
    /\ UNCHANGED <<mainPc, cur, threads, deleting, seen, quitReason, version,
                   threadPc, mutex, woken, worker, engine, dangling>>

\* the process has returned from runLoop and every thread has been joined
Terminated ==
    /\ mainPc = "exited"
    /\ UNCHANGED vars

MainStep ==
    \/ ThreadStart \/ ThreadStarted
    \/ DeleteStopRead \/ DeleteStopDefer \/ DeleteJoin

WorkerStep(t) ==
    \/ WorkerRun(t) \/ WorkerStart(t) \/ WorkerStop(t)
    \/ WorkerRoutesChanged(t)

\* signals delivered to the main thread by the environment
Signal == RoutesChanged \/ Quit

Next ==
    \/ MainStep
    \/ \E t \in Ids : WorkerStep(t)
    \/ Signal
    \/ Terminated

\* Every thread runs its event loop and the OS schedules every runnable
\* thread, so the steps of the main and worker threads are weakly fair;
\* signals are not.
Fairness ==
    /\ WF_vars(MainStep)
    /\ \A t \in Ids : WF_vars(WorkerStep(t))

Spec == Init /\ [][Next]_vars /\ Fairness

(***************************************************************************)
(* Properties.                                                             *)
(***************************************************************************)

\* Every EngineThread that start() accepted (pushed onto `threads`) has an
\* engine that is really running: start() reports success only when
\* Engine::start() succeeded, which relies on the error handler resetting
\* `worker` before it wakes the main thread.
AcceptedWorkersRunning ==
    \A t \in ToSet(threads) : engine[t] = "running"

\* When runLoop's event loop has exited, every worker thread that was
\* spawned has been joined, and the exit code is 1 exactly when some
\* worker's engine failed to start.
CleanExit ==
    mainPc = "exited" =>
        /\ \A t \in Ids : threadPc[t] \in {"idle", "done"}
        /\ (quitReason = "startFail") = (\E t \in Ids : engine[t] = "failed")

\* Every routes change reaches every running engine: after the k-th change
\* of the DomainMap, each worker eventually re-reads it (at version k or
\* later) unless its engine is no longer running.
RoutesPropagate ==
    \A k \in 1 .. MaxReloads :
        version >= k ~>
            \A t \in Ids : applied[t] >= k \/ engine[t] # "running"

\* stop() never defers a closure onto an EngineWorker that the worker
\* thread has already destroyed (the read of `worker` in stop() and the
\* reset in the stopped handler are not both under m).
NoDeferOnDestroyedWorker == ~dangling

\* EngineWorker::start() runs only while EngineThread::start() of the same
\* worker is blocked in w.wait(): an engine leaves "none" only in a step in
\* which the main thread waits for exactly that worker.  If start() could
\* return before the started or error handler woke it, runLoop would go
\* on, or give up and delete the threads, while the engine is starting.
EngineStartsInHandshake ==
    [][\A t \in Ids : engine[t] = "none" /\ engine'[t] # "none" =>
           mainPc = "wait" /\ cur = t]_vars


\* The supervisor implements its abstract specification (SupervisorAbstract):
\* engines start in order and only while not shutting down, the proxy gives
\* up after a failed start, a routes change reaches the running engines,
\* engines stop only on shutdown and the process exits only after every
\* engine stopped.  Threads, m, w, the `worker` pointers and the DeferCall
\* queues are hidden; the exit flag is mainPc = "exited".
Abs == INSTANCE SupervisorAbstract
         WITH reason <- quitReason, exited <- (mainPc = "exited")

AbstractSpec == Abs!Spec

(***************************************************************************)
(* Inductive invariant used by the proofs (SupervisorProofs): the shape of *)
(* the DeferCall queues and of the startup handshake.                      *)
(***************************************************************************)

DeletePcs == {"delStop", "delDefer", "delJoin"}

\* The startup handshake: a worker's start() is queued exactly once, as the
\* first call, and start() has not run until the worker woke the main thread.
Handshake(t) ==
    /\ threadPc[t] \in {"idle", "lock"} =>
           queue[t] = <<>> /\ ~woken[t] /\ worker[t] = "null"
    /\ ~woken[t] => engine[t] = "none" /\ t \notin ToSet(threads)
    /\ ~woken[t] /\ threadPc[t] = "exec" => queue[t] = <<"start">>
    /\ woken[t] => "start" \notin ToSet(queue[t])
    /\ worker[t] = "live" /\ woken[t] => engine[t] = "running"

HandshakeInv == \A t \in Ids : Handshake(t)

\* The main thread's phases: the startup loop and the running state come
\* before any stop; a stop is queued only once the threads list is cleared.
PhaseInv ==
    /\ mainPc \in {"spawn", "wait"} => cur \in Ids
    /\ mainPc \in DeletePcs => deleting # <<>>
    /\ (quitReason = "none") = (mainPc \in {"spawn", "wait", "running"})
    /\ quitReason # "none" => threads = <<>>
    /\ \A t \in Ids : "stop" \in ToSet(queue[t]) => quitReason # "none"
    /\ \A t \in ToSet(threads) : worker[t] = "live" /\ woken[t]
    /\ \A t \in ToSet(deleting) : woken[t]
    /\ quitReason = "none" => Len(threads) = cur
    /\ mainPc = "running" => cur = N
    /\ mainPc = "spawn" => threadPc[cur] = "idle"
    /\ mainPc \in {"spawn", "wait"} =>
           \A t \in Ids : t > cur => threadPc[t] = "idle"

IInv == TypeOK /\ HandshakeInv /\ PhaseInv

=============================================================================
