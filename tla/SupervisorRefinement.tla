------------------------ MODULE SupervisorRefinement ------------------------
(***************************************************************************)
(* Proof that the worker supervisor (Supervisor.tla) implements the safety *)
(* part of its abstract specification (SupervisorAbstract.tla) under the   *)
(* refinement mapping of Supervisor!Abs, for every number of workers: the  *)
(* abstract initial state holds initially, and every step of the detailed  *)
(* specification is a step of the abstract one or leaves the mapped state  *)
(* (engines, routes versions, reason, exit flag) unchanged.                *)
(*                                                                         *)
(* A step maps to an abstract step only if the main thread's state tells   *)
(* what the abstract guard asks: that the worker that starts is the next   *)
(* in order, that a failed start is what runLoop sees when it gives up,    *)
(* that every running engine is in `threads` (or, at shutdown, in          *)
(* `deleting`), and that a joined thread's engine no longer runs.  RefInv  *)
(* states these facts; it is inductive together with IInv.                 *)
(***************************************************************************)
EXTENDS SupervisorProofs

\* a thread that runs but has not woken the main thread is the one start()
\* is waiting for
WaitingIsCur ==
    \A t \in Ids : threadPc[t] # "idle" /\ ~woken[t] => mainPc = "wait" /\ cur = t

\* every worker the startup loop has passed is in `threads`
StartedAccepted ==
    quitReason = "none" => \A u \in Ids : u < cur => u \in ToSet(threads)

\* before shutdown a running engine belongs to `threads` or to the worker
\* start() is waiting for
RunningAccounted ==
    quitReason = "none" =>
        \A t \in Ids : engine[t] = "running" =>
            t \in ToSet(threads) \/ (mainPc = "wait" /\ t = cur)

\* during shutdown a running engine belongs to a thread still to delete
RunningDeleting ==
    \A t \in Ids : engine[t] = "running" /\ quitReason # "none" =>
        t \in ToSet(deleting)

\* a worker thread that finished has no running engine
DoneNotRunning ==
    \A t \in Ids : threadPc[t] = "done" => engine[t] \in {"failed", "stopped"}

\* a worker thread in its event loop still owns its EngineWorker
ExecLive == \A t \in Ids : threadPc[t] = "exec" => worker[t] = "live"

\* before shutdown, a woken worker without EngineWorker failed to start
FailedWithoutWorker ==
    \A t \in Ids : quitReason = "none" /\ woken[t] /\ worker[t] = "null" =>
        engine[t] = "failed"

\* no engine has re-read a routes version that does not exist yet
AppliedBelow == \A t \in Ids : applied[t] <= version

RefInv ==
    /\ WaitingIsCur /\ StartedAccepted /\ RunningAccounted
    /\ RunningDeleting /\ DoneNotRunning /\ ExecLive
    /\ FailedWithoutWorker /\ AppliedBelow

Inv == IInv /\ RefInv

\* a step of the abstract specification, or a stutter of the mapped state
AbsStep == [Abs!Next]_Abs!avars

USE NAssumption, MaxReloadsAssumption

LEMMA ToSetNotHead ==
  ASSUME NEW S, NEW s \in Seq(S), s # <<>>, NEW x \in ToSet(s), x # Head(s)
  PROVE  x \in ToSet(Tail(s))
  <1>1. PICK i \in DOMAIN s : s[i] = x
    BY DEF ToSet
  <1>2. i # 1 /\ i - 1 \in DOMAIN Tail(s) /\ Tail(s)[i - 1] = s[i]
    BY <1>1
  <1>3. QED
    BY <1>1, <1>2 DEF ToSet

\* the engines of `threads` run
LEMMA ThreadsRunning ==
  ASSUME IInv, NEW t \in ToSet(threads)
  PROVE  engine[t] = "running"
  BY ToSetType DEF IInv, TypeOK, PhaseInv, HandshakeInv, Handshake

\* while the main thread serves, every engine runs
LEMMA ServingWhenRunning ==
  ASSUME Inv, mainPc = "running"
  PROVE  Abs!Serving
  <1>1. quitReason = "none" /\ cur = N
    BY DEF Inv, IInv, PhaseInv
  <1>2. \A u \in Ids : u \in ToSet(threads)
    BY <1>1 DEF Inv, RefInv, StartedAccepted, Ids
  <1>3. QED
    BY <1>1, <1>2, ThreadsRunning DEF Inv, Abs!Serving, Abs!Ids, Ids

LEMMA InitInv == Init => Inv
  <1> SUFFICES ASSUME Init PROVE Inv
    OBVIOUS
  <1>1. IInv
    BY InitIInv
  <1>2. RefInv
    BY DEF Init, RefInv, WaitingIsCur, StartedAccepted, RunningAccounted,
           RunningDeleting, DoneNotRunning, ExecLive, FailedWithoutWorker,
           AppliedBelow, Ids
  <1>3. QED
    BY <1>1, <1>2 DEF Inv

LEMMA InitAbs == Init => Abs!Init
  BY DEF Init, Abs!Init, Abs!Ids, Ids

(***************************************************************************)
(* Main thread.                                                            *)
(***************************************************************************)

LEMMA ThreadStartRef == Inv /\ ThreadStart => RefInv' /\ AbsStep
  <1> SUFFICES ASSUME Inv, ThreadStart PROVE RefInv' /\ AbsStep
    OBVIOUS
  <1> USE DEF Inv, IInv
  <1>1. cur \in Ids /\ threadPc[cur] = "idle" /\ mainPc = "spawn"
    BY DEF PhaseInv, ThreadStart
  <1>2. /\ mainPc' = "wait"
        /\ threadPc' = [threadPc EXCEPT ![cur] = "lock"]
        /\ UNCHANGED <<cur, threads, deleting, seen, quitReason, version,
                       mutex, woken, worker, engine, queue, applied, dangling>>
    BY DEF ThreadStart
  <1>3. ~woken[cur]
    BY <1>1 DEF HandshakeInv, Handshake
  <1>4. RefInv'
    BY <1>1, <1>2, <1>3 DEF RefInv, WaitingIsCur, StartedAccepted,
       RunningAccounted, RunningDeleting, DoneNotRunning, ExecLive,
       FailedWithoutWorker, AppliedBelow, TypeOK
  <1>5. AbsStep
    BY <1>1, <1>2 DEF AbsStep, Abs!avars
  <1>6. QED
    BY <1>4, <1>5

\* ThreadStarted after a successful start is a stutter; after a failed one
\* it is GiveUp: the worker start() waited for has a failed engine.
LEMMA ThreadStartedRef == Inv /\ ThreadStarted => RefInv' /\ AbsStep
  <1> SUFFICES ASSUME Inv, ThreadStarted PROVE RefInv' /\ AbsStep
    OBVIOUS
  <1> USE DEF Inv, IInv
  <1>1. /\ cur \in Ids /\ mainPc = "wait" /\ woken[cur] /\ quitReason = "none"
        /\ threads \in Seq(Ids) /\ Len(threads) = cur
    BY DEF ThreadStarted, PhaseInv, TypeOK
  <1>2. UNCHANGED <<seen, version, threadPc, mutex, woken, worker, engine,
                    queue, applied, dangling>>
    BY DEF ThreadStarted
  \* no thread waits to wake the main thread any more
  <1>3. \A t \in Ids : threadPc[t] # "idle" => woken[t]
    BY <1>1 DEF RefInv, WaitingIsCur
  <1>4. CASE worker[cur] = "live"
    <2>1. /\ threads' = Append(threads, cur) /\ cur' = cur + 1
          /\ mainPc' \in {"running", "spawn"}
          /\ UNCHANGED <<deleting, quitReason>>
      BY <1>4 DEF ThreadStarted
    <2>2. ToSet(threads') = ToSet(threads) \cup {cur}
      BY <1>1, <2>1, ToSetAppend
    <2>3. WaitingIsCur' /\ DoneNotRunning' /\ ExecLive' /\ FailedWithoutWorker'
          /\ AppliedBelow' /\ RunningDeleting'
      BY <1>2, <1>3, <2>1 DEF RefInv, WaitingIsCur, DoneNotRunning, ExecLive,
         FailedWithoutWorker, AppliedBelow, RunningDeleting
    <2>4. StartedAccepted'
      BY <1>1, <2>1, <2>2 DEF RefInv, StartedAccepted, Ids
    <2>5. RunningAccounted'
      BY <1>1, <1>2, <2>1, <2>2 DEF RefInv, RunningAccounted
    <2>6. AbsStep
      BY <1>1, <1>2, <2>1 DEF AbsStep, Abs!avars
    <2>7. QED
      BY <2>3, <2>4, <2>5, <2>6 DEF RefInv
  <1>5. CASE worker[cur] # "live"
    <2>1. /\ deleting' = <<cur>> \o threads /\ threads' = <<>>
          /\ quitReason' = "startFail" /\ mainPc' = "delStop"
          /\ UNCHANGED cur
      BY <1>5 DEF ThreadStarted
    <2>2. ToSet(deleting') = {cur} \cup ToSet(threads)
      BY <1>1, <2>1, ToSetCons
    <2>3. engine[cur] = "failed"
      BY <1>1, <1>5 DEF RefInv, FailedWithoutWorker, TypeOK
    <2>4. WaitingIsCur' /\ StartedAccepted' /\ RunningAccounted'
          /\ DoneNotRunning' /\ ExecLive' /\ FailedWithoutWorker'
          /\ AppliedBelow'
      BY <1>2, <1>3, <2>1 DEF RefInv, WaitingIsCur, StartedAccepted,
         RunningAccounted, DoneNotRunning, ExecLive, FailedWithoutWorker,
         AppliedBelow
    <2>5. RunningDeleting'
      BY <1>1, <1>2, <2>1, <2>2, <2>3 DEF RefInv, RunningAccounted,
         RunningDeleting
    <2>6. Abs!GiveUp
      BY <1>1, <1>2, <2>1, <2>3 DEF Abs!GiveUp, Abs!Ids, Ids
    <2>7. QED
      BY <2>4, <2>5, <2>6 DEF RefInv, AbsStep, Abs!Next
  <1>6. QED
    BY <1>4, <1>5

LEMMA RoutesChangedRef == Inv /\ RoutesChanged => RefInv' /\ AbsStep
  <1> SUFFICES ASSUME Inv, RoutesChanged PROVE RefInv' /\ AbsStep
    OBVIOUS
  <1>1. /\ mainPc = "running" /\ version < MaxReloads /\ version' = version + 1
        /\ UNCHANGED <<mainPc, cur, threads, deleting, seen, quitReason,
                       threadPc, mutex, woken, worker, engine, applied, dangling>>
    BY DEF RoutesChanged
  <1>2. RefInv'
    BY <1>1 DEF Inv, IInv, TypeOK, RefInv, WaitingIsCur, StartedAccepted,
       RunningAccounted, RunningDeleting, DoneNotRunning, ExecLive,
       FailedWithoutWorker, AppliedBelow
  <1>3. Abs!Reload
    BY <1>1, ServingWhenRunning DEF Abs!Reload
  <1>4. QED
    BY <1>2, <1>3 DEF AbsStep, Abs!Next

LEMMA QuitRef == Inv /\ Quit => RefInv' /\ AbsStep
  <1> SUFFICES ASSUME Inv, Quit PROVE RefInv' /\ AbsStep
    OBVIOUS
  <1>1. /\ mainPc = "running" /\ quitReason = "none"
        /\ deleting' = threads /\ threads' = <<>> /\ quitReason' = "quit"
        /\ mainPc' = "delStop"
        /\ UNCHANGED <<cur, seen, version, threadPc, mutex, woken, worker,
                       engine, applied, dangling>>
    BY DEF Quit, Inv, IInv, PhaseInv
  <1>2. \A t \in Ids : threadPc[t] # "idle" => woken[t]
    BY <1>1 DEF Inv, RefInv, WaitingIsCur
  <1>3. WaitingIsCur' /\ StartedAccepted' /\ RunningAccounted'
        /\ DoneNotRunning' /\ ExecLive' /\ FailedWithoutWorker'
        /\ AppliedBelow'
    BY <1>1, <1>2 DEF Inv, RefInv, WaitingIsCur, StartedAccepted,
       RunningAccounted, DoneNotRunning, ExecLive, FailedWithoutWorker,
       AppliedBelow
  <1>4. RunningDeleting'
    BY <1>1 DEF Inv, RefInv, RunningAccounted, RunningDeleting
  <1>5. Abs!Quit
    BY <1>1, ServingWhenRunning DEF Abs!Quit
  <1>6. QED
    BY <1>3, <1>4, <1>5 DEF RefInv, AbsStep, Abs!Next

\* the two halves of stop() touch no mapped variable and no RefInv variable
\* except mutex, seen, queue and dangling
LEMMA DeleteStopRef ==
  Inv /\ (DeleteStopRead \/ DeleteStopDefer) => RefInv' /\ AbsStep
  <1> SUFFICES ASSUME Inv, DeleteStopRead \/ DeleteStopDefer
               PROVE  RefInv' /\ AbsStep
    OBVIOUS
  <1>1. /\ mainPc \in {"delStop", "delDefer"} /\ mainPc' \in {"delDefer", "delJoin"}
        /\ UNCHANGED <<cur, threads, deleting, quitReason, version, threadPc,
                       woken, worker, engine, applied>>
    BY DEF DeleteStopRead, DeleteStopDefer
  <1>2. \A t \in Ids : threadPc[t] # "idle" => woken[t]
    BY <1>1 DEF Inv, RefInv, WaitingIsCur
  <1>3. RefInv'
    BY <1>1, <1>2 DEF Inv, RefInv, WaitingIsCur, StartedAccepted,
       RunningAccounted, RunningDeleting, DoneNotRunning, ExecLive,
       FailedWithoutWorker, AppliedBelow
  <1>4. QED
    BY <1>1, <1>3 DEF AbsStep, Abs!avars

\* joining the last thread is Exit: its engine, the only one left to
\* delete, no longer runs
LEMMA DeleteJoinRef == Inv /\ DeleteJoin => RefInv' /\ AbsStep
  <1> SUFFICES ASSUME Inv, DeleteJoin PROVE RefInv' /\ AbsStep
    OBVIOUS
  <1> DEFINE h == Head(deleting)
  <1>1. /\ mainPc = "delJoin" /\ deleting # <<>> /\ deleting \in Seq(Ids)
        /\ quitReason # "none" /\ threadPc[h] = "done"
        /\ deleting' = Tail(deleting)
        /\ mainPc' = IF Tail(deleting) = <<>> THEN "exited" ELSE "delStop"
        /\ UNCHANGED <<cur, threads, seen, quitReason, version, threadPc,
                       mutex, woken, worker, engine, queue, applied, dangling>>
    BY DEF DeleteJoin, Inv, IInv, PhaseInv, TypeOK, DeletePcs
  <1>2. h \in Ids /\ engine[h] # "running"
    BY <1>1 DEF Inv, RefInv, DoneNotRunning
  \* every running engine is still to delete after h
  <1>3. \A t \in Ids : engine[t] = "running" => t \in ToSet(Tail(deleting))
    BY <1>1, <1>2, ToSetNotHead DEF Inv, RefInv, RunningDeleting
  <1>4. \A t \in Ids : threadPc[t] # "idle" => woken[t]
    BY <1>1 DEF Inv, RefInv, WaitingIsCur
  <1>5. RefInv'
    BY <1>1, <1>3, <1>4 DEF Inv, RefInv, WaitingIsCur, StartedAccepted,
       RunningAccounted, RunningDeleting, DoneNotRunning, ExecLive,
       FailedWithoutWorker, AppliedBelow
  <1>6. CASE Tail(deleting) = <<>>
    <2>1. Abs!Exit
      BY <1>1, <1>3, <1>6, ToSetEmpty DEF Abs!Exit, Abs!Ids, Ids
    <2>2. QED
      BY <1>5, <2>1 DEF AbsStep, Abs!Next
  <1>7. CASE Tail(deleting) # <<>>
    BY <1>1, <1>5, <1>7 DEF AbsStep, Abs!avars
  <1>8. QED
    BY <1>5, <1>6, <1>7

(***************************************************************************)
(* Worker thread t.                                                        *)
(***************************************************************************)

LEMMA WorkerRunRef ==
  ASSUME NEW t \in Ids
  PROVE  Inv /\ WorkerRun(t) => RefInv' /\ AbsStep
  <1> SUFFICES ASSUME Inv, WorkerRun(t) PROVE RefInv' /\ AbsStep
    OBVIOUS
  <1>1. /\ threadPc[t] = "lock"
        /\ worker' = [worker EXCEPT ![t] = "live"]
        /\ threadPc' = [threadPc EXCEPT ![t] = "exec"]
        /\ UNCHANGED <<mainPc, cur, threads, deleting, seen, quitReason,
                       version, woken, engine, applied, dangling>>
    BY DEF WorkerRun
  <1>2. RefInv'
    BY <1>1 DEF Inv, IInv, TypeOK, RefInv, WaitingIsCur, StartedAccepted,
       RunningAccounted, RunningDeleting, DoneNotRunning, ExecLive,
       FailedWithoutWorker, AppliedBelow
  <1>3. QED
    BY <1>1, <1>2 DEF AbsStep, Abs!avars

\* the start() closure is EngineStart(t): the main thread waits for t, so
\* every worker before t was accepted and runs
LEMMA WorkerStartRef ==
  ASSUME NEW t \in Ids
  PROVE  Inv /\ WorkerStart(t) => RefInv' /\ AbsStep
  <1> SUFFICES ASSUME Inv, WorkerStart(t) PROVE RefInv' /\ AbsStep
    OBVIOUS
  <1> USE DEF Inv, IInv
  <1>1. ~woken[t]
    BY ToSetTail DEF WorkerStart, TypeOK, HandshakeInv, Handshake
  <1>2. /\ mainPc = "wait" /\ cur = t /\ quitReason = "none"
        /\ engine[t] = "none" /\ worker[t] = "live"
    BY <1>1 DEF WorkerStart, RefInv, WaitingIsCur, ExecLive, PhaseInv,
       HandshakeInv, Handshake
  <1>3. \A u \in Ids : u < t => engine[u] = "running"
    BY <1>2, ThreadsRunning DEF RefInv, StartedAccepted
  <1>4. /\ woken' = [woken EXCEPT ![t] = TRUE]
        /\ UNCHANGED <<mainPc, cur, threads, deleting, quitReason, version,
                       applied>>
    BY DEF WorkerStart
  <1>5. CASE /\ engine' = [engine EXCEPT ![t] = "running"]
             /\ UNCHANGED <<worker, threadPc>>
    <2>1. RefInv'
      BY <1>2, <1>4, <1>5 DEF TypeOK, RefInv, WaitingIsCur, StartedAccepted,
         RunningAccounted, RunningDeleting, DoneNotRunning, ExecLive,
         FailedWithoutWorker, AppliedBelow
    <2>2. Abs!EngineStart(t)
      BY <1>2, <1>3, <1>4, <1>5 DEF Abs!EngineStart, Abs!Ids, Ids
    <2>3. QED
      BY <2>1, <2>2 DEF AbsStep, Abs!Next, Abs!Ids, Ids
  <1>6. CASE /\ engine' = [engine EXCEPT ![t] = "failed"]
             /\ worker' = [worker EXCEPT ![t] = "null"]
             /\ threadPc' = [threadPc EXCEPT ![t] = "done"]
    <2>1. RefInv'
      BY <1>2, <1>4, <1>6 DEF TypeOK, RefInv, WaitingIsCur, StartedAccepted,
         RunningAccounted, RunningDeleting, DoneNotRunning, ExecLive,
         FailedWithoutWorker, AppliedBelow
    <2>2. Abs!EngineStart(t)
      BY <1>2, <1>3, <1>4, <1>6 DEF Abs!EngineStart, Abs!Ids, Ids
    <2>3. QED
      BY <2>1, <2>2 DEF AbsStep, Abs!Next, Abs!Ids, Ids
  <1>7. QED
    BY <1>5, <1>6 DEF WorkerStart

\* the stop() closure is Stop(t): a queued stop means the proxy shuts down,
\* and the worker still in its loop has a running engine
LEMMA WorkerStopRef ==
  ASSUME NEW t \in Ids
  PROVE  Inv /\ WorkerStop(t) => RefInv' /\ AbsStep
  <1> SUFFICES ASSUME Inv, WorkerStop(t) PROVE RefInv' /\ AbsStep
    OBVIOUS
  <1> USE DEF Inv, IInv
  <1>0. /\ threadPc[t] = "exec" /\ queue[t] # <<>> /\ Head(queue[t]) = "stop"
        /\ queue[t] \in Seq(Calls)
    BY DEF WorkerStop, TypeOK
  <1>1. woken[t] /\ quitReason # "none"
    <2>1. woken[t]
      BY <1>0, QueueFacts
    <2>2. "stop" \in ToSet(queue[t])
      BY <1>0, ToSetTail
    <2>3. QED
      BY <2>1, <2>2 DEF PhaseInv
  <1>2. engine[t] = "running"
    BY <1>1 DEF WorkerStop, RefInv, ExecLive, HandshakeInv, Handshake
  <1>3. /\ engine' = [engine EXCEPT ![t] = "stopped"]
        /\ worker' = [worker EXCEPT ![t] = "null"]
        /\ threadPc' = [threadPc EXCEPT ![t] = "done"]
        /\ UNCHANGED <<mainPc, cur, threads, deleting, quitReason, version,
                       woken, applied>>
    BY DEF WorkerStop
  <1>4. RefInv'
    BY <1>1, <1>3 DEF TypeOK, RefInv, WaitingIsCur, StartedAccepted,
       RunningAccounted, RunningDeleting, DoneNotRunning, ExecLive,
       FailedWithoutWorker, AppliedBelow
  <1>5. Abs!Stop(t)
    BY <1>1, <1>2, <1>3 DEF Abs!Stop
  <1>6. QED
    BY <1>4, <1>5 DEF AbsStep, Abs!Next, Abs!Ids, Ids

\* the routes closure is Apply(t) when it brings a running engine up to
\* date, and a stutter otherwise
LEMMA WorkerRoutesChangedRef ==
  ASSUME NEW t \in Ids
  PROVE  Inv /\ WorkerRoutesChanged(t) => RefInv' /\ AbsStep
  <1> SUFFICES ASSUME Inv, WorkerRoutesChanged(t) PROVE RefInv' /\ AbsStep
    OBVIOUS
  <1>1. /\ applied' = IF engine[t] = "running"
                      THEN [applied EXCEPT ![t] = version] ELSE applied
        /\ UNCHANGED <<mainPc, cur, threads, deleting, seen, quitReason,
                       version, threadPc, mutex, woken, worker, engine, dangling>>
    BY DEF WorkerRoutesChanged
  <1>2. RefInv'
    BY <1>1 DEF Inv, IInv, TypeOK, RefInv, WaitingIsCur, StartedAccepted,
       RunningAccounted, RunningDeleting, DoneNotRunning, ExecLive,
       FailedWithoutWorker, AppliedBelow
  <1>3. CASE engine[t] = "running" /\ applied[t] < version
    BY <1>1, <1>2, <1>3 DEF AbsStep, Abs!Next, Abs!Apply, Abs!Ids, Ids
  <1>4. CASE engine[t] = "running" /\ ~(applied[t] < version)
    <2>1. applied[t] = version
      BY <1>4 DEF Inv, RefInv, AppliedBelow, IInv, TypeOK
    <2>2. applied' = applied
      BY <1>1, <1>4, <2>1 DEF Inv, IInv, TypeOK
    <2>3. QED
      BY <1>1, <1>2, <2>2 DEF AbsStep, Abs!avars
  <1>5. CASE engine[t] # "running"
    BY <1>1, <1>2, <1>5 DEF AbsStep, Abs!avars
  <1>6. QED
    BY <1>2, <1>3, <1>4, <1>5

LEMMA StutterRef == Inv /\ (Terminated \/ UNCHANGED vars) => RefInv' /\ AbsStep
  <1> SUFFICES ASSUME Inv, UNCHANGED vars PROVE RefInv' /\ AbsStep
    BY DEF Terminated
  <1>1. RefInv'
    BY DEF vars, Inv, RefInv, WaitingIsCur, StartedAccepted, RunningAccounted,
       RunningDeleting, DoneNotRunning, ExecLive, FailedWithoutWorker,
       AppliedBelow
  <1>2. QED
    BY <1>1 DEF vars, AbsStep, Abs!avars

LEMMA NextRef == Inv /\ [Next]_vars => Inv' /\ AbsStep
  <1> SUFFICES ASSUME Inv, [Next]_vars PROVE Inv' /\ AbsStep
    OBVIOUS
  <1>1. IInv'
    BY NextIInv DEF Inv
  <1>2. RefInv' /\ AbsStep
    <2>1. CASE MainStep
      BY <2>1, ThreadStartRef, ThreadStartedRef, DeleteStopRef, DeleteJoinRef
      DEF MainStep
    <2>2. CASE \E t \in Ids : WorkerStep(t)
      BY <2>2, WorkerRunRef, WorkerStartRef, WorkerStopRef,
         WorkerRoutesChangedRef DEF WorkerStep
    <2>3. CASE Signal
      BY <2>3, RoutesChangedRef, QuitRef DEF Signal
    <2>4. CASE Terminated \/ UNCHANGED vars
      BY <2>4, StutterRef
    <2>5. QED
      BY <2>1, <2>2, <2>3, <2>4 DEF Next
  <1>3. QED
    BY <1>1, <1>2 DEF Inv

\* only WorkerStart(t) moves engine[t] away from "none", and it runs while
\* the main thread waits in start() for t
LEMMA HandshakeStep ==
  ASSUME Inv, [Next]_vars, NEW t \in Ids, engine[t] = "none", engine'[t] # "none"
  PROVE  mainPc = "wait" /\ cur = t
  <1>1. CASE WorkerStart(t)
    <2>1. ~woken[t]
      BY <1>1, ToSetTail DEF WorkerStart, Inv, IInv, TypeOK, HandshakeInv, Handshake
    <2>2. QED
      BY <1>1, <2>1 DEF WorkerStart, Inv, RefInv, WaitingIsCur
  \* a stop() closure reaches only a worker whose engine runs
  <1>2. CASE WorkerStop(t)
    <2>1. /\ threadPc[t] = "exec" /\ queue[t] # <<>> /\ Head(queue[t]) = "stop"
      BY <1>2 DEF WorkerStop
    <2>2. woken[t]
      BY <2>1, QueueFacts DEF Inv, IInv
    <2>3. engine[t] = "running"
      BY <2>1, <2>2 DEF Inv, RefInv, ExecLive, IInv, HandshakeInv, Handshake
    <2>4. QED
      BY <2>3
  <1>3. CASE ~WorkerStart(t) /\ ~WorkerStop(t)
    <2>1. engine \in [Ids -> {"none", "running", "failed", "stopped"}]
      BY DEF Inv, IInv, TypeOK
    <2>2. CASE MainStep
      BY <2>2 DEF MainStep, ThreadStart, ThreadStarted, DeleteStopRead,
                  DeleteStopDefer, DeleteJoin
    <2>3. CASE Signal
      BY <2>3 DEF Signal, RoutesChanged, Quit
    <2>4. CASE Terminated \/ UNCHANGED vars
      BY <2>4 DEF Terminated, vars
    <2>5. CASE \E u \in Ids : WorkerStep(u)
      <3>1. PICK u \in Ids : WorkerStep(u)
        BY <2>5
      <3>2. CASE u = t
        BY <1>3, <3>1, <3>2 DEF WorkerStep, WorkerRun, WorkerRoutesChanged
      <3>3. CASE u # t
        BY <2>1, <3>1, <3>3 DEF WorkerStep, WorkerRun, WorkerStart, WorkerStop,
                                WorkerRoutesChanged
      <3>4. QED
        BY <3>2, <3>3
    <2>6. QED
      BY <2>2, <2>3, <2>4, <2>5 DEF Next
  <1>4. QED
    BY <1>1, <1>2, <1>3

(***************************************************************************)
(* Theorems.                                                               *)
(***************************************************************************)

\* IInv /\ RefInv holds in every reachable state of the supervisor.
THEOREM RefInvHolds == Spec => []Inv
  BY InitInv, NextRef, PTL DEF Spec

\* The supervisor implements the safety part of SupervisorAbstract for every
\* N >= 1 and every reload bound: runLoop's startup loop starts the engines
\* in worker order and gives up only after a failed start, routes changes
\* reach only running engines and only while all serve, an engine stops only
\* once quit() or a failed start began the shutdown, and the event loop
\* exits only after every joined thread's engine stopped.  (Its fairness
\* part, and so AbstractSpec in full, is checked by TLC.)
THEOREM RefinementSafety == Spec => Abs!Init /\ [][Abs!Next]_Abs!avars
  <1>1. Init => Abs!Init
    BY InitAbs
  <1>2. Inv /\ [Next]_vars => AbsStep
    BY NextRef
  <1>3. QED
    BY <1>1, <1>2, RefInvHolds, PTL DEF Spec, AbsStep

\* For any N >= 1, EngineWorker::start() runs only while EngineThread::
\* start() of that same worker is blocked in w.wait(): the engine of worker
\* t leaves "none" only in a step in which the main thread waits for t.
THEOREM EngineStartsInHandshakeHolds == Spec => EngineStartsInHandshake
  <1>1. Inv /\ [Next]_vars =>
          [\A t \in Ids : engine[t] = "none" /\ engine'[t] # "none" =>
                            mainPc = "wait" /\ cur = t]_vars
    BY HandshakeStep
  <1>2. QED
    BY <1>1, RefInvHolds, PTL DEF Spec, EngineStartsInHandshake
=============================================================================
