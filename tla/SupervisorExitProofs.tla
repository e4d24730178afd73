------------------------ MODULE SupervisorExitProofs ------------------------
(***************************************************************************)
(* Proof of CleanExit for every N >= 1 and every reload bound: when       *)
(* runLoop's event loop exits, every spawned worker thread was joined and *)
(* the exit code is 1 exactly when a worker's engine failed to start.     *)
(*                                                                         *)
(* CleanExit only speaks of the state after the last join, so it is not   *)
(* inductive.  ExitInv says why it holds then: once the shutdown began,   *)
(* every worker thread that has not finished is still to be deleted (and  *)
(* so to be joined); the event loop exits only once nothing is left to   *)
(* delete; and a failed engine is the engine start() was waiting for when *)
(* it failed, which made runLoop give up, and nothing else fails.  The    *)
(* proof rests on IInv /\ RefInv of SupervisorRefinement.                 *)
(***************************************************************************)
EXTENDS SupervisorRefinement

\* during shutdown every worker thread that runs is still to be deleted
JoinPending ==
    quitReason # "none" =>
        \A t \in Ids : threadPc[t] \notin {"idle", "done"} => t \in ToSet(deleting)

\* runLoop exits its event loop only after the last delete
ExitedJoined == mainPc = "exited" => deleting = <<>>

\* a failed engine is the one start() waits for, or runLoop gave up on it
FailedMeansGiveUp ==
    \A t \in Ids : engine[t] = "failed" =>
        \/ quitReason = "startFail"
        \/ quitReason = "none" /\ mainPc = "wait" /\ t = cur

\* runLoop gives up only on the engine of worker cur, which failed
GiveUpFailed == quitReason = "startFail" => cur \in Ids /\ engine[cur] = "failed"

\* the worker thread of a failed engine has returned from run()
FailedDone == \A t \in Ids : engine[t] = "failed" => threadPc[t] = "done"

ExitInv == JoinPending /\ ExitedJoined /\ FailedMeansGiveUp /\ GiveUpFailed /\ FailedDone

USE NAssumption, MaxReloadsAssumption

LEMMA InitExit == Init => ExitInv
  BY DEF Init, ExitInv, JoinPending, ExitedJoined, FailedMeansGiveUp,
         GiveUpFailed, FailedDone

\* before the shutdown no engine failed unless start() still waits for it
LEMMA NoFailedOutsideWait ==
  ASSUME ExitInv, quitReason = "none", mainPc # "wait"
  PROVE  \A t \in Ids : engine[t] # "failed"
  BY DEF ExitInv, FailedMeansGiveUp

(***************************************************************************)
(* Main thread.                                                            *)
(***************************************************************************)

LEMMA ThreadStartExit == Inv /\ ExitInv /\ ThreadStart => ExitInv'
  <1> SUFFICES ASSUME Inv, ExitInv, ThreadStart PROVE ExitInv'
    OBVIOUS
  <1>1. /\ mainPc = "spawn" /\ mainPc' = "wait" /\ quitReason = "none"
        /\ UNCHANGED <<quitReason, engine>>
    BY DEF ThreadStart, Inv, IInv, PhaseInv
  <1>2. \A t \in Ids : engine'[t] # "failed"
    BY <1>1, NoFailedOutsideWait
  <1>3. QED
    BY <1>1, <1>2 DEF ExitInv, JoinPending, ExitedJoined, FailedMeansGiveUp,
       GiveUpFailed, FailedDone

LEMMA ThreadStartedExit == Inv /\ ExitInv /\ ThreadStarted => ExitInv'
  <1> SUFFICES ASSUME Inv, ExitInv, ThreadStarted PROVE ExitInv'
    OBVIOUS
  <1>1. /\ cur \in Ids /\ mainPc = "wait" /\ woken[cur] /\ quitReason = "none"
        /\ threads \in Seq(Ids)
    BY DEF ThreadStarted, Inv, IInv, PhaseInv, TypeOK
  <1>2. UNCHANGED <<threadPc, worker, engine>>
    BY DEF ThreadStarted
  <1>3. CASE worker[cur] = "live"
    <2>1. /\ mainPc' \in {"running", "spawn"}
          /\ UNCHANGED quitReason
      BY <1>3 DEF ThreadStarted
    \* the engine start() waited for runs, so no engine failed
    <2>2. engine[cur] = "running"
      BY <1>1, <1>3 DEF Inv, IInv, HandshakeInv, Handshake
    <2>3. \A t \in Ids : engine[t] # "failed"
      BY <1>1, <2>2 DEF ExitInv, FailedMeansGiveUp
    <2>4. QED
      BY <1>1, <1>2, <2>1, <2>3 DEF ExitInv, JoinPending, ExitedJoined,
         FailedMeansGiveUp, GiveUpFailed, FailedDone
  <1>4. CASE worker[cur] # "live"
    <2>1. /\ deleting' = <<cur>> \o threads
          /\ quitReason' = "startFail" /\ mainPc' = "delStop"
          /\ UNCHANGED cur
      BY <1>4 DEF ThreadStarted
    <2>2. ToSet(deleting') = {cur} \cup ToSet(threads)
      BY <1>1, <2>1, ToSetCons
    \* a running worker thread is cur or one that start() accepted
    <2>3. \A t \in Ids : threadPc[t] # "idle" => t = cur \/ t \in ToSet(threads)
      <3>1. \A t \in Ids : t > cur => threadPc[t] = "idle"
        BY <1>1 DEF Inv, IInv, PhaseInv
      <3>2. \A t \in Ids : t < cur => t \in ToSet(threads)
        BY <1>1 DEF Inv, RefInv, StartedAccepted
      <3>3. QED
        BY <1>1, <3>1, <3>2 DEF Ids
    <2>4. JoinPending'
      BY <1>2, <2>2, <2>3 DEF JoinPending
    <2>5. GiveUpFailed'
      BY <1>1, <1>2, <1>4, <2>1 DEF Inv, IInv, RefInv, FailedWithoutWorker,
         TypeOK, GiveUpFailed
    <2>6. QED
      BY <1>2, <2>1, <2>4, <2>5 DEF ExitInv, ExitedJoined, FailedMeansGiveUp,
         FailedDone
  <1>5. QED
    BY <1>3, <1>4

LEMMA RoutesChangedExit == ExitInv /\ RoutesChanged => ExitInv'
  BY DEF RoutesChanged, ExitInv, JoinPending, ExitedJoined, FailedMeansGiveUp,
         GiveUpFailed, FailedDone

\* quit() deletes every thread: the startup loop accepted all of them
LEMMA QuitExit == Inv /\ ExitInv /\ Quit => ExitInv'
  <1> SUFFICES ASSUME Inv, ExitInv, Quit PROVE ExitInv'
    OBVIOUS
  <1>1. /\ mainPc = "running" /\ quitReason = "none" /\ cur = N
        /\ deleting' = threads /\ quitReason' = "quit" /\ mainPc' = "delStop"
        /\ UNCHANGED <<cur, threadPc, engine>>
    BY DEF Quit, Inv, IInv, PhaseInv
  <1>2. \A t \in Ids : t \in ToSet(threads)
    BY <1>1 DEF Inv, RefInv, StartedAccepted, Ids
  <1>3. \A t \in Ids : engine[t] # "failed"
    BY <1>1, NoFailedOutsideWait
  <1>4. QED
    BY <1>1, <1>2, <1>3 DEF ExitInv, JoinPending, ExitedJoined,
       FailedMeansGiveUp, GiveUpFailed, FailedDone

LEMMA DeleteStopExit ==
  Inv /\ ExitInv /\ (DeleteStopRead \/ DeleteStopDefer) => ExitInv'
  <1> SUFFICES ASSUME Inv, ExitInv, DeleteStopRead \/ DeleteStopDefer
               PROVE  ExitInv'
    OBVIOUS
  <1>1. /\ mainPc \in {"delStop", "delDefer"} /\ mainPc' \in {"delDefer", "delJoin"}
        /\ UNCHANGED <<cur, deleting, quitReason, threadPc, engine>>
    BY DEF DeleteStopRead, DeleteStopDefer
  <1>2. quitReason # "none"
    BY <1>1 DEF Inv, IInv, PhaseInv
  <1>3. QED
    BY <1>1, <1>2 DEF ExitInv, JoinPending, ExitedJoined, FailedMeansGiveUp,
       GiveUpFailed, FailedDone

\* join() returns only for a finished thread, and exit follows the last one
LEMMA DeleteJoinExit == Inv /\ ExitInv /\ DeleteJoin => ExitInv'
  <1> SUFFICES ASSUME Inv, ExitInv, DeleteJoin PROVE ExitInv'
    OBVIOUS
  <1> DEFINE h == Head(deleting)
  <1>1. /\ mainPc = "delJoin" /\ deleting # <<>> /\ deleting \in Seq(Ids)
        /\ quitReason # "none" /\ threadPc[h] = "done"
        /\ deleting' = Tail(deleting)
        /\ mainPc' = IF Tail(deleting) = <<>> THEN "exited" ELSE "delStop"
        /\ UNCHANGED <<cur, quitReason, threadPc, engine>>
    BY DEF DeleteJoin, Inv, IInv, PhaseInv, TypeOK, DeletePcs
  <1>2. JoinPending'
    <2>1. \A t \in ToSet(deleting) : t # h => t \in ToSet(Tail(deleting))
      BY <1>1, ToSetNotHead
    <2>2. QED
      BY <1>1, <2>1 DEF ExitInv, JoinPending
  <1>3. QED
    BY <1>1, <1>2 DEF ExitInv, ExitedJoined, FailedMeansGiveUp,
       GiveUpFailed, FailedDone

(***************************************************************************)
(* Worker thread t.                                                        *)
(***************************************************************************)

LEMMA WorkerRunExit ==
  ASSUME NEW t \in Ids
  PROVE  Inv /\ ExitInv /\ WorkerRun(t) => ExitInv'
  <1> SUFFICES ASSUME Inv, ExitInv, WorkerRun(t) PROVE ExitInv'
    OBVIOUS
  <1>1. /\ threadPc[t] = "lock"
        /\ threadPc' = [threadPc EXCEPT ![t] = "exec"]
        /\ UNCHANGED <<mainPc, cur, deleting, quitReason, engine>>
    BY DEF WorkerRun
  \* a thread still taking m has no engine yet
  <1>2. engine[t] # "failed"
    BY <1>1 DEF ExitInv, FailedDone
  <1>3. \A u \in Ids : threadPc'[u] \notin {"idle", "done"} =>
                        threadPc[u] \notin {"idle", "done"}
    BY <1>1 DEF Inv, IInv, TypeOK
  <1>4. \A u \in Ids : engine[u] = "failed" => threadPc'[u] = threadPc[u]
    BY <1>1, <1>2 DEF Inv, IInv, TypeOK
  <1>5. QED
    BY <1>1, <1>3, <1>4 DEF ExitInv, JoinPending, ExitedJoined,
       FailedMeansGiveUp, GiveUpFailed, FailedDone

\* the start() closure runs while the main thread waits for exactly t
LEMMA WorkerStartExit ==
  ASSUME NEW t \in Ids
  PROVE  Inv /\ ExitInv /\ WorkerStart(t) => ExitInv'
  <1> SUFFICES ASSUME Inv, ExitInv, WorkerStart(t) PROVE ExitInv'
    OBVIOUS
  <1>1. ~woken[t]
    BY ToSetTail DEF WorkerStart, Inv, IInv, TypeOK, HandshakeInv, Handshake
  <1>2. /\ threadPc[t] = "exec" /\ mainPc = "wait" /\ cur = t
        /\ quitReason = "none"
    BY <1>1 DEF WorkerStart, Inv, RefInv, WaitingIsCur, IInv, PhaseInv
  <1>3. UNCHANGED <<mainPc, cur, deleting, quitReason>>
    BY DEF WorkerStart
  <1>4. (JoinPending /\ ExitedJoined /\ GiveUpFailed)'
    BY <1>2, <1>3 DEF JoinPending, ExitedJoined, GiveUpFailed
  \* only the engine of t changes; any other failed engine is t's
  <1>5. \A u \in Ids \ {t} : engine[u] # "failed"
    BY <1>2 DEF ExitInv, FailedMeansGiveUp
  <1>6. CASE /\ engine' = [engine EXCEPT ![t] = "running"]
             /\ UNCHANGED threadPc
    <2>1. \A u \in Ids : engine'[u] # "failed"
      BY <1>5, <1>6 DEF Inv, IInv, TypeOK
    <2>2. QED
      BY <1>4, <2>1 DEF ExitInv, FailedMeansGiveUp, FailedDone
  <1>7. CASE /\ engine' = [engine EXCEPT ![t] = "failed"]
             /\ threadPc' = [threadPc EXCEPT ![t] = "done"]
    <2>1. \A u \in Ids : engine'[u] = "failed" => u = t
      BY <1>5, <1>7 DEF Inv, IInv, TypeOK
    <2>2. threadPc'[t] = "done"
      BY <1>7 DEF Inv, IInv, TypeOK
    <2>3. QED
      BY <1>2, <1>3, <1>4, <2>1, <2>2 DEF ExitInv, FailedMeansGiveUp, FailedDone
  <1>8. QED
    BY <1>6, <1>7 DEF WorkerStart

\* the stop() closure finishes a thread whose engine was running
LEMMA WorkerStopExit ==
  ASSUME NEW t \in Ids
  PROVE  Inv /\ ExitInv /\ WorkerStop(t) => ExitInv'
  <1> SUFFICES ASSUME Inv, ExitInv, WorkerStop(t) PROVE ExitInv'
    OBVIOUS
  <1>1. /\ threadPc[t] = "exec"
        /\ engine' = [engine EXCEPT ![t] = "stopped"]
        /\ threadPc' = [threadPc EXCEPT ![t] = "done"]
        /\ UNCHANGED <<mainPc, cur, deleting, quitReason>>
    BY DEF WorkerStop
  <1>2. engine[t] # "failed"
    BY <1>1 DEF ExitInv, FailedDone
  <1>3. \A u \in Ids : engine'[u] = "failed" =>
                        u # t /\ engine[u] = "failed" /\ threadPc'[u] = threadPc[u]
    BY <1>1 DEF Inv, IInv, TypeOK
  <1>4. \A u \in Ids : threadPc'[u] \notin {"idle", "done"} =>
                        threadPc[u] \notin {"idle", "done"}
    BY <1>1 DEF Inv, IInv, TypeOK
  <1>5. GiveUpFailed'
    BY <1>1, <1>2 DEF ExitInv, GiveUpFailed, FailedDone, Inv, IInv, TypeOK
  <1>6. QED
    BY <1>1, <1>3, <1>4, <1>5 DEF ExitInv, JoinPending, ExitedJoined,
       FailedMeansGiveUp, FailedDone

LEMMA WorkerRoutesChangedExit ==
  ASSUME NEW t \in Ids
  PROVE  ExitInv /\ WorkerRoutesChanged(t) => ExitInv'
  BY DEF WorkerRoutesChanged, ExitInv, JoinPending, ExitedJoined,
         FailedMeansGiveUp, GiveUpFailed, FailedDone

LEMMA StutterExit == ExitInv /\ (Terminated \/ UNCHANGED vars) => ExitInv'
  BY DEF Terminated, vars, ExitInv, JoinPending, ExitedJoined,
         FailedMeansGiveUp, GiveUpFailed, FailedDone

LEMMA NextExit == Inv /\ ExitInv /\ [Next]_vars => ExitInv'
  <1> SUFFICES ASSUME Inv, ExitInv, [Next]_vars PROVE ExitInv'
    OBVIOUS
  <1>1. CASE MainStep
    BY <1>1, ThreadStartExit, ThreadStartedExit, DeleteStopExit, DeleteJoinExit
    DEF MainStep
  <1>2. CASE \E t \in Ids : WorkerStep(t)
    BY <1>2, WorkerRunExit, WorkerStartExit, WorkerStopExit,
       WorkerRoutesChangedExit DEF WorkerStep
  <1>3. CASE Signal
    BY <1>3, RoutesChangedExit, QuitExit DEF Signal
  <1>4. CASE Terminated \/ UNCHANGED vars
    BY <1>4, StutterExit
  <1>5. QED
    BY <1>1, <1>2, <1>3, <1>4 DEF Next

\* ExitInv, with IInv /\ RefInv, gives CleanExit
LEMMA ExitInvClean == Inv /\ ExitInv => CleanExit
  <1> SUFFICES ASSUME Inv, ExitInv, mainPc = "exited"
               PROVE  /\ \A t \in Ids : threadPc[t] \in {"idle", "done"}
                      /\ (quitReason = "startFail") = (\E t \in Ids : engine[t] = "failed")
    BY Zenon DEF CleanExit
  <1>1. quitReason \in {"quit", "startFail"} /\ deleting = <<>>
    BY DEF Inv, IInv, PhaseInv, TypeOK, ExitInv, ExitedJoined
  <1>2. \A t \in Ids : threadPc[t] \in {"idle", "done"}
    <2>1. ToSet(deleting) = {}
      BY <1>1, ToSetEmpty
    <2>2. QED
      BY <1>1, <2>1 DEF ExitInv, JoinPending, Inv, IInv, TypeOK
  <1>3. (quitReason = "startFail") = (\E t \in Ids : engine[t] = "failed")
    BY <1>1, Zenon DEF ExitInv, GiveUpFailed, FailedMeansGiveUp
  <1>4. QED
    BY <1>2, <1>3, Zenon

(***************************************************************************)
(* Theorems.                                                               *)
(***************************************************************************)

\* ExitInv holds, with IInv /\ RefInv, in every reachable state.
THEOREM ExitInvHolds == Spec => [](Inv /\ ExitInv)
  <1>1. Init => Inv /\ ExitInv
    BY InitInv, InitExit
  <1>2. Inv /\ ExitInv /\ [Next]_vars => (Inv /\ ExitInv)'
    BY NextRef, NextExit
  <1>3. QED
    BY <1>1, <1>2, PTL DEF Spec

\* When runLoop's event loop has exited, for any N >= 1 and any reload
\* bound, every spawned worker thread was joined, and the exit code is 1
\* exactly when some worker's engine failed to start: the failure path of
\* the startup loop deletes the failed thread and every thread started
\* before it, and quit() deletes all of them.
THEOREM CleanExitHolds == Spec => []CleanExit
  BY ExitInvHolds, ExitInvClean, PTL

=============================================================================
