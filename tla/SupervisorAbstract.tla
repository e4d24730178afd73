------------------------- MODULE SupervisorAbstract -------------------------
(***************************************************************************)
(* What the worker supervisor of pushpin-proxy promises (specification,    *)
(* 4.I), with every operation atomic and no threads, locks or queues:      *)
(*                                                                         *)
(*  - the engines start one after the other, in worker order, and only    *)
(*    while the proxy is neither quitting nor giving up;                   *)
(*  - once an engine failed to start, the proxy gives up (exit code 1);    *)
(*  - a routes change, once all engines run, is eventually re-read by      *)
(*    every engine that is still running;                                  *)
(*  - an engine only stops once the proxy quits or gives up, and the      *)
(*    process exits only after no engine runs any more.                    *)
(*                                                                         *)
(* Supervisor.tla implements this specification (see AbstractSpec there). *)
(***************************************************************************)
EXTENDS Naturals

CONSTANTS N, MaxReloads

Ids == 0 .. N - 1

VARIABLES
    engine,   \* per worker: "none", "running", "failed" or "stopped"
    version,  \* number of routes changes
    applied,  \* per worker: the routes version its engine re-read last
    reason,   \* "none", "quit" (signal) or "startFail" (giving up)
    exited    \* the process has left its event loop

avars == <<engine, version, applied, reason, exited>>

Init ==
    /\ engine = [t \in Ids |-> "none"]
    /\ version = 0
    /\ applied = [t \in Ids |-> 0]
    /\ reason = "none"
    /\ exited = FALSE

\* all engines have started and the proxy is not shutting down
Serving == reason = "none" /\ \A t \in Ids : engine[t] = "running"

\* worker t's engine starts, or fails to start, after all before it started
EngineStart(t) ==
    /\ reason = "none"
    /\ engine[t] = "none"
    /\ \A u \in Ids : u < t => engine[u] = "running"
    /\ \E e \in {"running", "failed"} : engine' = [engine EXCEPT ![t] = e]
    /\ UNCHANGED <<version, applied, reason, exited>>

\* an engine failed to start: the proxy gives up
GiveUp ==
    /\ reason = "none"
    /\ \E t \in Ids : engine[t] = "failed"
    /\ reason' = "startFail"
    /\ UNCHANGED <<engine, version, applied, exited>>

\* the routes change while all engines serve
Reload ==
    /\ Serving
    /\ version < MaxReloads
    /\ version' = version + 1
    /\ UNCHANGED <<engine, applied, reason, exited>>

\* a running engine re-reads the routes
Apply(t) ==
    /\ engine[t] = "running"
    /\ applied[t] < version
    /\ applied' = [applied EXCEPT ![t] = version]
    /\ UNCHANGED <<engine, version, reason, exited>>

\* SIGINT or SIGTERM while all engines serve
Quit ==
    /\ Serving
    /\ reason' = "quit"
    /\ UNCHANGED <<engine, version, applied, exited>>

\* a running engine is stopped once the proxy shuts down
Stop(t) ==
    /\ reason # "none"
    /\ engine[t] = "running"
    /\ engine' = [engine EXCEPT ![t] = "stopped"]
    /\ UNCHANGED <<version, applied, reason, exited>>

\* the process leaves its event loop when no engine runs any more
Exit ==
    /\ reason # "none"
    /\ ~exited
    /\ \A t \in Ids : engine[t] # "running"
    /\ exited' = TRUE
    /\ UNCHANGED <<engine, version, applied, reason>>

Next ==
    \/ \E t \in Ids : EngineStart(t) \/ Apply(t) \/ Stop(t)
    \/ GiveUp \/ Reload \/ Quit \/ Exit

\* starting, re-reading routes, stopping and exiting are not left pending
\* forever; routes changes and quitting are up to the environment
Fairness ==
    /\ \A t \in Ids : WF_avars(EngineStart(t)) /\ WF_avars(Apply(t))
                      /\ WF_avars(Stop(t))
    /\ WF_avars(GiveUp)
    /\ WF_avars(Exit)

Spec == Init /\ [][Next]_avars /\ Fairness
=============================================================================
