---------------------------- MODULE MCSupervisor ----------------------------
(* Model-checking instance of Supervisor: three workers, so that a worker  *)
(* can fail to start after one (or two) others started, and two routes    *)
(* changes, so that a change can be queued behind another one.            *)
EXTENDS Supervisor

MCN == 3
MCMaxReloads == 2
=============================================================================
