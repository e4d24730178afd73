----------------------------- MODULE MCUpdater -----------------------------
(* The Updater in ReportMode with a response limit of 2 bytes, so that a   *)
(* body reaches the limit exactly (1 + 1 or 2) or passes it (1 + 2), and a *)
(* throttle of two report intervals between "new version" logs.           *)
EXTENDS Updater

MCMaxResponseSize == 2
MCChunkMax == 2
MCCheckInterval == 5
MCReportInterval == 2
MCConnValues == {0, 1, 2}
MCCountValues == {0, 1}
MCMaxReported == 3
=============================================================================
