--------------------------- MODULE MCWorkerConfig ---------------------------
(* One single-spec setting and two list settings of up to two entries,      *)
(* so that lists of one and of two ipc: specs, and empty entries next to    *)
(* each other, occur; up to three workers; max_open_requests unset, zero,   *)
(* below the worker count and above client_maxconn.                        *)
EXTENDS WorkerConfig

MCSingleFields == {"inspect"}
MCListFields == {"wsControlInit", "intServerIn"}
MCMaxListLen == 2
MCWorkerCounts == {1, 2, 3}
\* proxy/workers as a settings file may give it: unchecked toInt()
MCAnyWorkerCounts == {-1, 0, 1}
MCMaxOpenValues == {-1, 0, 1, 4}
MCClientMaxconnValues == {3}
MCXffInputs == BoundedSeq(XffEntries, 2)
=============================================================================
