------------------------------ MODULE Updater ------------------------------
(***************************************************************************)
(* The update checker / usage reporter Updater (src/unnamed/part_002,      *)
(* updater.cpp).  A periodic timer starts an HTTP GET when no request is   *)
(* outstanding; in ReportMode the query carries the usage report that      *)
(* setReport() accumulated since the previous request, and the report is   *)
(* reset as soon as it is put into the query.  The response arrives in     *)
(* readyRead chunks; the handler drops a response that grows past          *)
(* MAX_RESPONSE_SIZE, waits for the end of the body, rejects a status      *)
(* other than 200 or a body that is not a JSON object, and logs an         *)
(* available update at most once per CHECK_INTERVAL - REPORT_INTERVAL/2.   *)
(*                                                                         *)
(* Data abstraction: the four additive counters of the report              *)
(* (connectionsMinutes, messagesReceived, messagesSent, ops) are updated   *)
(* by identical code and are represented by one counter `counts`; the      *)
(* absolute clock is represented by the time elapsed since the last log,   *)
(* saturated at the throttle interval, which is all the log guard          *)
(* compares.  The query string, the URL and the log text are left out.     *)
(*                                                                         *)
(* Of the ZhttpRequest (outside src/) the model keeps isFinished(): a      *)
(* request whose response is complete emits no more readyRead or error,    *)
(* so it is only the handler's cleanupRequest() that lets a later          *)
(* timer_timeout() start the next request.                                 *)
(***************************************************************************)
EXTENDS Integers, FiniteSets

CONSTANTS
    Mode,            \* ReportMode or CheckMode, fixed at construction
    MaxResponseSize, \* MAX_RESPONSE_SIZE
    ChunkMax,        \* largest number of bytes one readyRead delivers
    CheckInterval,   \* CHECK_INTERVAL
    ReportInterval,  \* REPORT_INTERVAL
    ConnValues,      \* connectionsMax values setReport() may be given
    CountValues,     \* counter increments setReport() may be given
    MaxReported      \* bound on the sum of all counter increments

ASSUME ModeAssumption == Mode \in {"ReportMode", "CheckMode"}
ASSUME SizeAssumption == MaxResponseSize \in Nat /\ ChunkMax \in Nat
ASSUME IntervalAssumption ==
    /\ CheckInterval \in Nat \ {0}
    /\ ReportInterval \in Nat \ {0}
    /\ CheckInterval > ReportInterval \div 2
ASSUME ValuesAssumption ==
    /\ ConnValues \subseteq Nat
    /\ CountValues \subseteq Nat
    /\ MaxReported \in Nat

\* timer->setInterval(mode == ReportMode ? REPORT_INTERVAL : CHECK_INTERVAL)
Interval == IF Mode = "ReportMode" THEN ReportInterval ELSE CheckInterval

\* the minimum distance between two "new version" logs
LogInterval == CheckInterval - (ReportInterval \div 2)

\* lastLogTime.isNull()
NoLog == -1

\* report.connectionsMax == -1 marks a stale maximum
Stale == -1

\* response bodies: an object whose updates[0] has a non-empty version, any
\* other JSON object, or something that does not parse as a JSON object
Bodies == {"update", "noUpdate", "malformed"}

VARIABLES
    req,           \* the unique_ptr req: "none" or "open"
    bytes,         \* req->bytesAvailable(): body bytes buffered so far
    finished,      \* req->isFinished() of the last request started
    cmax,          \* report.connectionsMax
    counts,        \* the additive counters of report
    sinceLog,      \* time since lastLogTime (NoLog if null), saturated
    \* history, not program state:
    reportedTotal, \* sum of all counter increments given to setReport()
    sentTotal,     \* sum of all counters put into a query
    window         \* connectionsMax values given since the last query

vars == <<req, bytes, finished, cmax, counts, sinceLog, reportedTotal,
          sentTotal, window>>

TypeOK ==
    /\ req \in {"none", "open"}
    /\ bytes \in 0 .. MaxResponseSize
    /\ finished \in BOOLEAN
    /\ cmax \in ConnValues \cup {Stale}
    /\ counts \in 0 .. MaxReported
    /\ sinceLog \in 0 .. LogInterval \cup {NoLog}
    /\ reportedTotal \in 0 .. MaxReported
    /\ sentTotal \in 0 .. MaxReported
    /\ window \subseteq ConnValues

\* Private(): start the timer; report.connectionsMax = -1 (stale)
Init ==
    /\ req = "none"
    /\ bytes = 0
    /\ finished = FALSE
    /\ cmax = Stale
    /\ counts = 0
    /\ sinceLog = NoLog
    /\ reportedTotal = 0
    /\ sentTotal = 0
    /\ window = {}

\* cleanupRequest(): disconnect and destroy req
CleanupRequest ==
    /\ req' = "none"
    /\ bytes' = 0

\* Mutant of DoRequest: the counters are put into the query but not reset.
DoRequestNoReset ==
    /\ req' = "open"
    /\ finished' = FALSE
    /\ IF Mode = "ReportMode"
       THEN /\ sentTotal' = sentTotal + counts
            /\ cmax' = Stale
            /\ window' = {}
            /\ UNCHANGED counts
       ELSE UNCHANGED <<sentTotal, cmax, counts, window>>

\* Mutant of DoRequest: connectionsMax is not marked stale after a query.
DoRequestKeepCmax ==
    /\ req' = "open"
    /\ finished' = FALSE
    /\ IF Mode = "ReportMode"
       THEN /\ sentTotal' = sentTotal + counts
            /\ counts' = 0
            /\ window' = {}
            /\ UNCHANGED cmax
       ELSE UNCHANGED <<sentTotal, cmax, counts, window>>

\* doRequest(): create and start the request; in ReportMode put the report
\* into the query and reset it
DoRequest ==
    /\ req' = "open"
    /\ finished' = FALSE
    /\ IF Mode = "ReportMode"
       THEN /\ sentTotal' = sentTotal + counts
            /\ cmax' = Stale
            /\ counts' = 0
            /\ window' = {}
       ELSE UNCHANGED <<sentTotal, cmax, counts, window>>

\* timer_timeout(): if(!req) doRequest();  the clock advances one interval
TimerTimeout ==
    /\ sinceLog' = IF sinceLog = NoLog THEN NoLog
                   ELSE IF sinceLog + Interval >= LogInterval THEN LogInterval
                   ELSE sinceLog + Interval
    /\ \/ req = "none" /\ DoRequest
       \/ req = "open" /\ UNCHANGED <<req, finished, sentTotal, cmax, counts,
                                      window>>
    /\ UNCHANGED <<bytes, reportedTotal>>

\* the guard of the "new version available" log
LogDue == sinceLog = NoLog \/ sinceLog >= LogInterval

\* Mutant of ReqReadyRead: the size limit is applied to each chunk instead
\* of to everything buffered.
ReqReadyReadPerChunk ==
    /\ req = "open"
    /\ ~finished
    /\ \E k \in 0 .. ChunkMax, done \in BOOLEAN, code \in {200, 500},
          body \in Bodies :
         LET avail == bytes + k IN
         \/ /\ k > MaxResponseSize
            /\ CleanupRequest
            /\ UNCHANGED <<finished, sinceLog>>
         \/ /\ k <= MaxResponseSize
            /\ ~done
            /\ bytes' = avail
            /\ UNCHANGED <<req, finished, sinceLog>>
         \/ /\ k <= MaxResponseSize
            /\ done
            /\ finished' = TRUE
            /\ CleanupRequest
            /\ UNCHANGED sinceLog
    /\ UNCHANGED <<cmax, counts, reportedTotal, sentTotal, window>>

\* Mutant of ReqReadyRead: on a status other than 200 the handler logs
\* and returns without cleanupRequest(), so req stays set.
ReqReadyReadKeepOnBadCode ==
    /\ req = "open"
    /\ ~finished
    /\ \E k \in 0 .. ChunkMax, done \in BOOLEAN, code \in {200, 500},
          body \in Bodies :
         LET avail == bytes + k IN
         \/ /\ avail > MaxResponseSize
            /\ CleanupRequest
            /\ UNCHANGED <<finished, sinceLog>>
         \/ /\ avail <= MaxResponseSize
            /\ ~done
            /\ bytes' = avail
            /\ UNCHANGED <<req, finished, sinceLog>>
         \/ /\ avail <= MaxResponseSize
            /\ done
            /\ finished' = TRUE
            /\ IF code # 200
               THEN /\ bytes' = avail
                    /\ UNCHANGED <<req, sinceLog>>
               ELSE /\ CleanupRequest
                    /\ sinceLog' = IF body = "update" /\ LogDue
                                    THEN 0 ELSE sinceLog
    /\ UNCHANGED <<cmax, counts, reportedTotal, sentTotal, window>>

\* req_readyRead(): k more bytes have arrived, and the response may be
\* complete (done), with a status code and a body.  Too large: clean up.
\* Not finished: wait.  Finished: clean up, and log an available update
\* if the status is 200, the body a JSON object naming a version, and the
\* last log far enough back.
ReqReadyRead ==
    /\ req = "open"
    /\ ~finished
    /\ \E k \in 0 .. ChunkMax, done \in BOOLEAN, code \in {200, 500},
          body \in Bodies :
         LET avail == bytes + k IN
         \/ /\ avail > MaxResponseSize
            /\ CleanupRequest
            /\ UNCHANGED <<finished, sinceLog>>
         \/ /\ avail <= MaxResponseSize
            /\ ~done
            /\ bytes' = avail
            /\ UNCHANGED <<req, finished, sinceLog>>
         \/ /\ avail <= MaxResponseSize
            /\ done
            /\ finished' = TRUE
            /\ CleanupRequest
            /\ sinceLog' = IF code = 200 /\ body = "update" /\ LogDue
                            THEN 0 ELSE sinceLog
    /\ UNCHANGED <<cmax, counts, reportedTotal, sentTotal, window>>

\* req_error(): the request failed before its response was complete
ReqError ==
    /\ req = "open"
    /\ ~finished
    /\ CleanupRequest
    /\ UNCHANGED <<finished, cmax, counts, sinceLog, reportedTotal, sentTotal,
                   window>>

\* Updater::setReport(): keep the largest connectionsMax since the last
\* query and add up the counters
SetReport ==
    /\ \E c \in ConnValues, n \in CountValues :
         /\ reportedTotal + n <= MaxReported
         /\ cmax' = IF cmax = Stale \/ c > cmax THEN c ELSE cmax
         /\ counts' = counts + n
         /\ reportedTotal' = reportedTotal + n
         /\ window' = window \cup {c}
    /\ UNCHANGED <<req, bytes, finished, sinceLog, sentTotal>>

Next ==
    \/ TimerTimeout
    \/ ReqReadyRead
    \/ ReqError
    \/ SetReport

\* The timer is periodic, so timer_timeout() keeps being called.  The
\* request is a ZhttpRequest, whose own timeouts (outside src/) end every
\* request that gets no complete response with error(): req_error() is a
\* step that cannot stay possible forever without being taken.  A request
\* whose response is complete emits no error, so its end is up to the
\* readyRead handler alone.
Fairness ==
    /\ WF_vars(TimerTimeout)
    /\ WF_vars(ReqError)

Spec == Init /\ [][Next]_vars /\ Fairness

(***************************************************************************)
(* Properties.                                                             *)
(***************************************************************************)

\* the largest member of a non-empty set of numbers
SetMax(S) == CHOOSE x \in S : \A y \in S : y <= x

\* No usage is lost before it is sent or sent twice: every counter
\* increment given to setReport() is either still in the report or went
\* into exactly one query, because doRequest() resets the counters in the
\* same handler that copies them into the query.
ReportConserved == reportedTotal = sentTotal + counts

\* report.connectionsMax is the largest connectionsMax given to
\* setReport() since the last query, or stale (-1) when none was given:
\* the stale marker must be restored by every doRequest() and must lose
\* against any value, 0 included.
CmaxIsWindowMax == cmax = IF window = {} THEN Stale ELSE SetMax(window)

\* In ReportMode, usage given to setReport() is eventually put into a
\* query: timer_timeout() only starts a request when none is outstanding,
\* and a completed ZhttpRequest emits nothing more, so every path of
\* req_readyRead() that ends a request (size limit, status, body) must
\* clear req itself, or the report is never sent again.
ReportEventuallySent ==
    Mode = "ReportMode" => (counts > 0 ~> counts = 0)

=============================================================================
