--------------------------- MODULE UpdaterProofs ---------------------------
(***************************************************************************)
(* Proofs about the update checker (Updater.tla), for every response size *)
(* limit, chunk size, interval and set of reported values.                 *)
(*                                                                         *)
(* CmaxIsWindowMax is stated with a CHOOSE (the largest element of the     *)
(* window), which a step cannot be reasoned about directly.  The inductive *)
(* invariant says instead what the CHOOSE picks: report.connectionsMax is  *)
(* an element of the window and no element exceeds it, or the window is    *)
(* empty and the value is the stale marker.  ReportConserved needs the    *)
(* type invariant, and the type invariant needs ReportConserved: the       *)
(* counters stay within MaxReported only because they never hold more than *)
(* has been reported.                                                      *)
(***************************************************************************)
EXTENDS Updater, TLAPS

\* connectionsMax is the largest value of the window, or stale when empty
WindowMax ==
    IF window = {} THEN cmax = Stale
    ELSE /\ cmax \in window
         /\ \A y \in window : y <= cmax

IInv ==
    /\ TypeOK
    /\ ReportConserved
    /\ WindowMax

USE ModeAssumption, SizeAssumption, IntervalAssumption, ValuesAssumption

(***************************************************************************)
(* The largest element of a set is what SetMax chooses.                    *)
(***************************************************************************)
LEMMA SetMaxIs ==
  ASSUME NEW S \in SUBSET Int, NEW m \in S, \A y \in S : y <= m
  PROVE  SetMax(S) = m
  <1>1. \E x \in S : \A y \in S : y <= x
    OBVIOUS
  <1>2. SetMax(S) \in S /\ \A y \in S : y <= SetMax(S)
    BY <1>1 DEF SetMax
  <1>3. SetMax(S) \in Int /\ SetMax(S) <= m /\ m <= SetMax(S)
    BY <1>2
  <1>4. QED
    BY <1>3

LEMMA WindowMaxImplies == TypeOK /\ WindowMax => CmaxIsWindowMax
  <1> SUFFICES ASSUME TypeOK, WindowMax PROVE CmaxIsWindowMax
    OBVIOUS
  <1>1. CASE window = {}
    BY <1>1 DEF WindowMax, CmaxIsWindowMax
  <1>2. CASE window # {}
    <2>1. cmax \in window /\ \A y \in window : y <= cmax
      BY <1>2 DEF WindowMax
    <2>2. window \subseteq Int
      BY DEF TypeOK
    <2>3. SetMax(window) = cmax
      BY <2>1, <2>2, SetMaxIs
    <2>4. QED
      BY <1>2, <2>3 DEF CmaxIsWindowMax
  <1>3. QED
    BY <1>1, <1>2

LEMMA InitIInv == Init => IInv
  <1> SUFFICES ASSUME Init PROVE IInv
    OBVIOUS
  <1>1. LogInterval \in Nat
    BY DEF LogInterval
  <1>2. TypeOK
    <2>1. finished \in BOOLEAN
      BY Zenon DEF Init
    <2>2. QED
      BY <1>1, <2>1 DEF Init, TypeOK, Stale, NoLog
  <1>3. ReportConserved /\ WindowMax
    BY DEF Init, ReportConserved, WindowMax
  <1>4. QED
    BY <1>2, <1>3 DEF IInv

(***************************************************************************)
(* One lemma per action.                                                   *)
(***************************************************************************)
LEMMA TimerTimeoutIInv == IInv /\ TimerTimeout => IInv'
  <1> SUFFICES ASSUME IInv, TimerTimeout PROVE IInv'
    OBVIOUS
  <1>1. Interval \in Nat /\ LogInterval \in Nat
    BY DEF Interval, LogInterval
  <1>2. sinceLog' \in 0 .. LogInterval \cup {NoLog}
    BY <1>1 DEF TimerTimeout, IInv, TypeOK, NoLog
  <1>3. CASE req = "none"
    <2>1. CASE Mode = "ReportMode"
      <3>1. /\ req' = "open" /\ finished' = FALSE
            /\ sentTotal' = sentTotal + counts
            /\ cmax' = Stale /\ counts' = 0 /\ window' = {}
        BY <1>3, <2>1 DEF TimerTimeout, DoRequest
      <3>2. UNCHANGED <<bytes, reportedTotal>>
        BY DEF TimerTimeout
      <3>3. finished' \in BOOLEAN
        BY Zenon, <3>1
      <3>4. QED
        BY <1>2, <3>1, <3>2, <3>3 DEF IInv, TypeOK, ReportConserved, WindowMax
    <2>2. CASE Mode # "ReportMode"
      <3>1. /\ req' = "open" /\ finished' = FALSE
            /\ UNCHANGED <<sentTotal, cmax, counts, window, bytes,
                           reportedTotal>>
        BY <1>3, <2>2 DEF TimerTimeout, DoRequest
      <3>2. QED
        BY <1>2, <3>1 DEF IInv, TypeOK, ReportConserved, WindowMax
    <2>3. QED
      BY <2>1, <2>2
  <1>4. CASE req = "open"
    <2>1. UNCHANGED <<req, finished, sentTotal, cmax, counts, window, bytes,
                      reportedTotal>>
      BY <1>4 DEF TimerTimeout
    <2>2. QED
      BY <1>2, <2>1 DEF IInv, TypeOK, ReportConserved, WindowMax
  <1>5. QED
    BY <1>3, <1>4 DEF IInv, TypeOK

LEMMA ReqReadyReadIInv == IInv /\ ReqReadyRead => IInv'
  <1> SUFFICES ASSUME IInv, ReqReadyRead PROVE IInv'
    OBVIOUS
  <1>1. UNCHANGED <<cmax, counts, reportedTotal, sentTotal, window>>
    BY DEF ReqReadyRead
  <1>2. ReportConserved' /\ WindowMax'
    BY <1>1 DEF IInv, ReportConserved, WindowMax
  <1>3. PICK k \in 0 .. ChunkMax, done \in BOOLEAN, code \in {200, 500},
             body \in Bodies :
          LET avail == bytes + k IN
          \/ /\ avail > MaxResponseSize
             /\ CleanupRequest
             /\ UNCHANGED <<finished, sinceLog>>
          \/ /\ avail <= MaxResponseSize
             /\ ~done
             /\ bytes' = avail
             /\ UNCHANGED <<req, finished, sinceLog>>
          \/ /\ avail <= MaxResponseSize
             /\ done
             /\ finished' = TRUE
             /\ CleanupRequest
             /\ sinceLog' = IF code = 200 /\ body = "update" /\ LogDue
                             THEN 0 ELSE sinceLog
    BY DEF ReqReadyRead
  <1>4. bytes + k \in Nat
    BY DEF IInv, TypeOK
  <1>5. LogInterval \in Nat
    BY DEF LogInterval
  <1>6. finished' \in BOOLEAN
    BY Zenon, <1>3 DEF IInv, TypeOK
  <1>7. TypeOK'
    BY <1>1, <1>3, <1>4, <1>5, <1>6 DEF IInv, TypeOK, CleanupRequest
  <1>8. QED
    BY <1>2, <1>7 DEF IInv

LEMMA ReqErrorIInv == IInv /\ ReqError => IInv'
  BY DEF IInv, ReqError, CleanupRequest, TypeOK, ReportConserved, WindowMax

LEMMA SetReportIInv == IInv /\ SetReport => IInv'
  <1> SUFFICES ASSUME IInv, SetReport PROVE IInv'
    OBVIOUS
  <1>1. PICK c \in ConnValues, n \in CountValues :
          /\ reportedTotal + n <= MaxReported
          /\ cmax' = IF cmax = Stale \/ c > cmax THEN c ELSE cmax
          /\ counts' = counts + n
          /\ reportedTotal' = reportedTotal + n
          /\ window' = window \cup {c}
    BY DEF SetReport
  <1>2. UNCHANGED <<req, bytes, finished, sinceLog, sentTotal>>
    BY DEF SetReport
  <1>3. c \in Nat /\ n \in Nat
    OBVIOUS
  <1>4. ReportConserved'
    BY <1>1, <1>2 DEF IInv, ReportConserved, TypeOK
  <1>5. WindowMax'
    <2>1. CASE window = {}
      BY <1>1, <2>1 DEF IInv, WindowMax
    <2>2. CASE window # {}
      <3>1. cmax \in window /\ \A y \in window : y <= cmax
        BY <2>2 DEF IInv, WindowMax
      <3>2. cmax \in Nat /\ cmax # Stale
        BY <3>1 DEF IInv, TypeOK, Stale
      <3>3. CASE c > cmax
        BY <1>1, <1>3, <3>1, <3>2, <3>3 DEF IInv, TypeOK, WindowMax
      <3>4. CASE ~(c > cmax)
        BY <1>1, <1>3, <3>1, <3>2, <3>4 DEF IInv, TypeOK, WindowMax
      <3>5. QED
        BY <3>3, <3>4
    <2>3. QED
      BY <2>1, <2>2
  <1>6. TypeOK'
    <2>1. counts <= reportedTotal
      BY DEF IInv, ReportConserved, TypeOK
    <2>2. cmax' \in ConnValues \cup {Stale}
      BY <1>1 DEF IInv, TypeOK
    <2>3. QED
      BY <1>1, <1>2, <1>3, <2>1, <2>2 DEF IInv, TypeOK
  <1>7. QED
    BY <1>4, <1>5, <1>6 DEF IInv

LEMMA StutterIInv == IInv /\ UNCHANGED vars => IInv'
  BY DEF IInv, vars, TypeOK, ReportConserved, WindowMax

LEMMA NextIInv == IInv /\ [Next]_vars => IInv'
  BY TimerTimeoutIInv, ReqReadyReadIInv, ReqErrorIInv, SetReportIInv,
     StutterIInv DEF Next

(***************************************************************************)
(* Theorems.                                                               *)
(***************************************************************************)

\* IInv holds in every reachable state of the update checker.
THEOREM UpdaterIInvHolds == Spec => []IInv
  BY InitIInv, NextIInv, PTL DEF Spec

\* No usage is lost or sent twice: what setReport() was given is in the
\* report or in exactly one query (doRequest() copies and resets in one
\* handler), for every bound on the reported totals.
THEOREM ReportConservedHolds == Spec => []ReportConserved
  <1>1. IInv => ReportConserved
    BY DEF IInv
  <1>2. QED
    BY <1>1, UpdaterIInvHolds, PTL

\* report.connectionsMax is always the largest connectionsMax given to
\* setReport() since the last query, or the stale marker -1 when none was.
THEOREM CmaxIsWindowMaxHolds == Spec => []CmaxIsWindowMax
  <1>1. IInv => CmaxIsWindowMax
    BY WindowMaxImplies DEF IInv
  <1>2. QED
    BY <1>1, UpdaterIInvHolds, PTL

\* The update checker's variables always have their types, for every size
\* limit, log interval and bound: in particular the buffered response never
\* exceeds MAX_RESPONSE_SIZE and the counters stay within their bounds.
THEOREM TypeCorrect == Spec => []TypeOK
  <1>1. IInv => TypeOK
    BY DEF IInv
  <1>2. QED
    BY <1>1, UpdaterIInvHolds, PTL
=============================================================================
