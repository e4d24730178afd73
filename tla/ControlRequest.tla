--------------------------- MODULE ControlRequest ---------------------------
(***************************************************************************)
(* The control RPC clients of the handler (src/handler/controlrequest.cpp) *)
(* and the request/reply transport they run on.                            *)
(*                                                                         *)
(* ConnCheck, Refresh and Report are Deferred objects.  The constructor    *)
(* creates one ZrpcRequest, connects its finished signal to req_finished   *)
(* and starts the call ("conncheck", "refresh" or "report").  req_finished *)
(* turns the outcome of the call into exactly one setFinished(ok, value):  *)
(* ConnCheck accepts a reply only when it is a list of byte arrays, and    *)
(* returns the set of client ids it decodes from it.                       *)
(*                                                                         *)
(* ZrpcRequest and ZrpcManager are not under src/; what they do is taken   *)
(* from the specification (4.G): a call has a deadline, a request or a     *)
(* reply may be lost, and a reply that arrives after the call ended is     *)
(* discarded by id.  The conncheck server is the stats component (4.H): it *)
(* answers with the client ids it currently knows, intersected with the    *)
(* ids it was asked about, or with a malformed reply.                      *)
(***************************************************************************)
EXTENDS Naturals, Sequences, FiniteSets

CONSTANTS
    Cids,      \* client ids a conncheck may ask about
    Calls,     \* the Deferred objects a behaviour may create
    NotBytes   \* a reply element that is not a QByteArray

ASSUME CallsAssumption == IsFiniteSet(Calls) /\ IsFiniteSet(Cids)

\* the three factories connCheck(), refresh() and report()
Kinds == {"conncheck", "refresh", "report"}

\* the error conditions a ZrpcRequest can finish with
Conditions == {"timeout", "remote"}

\* QVariant() passed by setFinished(false) without a value
NoValue == "novalue"

\* what cid.toUtf8() and QString::fromUtf8() do to a client id
Utf8(c) == <<"utf8", c>>
FromUtf8(b) == b[2]

\* the byte arrays a conncheck reply may hold
Bytes == {Utf8(c) : c \in Cids}

\* the element standing for a QVariant that is not a QByteArray is none
ASSUME NotBytesAssumption == NotBytes \notin Bytes

\* a reply result: a QVariantList of items, or something else
AList(items) == [list |-> TRUE, items |-> items]
NotList == [list |-> FALSE, items |-> <<>>]

\* the encoding the server gives a set of ids: one list per ordering
Encodings(S) ==
    {AList(s) : s \in {s \in [1 .. Cardinality(S) -> Bytes] :
                            {FromUtf8(s[i]) : i \in DOMAIN s} = S}}

VARIABLES
    kind,     \* per Deferred: "none" before its factory ran, else its class
    args,     \* per Deferred: the "ids" argument of a conncheck
    zr,       \* per ZrpcRequest: "idle", "waiting" or "finished"
    net,      \* requests and replies in transit
    known,    \* the client ids the stats component currently knows
    served,   \* per conncheck: whether the server's reply was well formed,
              \* and known \cap ids when it was answered
    finished  \* per Deferred: the results setFinished() emitted, in order

vars == <<kind, args, zr, net, known, served, finished>>

\* setFinished(ok, value): value is a CidSet or an error condition
Results == [ok : BOOLEAN, ids : SUBSET Cids, cond : Conditions \cup {NoValue}]

ReqMsgs == [type : {"req"}, call : Calls]
RepMsgs == [type : {"rep"}, call : Calls, success : BOOLEAN,
            result : [list : BOOLEAN, items : Seq(Bytes \cup {NotBytes})]]

TypeOK ==
    /\ kind \in [Calls -> Kinds \cup {"none"}]
    /\ args \in [Calls -> SUBSET Cids]
    /\ zr \in [Calls -> {"idle", "waiting", "finished"}]
    /\ net \subseteq ReqMsgs \cup RepMsgs
    /\ known \subseteq Cids
    /\ served \in [Calls -> [wellFormed : BOOLEAN, ids : SUBSET Cids]]
    /\ finished \in [Calls -> Seq(Results)]

Init ==
    /\ kind = [c \in Calls |-> "none"]
    /\ args = [c \in Calls |-> {}]
    /\ zr = [c \in Calls |-> "idle"]
    /\ net = {}
    /\ known \in SUBSET Cids
    /\ served = [c \in Calls |-> [wellFormed |-> TRUE, ids |-> {}]]
    /\ finished = [c \in Calls |-> <<>>]

\* Deferred::setFinished(ok, value): emit the result of Deferred c, whose
\* value is a set of ids or an error condition
SetFinished(c, ok, ids, cond) ==
    finished' = [finished EXCEPT ![c] =
                    Append(@, [ok |-> ok, ids |-> ids, cond |-> cond])]

\* req->start(method, args): the request goes out on the transport
ZrpcStart(c) ==
    /\ zr' = [zr EXCEPT ![c] = "waiting"]
    /\ net' = net \cup {[type |-> "req", call |-> c]}

\* ConnCheck(controlClient, cids): encode the ids and start "conncheck"
ConnCheck(c, cids) ==
    /\ kind' = [kind EXCEPT ![c] = "conncheck"]
    /\ args' = [args EXCEPT ![c] = cids]
    /\ ZrpcStart(c)

\* Refresh(controlClient, cid): start "refresh" for one client id
Refresh(c) ==
    /\ kind' = [kind EXCEPT ![c] = "refresh"]
    /\ ZrpcStart(c)
    /\ UNCHANGED args

\* Report(controlClient, packet): start "report" with the stats packet
Report(c) ==
    /\ kind' = [kind EXCEPT ![c] = "report"]
    /\ ZrpcStart(c)
    /\ UNCHANGED args

\* a caller uses one of the factories connCheck(), refresh(), report()
Create(c) ==
    /\ kind[c] = "none"
    /\ \/ \E cids \in SUBSET Cids : ConnCheck(c, cids)
       \/ Refresh(c)
       \/ Report(c)
    /\ UNCHANGED <<known, served, finished>>

\* Mutant of ConnCheckFinished: an element that is not a byte array is
\* skipped instead of failing the whole reply.
ConnCheckFinishedSkipBad(c, success, cond, result) ==
    LET good == {i \in DOMAIN result.items : result.items[i] \in Bytes} IN
    \/ /\ ~success
       /\ SetFinished(c, FALSE, {}, cond)
    \/ /\ success
       /\ ~result.list
       /\ SetFinished(c, FALSE, {}, NoValue)
    \/ /\ success
       /\ result.list
       /\ SetFinished(c, TRUE, {FromUtf8(result.items[i]) : i \in good}, NoValue)

\* Mutant of ConnCheckFinished: the byte arrays are put into the CidSet
\* without QString::fromUtf8().
ConnCheckFinishedNoDecode(c, success, cond, result) ==
    LET items == result.items IN
    \/ /\ ~success
       /\ SetFinished(c, FALSE, {}, cond)
    \/ /\ success
       /\ \/ ~result.list
          \/ \E i \in DOMAIN items : items[i] \notin Bytes
       /\ SetFinished(c, FALSE, {}, NoValue)
    \/ /\ success
       /\ result.list
       /\ \A i \in DOMAIN items : items[i] \in Bytes
       /\ SetFinished(c, TRUE, {items[i] : i \in DOMAIN items}, NoValue)

\* ConnCheck::req_finished(): a failed call reports its error condition; a
\* result that is not a list, or that holds an element that is not a byte
\* array, fails without a value; otherwise the decoded ids are the value
ConnCheckFinished(c, success, cond, result) ==
    LET items == result.items IN
    \/ /\ ~success
       /\ SetFinished(c, FALSE, {}, cond)
    \/ /\ success
       /\ \/ ~result.list
          \/ \E i \in DOMAIN items : items[i] \notin Bytes
       /\ SetFinished(c, FALSE, {}, NoValue)
    \/ /\ success
       /\ result.list
       /\ \A i \in DOMAIN items : items[i] \in Bytes
       /\ SetFinished(c, TRUE, {FromUtf8(items[i]) : i \in DOMAIN items}, NoValue)

\* Mutant of RefreshFinished: setFinished() is only called on success.
RefreshFinishedOnlyOk(c, success, cond) ==
    /\ success
    /\ SetFinished(c, TRUE, {}, NoValue)

\* Refresh::req_finished() (its error value is errorConditionString())
RefreshFinished(c, success, cond) ==
    SetFinished(c, success, {}, IF success THEN NoValue ELSE cond)

\* Report::req_finished()
ReportFinished(c, success, cond) ==
    SetFinished(c, success, {}, IF success THEN NoValue ELSE cond)

\* the finished signal of c's ZrpcRequest runs the req_finished slot of
\* its class
ReqFinished(c, success, cond, result) ==
    CASE kind[c] = "conncheck" -> ConnCheckFinished(c, success, cond, result)
      [] kind[c] = "refresh"   -> RefreshFinished(c, success, cond)
      [] kind[c] = "report"    -> ReportFinished(c, success, cond)

\* a reply of the server to call c
Reply(c, ok, r) == [type |-> "rep", call |-> c, success |-> ok, result |-> r]

\* malformed conncheck results: not a list, or a list with a bad element
Malformed(S) ==
    {NotList, AList(<<NotBytes>>)} \cup
    {AList(Append(e.items, NotBytes)) : e \in Encodings(S)}

\* the server handles a request: conncheck answers known \cap ids (in any
\* order), or a malformed reply; refresh and report succeed or fail
Serve(m) ==
    /\ m \in net
    /\ m.type = "req"
    /\ LET c == m.call
           S == known \cap args[c]
       IN
       \/ /\ kind[c] = "conncheck"
          /\ \E r \in Encodings(S) : net' = (net \ {m}) \cup {Reply(c, TRUE, r)}
          /\ served' = [served EXCEPT ![c] = [wellFormed |-> TRUE, ids |-> S]]
       \/ /\ kind[c] = "conncheck"
          /\ \E r \in Malformed(S) : net' = (net \ {m}) \cup {Reply(c, TRUE, r)}
          /\ served' = [served EXCEPT ![c] = [wellFormed |-> FALSE, ids |-> S]]
       \/ /\ kind[c] \in {"refresh", "report"}
          /\ \E ok \in BOOLEAN : net' = (net \ {m}) \cup {Reply(c, ok, NotList)}
          /\ UNCHANGED served
    /\ UNCHANGED <<kind, args, zr, known, finished>>

\* the transport loses a request or a reply
Lose(m) ==
    /\ m \in net
    /\ net' = net \ {m}
    /\ UNCHANGED <<kind, args, zr, known, served, finished>>

\* Mutant of Deliver: a reply is not matched against the calls still
\* waiting, so a late reply runs req_finished() a second time.
DeliverNoIdCheck(m) ==
    /\ m \in net
    /\ m.type = "rep"
    /\ net' = net \ {m}
    /\ zr[m.call] \in {"waiting", "finished"}
    /\ zr' = [zr EXCEPT ![m.call] = "finished"]
    /\ ReqFinished(m.call, m.success, "remote", m.result)
    /\ UNCHANGED <<kind, args, known, served>>

\* a reply arrives: the waiting call finishes with it; a reply for a call
\* that already ended is discarded by id
Deliver(m) ==
    /\ m \in net
    /\ m.type = "rep"
    /\ net' = net \ {m}
    /\ \/ /\ zr[m.call] = "waiting"
          /\ zr' = [zr EXCEPT ![m.call] = "finished"]
          /\ ReqFinished(m.call, m.success, "remote", m.result)
       \/ /\ zr[m.call] = "finished"
          /\ UNCHANGED <<zr, finished>>
    /\ UNCHANGED <<kind, args, known, served>>

\* the call's deadline expires before a reply arrived
Timeout(c) ==
    /\ zr[c] = "waiting"
    /\ zr' = [zr EXCEPT ![c] = "finished"]
    /\ ReqFinished(c, FALSE, "timeout", NotList)
    /\ UNCHANGED <<kind, args, net, known, served>>

\* a client connection starts or ends at the stats component
SessionChange ==
    /\ \E x \in Cids : known' = (known \ {x}) \cup ({x} \ known)
    /\ UNCHANGED <<kind, args, zr, net, served, finished>>

Next ==
    \/ \E c \in Calls : Create(c) \/ Timeout(c)
    \/ \E m \in net : Serve(m) \/ Lose(m) \/ Deliver(m)
    \/ SessionChange

\* the deadline of every call is a timer of the event loop, which fires
Fairness == \A c \in Calls : WF_vars(Timeout(c))

Spec == Init /\ [][Next]_vars /\ Fairness

(***************************************************************************)
(* Properties.                                                             *)
(***************************************************************************)

\* A conncheck that finished successfully returns exactly the ids the
\* server answered with (what it knew, intersected with what was asked),
\* and never succeeds on a malformed reply: ConnCheck::req_finished()
\* must reject the whole reply on one bad element and decode every
\* element.  (That a late reply is not taken is FinishedAtMostOnce.)
ConnCheckResultExact ==
    \A c \in Calls : kind[c] = "conncheck" =>
        \A i \in DOMAIN finished[c] :
            finished[c][i].ok =>
                /\ served[c].wellFormed
                /\ finished[c][i].ids = served[c].ids

\* No Deferred emits finished twice: a reply that arrives after the
\* deadline already ended the call (or a duplicate of one) must not run
\* req_finished() again, since the caller deletes the Deferred on its
\* first finished signal.
FinishedAtMostOnce == \A c \in Calls : Len(finished[c]) <= 1

\* Every Deferred that was created eventually emits finished, whatever
\* the transport does to its request and reply: each path of
\* req_finished() must end in setFinished(), and the call's deadline must
\* end a call whose request or reply was lost.
EveryCallFinishes ==
    \A c \in Calls : (kind[c] # "none") ~> (Len(finished[c]) > 0)

\* The Deferreds as their callers see them, with the transport hidden.
Abs == INSTANCE ControlRequestAbstract

\* ControlRequest implements ControlRequestAbstract: however requests and
\* replies are lost, delayed or outrun by the deadline, each Deferred
\* finishes once, refresh and report carry no value, a conncheck succeeds
\* only with the last well-formed answer of the stats component, and every
\* Deferred that was made finishes.
AbstractSpec == Abs!Spec
=============================================================================
