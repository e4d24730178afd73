------------------------- MODULE ControlRequestProofs -------------------------
(***************************************************************************)
(* Proofs about the control RPC clients (ControlRequest.tla), for every    *)
(* set of calls and of client ids.                                         *)
(*                                                                         *)
(* FinishedAtMostOnce and ConnCheckResultExact are not inductive by        *)
(* themselves.  A reply in transit may still finish its call, so the      *)
(* invariant says what such a reply carries: the transport holds at most   *)
(* one message per call (one request is sent, and serving it replaces it   *)
(* by the reply), a call has finished exactly when its ZrpcRequest has,    *)
(* a request still in transit belongs to a call that has not succeeded,   *)
(* and a well-formed conncheck reply decodes to what the server served.    *)
(***************************************************************************)
EXTENDS ControlRequest, FiniteSetTheorems, TLAPS

\* a result setFinished(true, ...) may come from: a list of byte arrays
WellFormed(r) == r.list /\ \A i \in DOMAIN r.items : r.items[i] \in Bytes

\* what the foreach loop of ConnCheck::req_finished() collects
Decoded(r) == {FromUtf8(r.items[i]) : i \in DOMAIN r.items}

\* the transport carries at most one message of each call
OneMsgPerCall == \A m1, m2 \in net : m1.call = m2.call => m1 = m2

\* the result field of a reply
ResultRecs == [list : BOOLEAN, items : Seq(Bytes \cup {NotBytes})]

\* a Deferred has run its factory exactly when its ZrpcRequest has started
KindStarted == \A c \in Calls : (kind[c] = "none") = (zr[c] = "idle")

\* a Deferred has emitted one result once its ZrpcRequest finished, none before
FinishedCount == \A c \in Calls : Len(finished[c]) = IF zr[c] = "finished" THEN 1 ELSE 0

\* only started calls have messages in transit
NetStarted == \A m \in net : zr[m.call] # "idle"

\* a request still in transit belongs to a call that has not succeeded
ReqPending == \A m \in net : m.type = "req" =>
                  \A i \in DOMAIN finished[m.call] : ~finished[m.call][i].ok

\* a well-formed successful conncheck reply decodes to what was served
RepServed == \A m \in net : m.type = "rep" /\ kind[m.call] = "conncheck" /\ m.success
                             /\ WellFormed(m.result) =>
                 /\ served[m.call].wellFormed
                 /\ Decoded(m.result) = served[m.call].ids

IInv ==
    /\ TypeOK
    /\ KindStarted
    /\ FinishedCount
    /\ NetStarted
    /\ OneMsgPerCall
    /\ ReqPending
    /\ RepServed
    /\ ConnCheckResultExact

USE CallsAssumption, NotBytesAssumption

(***************************************************************************)
(* Lemmas about the replies the server builds.                             *)
(***************************************************************************)

\* decoding a list of byte arrays yields client ids
LEMMA DecodedType ==
  ASSUME NEW r \in ResultRecs, WellFormed(r)
  PROVE  Decoded(r) \subseteq Cids
  BY DEF WellFormed, Decoded, Bytes, Utf8, FromUtf8

\* an encoding of S is a well-formed list that decodes to S
LEMMA EncodingsDecode ==
  ASSUME NEW S \in SUBSET Cids, NEW r \in Encodings(S)
  PROVE  /\ r \in ResultRecs
         /\ WellFormed(r)
         /\ Decoded(r) = S
  <1>1. Cardinality(S) \in Nat
    BY FS_Subset, FS_CardinalityType
  <1>2. PICK s \in [1 .. Cardinality(S) -> Bytes] :
          /\ {FromUtf8(s[i]) : i \in DOMAIN s} = S
          /\ r = AList(s)
    BY DEF Encodings
  <1>3. s \in Seq(Bytes)
    BY <1>1, <1>2
  <1>4. QED
    BY <1>2, <1>3 DEF ResultRecs, WellFormed, Decoded, AList

\* a malformed reply is never mistaken for a list of byte arrays
LEMMA MalformedIsNot ==
  ASSUME NEW S \in SUBSET Cids, NEW r \in Malformed(S)
  PROVE  r \in ResultRecs /\ ~WellFormed(r)
  <1>1. CASE r = NotList
    BY <1>1 DEF NotList, ResultRecs, WellFormed
  <1>2. CASE r = AList(<<NotBytes>>)
    BY <1>2 DEF AList, ResultRecs, WellFormed
  <1>3. CASE \E e \in Encodings(S) : r = AList(Append(e.items, NotBytes))
    <2>1. PICK e \in Encodings(S) : r = AList(Append(e.items, NotBytes))
      BY <1>3
    <2>2. e.items \in Seq(Bytes)
      BY EncodingsDecode DEF ResultRecs, WellFormed
    <2>3. QED
      BY <2>1, <2>2 DEF AList, ResultRecs, WellFormed
  <1>4. QED
    BY <1>1, <1>2, <1>3 DEF Malformed

(***************************************************************************)
(* What a req_finished slot appends to finished.                           *)
(***************************************************************************)

\* the result a req_finished slot emits, and what it succeeded on
GoodResult(c, s, r, rec) ==
    rec.ok => s /\ (kind[c] = "conncheck" => WellFormed(r) /\ rec.ids = Decoded(r))

\* a success carries no error condition, and a value only for a conncheck;
\* a failure carries no ids
ResultShape(c, rec) ==
    /\ rec.ok => rec.cond = NoValue /\ (kind[c] # "conncheck" => rec.ids = {})
    /\ ~rec.ok => rec.ids = {}

LEMMA ReqFinishedResult ==
  ASSUME TypeOK, NEW c \in Calls, kind[c] \in Kinds, NEW s \in BOOLEAN,
         NEW cond \in Conditions, NEW r \in ResultRecs, ReqFinished(c, s, cond, r)
  PROVE  \E rec \in Results :
            /\ finished' = [finished EXCEPT ![c] = Append(finished[c], rec)]
            /\ GoodResult(c, s, r, rec)
            /\ ResultShape(c, rec)
  <1> USE DEF Results, ResultShape
  <1>1. CASE kind[c] = "conncheck"
    <2>1. ConnCheckFinished(c, s, cond, r)
      BY <1>1 DEF ReqFinished
    <2>2. CASE ~s
      <3> WITNESS [ok |-> FALSE, ids |-> {}, cond |-> cond] \in Results
      <3> QED
        BY <2>1, <2>2 DEF ConnCheckFinished, SetFinished, GoodResult, Results
    <2>3. CASE s /\ ~WellFormed(r)
      <3> WITNESS [ok |-> FALSE, ids |-> {}, cond |-> NoValue] \in Results
      <3> QED
        BY <2>1, <2>3 DEF ConnCheckFinished, SetFinished, GoodResult, Results,
                          WellFormed
    <2>4. CASE s /\ WellFormed(r)
      <3>1. Decoded(r) \subseteq Cids
        BY <2>4, DecodedType
      <3> USE <3>1
      <3> DEFINE rec == [ok |-> TRUE, ids |-> Decoded(r), cond |-> NoValue]
      <3> WITNESS rec \in Results
      <3>2. finished' = [finished EXCEPT ![c] = Append(finished[c], rec)]
        BY <2>1, <2>4 DEF ConnCheckFinished, SetFinished, WellFormed, Decoded
      <3>3. GoodResult(c, s, r, rec)
        BY <1>1, <2>4 DEF GoodResult
      <3>4. ResultShape(c, rec)
        BY <1>1
      <3> QED
        BY <3>2, <3>3, <3>4
    <2>5. QED
      BY <2>2, <2>3, <2>4
  <1>2. CASE kind[c] \in {"refresh", "report"}
    <2>1. SetFinished(c, s, {}, IF s THEN NoValue ELSE cond)
      BY <1>2, Zenon DEF ReqFinished, RefreshFinished, ReportFinished
    <2> WITNESS [ok |-> s, ids |-> {}, cond |-> IF s THEN NoValue ELSE cond]
                \in Results
    <2> QED
      BY <1>2, <2>1 DEF SetFinished, GoodResult, Results
  <1>3. QED
    BY <1>1, <1>2 DEF Kinds

(***************************************************************************)
(* IInv holds initially and is preserved by every step.                    *)
(***************************************************************************)

LEMMA InitIInv == Init => IInv
  BY DEF Init, IInv, TypeOK, KindStarted, FinishedCount, NetStarted,
         OneMsgPerCall, ReqPending, RepServed, ConnCheckResultExact, Kinds

\* a call whose ZrpcRequest has not finished has emitted nothing
LEMMA NothingBeforeFinish ==
  ASSUME TypeOK, FinishedCount, NEW c \in Calls, zr[c] # "finished"
  PROVE  finished[c] = <<>>
  BY DEF TypeOK, FinishedCount

\* the first result of a call makes finished[c] a one-element sequence
LEMMA FirstResult ==
  ASSUME TypeOK, NEW c \in Calls, finished[c] = <<>>, NEW rec \in Results,
         finished' = [finished EXCEPT ![c] = Append(finished[c], rec)]
  PROVE  /\ finished' \in [Calls -> Seq(Results)]
         /\ finished'[c] = <<rec>>
         /\ \A c2 \in Calls \ {c} : finished'[c2] = finished[c2]
  BY DEF TypeOK

\* the shared facts of the three constructors
LEMMA CreateFacts ==
  ASSUME NEW c \in Calls, Create(c)
  PROVE  /\ \E k \in Kinds : kind' = [kind EXCEPT ![c] = k]
         /\ \E cids \in SUBSET Cids : args' = [args EXCEPT ![c] = cids] \/ args' = args
         /\ zr' = [zr EXCEPT ![c] = "waiting"]
         /\ net' = net \cup {[type |-> "req", call |-> c]}
         /\ kind[c] = "none"
         /\ UNCHANGED <<known, served, finished>>
  <1>1. CASE \E cids \in SUBSET Cids : ConnCheck(c, cids)
    <2>1. PICK cids \in SUBSET Cids : ConnCheck(c, cids)
      BY <1>1
    <2>2. QED
      BY <2>1, Zenon DEF Create, ConnCheck, ZrpcStart, Kinds
  <1>2. CASE Refresh(c)
    BY <1>2 DEF Create, Refresh, ZrpcStart, Kinds
  <1>3. CASE Report(c)
    BY <1>3 DEF Create, Report, ZrpcStart, Kinds
  <1>4. QED
    BY <1>1, <1>2, <1>3 DEF Create

LEMMA CreateIInv ==
  ASSUME IInv, NEW c \in Calls, Create(c)
  PROVE  IInv'
  <1> DEFINE req == [type |-> "req", call |-> c]
  <1>0. TypeOK
    BY DEF IInv
  <1>1. PICK k \in Kinds : kind' = [kind EXCEPT ![c] = k]
    BY CreateFacts
  <1>2. PICK cids \in SUBSET Cids :
          args' = [args EXCEPT ![c] = cids] \/ args' = args
    BY CreateFacts
  <1>3. /\ zr' = [zr EXCEPT ![c] = "waiting"]
        /\ net' = net \cup {req}
        /\ kind[c] = "none"
        /\ UNCHANGED <<known, served, finished>>
    BY CreateFacts
  \* c has not started: nothing of it is in transit or finished
  <1>4. zr[c] = "idle"
    BY <1>0, <1>3 DEF IInv, KindStarted
  <1>5. finished[c] = <<>>
    BY <1>0, <1>4, NothingBeforeFinish DEF IInv
  <1>6. \A m \in net : m.call # c
    BY <1>4 DEF IInv, NetStarted
  <1>7. \A m \in net : m.call \in Calls
    BY <1>0 DEF TypeOK, ReqMsgs, RepMsgs
  <1>8. TypeOK'
    <2>1. args' \in [Calls -> SUBSET Cids]
      BY <1>0, <1>2, Zenon DEF TypeOK
    <2>2. kind' \in [Calls -> Kinds \cup {"none"}]
      BY <1>0, <1>1 DEF TypeOK
    <2>3. zr' \in [Calls -> {"idle", "waiting", "finished"}]
      BY <1>0, <1>3 DEF TypeOK
    <2>4. req \in ReqMsgs
      BY DEF ReqMsgs
    <2>5. net' \subseteq ReqMsgs \cup RepMsgs
      BY <1>0, <1>3, <2>4 DEF TypeOK
    <2>6. (/\ known \subseteq Cids
           /\ served \in [Calls -> [wellFormed : BOOLEAN, ids : SUBSET Cids]]
           /\ finished \in [Calls -> Seq(Results)])'
      BY <1>0, <1>3 DEF TypeOK
    <2>7. QED
      BY <2>1, <2>2, <2>3, <2>5, <2>6 DEF TypeOK
  <1>9. KindStarted'
    BY <1>0, <1>1, <1>3 DEF IInv, KindStarted, TypeOK, Kinds
  <1>10. FinishedCount'
    BY <1>0, <1>3, <1>5 DEF IInv, FinishedCount, TypeOK
  <1>11. NetStarted'
    BY <1>0, <1>3, <1>7 DEF IInv, NetStarted, TypeOK
  <1>12. OneMsgPerCall'
    BY <1>3, <1>6 DEF IInv, OneMsgPerCall
  <1>13. ReqPending'
    BY <1>3, <1>5, <1>6 DEF IInv, ReqPending
  <1>14. RepServed'
    <2>1. \A m \in net : kind'[m.call] = kind[m.call]
      BY <1>0, <1>1, <1>6, <1>7 DEF TypeOK
    <2>2. req.type # "rep"
      OBVIOUS
    <2>3. QED
      BY <1>3, <2>1, <2>2 DEF IInv, RepServed
  <1>15. ConnCheckResultExact'
    BY <1>0, <1>1, <1>3, <1>5 DEF IInv, ConnCheckResultExact, TypeOK
  <1>16. QED
    BY <1>8, <1>9, <1>10, <1>11, <1>12, <1>13, <1>14, <1>15 DEF IInv

LEMMA TimeoutIInv ==
  ASSUME IInv, NEW c \in Calls, Timeout(c)
  PROVE  IInv'
  <1>0. TypeOK
    BY DEF IInv
  <1>1. /\ zr[c] = "waiting"
        /\ zr' = [zr EXCEPT ![c] = "finished"]
        /\ ReqFinished(c, FALSE, "timeout", NotList)
        /\ UNCHANGED <<kind, args, net, known, served>>
    BY Zenon DEF Timeout
  <1>2. kind[c] \in Kinds
    BY <1>0, <1>1 DEF IInv, KindStarted, TypeOK
  <1>3. finished[c] = <<>>
    BY <1>0, <1>1, NothingBeforeFinish DEF IInv
  <1>4. PICK rec \in Results :
          /\ finished' = [finished EXCEPT ![c] = Append(finished[c], rec)]
          /\ GoodResult(c, FALSE, NotList, rec)
    <2>1. NotList \in ResultRecs /\ "timeout" \in Conditions
      BY DEF NotList, ResultRecs, Conditions
    <2>2. QED
      BY <1>0, <1>1, <1>2, <2>1, ReqFinishedResult, Zenon
  <1>5. ~rec.ok
    BY <1>4 DEF GoodResult
  <1>6. /\ finished' \in [Calls -> Seq(Results)]
        /\ finished'[c] = <<rec>>
        /\ \A c2 \in Calls \ {c} : finished'[c2] = finished[c2]
    BY <1>0, <1>3, <1>4, FirstResult, Zenon
  <1>7. \A m \in net : m.call \in Calls
    BY <1>0 DEF TypeOK, ReqMsgs, RepMsgs
  <1>8. TypeOK'
    BY <1>0, <1>1, <1>6, Zenon DEF TypeOK
  <1>9. KindStarted'
    BY <1>0, <1>1, <1>2 DEF IInv, KindStarted, TypeOK, Kinds
  <1>7a. zr'[c] = "finished" /\ \A c2 \in Calls \ {c} : zr'[c2] = zr[c2]
    BY <1>0, <1>1 DEF TypeOK
  <1>10. FinishedCount'
    <2>1. Len(finished'[c]) = 1
      BY <1>6
    <2>2. QED
      BY <1>6, <1>7a, <2>1, Zenon DEF IInv, FinishedCount
  <1>11. NetStarted'
    BY <1>1, <1>7, <1>7a DEF IInv, NetStarted
  <1>12. OneMsgPerCall'
    BY <1>1 DEF IInv, OneMsgPerCall
  \* the only new entry of finished is the failed result of c
  <1>12a. \A c2 \in Calls : \A i \in DOMAIN finished'[c2] :
            finished'[c2][i].ok =>
              c2 # c /\ finished'[c2] = finished[c2]
    BY <1>5, <1>6
  <1>13. ReqPending'
    BY <1>1, <1>7, <1>12a DEF IInv, ReqPending
  <1>14. RepServed'
    BY <1>1 DEF IInv, RepServed
  <1>15. ConnCheckResultExact'
    BY <1>1, <1>12a DEF IInv, ConnCheckResultExact
  <1>16. QED
    BY <1>8, <1>9, <1>10, <1>11, <1>12, <1>13, <1>14, <1>15 DEF IInv

LEMMA ServeIInv ==
  ASSUME IInv, NEW m \in net, Serve(m)
  PROVE  IInv'
  <1> DEFINE c == m.call
             S == known \cap args[c]
  <1>0. TypeOK
    BY DEF IInv
  <1>1. /\ m.type = "req" /\ c \in Calls /\ zr[c] # "idle"
        /\ \A i \in DOMAIN finished[c] : ~finished[c][i].ok
        /\ \A m2 \in net : m2.call = c => m2 = m
        /\ S \in SUBSET Cids
    BY <1>0 DEF Serve, IInv, TypeOK, NetStarted, ReqPending, OneMsgPerCall,
                ReqMsgs, RepMsgs
  <1>2. UNCHANGED <<kind, args, zr, known, finished>>
    BY DEF Serve
  \* the reply that replaces the request, and what it says
  <1>3. PICK ok \in BOOLEAN, r \in ResultRecs :
          /\ net' = (net \ {m}) \cup {Reply(c, ok, r)}
          /\ \/ /\ kind[c] = "conncheck" /\ WellFormed(r) /\ Decoded(r) = S
                /\ served' = [served EXCEPT ![c] = [wellFormed |-> TRUE, ids |-> S]]
             \/ /\ kind[c] = "conncheck" /\ ~WellFormed(r)
                /\ served' = [served EXCEPT ![c] = [wellFormed |-> FALSE, ids |-> S]]
             \/ /\ kind[c] # "conncheck"
                /\ UNCHANGED served
    <2>1. CASE kind[c] = "conncheck"
               /\ \E r \in Encodings(S) : net' = (net \ {m}) \cup {Reply(c, TRUE, r)}
               /\ served' = [served EXCEPT ![c] = [wellFormed |-> TRUE, ids |-> S]]
      BY <1>1, <2>1, EncodingsDecode, Zenon
    <2>2. CASE kind[c] = "conncheck"
               /\ \E r \in Malformed(S) : net' = (net \ {m}) \cup {Reply(c, TRUE, r)}
               /\ served' = [served EXCEPT ![c] = [wellFormed |-> FALSE, ids |-> S]]
      BY <1>1, <2>2, MalformedIsNot, Zenon
    <2>3. CASE kind[c] \in {"refresh", "report"}
               /\ \E ok \in BOOLEAN : net' = (net \ {m}) \cup {Reply(c, ok, NotList)}
               /\ UNCHANGED served
      <3>1. NotList \in ResultRecs
        BY DEF NotList, ResultRecs
      <3>2. QED
        BY <2>3, <3>1
    <2>4. QED
      BY <2>1, <2>2, <2>3, Zenon DEF Serve
  <1>4. \A m2 \in net \ {m} : m2.call \in Calls \ {c}
    BY <1>0, <1>1 DEF TypeOK, ReqMsgs, RepMsgs
  <1>5. TypeOK'
    <2>1. Reply(c, ok, r) \in RepMsgs
      BY <1>1 DEF Reply, RepMsgs, ResultRecs
    <2>2. served' \in [Calls -> [wellFormed : BOOLEAN, ids : SUBSET Cids]]
      <3>1. served \in [Calls -> [wellFormed : BOOLEAN, ids : SUBSET Cids]]
        BY <1>0 DEF TypeOK
      <3>2. \/ served' = served
            \/ \E wf \in BOOLEAN :
                 served' = [served EXCEPT ![c] = [wellFormed |-> wf, ids |-> S]]
        BY <1>3, Zenon
      <3>3. CASE served' = served
        BY <3>1, <3>3
      <3>4. CASE \E wf \in BOOLEAN :
                   served' = [served EXCEPT ![c] = [wellFormed |-> wf, ids |-> S]]
        <4>1. PICK wf \in BOOLEAN :
                served' = [served EXCEPT ![c] = [wellFormed |-> wf, ids |-> S]]
          BY <3>4, Zenon
        <4>2. [wellFormed |-> wf, ids |-> S] \in [wellFormed : BOOLEAN, ids : SUBSET Cids]
          BY <1>1
        <4>3. QED
          BY <1>1, <3>1, <4>1, <4>2
      <3>5. QED
        BY <3>2, <3>3, <3>4
    <2>3. QED
      BY <1>0, <1>2, <1>3, <2>1, <2>2 DEF TypeOK
  <1>6. (KindStarted /\ FinishedCount)'
    BY <1>2 DEF IInv, KindStarted, FinishedCount
  <1>7. NetStarted'
    BY <1>1, <1>2, <1>3 DEF IInv, NetStarted, Reply
  <1>8. OneMsgPerCall'
    BY <1>3, <1>4 DEF IInv, OneMsgPerCall, Reply
  <1>9. ReqPending'
    <2>1. \A m2 \in net' : m2.type = "req" => m2 \in net
      BY <1>3 DEF Reply
    <2>2. QED
      BY <1>2, <2>1 DEF IInv, ReqPending
  \* the new reply is the only one whose call's served entry changes
  <1>10. RepServed'
    <2>1. \A m2 \in net \ {m} : served'[m2.call] = served[m2.call]
      BY <1>0, <1>3, <1>4 DEF TypeOK
    <2>2. \A m2 \in net \ {m} :
            m2.type = "rep" /\ kind[m2.call] = "conncheck" /\ m2.success
            /\ WellFormed(m2.result) =>
                 /\ served[m2.call].wellFormed
                 /\ Decoded(m2.result) = served[m2.call].ids
      BY DEF IInv, RepServed
    \* a well-formed reply to a conncheck was served in the first disjunct
    <2>3. ASSUME kind[c] = "conncheck", WellFormed(r)
          PROVE  served'[c].wellFormed /\ Decoded(r) = served'[c].ids
      <3>1. Decoded(r) = S
            /\ served' = [served EXCEPT ![c] = [wellFormed |-> TRUE, ids |-> S]]
        BY <1>3, <2>3
      <3>2. QED
        BY <1>0, <1>1, <3>1 DEF TypeOK
    <2>4. Reply(c, ok, r).call = c /\ Reply(c, ok, r).result = r
      BY DEF Reply
    <2>5. QED
      BY <1>2, <1>3, <2>1, <2>2, <2>3, <2>4 DEF RepServed
  \* served changes only for c, which has no successful result
  <1>11. ConnCheckResultExact'
    <2>1. \A c2 \in Calls \ {c} : served'[c2] = served[c2]
      BY <1>0, <1>3 DEF TypeOK
    <2>2. QED
      BY <1>1, <1>2, <2>1 DEF IInv, ConnCheckResultExact
  <1>12. QED
    BY <1>5, <1>6, <1>7, <1>8, <1>9, <1>10, <1>11 DEF IInv

\* a step that only drops a message from the transport keeps IInv
LEMMA DropIInv ==
  ASSUME IInv, NEW m \in net, net' = net \ {m},
         UNCHANGED <<kind, args, zr, known, served, finished>>
  PROVE  IInv'
  <1>1. TypeOK'
    BY DEF IInv, TypeOK
  <1>2. (KindStarted /\ FinishedCount)'
    BY DEF IInv, KindStarted, FinishedCount
  <1>3. (NetStarted /\ OneMsgPerCall)'
    BY DEF IInv, NetStarted, OneMsgPerCall
  <1>4. (ReqPending /\ RepServed)'
    BY Zenon DEF IInv, ReqPending, RepServed, WellFormed, Decoded
  <1>5. ConnCheckResultExact'
    BY DEF IInv, ConnCheckResultExact
  <1>6. QED
    BY <1>1, <1>2, <1>3, <1>4, <1>5 DEF IInv

LEMMA LoseIInv ==
  ASSUME IInv, NEW m \in net, Lose(m)
  PROVE  IInv'
  BY DropIInv DEF Lose

LEMMA DeliverIInv ==
  ASSUME IInv, NEW m \in net, Deliver(m)
  PROVE  IInv'
  <1> DEFINE c == m.call
  <1>0. TypeOK
    BY DEF IInv
  <1>1. /\ m.type = "rep" /\ m \in RepMsgs /\ c \in Calls
        /\ net' = net \ {m}
        /\ UNCHANGED <<kind, args, known, served>>
    <2>1. m \in ReqMsgs \cup RepMsgs /\ m.type = "rep"
      BY <1>0 DEF Deliver, TypeOK
    <2>2. m \in RepMsgs
      BY <2>1 DEF ReqMsgs
    <2>3. QED
      BY <2>2 DEF Deliver, RepMsgs
  \* a late reply is discarded
  <1>2. CASE zr[c] = "finished" /\ UNCHANGED <<zr, finished>>
    BY <1>1, <1>2, DropIInv
  <1>3. CASE /\ zr[c] = "waiting"
             /\ zr' = [zr EXCEPT ![c] = "finished"]
             /\ ReqFinished(c, m.success, "remote", m.result)
    <2>1. kind[c] \in Kinds
      BY <1>0, <1>1, <1>3 DEF IInv, KindStarted, TypeOK
    <2>2. finished[c] = <<>>
      BY <1>0, <1>1, <1>3, NothingBeforeFinish DEF IInv
    <2>3. m.success \in BOOLEAN /\ m.result \in ResultRecs /\ "remote" \in Conditions
      BY <1>1 DEF RepMsgs, ResultRecs, Conditions
    <2>4. PICK rec \in Results :
            /\ finished' = [finished EXCEPT ![c] = Append(finished[c], rec)]
            /\ GoodResult(c, m.success, m.result, rec)
      BY <1>0, <1>1, <1>3, <2>1, <2>3, ReqFinishedResult
    <2>5. /\ finished' \in [Calls -> Seq(Results)]
          /\ finished'[c] = <<rec>>
          /\ \A c2 \in Calls \ {c} : finished'[c2] = finished[c2]
      BY <1>0, <1>1, <2>2, <2>4, FirstResult, Zenon
    <2>6. zr'[c] = "finished" /\ \A c2 \in Calls \ {c} : zr'[c2] = zr[c2]
      BY <1>0, <1>1, <1>3 DEF TypeOK
    \* no other message of c is left in transit
    <2>7. \A m2 \in net' : m2.call \in Calls \ {c}
      BY <1>0, <1>1 DEF IInv, OneMsgPerCall, TypeOK, ReqMsgs, RepMsgs
    \* a successful conncheck took the ids the server served
    <2>8. kind[c] = "conncheck" /\ rec.ok =>
            served[c].wellFormed /\ rec.ids = served[c].ids
      BY <1>1, <2>4 DEF GoodResult, IInv, RepServed
    <2>9. TypeOK'
      BY <1>0, <1>1, <1>3, <2>5, Zenon DEF TypeOK
    <2>10. KindStarted'
      BY <1>1, <2>1, <2>6 DEF IInv, KindStarted, Kinds
    <2>11. FinishedCount'
      <3>1. Len(finished'[c]) = 1
        BY <2>5
      <3>2. QED
        BY <2>5, <2>6, <3>1, Zenon DEF IInv, FinishedCount
    <2>12. NetStarted'
      BY <1>1, <2>6, <2>7 DEF IInv, NetStarted
    <2>13. OneMsgPerCall'
      BY <1>1 DEF IInv, OneMsgPerCall
    <2>14. ReqPending'
      BY <1>1, <2>5, <2>7, Zenon DEF IInv, ReqPending
    <2>15. RepServed'
      BY <1>1 DEF IInv, RepServed
    <2>16. ConnCheckResultExact'
      <3>1. \A c2 \in Calls \ {c} : \A i \in DOMAIN finished'[c2] :
              kind'[c2] = "conncheck" /\ finished'[c2][i].ok =>
                /\ served'[c2].wellFormed
                /\ finished'[c2][i].ids = served'[c2].ids
        BY <1>1, <2>5 DEF IInv, ConnCheckResultExact
      <3>2. \A i \in DOMAIN finished'[c] :
              kind'[c] = "conncheck" /\ finished'[c][i].ok =>
                /\ served'[c].wellFormed
                /\ finished'[c][i].ids = served'[c].ids
        BY <1>1, <2>5, <2>8
      <3>3. QED
        BY <3>1, <3>2 DEF ConnCheckResultExact
    <2>17. QED
      BY <2>9, <2>10, <2>11, <2>12, <2>13, <2>14, <2>15, <2>16 DEF IInv
  <1>4. QED
    BY <1>2, <1>3 DEF Deliver

LEMMA SessionChangeIInv == IInv /\ SessionChange => IInv'
  <1> SUFFICES ASSUME IInv, SessionChange PROVE IInv'
    OBVIOUS
  <1>1. known' \subseteq Cids
    BY DEF SessionChange, IInv, TypeOK
  <1>2. UNCHANGED <<kind, args, zr, net, served, finished>>
    BY DEF SessionChange
  <1>3. QED
    BY <1>1, <1>2 DEF IInv, TypeOK, KindStarted, FinishedCount, NetStarted,
                      OneMsgPerCall, ReqPending, RepServed, ConnCheckResultExact

LEMMA StutterIInv == IInv /\ UNCHANGED vars => IInv'
  BY DEF vars, IInv, TypeOK, KindStarted, FinishedCount, NetStarted,
         OneMsgPerCall, ReqPending, RepServed, ConnCheckResultExact

LEMMA NextIInv == IInv /\ [Next]_vars => IInv'
  BY CreateIInv, TimeoutIInv, ServeIInv, LoseIInv, DeliverIInv,
     SessionChangeIInv, StutterIInv DEF Next

(***************************************************************************)
(* Theorems.                                                               *)
(***************************************************************************)

\* IInv holds in every reachable state of the control RPC clients.
THEOREM IInvHolds == Spec => []IInv
  BY InitIInv, NextIInv, PTL DEF Spec

\* No Deferred emits finished twice, for any number of calls: a reply that
\* arrives after the deadline, or after another reply, is discarded by id
\* instead of running req_finished() again.
THEOREM FinishedOnce == Spec => []FinishedAtMostOnce
  <1>1. IInv => FinishedAtMostOnce
    BY DEF IInv, FinishedCount, FinishedAtMostOnce
  <1>2. QED
    BY <1>1, IInvHolds, PTL

\* A conncheck that succeeds returns exactly the client ids the server
\* answered with, for any sets of calls and ids: ConnCheck::req_finished()
\* fails the whole reply on one element that is not a byte array.
THEOREM ConnCheckExact == Spec => []ConnCheckResultExact
  <1>1. IInv => ConnCheckResultExact
    BY DEF IInv
  <1>2. QED
    BY <1>1, IInvHolds, PTL

\* The variables of the control RPC clients always have their types.
THEOREM TypeCorrect == Spec => []TypeOK
  <1>1. IInv => TypeOK
    BY DEF IInv
  <1>2. QED
    BY <1>1, IInvHolds, PTL
=============================================================================
