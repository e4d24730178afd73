---------------------- MODULE ControlRequestRefinement ----------------------
(***************************************************************************)
(* ControlRequest implements the safety part of ControlRequestAbstract,    *)
(* for every set of calls and of client ids.  The refinement mapping is   *)
(* the identity on kind, args, known, served and finished; the ZrpcRequest *)
(* states and the network are hidden.                                      *)
(*                                                                         *)
(*  - a factory is an abstract Create;                                     *)
(*  - the server handling a conncheck request is an abstract Answer (no   *)
(*    success can precede it, by ReqPending), and handling any other      *)
(*    request, losing a message or discarding a late reply is a stutter;  *)
(*  - a deadline or a reply that ends a waiting call is an abstract       *)
(*    Finish: the call has emitted nothing yet (FinishedCount), and what  *)
(*    req_finished() emits is an allowed result (ResultShape, and         *)
(*    RepServed for a conncheck that succeeds).                           *)
(***************************************************************************)
EXTENDS ControlRequestProofs

USE CallsAssumption, NotBytesAssumption

\* the results of the two specifications are the same records
LEMMA SameResults == Abs!Results = Results
  BY DEF Abs!Results, Results, Abs!Conditions, Conditions, Abs!NoValue, NoValue

\* a result that req_finished() emits on a reply it was right to take is
\* one the abstract Deferred may finish with
LEMMA AllowedResult ==
  ASSUME NEW c \in Calls, NEW s \in BOOLEAN, NEW r, NEW rec \in Results,
         GoodResult(c, s, r, rec), ResultShape(c, rec),
         kind[c] = "conncheck" /\ s /\ WellFormed(r) =>
             served[c].wellFormed /\ Decoded(r) = served[c].ids
  PROVE  rec \in Abs!Allowed(c)
  <1>1. rec \in Abs!Results
    BY SameResults
  <1>2. rec.ok => rec.cond = Abs!NoValue
    BY DEF ResultShape, NoValue, Abs!NoValue
  <1>3. rec.ok /\ kind[c] = "conncheck" =>
          served[c].wellFormed /\ rec.ids = served[c].ids
    BY DEF GoodResult
  <1>4. QED
    BY <1>1, <1>2, <1>3 DEF Abs!Allowed, ResultShape

LEMMA InitAbs == Init => Abs!Init
  BY DEF Init, Abs!Init

LEMMA CreateAbs ==
  ASSUME NEW c \in Calls, Create(c)
  PROVE  Abs!Create(c)
  <1>1. CASE \E cids \in SUBSET Cids : ConnCheck(c, cids)
    BY <1>1 DEF Create, ConnCheck, Abs!Create
  <1>2. CASE Refresh(c)
    BY <1>2 DEF Create, Refresh, Abs!Create
  <1>3. CASE Report(c)
    BY <1>3 DEF Create, Report, Abs!Create
  <1>4. QED
    BY <1>1, <1>2, <1>3 DEF Create

\* a deadline ends a waiting call with a failure
LEMMA TimeoutAbs ==
  ASSUME IInv, NEW c \in Calls, Timeout(c)
  PROVE  Abs!Finish(c)
  <1>0. TypeOK
    BY DEF IInv
  <1>1. kind[c] \in Kinds
    BY <1>0 DEF Timeout, IInv, KindStarted, TypeOK
  <1>2. finished[c] = <<>>
    BY <1>0, NothingBeforeFinish DEF Timeout, IInv
  <1>3. NotList \in ResultRecs /\ "timeout" \in Conditions
    BY DEF NotList, ResultRecs, Conditions
  <1>4. PICK rec \in Results :
          /\ finished' = [finished EXCEPT ![c] = Append(finished[c], rec)]
          /\ GoodResult(c, FALSE, NotList, rec)
          /\ ResultShape(c, rec)
    BY <1>0, <1>1, <1>3, ReqFinishedResult DEF Timeout
  <1>5. rec \in Abs!Allowed(c)
    BY <1>4, AllowedResult
  <1>6. finished' = [finished EXCEPT ![c] = <<rec>>]
    BY <1>2, <1>4
  <1>7. QED
    BY <1>1, <1>2, <1>5, <1>6 DEF Timeout, Abs!Finish, Kinds

\* serving a conncheck request is the stats component's answer; serving
\* another request only puts a reply on the network
LEMMA ServeAbs ==
  ASSUME IInv, NEW m \in net, Serve(m)
  PROVE  Abs!Answer(m.call) \/ UNCHANGED Abs!avars
  <1> DEFINE c == m.call
             S == known \cap args[c]
  <1>1. m.type = "req" /\ UNCHANGED <<kind, args, known, finished>>
    BY DEF Serve
  <1>2. \A i \in DOMAIN finished[c] : ~finished[c][i].ok
    BY <1>1 DEF IInv, ReqPending
  <1>3. CASE kind[c] = "conncheck" /\
             served' = [served EXCEPT ![c] = [wellFormed |-> TRUE, ids |-> S]]
    BY <1>1, <1>2, <1>3 DEF Abs!Answer
  <1>4. CASE kind[c] = "conncheck" /\
             served' = [served EXCEPT ![c] = [wellFormed |-> FALSE, ids |-> S]]
    BY <1>1, <1>2, <1>4 DEF Abs!Answer
  <1>5. CASE UNCHANGED served
    BY <1>1, <1>5 DEF Abs!avars
  <1>6. QED
    BY <1>3, <1>4, <1>5 DEF Serve

\* a reply ends the waiting call it belongs to, or is discarded
LEMMA DeliverAbs ==
  ASSUME IInv, NEW m \in net, Deliver(m)
  PROVE  Abs!Finish(m.call) \/ UNCHANGED Abs!avars
  <1> DEFINE c == m.call
  <1>0. TypeOK
    BY DEF IInv
  <1>1. /\ m \in RepMsgs /\ m.type = "rep" /\ c \in Calls
        /\ UNCHANGED <<kind, args, known, served>>
    <2>1. m \in ReqMsgs \cup RepMsgs /\ m.type = "rep"
      BY <1>0 DEF Deliver, TypeOK
    <2>2. m \in RepMsgs
      BY <2>1 DEF ReqMsgs
    <2>3. QED
      BY <2>2 DEF Deliver, RepMsgs
  <1>2. CASE zr[c] = "finished" /\ UNCHANGED <<zr, finished>>
    BY <1>1, <1>2 DEF Abs!avars
  <1>3. CASE /\ zr[c] = "waiting"
             /\ ReqFinished(c, m.success, "remote", m.result)
    <2>1. kind[c] \in Kinds
      BY <1>0, <1>1, <1>3 DEF IInv, KindStarted, TypeOK
    <2>2. finished[c] = <<>>
      BY <1>0, <1>1, <1>3, NothingBeforeFinish DEF IInv
    <2>3. m.success \in BOOLEAN /\ m.result \in ResultRecs /\ "remote" \in Conditions
      BY <1>1 DEF RepMsgs, ResultRecs, Conditions
    <2>4. PICK rec \in Results :
            /\ finished' = [finished EXCEPT ![c] = Append(finished[c], rec)]
            /\ GoodResult(c, m.success, m.result, rec)
            /\ ResultShape(c, rec)
      BY <1>0, <1>1, <1>3, <2>1, <2>3, ReqFinishedResult
    \* a well-formed conncheck reply carries what the server answered
    <2>5. kind[c] = "conncheck" /\ m.success /\ WellFormed(m.result) =>
            served[c].wellFormed /\ Decoded(m.result) = served[c].ids
      BY <1>1 DEF IInv, RepServed
    <2>6. rec \in Abs!Allowed(c)
      BY <1>1, <2>3, <2>4, <2>5, AllowedResult
    <2>7. finished' = [finished EXCEPT ![c] = <<rec>>]
      BY <2>2, <2>4
    <2>8. QED
      BY <1>1, <2>1, <2>2, <2>6, <2>7 DEF Abs!Finish, Kinds
  <1>4. QED
    BY <1>2, <1>3 DEF Deliver

LEMMA SessionChangeAbs == SessionChange => Abs!SessionChange
  BY DEF SessionChange, Abs!SessionChange

\* every step of ControlRequest is a step of ControlRequestAbstract or
\* leaves its variables unchanged
LEMMA NextAbs == IInv /\ [Next]_vars => [Abs!Next]_Abs!avars
  <1> SUFFICES ASSUME IInv, [Next]_vars PROVE [Abs!Next]_Abs!avars
    OBVIOUS
  <1>1. CASE \E c \in Calls : Create(c)
    BY <1>1, CreateAbs DEF Abs!Next
  <1>2. CASE \E c \in Calls : Timeout(c)
    BY <1>2, TimeoutAbs DEF Abs!Next
  <1>3. CASE \E m \in net : Serve(m)
    <2>1. PICK m \in net : Serve(m)
      BY <1>3
    <2>2. m.call \in Calls
      BY <2>1 DEF IInv, TypeOK, ReqMsgs, RepMsgs
    <2>3. QED
      BY <2>1, <2>2, ServeAbs DEF Abs!Next
  <1>4. CASE \E m \in net : Lose(m)
    BY <1>4 DEF Lose, Abs!avars
  <1>5. CASE \E m \in net : Deliver(m)
    <2>1. PICK m \in net : Deliver(m)
      BY <1>5
    <2>2. m.call \in Calls
      BY <2>1 DEF IInv, TypeOK, ReqMsgs, RepMsgs
    <2>3. QED
      BY <2>1, <2>2, DeliverAbs DEF Abs!Next
  <1>6. CASE SessionChange
    BY <1>6, SessionChangeAbs DEF Abs!Next
  <1>7. CASE UNCHANGED vars
    BY <1>7 DEF vars, Abs!avars
  <1>8. QED
    BY <1>1, <1>2, <1>3, <1>4, <1>5, <1>6, <1>7 DEF Next

(***************************************************************************)
(* Theorem.                                                                *)
(***************************************************************************)

\* Whatever the transport does to requests and replies, the control RPC
\* clients behave as ControlRequestAbstract allows: a Deferred finishes at
\* most once, only after its factory ran, and a success carries the last
\* well-formed answer of the stats component (for a conncheck) or no value.
\* (Its fairness part, that every Deferred finishes, is checked by TLC.)
THEOREM RefinementSafety == Spec => Abs!Init /\ [][Abs!Next]_Abs!avars
  <1>1. Init => Abs!Init
    BY InitAbs
  <1>2. IInv /\ [Next]_vars => [Abs!Next]_Abs!avars
    BY NextAbs
  <1>3. QED
    BY <1>1, <1>2, IInvHolds, PTL DEF Spec
=============================================================================
