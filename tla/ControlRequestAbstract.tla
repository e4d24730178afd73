----------------------- MODULE ControlRequestAbstract -----------------------
(***************************************************************************)
(* What a control RPC Deferred promises its caller (specification, 4.G    *)
(* and 4.H), with the transport hidden: no request, reply, deadline or    *)
(* call id is visible.                                                     *)
(*                                                                         *)
(*  - a Deferred is made by one of the factories connCheck(), refresh()   *)
(*    and report(), and finishes exactly once;                             *)
(*  - it may always fail, with an error condition or without a value;     *)
(*  - refresh and report succeed without a value;                          *)
(*  - a conncheck succeeds only after the stats component gave a          *)
(*    well-formed answer, and its value is that answer: the ids the       *)
(*    component knew at the time, intersected with the ids asked about;   *)
(*  - every Deferred that was made eventually finishes.                    *)
(*                                                                         *)
(* ControlRequest.tla implements this specification (see AbstractSpec     *)
(* there); the refinement mapping is the identity on the variables kept   *)
(* here, and hides the ZrpcRequest states and the network.                 *)
(***************************************************************************)
EXTENDS Naturals, Sequences

CONSTANTS Cids, Calls

Kinds == {"conncheck", "refresh", "report"}
Conditions == {"timeout", "remote"}
NoValue == "novalue"

VARIABLES
    kind,     \* per Deferred: "none" before its factory ran, else its class
    args,     \* per Deferred: the ids a conncheck asks about
    known,    \* the client ids the stats component currently knows
    served,   \* per conncheck: the last answer of the stats component
    finished  \* per Deferred: the results it emitted, in order

avars == <<kind, args, known, served, finished>>

Results == [ok : BOOLEAN, ids : SUBSET Cids, cond : Conditions \cup {NoValue}]

Init ==
    /\ kind = [c \in Calls |-> "none"]
    /\ args = [c \in Calls |-> {}]
    /\ known \in SUBSET Cids
    /\ served = [c \in Calls |-> [wellFormed |-> TRUE, ids |-> {}]]
    /\ finished = [c \in Calls |-> <<>>]

\* a factory makes Deferred c; only a conncheck takes ids
Create(c) ==
    /\ kind[c] = "none"
    /\ \/ \E cids \in SUBSET Cids :
             /\ kind' = [kind EXCEPT ![c] = "conncheck"]
             /\ args' = [args EXCEPT ![c] = cids]
       \/ \E k \in {"refresh", "report"} :
             /\ kind' = [kind EXCEPT ![c] = k]
             /\ UNCHANGED args
    /\ UNCHANGED <<known, served, finished>>

\* the stats component answers conncheck c with what it knows of the ids
\* asked, well formed or not; a conncheck that already succeeded is not
\* answered again
Answer(c) ==
    /\ kind[c] = "conncheck"
    /\ \A i \in DOMAIN finished[c] : ~finished[c][i].ok
    /\ \E wf \in BOOLEAN :
          served' = [served EXCEPT ![c] = [wellFormed |-> wf,
                                           ids |-> known \cap args[c]]]
    /\ UNCHANGED <<kind, args, known, finished>>

\* the results Deferred c may finish with
Allowed(c) ==
    {r \in Results :
        IF r.ok
        THEN /\ r.cond = NoValue
             /\ kind[c] = "conncheck" => served[c].wellFormed
                                          /\ r.ids = served[c].ids
             /\ kind[c] # "conncheck" => r.ids = {}
        ELSE r.ids = {}}

\* Deferred c finishes, once
Finish(c) ==
    /\ kind[c] # "none"
    /\ finished[c] = <<>>
    /\ \E r \in Allowed(c) : finished' = [finished EXCEPT ![c] = <<r>>]
    /\ UNCHANGED <<kind, args, known, served>>

\* a client connection starts or ends at the stats component
SessionChange ==
    /\ \E x \in Cids : known' = (known \ {x}) \cup ({x} \ known)
    /\ UNCHANGED <<kind, args, served, finished>>

Next ==
    \/ \E c \in Calls : Create(c) \/ Answer(c) \/ Finish(c)
    \/ SessionChange

Spec == Init /\ [][Next]_avars /\ \A c \in Calls : WF_avars(Finish(c))
=============================================================================
