-------------------------- MODULE MCControlRequest --------------------------
(* Model-checking instance of ControlRequest: two Deferreds, so that a     *)
(* conncheck and another call can be outstanding together, and two client *)
(* ids, so that a reply can hold a proper, non-empty part of what was      *)
(* asked and the server's knowledge can change while a call is waiting.   *)
EXTENDS ControlRequest

CONSTANTS c1, c2, d1, d2, bad

MCCids == {c1, c2}
MCCalls == {d1, d2}
=============================================================================
