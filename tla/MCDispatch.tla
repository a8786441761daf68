----------------------------- MODULE MCDispatch -----------------------------
(***************************************************************************)
(* Dispatch with two messages, for every adapter.                          *)
(***************************************************************************)
EXTENDS Dispatch

MCKinds == {"rest"} \cup Repliers \cup Subscribers
=============================================================================
