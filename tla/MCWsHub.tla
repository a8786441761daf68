------------------------------ MODULE MCWsHub ------------------------------
(***************************************************************************)
(* WsHub on small sets.                                                    *)
(***************************************************************************)
EXTENDS WsHub
=============================================================================
