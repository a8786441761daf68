----------------------------- MODULE MCStreamOps -----------------------------
(* All operators, on sources of a few items.                                *)
EXTENDS StreamOps
MCOps == OpNames
=============================================================================
