--------------------------- MODULE MCRequestReply ---------------------------
(***************************************************************************)
(* The two request-reply clients; the initial state chooses which runs,    *)
(* and the other's variables stay as they are.                             *)
(*                                                                         *)
(* MQTT 5, RpcCall: two calls over three routes, an old one that forwards  *)
(* or refuses, the one it forwards to, whose response has another type and *)
(* which may forward back, and one that claims the same topic under a      *)
(* security scheme.  A reply topic is the exchange's own or one for        *)
(* everybody.  ZeroMQ, DealerRouter: several calls over one socket.        *)
(***************************************************************************)
EXTENDS RpcCall

CONSTANTS Dealers,     \* the calls over the DEALER socket
          c1, c2

ASSUME DealersAssumption == "nobody" \notin Dealers

VARIABLES client, dealing, got, toRouter, toDealer, serve, serveDone, handler, lost, nearby

\* The DEALER/ROUTER pair, whose calls, requests and replies are its own.
D == INSTANCE DealerRouter
       WITH Calls <- Dealers, call <- dealing, requests <- toRouter, replies <- toDealer,
            ctxDone <- serveDone
dealerVars == <<dealing, got, toRouter, toDealer, serve, serveDone, handler, lost, nearby>>

MCInit == Init /\ D!Init /\ client \in {"mqtt5", "zeromq"}
MCNext ==
  \/ client = "mqtt5" /\ Next /\ UNCHANGED <<client, dealerVars>>
  \/ client = "zeromq" /\ D!Next /\ UNCHANGED <<client, vars>>
MCSpec ==
  MCInit /\ [][MCNext]_<<client, vars, dealerVars>> /\ \A c \in Calls : WF_vars(Steps(c))

\* A stray reply needs calls that overlapped.
StrayNeedsOverlap == D!StrayNeedsOverlap

\* No reply is made twice, and none is dropped when Serve stops.
RepliesKept == D!RepliesKept

MCRoutes == {"legacyAdd", "sum", "keyedSum"}
MCServices == {"compute/legacy-add", "compute/sum"}

MCService(r) == IF r = "legacyAdd" THEN "compute/legacy-add" ELSE "compute/sum"
MCScheme(r) == IF r = "keyedSum" THEN "apiKey" ELSE NoScheme
MCResp(r) == IF r = "sum" THEN "SumResp" ELSE "LegacyAddResp"
MCAnswers(s) == IF s = "compute/sum" THEN {"value"} ELSE {"compute/legacy-add", "compute/sum"}
MCRetries(c) == IF c = c1 THEN 1 ELSE 0
MCWarm == {"sum"}
MCAsks(c) == IF c = c1 THEN {"legacyAdd"} ELSE {"keyedSum"}
MCReplays(c) == IF c = c1 THEN {} ELSE {"compute/sum"}
MCReplyTopic(e) == IF e = <<c1, MaxForwards>> THEN {e} ELSE {<<"replies", 0>>}
=============================================================================
