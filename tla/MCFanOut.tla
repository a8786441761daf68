------------------------------ MODULE MCFanOut ------------------------------
(***************************************************************************)
(* The two fan-outs, a sink port to its adapters and a broadcast hub to    *)
(* its subscribers; the initial state chooses which of them runs, and the  *)
(* other's variables stay as they are.                                     *)
(***************************************************************************)
EXTENDS SinkPort

CONSTANTS Sessions, Buf, MaxValues

ASSUME HubAssumption == Buf \in Nat /\ MaxValues \in Nat

VARIABLES
  running,     \* "port" or "hub"
  sent, taken, srcClosed, hubDone, hub, todo, subs, sess, gone, subCh, closed, hand, got,
  missed, since

\* The hub has a context and channels of its own.
H == INSTANCE BroadcastHub WITH ctxDone <- hubDone, ch <- subCh
hubVars == <<sent, taken, srcClosed, hubDone, hub, todo, subs, sess, gone, subCh, closed, hand,
             got, missed, since>>

MCInit == Init /\ H!Init /\ running \in {"port", "hub"}
MCNext ==
  \/ running = "port" /\ Next /\ UNCHANGED <<running, hubVars>>
  \/ running = "hub" /\ H!Next /\ UNCHANGED <<running, vars>>
MCSpec == MCInit /\ [][MCNext]_<<running, vars, hubVars>> /\ Fairness /\ H!Fairness

\* The hub never sends to a channel it has closed.
SubscribersOpen == H!NoSendOnClosed

\* A session misses nothing that was not dropped for it.
Accounted == H!Accounted

\* The hub's sessions end with it.
SessionsEnd == H!SessionsEnd
=============================================================================
