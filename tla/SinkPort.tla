------------------------------ MODULE SinkPort ------------------------------
(***************************************************************************)
(* ports.SinkPort in its request-driven lifecycle: Start, Push, Close      *)
(* (src/ports/sink_port.go), with the two goroutines Start runs            *)
(* (stream.From and feed's stream.Drain) and one adapter goroutine per     *)
(* Bind.  Bind is called before Start.  An item is named after the Push    *)
(* that submits it.                                                        *)
(*                                                                         *)
(* A Go channel of capacity Cap is a sequence; a send also completes by    *)
(* handing its value to a receiver that waits on the empty channel, which  *)
(* is all that happens when Cap = 0.                                       *)
(***************************************************************************)
EXTENDS Naturals, Sequences, SequencesExt

CONSTANTS
  Pushers,      \* calls of Push, each with its own item and context
  Closers,      \* calls of Close
  N,            \* number of bound adapters, in Bind order
  Cap,          \* PortOptions.Buffer
  Observed      \* the adapter whose view the refinement takes

ASSUME SinkAssumption == N \in Nat \ {0} /\ Cap \in Nat /\ Observed \in 1..N

Adapters == 1..N
None == "none"

VARIABLES
  mode,         \* p.feedMode
  ctxDone,      \* the context given to Start and Bind is done
  push,         \* where each Push stands
  close,        \* where each Close stands
  pushCh,       \* items buffered in p.pushCh
  pushClosed,   \* p.pushCh is closed
  from,         \* stream.From: receiving, holding an item, or exited
  hold,         \* the item From or the drain's onValue has in hand
  drain,        \* feed: receiving, sending, closed (its adapters' channels), done
  turn,         \* the adapter whose turn it is while feed is sending
  item,         \* the item feed is broadcasting
  ch,           \* items buffered in each adapter's channel
  adapter,      \* whether each adapter still runs
  accepted,     \* history: items in the order pushCh took them
  delivered     \* history: items each adapter received, in order

vars == <<mode, ctxDone, push, close, pushCh, pushClosed, from,
          hold, drain, turn, item, ch, adapter, accepted, delivered>>
pipeVars  == <<from, hold, drain, turn, item, ch, adapter, delivered>>
callVars  == <<mode, push, close, pushCh, pushClosed, accepted>>

Init ==
  /\ mode = "none"
  /\ ctxDone = FALSE
  /\ push = [p \in Pushers |-> "idle"]
  /\ close = [c \in Closers |-> "idle"]
  /\ pushCh = <<>> /\ pushClosed = FALSE
  /\ from = "unborn" /\ hold = None
  /\ drain = "unborn" /\ turn = 1 /\ item = None
  /\ ch = [a \in Adapters |-> <<>>]
  /\ adapter = [a \in Adapters |-> "running"]
  /\ accepted = <<>>
  /\ delivered = [a \in Adapters |-> <<>>]

-----------------------------------------------------------------------------
(***************************************************************************)
(* feedMu, a read-write lock: Push holds it for reading during its send; a *)
(* Close that waits for writing keeps new readers out.                     *)
(***************************************************************************)
Readers == {p \in Pushers : push[p] = "sending"}
WriterPending == \E c \in Closers : close[c] = "locking"

Start ==
  /\ mode = "none"
  /\ Readers = {}
  /\ mode' = "push"
  /\ from' = "receiving"
  /\ drain' = "receiving"
  /\ UNCHANGED <<ctxDone, push, close, pushCh, pushClosed, hold,
                 turn, item, ch, adapter, accepted, delivered>>

PushCall(p) ==
  /\ push[p] = "idle"
  /\ push' = [push EXCEPT ![p] = "locking"]
  /\ UNCHANGED <<mode, ctxDone, close, pushCh, pushClosed, accepted, pipeVars>>

PushLock(p) ==
  /\ push[p] = "locking"
  /\ ~WriterPending
  /\ push' = [push EXCEPT ![p] = IF mode = "push" THEN "sending" ELSE "notStarted"]
  /\ UNCHANGED <<mode, ctxDone, close, pushCh, pushClosed, accepted, pipeVars>>

PushSend(p) ==
  /\ push[p] = "sending"
  /\ \/ /\ Len(pushCh) < Cap
        /\ pushCh' = Append(pushCh, p)
        /\ UNCHANGED <<from, hold>>
     \/ /\ Cap = 0 /\ from = "receiving"
        /\ from' = "holding" /\ hold' = p
        /\ UNCHANGED pushCh
  /\ push' = [push EXCEPT ![p] = "sent"]
  /\ accepted' = Append(accepted, p)
  /\ UNCHANGED <<mode, ctxDone, close, pushClosed, drain, turn, item, ch, adapter, delivered>>

\* Its own context ends, at whatever moment.
PushGiveUp(p) ==
  /\ push[p] = "sending"
  /\ push' = [push EXCEPT ![p] = "cancelled"]
  /\ UNCHANGED <<mode, ctxDone, close, pushCh, pushClosed, accepted, pipeVars>>

CloseCall(c) ==
  /\ close[c] = "idle"
  /\ close' = [close EXCEPT ![c] = "locking"]
  /\ UNCHANGED <<mode, ctxDone, push, pushCh, pushClosed, accepted, pipeVars>>

\* Mutant: Close does not wait for the Push calls that hold the lock.
CloseUnlocked(c) ==
  /\ close[c] = "locking"
  /\ IF mode = "push"
     THEN /\ mode' = "closed" /\ pushClosed' = TRUE
          /\ close' = [close EXCEPT ![c] = "waiting"]
     ELSE /\ close' = [close EXCEPT ![c] = "returned"]
          /\ UNCHANGED <<mode, pushClosed>>
  /\ UNCHANGED <<ctxDone, push, pushCh, accepted, pipeVars>>

CloseLock(c) ==
  /\ close[c] = "locking"
  /\ Readers = {}
  /\ IF mode = "push"
     THEN /\ mode' = "closed" /\ pushClosed' = TRUE
          /\ close' = [close EXCEPT ![c] = "waiting"]
     ELSE /\ close' = [close EXCEPT ![c] = "returned"]
          /\ UNCHANGED <<mode, pushClosed>>
  /\ UNCHANGED <<ctxDone, push, pushCh, accepted, pipeVars>>

CloseReturn(c) ==
  /\ close[c] = "waiting"
  /\ drain = "done"
  /\ close' = [close EXCEPT ![c] = "returned"]
  /\ UNCHANGED <<mode, ctxDone, push, pushCh, pushClosed, accepted, pipeVars>>

Cancel ==
  /\ ~ctxDone
  /\ ctxDone' = TRUE
  /\ UNCHANGED <<callVars, pipeVars>>

-----------------------------------------------------------------------------
(***************************************************************************)
(* stream.From over pushCh.                                                *)
(***************************************************************************)
FromReceive ==
  /\ from = "receiving"
  /\ pushCh # <<>>
  /\ hold' = Head(pushCh)
  /\ pushCh' = Tail(pushCh)
  /\ from' = "holding"
  /\ UNCHANGED <<mode, ctxDone, push, close, pushClosed, drain, turn, item,
                 ch, adapter, accepted, delivered>>

\* Mutant: From ends with the context alone, not with its source.
FromExitOnCancel ==
  /\ from \in {"receiving", "holding"} /\ ctxDone
  /\ from' = "exited" /\ hold' = None
  /\ UNCHANGED <<callVars, ctxDone, drain, turn, item, ch, adapter, delivered>>

FromExit ==
  /\ \/ from = "receiving" /\ pushClosed /\ pushCh = <<>>
     \/ from \in {"receiving", "holding"} /\ ctxDone
  /\ from' = "exited" /\ hold' = None
  /\ UNCHANGED <<callVars, ctxDone, drain, turn, item, ch, adapter, delivered>>

(***************************************************************************)
(* feed: stream.Drain over From's unbuffered output, its onValue offering  *)
(* the item to one adapter after the other, or giving it up when ctx ends. *)
(***************************************************************************)
DrainReceive ==
  /\ drain = "receiving" /\ from = "holding"
  /\ item' = hold
  /\ drain' = "sending" /\ turn' = 1
  /\ from' = "receiving" /\ hold' = None
  /\ UNCHANGED <<callVars, ctxDone, ch, adapter, delivered>>

\* The adapter whose turn it is: after the last one, feed receives again.
Advance(a) ==
  IF a = N THEN drain' = "receiving" /\ item' = None /\ UNCHANGED turn
           ELSE turn' = a + 1 /\ UNCHANGED <<drain, item>>

FeedSend(a) ==
  /\ drain = "sending" /\ turn = a
  /\ \/ /\ Len(ch[a]) < Cap
        /\ ch' = [ch EXCEPT ![a] = Append(@, item)]
        /\ UNCHANGED delivered
     \/ /\ Cap = 0 /\ adapter[a] = "running"
        /\ delivered' = [delivered EXCEPT ![a] = Append(@, item)]
        /\ UNCHANGED ch
  /\ Advance(a)
  /\ UNCHANGED <<callVars, ctxDone, from, hold, adapter>>

\* Mutant: an interrupted broadcast starts over with the first adapter.
FeedRetry(a) ==
  /\ drain = "sending" /\ turn = a
  /\ ctxDone
  /\ turn' = 1
  /\ UNCHANGED <<callVars, ctxDone, from, hold, drain, item, ch, adapter, delivered>>

FeedGiveUp(a) ==
  /\ drain = "sending" /\ turn = a
  /\ ctxDone
  /\ drain' = "receiving" /\ item' = None
  /\ UNCHANGED <<callVars, ctxDone, from, hold, turn, ch, adapter, delivered>>

\* Drain ends; feed closes every adapter's channels.
FeedClose ==
  /\ drain = "receiving"
  /\ from = "exited" \/ ctxDone
  /\ drain' = "closed"
  /\ UNCHANGED <<callVars, ctxDone, from, hold, turn, item, ch, adapter, delivered>>

\* Mutant: feed does not wait for the adapters to drain their channels.
FeedDoneAtOnce ==
  /\ drain = "closed"
  /\ drain' = "done"
  /\ UNCHANGED <<callVars, ctxDone, from, hold, turn, item, ch, adapter, delivered>>

\* p.wg.Wait, then close(done).
FeedDone ==
  /\ drain = "closed"
  /\ \A a \in Adapters : adapter[a] = "exited"
  /\ drain' = "done"
  /\ UNCHANGED <<callVars, ctxDone, from, hold, turn, item, ch, adapter, delivered>>

(***************************************************************************)
(* A SinkAdapter: "Activate consumes src until it terminates or ctx is     *)
(* cancelled."                                                             *)
(***************************************************************************)
AdapterReceive(a) ==
  /\ adapter[a] = "running"
  /\ ch[a] # <<>>
  /\ delivered' = [delivered EXCEPT ![a] = Append(@, Head(ch[a]))]
  /\ ch' = [ch EXCEPT ![a] = Tail(@)]
  /\ UNCHANGED <<callVars, ctxDone, from, hold, drain, turn, item, adapter>>

AdapterExit(a) ==
  /\ adapter[a] = "running"
  /\ ctxDone \/ (drain = "closed" /\ ch[a] = <<>>)
  /\ adapter' = [adapter EXCEPT ![a] = "exited"]
  /\ UNCHANGED <<callVars, ctxDone, from, hold, drain, turn, item, ch, delivered>>

-----------------------------------------------------------------------------
PushStep(p) == PushCall(p) \/ PushLock(p) \/ PushSend(p) \/ PushGiveUp(p)
CloseStep(c) == CloseCall(c) \/ CloseLock(c) \/ CloseReturn(c)
FromStep == FromReceive \/ FromExit
FeedStep(a) == FeedSend(a) \/ FeedGiveUp(a)
DrainStep == DrainReceive \/ FeedClose \/ FeedDone
AdapterStep(a) == AdapterReceive(a) \/ AdapterExit(a)

Next ==
  \/ Start
  \/ \E p \in Pushers : PushStep(p)
  \/ \E c \in Closers : CloseStep(c)
  \/ Cancel
  \/ FromStep
  \/ DrainStep
  \/ \E a \in Adapters : FeedStep(a) \/ AdapterStep(a)

(***************************************************************************)
(* Fairness: a goroutine that can go on does; a channel operation that     *)
(* stays possible completes.  A select chooses at random among its ready   *)
(* cases, and a lock is handed to a waiting writer once its readers leave. *)
(* Nobody has to call Start, Push or Close, or to cancel a context.        *)
(***************************************************************************)
Fairness ==
  /\ \A p \in Pushers : WF_vars(PushLock(p)) /\ SF_vars(PushSend(p))
  /\ \A c \in Closers : WF_vars(CloseLock(c) \/ CloseReturn(c))
  /\ WF_vars(FromStep) /\ WF_vars(DrainStep)
  /\ \A a \in Adapters : WF_vars(FeedStep(a)) /\ WF_vars(AdapterStep(a))

Spec == Init /\ [][Next]_vars
FairSpec == Spec /\ Fairness

-----------------------------------------------------------------------------
(***************************************************************************)
(* Properties.                                                             *)
(***************************************************************************)
TypeOK ==
  /\ mode \in {"none", "push", "closed"}
  /\ ctxDone \in BOOLEAN /\ pushClosed \in BOOLEAN
  /\ push \in [Pushers -> {"idle", "locking", "sending", "sent", "cancelled", "notStarted"}]
  /\ close \in [Closers -> {"idle", "locking", "waiting", "returned"}]
  /\ pushCh \in Seq(Pushers) /\ Len(pushCh) <= Cap
  /\ from \in {"unborn", "receiving", "holding", "exited"}
  /\ hold \in Pushers \cup {None}
  /\ drain \in {"unborn", "receiving", "sending", "closed", "done"}
  /\ turn \in Adapters
  /\ item \in Pushers \cup {None}
  /\ \A a \in Adapters : ch[a] \in Seq(Pushers) /\ Len(ch[a]) <= Cap
  /\ adapter \in [Adapters -> {"running", "exited"}]
  /\ accepted \in Seq(Pushers)
  /\ \A a \in Adapters : delivered[a] \in Seq(Pushers)

\* The comment on Push: no Push is ever sending on the channel once Close
\* has closed it (that would panic).
NoSendOnClosed == pushClosed => Readers = {}

\* What reached adapter a: received, or waiting in its channel.
Reached(a) == delivered[a] \o ch[a]

\* When the drain goroutine ends (what Close waits for) and the context did
\* not end first, every adapter has received every item whose Push returned
\* nil.
FlushedWhenDone ==
  drain = "done" /\ ~ctxDone => \A a \in Adapters : delivered[a] = accepted

\* While the context given to Start lives, every Push and every Close comes
\* back, at the pace of the adapters.
CallsReturn ==
  []~ctxDone =>
    /\ \A p \in Pushers : push[p] = "sending" ~> push[p] = "sent" \/ push[p] = "cancelled"
    /\ \A c \in Closers : close[c] \in {"locking", "waiting"} ~> close[c] = "returned"

\* What is on its way to the observed adapter: pushCh, From's hand, feed's
\* hand (unless the adapter has had its turn), the adapter's channel.
OnItsWay ==
  ch[Observed] \o (IF drain = "sending" /\ turn <= Observed THEN <<item>> ELSE <<>>)
               \o (IF from = "holding" THEN <<hold>> ELSE <<>>) \o pushCh

Link == INSTANCE FifoLink
  WITH Items <- Pushers, Room <- 2 * Cap + 2,
       live <- ~ctxDone, queue <- OnItsWay, received <- delivered[Observed]

\* From Push to any one adapter the port is a bounded first-in-first-out link:
\* fan-out, backpressure and cancellation together never reorder, duplicate
\* or invent an item for it, and lose none while the context lives.
AdapterSeesFifo == Link!Spec
=============================================================================
