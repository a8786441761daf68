------------------------------ MODULE PipePort ------------------------------
(***************************************************************************)
(* ports.PipePort once its topology is declared: one InputPort with a      *)
(* source adapter (src/ports/source_port.go), Push callers, and a fan-out  *)
(* to OutputPorts (each a sink with the Feed goroutine Connect starts) and *)
(* Stream consumers (src/ports/pipe_port.go).  Two pumps, one per input    *)
(* port and one for pushCh, each receive an item and offer it to every     *)
(* output in turn.  An item is named after the call that submits it.       *)
(***************************************************************************)
EXTENDS Naturals, Sequences, SequencesExt, FiniteSets

CONSTANTS
  Pushes,       \* calls of Push
  Ingests,      \* items the input port's adapter reads from outside
  Sinks,        \* number of OutputPorts; outputs 1..Sinks
  Streams,      \* number of Stream consumers; outputs Sinks+1..Sinks+Streams
  Buffer,       \* PortOptions.Buffer (8 when not positive)
  Observed,     \* the pump whose link the refinement takes
  Watched       \* the output whose view the refinement takes

Pumps == {"in", "push"}
Outputs == 1..(Sinks + Streams)
SinkOutputs == 1..Sinks
Items == Pushes \cup Ingests

PipeSizes ==
  /\ Pushes \cap Ingests = {}
  /\ Sinks \in Nat /\ Streams \in Nat /\ Sinks + Streams > 0
  /\ Buffer \in Nat \ {0}
  /\ Observed \in Pumps /\ Watched \in Outputs

VARIABLES
  connected,    \* p.connected: Connect has started the goroutines
  ctxDone,      \* the context of Connect, Bind and Stream is done
  push,         \* where each Push stands
  source,       \* the input port: running, exited, closed (its channel)
  chan,         \* items buffered before each pump: p.pushCh, the port's ch
  pump,         \* receiving, sending, or exited
  held,         \* the item each sending pump is fanning out
  turn,         \* the output whose turn it is
  out,          \* items buffered in each output's channel
  outClosed,    \* the closer goroutine has closed the outputs' channels
  done,         \* doneCh is closed
  feed,         \* each sink's Feed goroutine
  hand,         \* the item each sink's Feed has in hand
  accepted,     \* history: items each pump's channel took, in order
  delivered     \* history: items each output delivered, in order

vars == <<connected, ctxDone, push, source, chan, pump, held, turn,
          out, outClosed, done, feed, hand, accepted, delivered>>
pumpVars == <<pump, held, turn>>
endVars  == <<outClosed, done>>
outVars  == <<out, feed, hand, delivered>>

Init ==
  /\ connected = FALSE /\ ctxDone = FALSE
  /\ push = [p \in Pushes |-> "idle"]
  /\ source = "running"
  /\ chan = [k \in Pumps |-> <<>>]
  /\ pump = [k \in Pumps |-> "unborn"]
  /\ held = [k \in Pumps |-> <<>>]
  /\ turn = [k \in Pumps |-> 1]
  /\ out = [o \in Outputs |-> <<>>]
  /\ outClosed = FALSE /\ done = FALSE
  /\ feed = [o \in SinkOutputs |-> "unborn"]
  /\ hand = [o \in SinkOutputs |-> <<>>]
  /\ accepted = [k \in Pumps |-> <<>>]
  /\ delivered = [o \in Outputs |-> <<>>]

-----------------------------------------------------------------------------
(***************************************************************************)
(* Connect starts both pumps, the sinks' Feed goroutines and the closer; a *)
(* second Connect is a no-op.  InputPort.Stream starts the goroutine that  *)
(* closes the input port's channel.                                        *)
(***************************************************************************)
Connect ==
  /\ ~connected
  /\ connected' = TRUE
  /\ pump' = [k \in Pumps |-> "receiving"]
  /\ feed' = [o \in SinkOutputs |-> "running"]
  /\ UNCHANGED <<ctxDone, push, source, chan, held, turn, out, endVars, hand,
                 accepted, delivered>>

Cancel ==
  /\ ~ctxDone
  /\ ctxDone' = TRUE
  /\ UNCHANGED <<connected, push, source, chan, pumpVars, endVars, outVars, accepted>>

(***************************************************************************)
(* Push: any time, before Connect too; its own context may end it.         *)
(***************************************************************************)
PushCall(p) ==
  /\ push[p] = "idle"
  /\ push' = [push EXCEPT ![p] = "sending"]
  /\ UNCHANGED <<connected, ctxDone, source, chan, pumpVars, endVars, outVars, accepted>>

\* A send on a buffered channel.
Enqueue(k, v) ==
  /\ Len(chan[k]) < Buffer
  /\ chan' = [chan EXCEPT ![k] = Append(@, v)]
  /\ accepted' = [accepted EXCEPT ![k] = Append(@, v)]

PushSend(p) ==
  /\ push[p] = "sending"
  /\ Enqueue("push", p)
  /\ push' = [push EXCEPT ![p] = "sent"]
  /\ UNCHANGED <<connected, ctxDone, source, pumpVars, endVars, outVars>>

\* Its own context ends, at whatever moment.
PushGiveUp(p) ==
  /\ push[p] = "sending"
  /\ push' = [push EXCEPT ![p] = "cancelled"]
  /\ UNCHANGED <<connected, ctxDone, source, chan, pumpVars, endVars, outVars, accepted>>

(***************************************************************************)
(* The input port: its adapter sends until it ends, of itself or with the  *)
(* context; then, once Stream was called, the port closes its channel.     *)
(***************************************************************************)
Ingest(v) ==
  /\ source = "running"
  /\ v \notin Range(accepted["in"])
  /\ Enqueue("in", v)
  /\ UNCHANGED <<connected, ctxDone, push, source, pumpVars, endVars, outVars>>

SourceExit ==
  /\ source = "running"
  /\ source' = "exited"
  /\ UNCHANGED <<connected, ctxDone, push, chan, pumpVars, endVars, outVars, accepted>>

SourceClose ==
  /\ connected /\ source = "exited"
  /\ source' = "closed"
  /\ UNCHANGED <<connected, ctxDone, push, chan, pumpVars, endVars, outVars, accepted>>

-----------------------------------------------------------------------------
(***************************************************************************)
(* A pump: the select on ctx.Done and its channel, then fanOut.            *)
(***************************************************************************)
PumpReceive(k) ==
  /\ pump[k] = "receiving"
  /\ chan[k] # <<>>
  /\ held' = [held EXCEPT ![k] = <<Head(chan[k])>>]
  /\ chan' = [chan EXCEPT ![k] = Tail(@)]
  /\ pump' = [pump EXCEPT ![k] = "sending"]
  /\ turn' = [turn EXCEPT ![k] = 1]
  /\ UNCHANGED <<connected, ctxDone, push, source, endVars, outVars, accepted>>

\* pushCh is never closed; the input port's channel is.
PumpExit(k) ==
  /\ pump[k] = "receiving"
  /\ ctxDone \/ (k = "in" /\ source = "closed" /\ chan[k] = <<>>)
  /\ pump' = [pump EXCEPT ![k] = "exited"]
  /\ UNCHANGED <<connected, ctxDone, push, source, chan, held, turn, endVars, outVars, accepted>>

\* The next output's turn, or the end of fanOut.
Advance(k) ==
  IF turn[k] = Sinks + Streams
  THEN /\ pump' = [pump EXCEPT ![k] = "receiving"]
       /\ held' = [held EXCEPT ![k] = <<>>]
       /\ UNCHANGED turn
  ELSE turn' = [turn EXCEPT ![k] = @ + 1] /\ UNCHANGED <<pump, held>>

\* Mutant: an output without room is passed over.
FanOutOrSkip(k) ==
  /\ pump[k] = "sending"
  /\ out' = IF Len(out[turn[k]]) < Buffer
            THEN [out EXCEPT ![turn[k]] = @ \o held[k]] ELSE out
  /\ Advance(k)
  /\ UNCHANGED <<connected, ctxDone, push, source, chan, endVars, feed, hand, accepted, delivered>>

FanOut(k) ==
  /\ pump[k] = "sending"
  /\ Len(out[turn[k]]) < Buffer
  /\ out' = [out EXCEPT ![turn[k]] = @ \o held[k]]
  /\ Advance(k)
  /\ UNCHANGED <<connected, ctxDone, push, source, chan, endVars, feed, hand, accepted, delivered>>

\* Mutant: the interrupted item is put back and offered to everyone again.
FanOutPutBack(k) ==
  /\ pump[k] = "sending" /\ ctxDone
  /\ turn' = [turn EXCEPT ![k] = 1]
  /\ UNCHANGED <<connected, ctxDone, push, source, chan, pump, held, endVars, outVars, accepted>>

FanOutGiveUp(k) ==
  /\ pump[k] = "sending" /\ ctxDone
  /\ pump' = [pump EXCEPT ![k] = "receiving"]
  /\ held' = [held EXCEPT ![k] = <<>>]
  /\ UNCHANGED <<connected, ctxDone, push, source, chan, turn, endVars, outVars, accepted>>

\* wg.Wait, then the outputs' channels are closed ...
CloseOutputs ==
  /\ ~outClosed
  /\ \A k \in Pumps : pump[k] = "exited"
  /\ outClosed' = TRUE
  /\ UNCHANGED <<connected, ctxDone, push, source, chan, pumpVars, done, outVars, accepted>>

\* ... and then doneCh.
CloseDone ==
  /\ outClosed /\ ~done
  /\ done' = TRUE
  /\ UNCHANGED <<connected, ctxDone, push, source, chan, pumpVars, outClosed, outVars, accepted>>

-----------------------------------------------------------------------------
(***************************************************************************)
(* The far ends: a Stream consumer receives; a sink's Feed goroutine takes *)
(* an item in hand and hands it to the sink's adapters (SinkPort has the   *)
(* detail), until its channel is closed and empty or the context ends.     *)
(***************************************************************************)
StreamReceive(o) ==
  /\ o \notin SinkOutputs
  /\ out[o] # <<>>
  /\ delivered' = [delivered EXCEPT ![o] = Append(@, Head(out[o]))]
  /\ out' = [out EXCEPT ![o] = Tail(@)]
  /\ UNCHANGED <<connected, ctxDone, push, source, chan, pumpVars, endVars, feed, hand, accepted>>

FeedReceive(o) ==
  /\ feed[o] = "running" /\ hand[o] = <<>>
  /\ out[o] # <<>>
  /\ hand' = [hand EXCEPT ![o] = <<Head(out[o])>>]
  /\ out' = [out EXCEPT ![o] = Tail(@)]
  /\ UNCHANGED <<connected, ctxDone, push, source, chan, pumpVars, endVars, feed, accepted, delivered>>

FeedDeliver(o) ==
  /\ feed[o] = "running" /\ hand[o] # <<>>
  /\ delivered' = [delivered EXCEPT ![o] = @ \o hand[o]]
  /\ hand' = [hand EXCEPT ![o] = <<>>]
  /\ UNCHANGED <<connected, ctxDone, push, source, chan, pumpVars, endVars, out, feed, accepted>>

FeedExit(o) ==
  /\ feed[o] = "running"
  /\ ctxDone \/ (outClosed /\ out[o] = <<>> /\ hand[o] = <<>>)
  /\ feed' = [feed EXCEPT ![o] = "exited"]
  /\ hand' = [hand EXCEPT ![o] = <<>>]
  /\ UNCHANGED <<connected, ctxDone, push, source, chan, pumpVars, endVars, out, accepted, delivered>>

-----------------------------------------------------------------------------
PushStep(p) == PushCall(p) \/ PushSend(p) \/ PushGiveUp(p)
PumpStep(k) == PumpReceive(k) \/ PumpExit(k) \/ FanOut(k) \/ FanOutGiveUp(k)
FeedStep(o) == FeedReceive(o) \/ FeedDeliver(o) \/ FeedExit(o)

Next ==
  \/ Connect \/ Cancel
  \/ \E p \in Pushes : PushStep(p)
  \/ \E v \in Ingests : Ingest(v)
  \/ SourceExit \/ SourceClose
  \/ \E k \in Pumps : PumpStep(k)
  \/ CloseOutputs \/ CloseDone
  \/ \E o \in Outputs : StreamReceive(o)
  \/ \E o \in SinkOutputs : FeedStep(o)

(***************************************************************************)
(* Fairness: the goroutines Connect starts run on, two of them that send   *)
(* on one channel both get through, consumers consume, and the adapter     *)
(* honours its contract to end with the context.                           *)
(***************************************************************************)
Fairness ==
  /\ \A p \in Pushes : SF_vars(PushSend(p))
  /\ WF_vars(ctxDone /\ SourceExit) /\ WF_vars(SourceClose)
  /\ \A k \in Pumps : WF_vars(PumpReceive(k) \/ PumpExit(k) \/ FanOutGiveUp(k)) /\ SF_vars(FanOut(k))
  /\ WF_vars(CloseOutputs) /\ WF_vars(CloseDone)
  /\ \A o \in Outputs : WF_vars(StreamReceive(o))
  /\ \A o \in SinkOutputs : WF_vars(FeedStep(o))

Spec == Init /\ [][Next]_vars
FairSpec == Spec /\ Fairness

-----------------------------------------------------------------------------
(***************************************************************************)
(* Properties.                                                             *)
(***************************************************************************)
CallType ==
  /\ connected \in BOOLEAN /\ ctxDone \in BOOLEAN
  /\ push \in [Pushes -> {"idle", "sending", "sent", "cancelled"}]
  /\ source \in {"running", "exited", "closed"}
  /\ chan \in [Pumps -> Seq(Items)] /\ \A k \in Pumps : Len(chan[k]) <= Buffer
  /\ accepted \in [Pumps -> Seq(Items)]
PumpType ==
  /\ pump \in [Pumps -> {"unborn", "receiving", "sending", "exited"}]
  /\ held \in [Pumps -> Seq(Items)]
  /\ \A k \in Pumps : IF pump[k] = "sending" THEN Len(held[k]) = 1 ELSE held[k] = <<>>
  /\ turn \in [Pumps -> Outputs]
OutType ==
  /\ outClosed \in BOOLEAN /\ done \in BOOLEAN
  /\ out \in [Outputs -> Seq(Items)] /\ \A o \in Outputs : Len(out[o]) <= Buffer
  /\ feed \in [SinkOutputs -> {"unborn", "running", "exited"}]
  /\ hand \in [SinkOutputs -> Seq(Items)] /\ \A o \in SinkOutputs : Len(hand[o]) <= 1
  /\ delivered \in [Outputs -> Seq(Items)]
TypeOK == CallType /\ PumpType /\ OutType

\* What has been accepted by pump k.
Sent(k) == Range(accepted[k])

\* The items of a sequence that came in by pump k.
Own(k) == IF k = "push" THEN Pushes ELSE Ingests
Mine(k, s) == FlattenSeq([i \in DOMAIN s |-> IF s[i] \in Own(k) THEN <<s[i]>> ELSE <<>>])

\* What is on its way from pump k to output o: with the output's Feed, in the
\* output's channel, with the pump unless this output had it, before the pump.
InHand(k, o) == IF turn[k] <= o THEN held[k] ELSE <<>>
OnItsWay(k, o) ==
  Mine(k, IF o \in SinkOutputs THEN hand[o] ELSE <<>>) \o Mine(k, out[o]) \o InHand(k, o) \o chan[k]

Link == INSTANCE FifoLink
  WITH Items <- Own(Observed), Room <- 2 * Buffer + 2,
       live <- ~ctxDone, queue <- OnItsWay(Observed, Watched),
       received <- Mine(Observed, delivered[Watched])

\* Each pair of a producer side and an output is a bounded first-in-first-out
\* link, whatever the other producer and the other outputs do.
ProducerSeesFifo == Link!Spec

\* An item Push or the input port got into the pipe before or after Connect
\* reaches every output, or the context ends.
AcceptedDelivered ==
  \A v \in Items :
    connected /\ v \in Sent("push") \cup Sent("in")
      ~> ctxDone \/ \A o \in Outputs : v \in Range(delivered[o])
=============================================================================
