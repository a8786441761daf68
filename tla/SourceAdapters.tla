--------------------------- MODULE SourceAdapters ---------------------------
(***************************************************************************)
(* A SourcePort and one adapter bound to it (ports/source_port.go and the  *)
(* binding.go of each adapter): where its items come from, the goroutines  *)
(* and channels they pass, and the port that closes its channels once      *)
(* Activate has returned.                                                  *)
(*   query, watch, sse         Activate produces and sends to the port     *)
(*   poll, scan, subscribe     a goroutine produces, Activate forwards     *)
(*   ingest                    HTTP handlers produce, a goroutine forwards *)
(*   mqtt, mqtt5               the client library calls back, no goroutine *)
(***************************************************************************)
EXTENDS Naturals, Sequences, FiniteSets, SequencesExt

CONSTANTS
  Kinds,       \* adapters to run
  Buffers,     \* sizes of the adapter's and the port's buffers
  MaxItems     \* bound on what the outside world offers

Callbacks == {"mqtt", "mqtt5"}
Direct    == {"query", "watch", "sse"}
Pumped    == {"poll", "scan", "subscribe"}
Chans     == {"values", "errors"}
Items     == [n : 1..MaxItems + 1, to : Chans]

VARIABLES
  kind, buffer,    \* the adapter, and the capacity of mid and dst
  drained,         \* somebody drains the port's stream
  cancelled,
  act,             \* Activate: "starting", "serving", "reporting", "returned"
  hook,            \* its callback or handler is registered
  prod,            \* the producing loop: "idle", "batch" or "ended"
  batch,           \* rows or files it has still to send
  hand,            \* the item it sends
  mid,             \* the adapter's own channels
  fwd,             \* the forwarding loop: "running" or "ended"
  held,            \* the item it sends
  dst,             \* the port's channels
  closed,          \* the port has closed them
  got,             \* history: what was received from the port
  panicked,        \* a send on a closed channel
  made,            \* how many items the world has offered
  linked,          \* sse: the connection is up
  dir, known       \* watch: files in the directory, files seen

flow == <<hand, mid, held, dst, got>>
world == <<made, linked, dir, known>>
fixed == <<kind, buffer, drained>>
vars == <<fixed, cancelled, act, hook, prod, batch, flow, fwd, closed, panicked, world>>

Empty == [c \in Chans |-> <<>>]

Init ==
  /\ kind \in Kinds /\ buffer \in Buffers /\ drained \in BOOLEAN
  /\ cancelled = FALSE /\ closed = FALSE /\ panicked = FALSE
  /\ act = IF kind \in {"poll", "query", "watch"} THEN "serving" ELSE "starting"
  /\ hook = FALSE
  /\ prod = IF kind \in Direct \cup Pumped THEN "idle" ELSE "ended"
  /\ fwd = IF kind \in Pumped \cup {"ingest"} THEN "running" ELSE "ended"
  /\ batch = <<>> /\ hand = <<>> /\ held = <<>>
  /\ mid = Empty /\ dst = Empty /\ got = Empty
  /\ made = 0 /\ linked = FALSE /\ dir = {} /\ known = {}

------------------------------------------------------------------------------
(* Channels.  An unbuffered channel hands its item to a waiting receiver.   *)

\* To the port; whoever drains the port's stream may be waiting.
Fits(x) == Len(dst[x.to]) < buffer
ToPort(x) ==
  \/ ~closed /\ Fits(x) /\ dst' = [dst EXCEPT ![x.to] = Append(@, x)] /\ UNCHANGED <<got, panicked>>
  \/ ~closed /\ buffer = 0 /\ drained /\ got' = [got EXCEPT ![x.to] = Append(@, x)] /\ UNCHANGED <<dst, panicked>>
  \/ closed /\ panicked' = TRUE /\ UNCHANGED <<dst, got>>

\* To the adapter's own channels.
ForwarderWaits == fwd = "running" /\ held = <<>>
ToMid(x) ==
  \/ Len(mid[x.to]) < buffer /\ mid' = [mid EXCEPT ![x.to] = Append(@, x)] /\ UNCHANGED held
  \/ buffer = 0 /\ ForwarderWaits /\ held' = <<x>> /\ UNCHANGED mid

\* The port's stream is drained.
Receive(c) ==
  /\ drained /\ dst[c] # <<>>
  /\ got' = [got EXCEPT ![c] = Append(@, Head(dst[c]))]
  /\ dst' = [dst EXCEPT ![c] = Tail(@)]
  /\ UNCHANGED <<fixed, cancelled, act, hook, prod, batch, hand, mid, fwd, held, closed, panicked, world>>

\* Stream's goroutine, when wg.Wait returns.
ClosePort ==
  /\ act = "returned" /\ ~closed
  /\ closed' = TRUE
  /\ UNCHANGED <<fixed, cancelled, act, hook, prod, batch, flow, fwd, panicked, world>>

------------------------------------------------------------------------------
(* Start.                                                                   *)

Returns == IF kind \in Direct THEN "returned" ELSE act

Serve ==
  /\ act = "starting" /\ act' = "serving"
  /\ UNCHANGED <<fixed, cancelled, prod, batch, flow, fwd, closed, panicked, world>>

OpenFile      == kind = "scan" /\ Serve /\ UNCHANGED hook
RegisterRoute == kind = "ingest" /\ Serve /\ hook' = TRUE
BeginLoop     == kind \in {"subscribe", "sse"} /\ Serve /\ UNCHANGED hook

\* consumeSSE returns an error that nobody looks at.
SetupFails ==
  /\ act = "starting" /\ kind = "sse"
  /\ act' = "returned" /\ prod' = "ended"
  /\ UNCHANGED <<fixed, cancelled, hook, batch, flow, fwd, closed, panicked, world>>

\* The callback is in place before the broker has answered.
RegisterHandler ==
  /\ act = "starting" /\ kind \in Callbacks /\ ~hook
  /\ hook' = TRUE
  /\ UNCHANGED <<fixed, cancelled, act, prod, batch, flow, fwd, closed, panicked, world>>

Subscribed ==
  /\ act = "starting" /\ kind \in Callbacks /\ hook
  /\ act' = "serving"
  /\ UNCHANGED <<fixed, cancelled, hook, prod, batch, flow, fwd, closed, panicked, world>>

\* The file does not open, the requirements are not covered, the broker
\* refuses.  Only mqtt5 takes its handler out again.
StartFails ==
  /\ act = "starting" /\ kind \in Callbacks \cup {"scan"} /\ (kind = "mqtt5" => hook)
  /\ act' = "reporting" /\ prod' = "ended" /\ fwd' = "ended"
  /\ hook' = (hook /\ kind = "mqtt")
  /\ made' = made + 1 /\ hand' = <<[n |-> made + 1, to |-> "errors"]>>
  /\ UNCHANGED <<fixed, cancelled, batch, mid, held, dst, got, closed, panicked, linked, dir, known>>

Report ==
  /\ act = "reporting"
  /\ \/ ToPort(hand[1])
     \/ cancelled /\ UNCHANGED <<dst, got, panicked>>
  /\ act' = "returned" /\ hand' = <<>>
  /\ UNCHANGED <<fixed, cancelled, hook, prod, batch, mid, fwd, held, closed, world>>

------------------------------------------------------------------------------
(* The producing loops.                                                     *)

Looping == act # "starting" /\ prod = "idle"
New(c) == [n |-> made + 1, to |-> c]

\* One item or the error it comes to: a tick's HTTP call, a line of the file,
\* a ZeroMQ message, an SSE event.
Produce(c) ==
  /\ Looping /\ made < MaxItems
  /\ made' = made + 1 /\ hand' = <<New(c)>> /\ prod' = "batch"
  /\ UNCHANGED <<fixed, cancelled, act, hook, batch, mid, fwd, held, dst, got, closed, panicked,
                 linked, dir, known>>

PollTick(c) == kind = "poll" /\ Produce(c)
ScanLine(c) == kind = "scan" /\ Produce(c)
Message(c)  == kind = "subscribe" /\ Produce(c)
SseEvent(c) == kind = "sse" /\ linked /\ Produce(c)

\* A tick's query: an error, or rows of which each may fail to validate.
Query ==
  /\ Looping /\ kind = "query"
  /\ \E rows \in UNION {[1..k -> Chans] : k \in 0..2} :
       /\ made + Len(rows) <= MaxItems
       /\ batch' = [i \in DOMAIN rows |-> [n |-> made + i, to |-> rows[i]]]
       /\ made' = made + Len(rows)
       /\ prod' = IF rows = <<>> THEN "idle" ELSE "batch"
  /\ UNCHANGED <<fixed, cancelled, act, hook, flow, fwd, closed, panicked, linked, dir, known>>

\* Mutant: every tick reports all files.
ListAll ==
  /\ Looping /\ kind = "watch" /\ dir # {}
  /\ batch' = [i \in DOMAIN SetToSeq(dir) |-> [n |-> SetToSeq(dir)[i], to |-> "values"]]
  /\ known' = known \cup dir /\ prod' = "batch"
  /\ UNCHANGED <<fixed, cancelled, act, hook, flow, fwd, closed, panicked, made, linked, dir>>

\* A tick's ReadDir: the files that were never seen, or an error.
List ==
  /\ Looping /\ kind = "watch"
  /\ LET fresh == SetToSeq(dir \ known) IN
     \/ /\ fresh # <<>>
        /\ batch' = [i \in DOMAIN fresh |-> [n |-> fresh[i], to |-> "values"]]
        /\ known' = known \cup dir /\ made' = made
     \/ /\ made < MaxItems
        /\ batch' = <<New("errors")>> /\ made' = made + 1 /\ known' = known
  /\ prod' = "batch"
  /\ UNCHANGED <<fixed, cancelled, act, hook, flow, fwd, closed, panicked, linked, dir>>

FileChange ==
  /\ kind = "watch"
  /\ \E f \in 1..MaxItems : dir' = IF f \in dir THEN dir \ {f} ELSE dir \cup {f}
  /\ UNCHANGED <<fixed, cancelled, act, hook, prod, batch, flow, fwd, closed, panicked,
                 made, linked, known>>

NextRow ==
  /\ prod = "batch" /\ hand = <<>> /\ batch # <<>>
  /\ hand' = <<Head(batch)>> /\ batch' = Tail(batch)
  /\ UNCHANGED <<fixed, cancelled, act, hook, prod, mid, fwd, held, dst, got, closed, panicked, world>>

\* An SSE connection: it fails, with an error that is only tried, or it is up
\* until the server or the network drops it.  Backoff is any delay.
Connect ==
  /\ Looping /\ kind = "sse" /\ ~linked /\ ~cancelled
  /\ \/ linked' = TRUE /\ UNCHANGED <<made, hand, prod>>
     \/ /\ made < MaxItems /\ made' = made + 1
        /\ hand' = <<New("errors")>> /\ prod' = "batch" /\ UNCHANGED linked
  /\ UNCHANGED <<fixed, cancelled, act, hook, batch, mid, fwd, held, dst, got, closed, panicked, dir, known>>

Disconnect ==
  /\ Looping /\ linked
  /\ linked' = FALSE
  /\ UNCHANGED <<fixed, cancelled, act, hook, prod, batch, flow, fwd, closed, panicked, made, dir, known>>

Sent == prod' = IF batch = <<>> THEN "idle" ELSE "batch"
SendHand ==
  /\ prod = "batch" /\ hand # <<>>
  /\ \/ kind \in Direct /\ ToPort(hand[1]) /\ UNCHANGED <<mid, held>>
     \/ kind \in Pumped /\ ToMid(hand[1]) /\ UNCHANGED <<dst, got, panicked>>
  /\ hand' = <<>> /\ Sent
  /\ UNCHANGED <<fixed, cancelled, act, hook, batch, fwd, closed, world>>

\* Mutant: select with a default.
GiveUpAnyHand ==
  /\ prod = "batch" /\ hand # <<>>
  /\ hand' = <<>> /\ Sent
  /\ UNCHANGED <<fixed, cancelled, act, hook, batch, mid, fwd, held, dst, got, closed, panicked, world>>

\* The loop returns when a send is given up; the callbacks of subscribe and
\* sse return nil and their loops look at the context before they go on.
GiveUpHand ==
  /\ prod = "batch" /\ hand # <<>> /\ cancelled
  /\ hand' = <<>>
  /\ IF kind \in {"subscribe", "sse"} THEN Sent /\ UNCHANGED <<act, batch>>
     ELSE prod' = "ended" /\ batch' = <<>> /\ act' = Returns
  /\ UNCHANGED <<fixed, cancelled, hook, mid, fwd, held, dst, got, closed, panicked, world>>

\* The adapter's OnError finds nobody receiving: an SSE error is dropped.
DropError ==
  /\ prod = "batch" /\ kind = "sse" /\ hand # <<>>
  /\ hand[1].to = "errors" /\ ~Fits(hand[1])
  /\ hand' = <<>> /\ Sent
  /\ UNCHANGED <<fixed, cancelled, act, hook, batch, mid, fwd, held, dst, got, closed, panicked, world>>

\* The context ends, the file does, or the socket fails, which is not reported.
Exhausted == kind \in {"scan", "subscribe"}
StopLoop ==
  /\ Looping /\ (cancelled \/ Exhausted)
  /\ prod' = "ended" /\ act' = Returns
  /\ UNCHANGED <<fixed, cancelled, hook, batch, flow, fwd, closed, panicked, world>>

------------------------------------------------------------------------------
(* Handlers and callbacks.                                                  *)

\* An HTTP request that decodes; a full buffer refuses it with 503.
Ingest ==
  /\ kind = "ingest" /\ hook /\ made < MaxItems
  /\ ToMid(New("values"))
  /\ made' = made + 1
  /\ UNCHANGED <<fixed, cancelled, act, hook, prod, batch, hand, fwd, dst, got, closed, panicked,
                 linked, dir, known>>

\* A message arrives: its value, or the error it comes to, is tried.  The
\* handler stays registered when Activate has returned and may then find the
\* port closed: select takes either of its ready cases.
Callback(c) ==
  /\ hook /\ made < MaxItems
  /\ made' = made + 1
  /\ \/ ToPort(New(c))
     \/ (cancelled \/ (~Fits(New(c)) /\ ~closed)) /\ UNCHANGED <<dst, got, panicked>>
  /\ UNCHANGED <<fixed, cancelled, act, hook, prod, batch, hand, mid, fwd, held, closed,
                 linked, dir, known>>

MqttMessage(c)  == kind = "mqtt" /\ Callback(c)
Mqtt5Message(c) == kind = "mqtt5" /\ Callback(c)

------------------------------------------------------------------------------
(* The forwarding loops.                                                    *)

Forwarding == fwd = "running" /\ act # "starting"
Take(c) ==
  /\ Forwarding /\ held = <<>> /\ mid[c] # <<>>
  /\ held' = <<Head(mid[c])>> /\ mid' = [mid EXCEPT ![c] = Tail(@)]
  /\ UNCHANGED <<fixed, cancelled, act, hook, prod, batch, hand, fwd, dst, got, closed, panicked, world>>

Forward ==
  /\ Forwarding /\ held # <<>> /\ ToPort(held[1])
  /\ held' = <<>>
  /\ UNCHANGED <<fixed, cancelled, act, hook, prod, batch, hand, mid, fwd, closed, world>>

\* Mutant: the loop ranges over its channel.
RangeForward ==
  /\ Forwarding /\ prod = "ended" /\ kind \in Pumped /\ mid = Empty /\ held = <<>>
  /\ fwd' = "ended" /\ act' = "returned"
  /\ UNCHANGED <<fixed, cancelled, hook, prod, batch, flow, closed, panicked, world>>

\* The context ends, or the producer has closed its channels and they are
\* empty.  The loop of poll, scan and subscribe is Activate itself.
Drained == prod = "ended" /\ kind \in Pumped /\ mid = Empty /\ held = <<>>
StopForward ==
  /\ Forwarding /\ (cancelled \/ Drained)
  /\ fwd' = "ended" /\ held' = <<>>
  /\ act' = IF kind \in Pumped THEN "returned" ELSE act
  /\ UNCHANGED <<fixed, cancelled, hook, prod, batch, hand, mid, dst, got, closed, panicked, world>>

\* Mutant: Activate does not wait for its forwarder.
ReturnAtOnce ==
  /\ act = "serving" /\ cancelled /\ kind \in Callbacks \cup {"ingest"}
  /\ act' = "returned"
  /\ UNCHANGED <<fixed, cancelled, hook, prod, batch, flow, fwd, closed, panicked, world>>

\* <-ctx.Done(), and <-forwardDone.
Return ==
  /\ act = "serving" /\ cancelled /\ kind \in Callbacks \cup {"ingest"} /\ fwd = "ended"
  /\ act' = "returned"
  /\ UNCHANGED <<fixed, cancelled, hook, prod, batch, flow, fwd, closed, panicked, world>>

Cancel ==
  /\ ~cancelled /\ cancelled' = TRUE
  /\ UNCHANGED <<fixed, act, hook, prod, batch, flow, fwd, closed, panicked, world>>

------------------------------------------------------------------------------
Producing == NextRow \/ SendHand \/ GiveUpHand \/ (cancelled /\ StopLoop)
Next ==
  \/ OpenFile \/ RegisterRoute \/ BeginLoop \/ SetupFails
  \/ RegisterHandler \/ Subscribed \/ StartFails \/ Report
  \/ (\E c \in Chans :
        \/ PollTick(c) \/ ScanLine(c) \/ Message(c) \/ SseEvent(c)
        \/ MqttMessage(c) \/ Mqtt5Message(c) \/ Take(c) \/ Receive(c))
  \/ Query \/ List \/ FileChange \/ Connect \/ Disconnect
  \/ NextRow \/ SendHand \/ GiveUpHand \/ DropError \/ StopLoop
  \/ Ingest \/ Forward \/ StopForward \/ Return \/ ClosePort \/ Cancel

\* Goroutines go on, and whoever drains the stream does.  Nothing happens
\* outside, no broker answers and nobody cancels because it would be fair; but
\* mqtt5's Subscribe ends with its context.
Fairness ==
  /\ WF_vars(Producing) /\ WF_vars(OpenFile \/ RegisterRoute \/ BeginLoop) /\ WF_vars(Report) /\ WF_vars(Return) /\ WF_vars(ClosePort)
  /\ WF_vars((\E c \in Chans : Take(c)) \/ Forward \/ StopForward)
  /\ \A c \in Chans : WF_vars(Receive(c))
  /\ WF_vars(RegisterHandler) /\ WF_vars(cancelled /\ kind = "mqtt5" /\ StartFails)
Spec == Init /\ [][Next]_vars /\ Fairness

------------------------------------------------------------------------------
(* Properties.                                                              *)

Of(c, q) == IF q # <<>> /\ q[1].to = c THEN q ELSE <<>>
OnItsWay(c) == dst[c] \o Of(c, held) \o mid[c] \o Of(c, hand)
Tried(c)    == kind \in Callbacks \/ (kind = "sse" /\ c = "errors")
Waiting(c)  == IF Tried(c) THEN <<>> ELSE OnItsWay(c)
Received(c) == IF Tried(c) THEN <<>> ELSE got[c]
Values == INSTANCE FifoLink
  WITH Room <- 2 * buffer + 2, live <- ~cancelled,
       queue <- Waiting("values"), received <- Received("values")
Errors == INSTANCE FifoLink
  WITH Room <- 2 * buffer + 2, live <- ~cancelled,
       queue <- Waiting("errors"), received <- Received("errors")

\* What an adapter has read, or has accepted from a client, reaches the port's
\* stream: from there on the adapter is a first-in-first-out link that loses
\* nothing before its context ends.  A callback's message and an SSE error are
\* only tried.
AcceptedArrives == Values!Spec /\ Errors!Spec

\* No adapter sends to the port's channels once the port has closed them,
\* except that a callback may, since nothing takes it out again; nothing
\* arrives twice or out of order, and no file is reported twice.
Once(q) == \A i, j \in DOMAIN q : i < j => q[i].n # q[j].n
Increasing(q) == \A i, j \in DOMAIN q : i < j => q[i].n < q[j].n
SendsInTime ==
  /\ panicked => kind \in Callbacks
  /\ \A c \in Chans : IF kind = "watch" \/ c = "errors" THEN Once(got[c]) ELSE Increasing(got[c])

\* The end of the context ends Activate, so that the port closes its stream,
\* whether or not it is drained; mqtt may wait for the broker's answer for
\* ever.  The stream of a file ends with the file.
SourceEnds ==
  /\ cancelled ~> closed \/ (kind = "mqtt" /\ act = "starting")
  /\ (kind = "scan" /\ drained /\ prod = "ended") ~> closed
=============================================================================
