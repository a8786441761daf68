------------------------------- MODULE WsDial -------------------------------
(***************************************************************************)
(* The dialled side of the WebSocket adapter: dialLoop, managedConn and    *)
(* the two goroutines of DialDuplexAdapter.Activate                        *)
(* (src/adapters/websocket/client.go).  The dial loop opens one connection *)
(* after another and reads it; the outbound loop writes to the connection  *)
(* it finds in sockCh, a channel of capacity 1, and puts it back.          *)
(* A connection is named by its generation.                                *)
(***************************************************************************)
EXTENDS Naturals, Sequences

CONSTANT MaxConns     \* bound on the connections the peer accepts

ASSUME DialAssumption == MaxConns \in Nat \ {0}

VARIABLES
  ctxDone,      \* the adapter's context is done
  loop,         \* where the dial loop stands
  gen,          \* generation of the newest connection
  open,         \* generations whose socket is open
  sockCh,       \* m.sockCh
  writer,       \* the outbound loop: idle, writing, putting back, left
  inHand,       \* the generation the writer took from sockCh
  gaps,         \* history: generations whose end was reported
  inbound,      \* history: generation of the last inbound frame
  sent          \* history: generation and newest generation of the last frame written

vars == <<ctxDone, loop, gen, open, sockCh, writer, inHand, gaps, inbound, sent>>
loopVars  == <<loop, gen, gaps, inbound>>
writeVars == <<writer, inHand, sent>>

Init ==
  /\ ctxDone = FALSE
  /\ loop = "top" /\ gen = 0 /\ gaps = {} /\ inbound = 0
  /\ open = {} /\ sockCh = <<>>
  /\ writer = "idle" /\ inHand = 0 /\ sent = <<0, 0>>

-----------------------------------------------------------------------------
(***************************************************************************)
(* dialLoop: dial until it succeeds (a failed attempt changes nothing but  *)
(* the backoff), offer the socket to the writer, read it until it breaks,  *)
(* take it out of sockCh, close it, report the gap, start over.            *)
(***************************************************************************)
Dial ==
  /\ loop = "top" /\ ~ctxDone /\ gen < MaxConns
  /\ gen' = gen + 1
  /\ open' = open \cup {gen + 1}
  /\ loop' = "offering"
  /\ UNCHANGED <<ctxDone, sockCh, gaps, inbound, writeVars>>

\* m.sockCh <- sock, which the context does not interrupt.
Offer ==
  /\ loop = "offering" /\ sockCh = <<>>
  /\ sockCh' = <<gen>>
  /\ loop' = "reading"
  /\ UNCHANGED <<ctxDone, gen, open, gaps, inbound, writeVars>>

ReadFrame ==
  /\ loop = "reading" /\ gen \in open
  /\ inbound' = gen
  /\ UNCHANGED <<ctxDone, loop, gen, open, sockCh, gaps, writeVars>>

PeerClose ==
  /\ \E g \in open : open' = open \ {g}
  /\ UNCHANGED <<ctxDone, loopVars, sockCh, writeVars>>

\* Mutant: nothing closes the socket when the context ends.
CloseOnCancelMissing ==
  /\ FALSE
  /\ UNCHANGED vars

CloseOnCancel ==
  /\ loop = "reading" /\ ctxDone /\ gen \in open
  /\ open' = open \ {gen}
  /\ UNCHANGED <<ctxDone, loopVars, sockCh, writeVars>>

ReadEnd ==
  /\ loop = "reading" /\ gen \notin open
  /\ loop' = "removing"
  /\ UNCHANGED <<ctxDone, gen, open, sockCh, gaps, inbound, writeVars>>

\* Reading may fail on an open socket (a missed pong, the read limit), and a
\* frame in hand is given up with the context.
ReadFail ==
  /\ loop = "reading" /\ gen \in open
  /\ loop' = "removing"
  /\ UNCHANGED <<ctxDone, gen, open, sockCh, gaps, inbound, writeVars>>

\* Whatever is in sockCh is taken out; then the socket is closed.
Remove ==
  /\ loop = "removing"
  /\ sockCh' = <<>>
  /\ open' = open \ {gen}
  /\ loop' = "ended"
  /\ UNCHANGED <<ctxDone, gen, gaps, inbound, writeVars>>

\* Mutant: a reconnect is silent.
EndConnSilently ==
  /\ loop = "ended"
  /\ loop' = "top"
  /\ UNCHANGED <<ctxDone, gen, open, sockCh, gaps, inbound, writeVars>>

\* The gap is reported before the backoff, unless the context is done.
EndConn ==
  /\ loop = "ended"
  /\ \/ ctxDone /\ loop' = "exited" /\ UNCHANGED gaps
     \/ loop' = "top" /\ gaps' = gaps \cup {gen}
  /\ UNCHANGED <<ctxDone, gen, open, sockCh, inbound, writeVars>>

LoopExit ==
  /\ loop = "top" /\ ctxDone
  /\ loop' = "exited"
  /\ UNCHANGED <<ctxDone, gen, open, sockCh, gaps, inbound, writeVars>>

-----------------------------------------------------------------------------
(***************************************************************************)
(* managedConn.write, called by the outbound loop for each frame: an empty *)
(* sockCh drops the frame (ErrFrameDropped).                               *)
(***************************************************************************)
WriteTake ==
  /\ writer = "idle" /\ sockCh # <<>>
  /\ inHand' = Head(sockCh)
  /\ sockCh' = <<>>
  /\ writer' = "writing"
  /\ UNCHANGED <<ctxDone, loopVars, open, sent>>

\* A write succeeds on an open socket only, and may fail on one.
Write ==
  /\ writer = "writing"
  /\ \/ inHand \in open /\ sent' = <<inHand, gen>>
     \/ UNCHANGED sent
  /\ writer' = "returning"
  /\ UNCHANGED <<ctxDone, loopVars, open, sockCh, inHand>>

\* Mutant: the newer socket in sockCh gives way to the one put back.
PutBackOver ==
  /\ writer = "returning"
  /\ sockCh' = <<inHand>>
  /\ writer' = "idle"
  /\ UNCHANGED <<ctxDone, loopVars, open, inHand, sent>>

PutBack ==
  /\ writer = "returning"
  /\ sockCh' = IF sockCh = <<>> THEN <<inHand>> ELSE sockCh
  /\ writer' = "idle"
  /\ UNCHANGED <<ctxDone, loopVars, open, inHand, sent>>

WriterExit ==
  /\ writer = "idle" /\ ctxDone
  /\ writer' = "left"
  /\ UNCHANGED <<ctxDone, loopVars, open, sockCh, inHand, sent>>

Cancel ==
  /\ ~ctxDone
  /\ ctxDone' = TRUE
  /\ UNCHANGED <<loopVars, open, sockCh, writeVars>>

-----------------------------------------------------------------------------
LoopStep == Dial \/ ReadEnd \/ Remove \/ EndConn \/ LoopExit \/ CloseOnCancel
WriterStep == Write \/ PutBack \/ WriterExit

Next ==
  \/ LoopStep \/ Offer \/ ReadFrame \/ ReadFail \/ PeerClose
  \/ WriteTake \/ WriterStep
  \/ Cancel

\* Both goroutines run on; a sender that waits on sockCh gets the slot when a
\* receiver frees it (strong fairness of Offer).
Fairness == WF_vars(LoopStep) /\ SF_vars(Offer) /\ WF_vars(WriterStep)

Spec == Init /\ [][Next]_vars
FairSpec == Spec /\ Fairness

-----------------------------------------------------------------------------
(***************************************************************************)
(* Properties.                                                             *)
(***************************************************************************)
TypeOK ==
  /\ ctxDone \in BOOLEAN
  /\ loop \in {"top", "offering", "reading", "removing", "ended", "exited"}
  /\ gen \in 0..MaxConns
  /\ open \subseteq 1..gen
  /\ sockCh \in Seq(1..gen) /\ Len(sockCh) <= 1
  /\ writer \in {"idle", "writing", "returning", "left"}
  /\ inHand \in 0..gen
  /\ gaps \subseteq 1..gen
  /\ inbound \in 0..gen
  /\ sent \in (0..gen) \X (0..gen)

\* A frame whose write succeeded went to the newest connection, never to one
\* that was replaced.
SentOnNewest == sent[1] = sent[2]

\* While a connection is read, the socket the writer may find is that one, or
\* the writer has it in hand: outbound frames are not dropped on a live
\* connection because the other goroutine reconnected.
ReachesNewest ==
  loop = "reading" =>
    \/ sockCh = <<gen>>
    \/ sockCh = <<>> /\ writer \in {"writing", "returning"} /\ inHand = gen

\* A frame of a new connection arrives only after the end of every earlier
\* one was reported as a gap.
GapBeforeFrames == 1..(inbound - 1) \subseteq gaps

\* When the context ends the dial loop ends too, except that it may wait
\* behind a replaced socket left in sockCh.
StopsUnlessStale ==
  ctxDone ~> loop = "exited" \/ (loop = "offering" /\ sockCh # <<>>)
=============================================================================
