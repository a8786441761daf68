------------------------------- MODULE WsHub -------------------------------
(***************************************************************************)
(* websocket.Hub under DuplexSocketAdapter (src/adapters/websocket/hub.go, *)
(* binding.go), with the port that owns the inbound channel                *)
(* (src/ports/duplex_port.go).  Per connection there is an HTTP handler,   *)
(* the read loop it starts and the hub's writer goroutine; the goroutine   *)
(* of Activate drains the outbound stream and, after the context ends,     *)
(* closes all sessions and waits for the read loops.                       *)
(* The error channel is read by the pipeline and is not represented.       *)
(***************************************************************************)
EXTENDS Naturals, Sequences, SequencesExt

CONSTANTS
  Sessions,     \* connections clients make, each with its session
  Stuck,        \* those whose clients hang: they neither send, nor read, nor close
  Frames,       \* number of outbound frames the pipeline feeds
  Buffer        \* per-session queue size (16 by default)

NoSession == "none"

ASSUME HubAssumption ==
  Frames \in Nat /\ Buffer \in Nat \ {0} /\ NoSession \notin Sessions /\ Stuck \subseteq Sessions

VARIABLES
  ctxDone,      \* the adapter's context is done
  conn,         \* where each connection's handler and then read loop stands
  sockOpen,     \* connections whose socket is open
  entries,      \* h.entries
  wg,           \* Activate's wg: the read loops it counts
  out,          \* each session's outbound queue
  closes,       \* how often each session's queue has been closed
  writer,       \* each session's writer goroutine
  inHand,       \* the frame each writer is writing
  main,         \* where Activate stands
  frame,        \* frames taken from the outbound stream so far
  todo,         \* sessions the current frame, or closeAll, has still to serve
  cur,          \* the session send looked up, or closeAll is closing
  dstClosed,    \* the port has closed the inbound channel
  crashed,      \* a send on a closed channel ended the process
  late,         \* history: sessions counted by wg only after the context was done
  queued,       \* history: the frames send accepted for each session
  written       \* history: the frames written to each session's socket

vars == <<ctxDone, conn, sockOpen, entries, wg, out, closes, writer, inHand, main, frame,
          todo, cur, dstClosed, crashed, late, queued, written>>
connVars   == <<conn, wg, late>>
writerVars == <<writer, inHand, written>>
mainVars   == <<main, frame, todo, cur, queued>>
endVars    == <<ctxDone, dstClosed, crashed>>

Init ==
  /\ ctxDone = FALSE /\ dstClosed = FALSE /\ crashed = FALSE
  /\ conn = [s \in Sessions |-> "idle"]
  /\ sockOpen = {} /\ entries = {} /\ wg = {} /\ late = {}
  /\ out = [s \in Sessions |-> <<>>]
  /\ closes = [s \in Sessions |-> 0]
  /\ writer = [s \in Sessions |-> "unborn"]
  /\ inHand = [s \in Sessions |-> 0]
  /\ main = "serving" /\ frame = 0 /\ todo = {} /\ cur = NoSession
  /\ queued = [s \in Sessions |-> <<>>]
  /\ written = [s \in Sessions |-> <<>>]

-----------------------------------------------------------------------------
(***************************************************************************)
(* The HTTP handler: upgrade and Hub.register, then wg.Add and go.  The    *)
(* mux goes on serving after the adapter's context ends.                   *)
(***************************************************************************)
Register(s) ==
  /\ conn[s] = "idle"
  /\ conn' = [conn EXCEPT ![s] = "registered"]
  /\ sockOpen' = sockOpen \cup {s}
  /\ entries' = entries \cup {s}
  /\ writer' = [writer EXCEPT ![s] = "waiting"]
  /\ UNCHANGED <<wg, late, out, closes, inHand, written, mainVars, endVars>>

StartReadLoop(s) ==
  /\ conn[s] = "registered"
  /\ conn' = [conn EXCEPT ![s] = "reading"]
  /\ wg' = wg \cup {s}
  /\ late' = IF ctxDone THEN late \cup {s} ELSE late
  /\ UNCHANGED <<sockOpen, entries, out, closes, writerVars, mainVars, endVars>>

PeerClose(s) ==
  /\ s \in sockOpen \ Stuck
  /\ sockOpen' = sockOpen \ {s}
  /\ UNCHANGED <<connVars, entries, out, closes, writerVars, mainVars, endVars>>

(***************************************************************************)
(* readLoop: a frame is offered to the port or dropped with the context;   *)
(* a read error ends the loop and the session is unregistered.             *)
(***************************************************************************)
MoveConn(s, from, to) ==
  /\ conn[s] = from
  /\ conn' = [conn EXCEPT ![s] = to]
  /\ UNCHANGED <<wg, late>>

ReadFrame(s) ==
  /\ s \in sockOpen \ Stuck
  /\ MoveConn(s, "reading", "emitting")
  /\ UNCHANGED <<sockOpen, entries, out, closes, writerVars, mainVars, endVars>>

Emit(s) ==
  /\ MoveConn(s, "emitting", "reading")
  /\ crashed' = dstClosed
  /\ UNCHANGED <<sockOpen, entries, out, closes, writerVars, mainVars, ctxDone, dstClosed>>

\* Mutant: unregister leaves the socket to its client.
CloseEntryHalf(s) ==
  /\ closes' = [closes EXCEPT ![s] = @ + 1]
  /\ UNCHANGED sockOpen

EmitGiveUp(s) ==
  /\ ctxDone
  /\ MoveConn(s, "emitting", "leaving")
  /\ UNCHANGED <<sockOpen, entries, out, closes, writerVars, mainVars, endVars>>

ReadError(s) ==
  /\ s \notin sockOpen
  /\ MoveConn(s, "reading", "leaving")
  /\ UNCHANGED <<sockOpen, entries, out, closes, writerVars, mainVars, endVars>>

\* Mutant: unregister closes the queue without looking whether the session
\* is still registered.
UnregisterUnchecked(s) ==
  /\ MoveConn(s, "leaving", "closing")
  /\ entries' = entries \ {s}
  /\ UNCHANGED <<sockOpen, out, closes, writerVars, mainVars, endVars>>

\* Hub.unregister: who removes the entry, under the lock, closes it.
Unregister(s) ==
  /\ MoveConn(s, "leaving", IF s \in entries THEN "closing" ELSE "ending")
  /\ entries' = entries \ {s}
  /\ UNCHANGED <<sockOpen, out, closes, writerVars, mainVars, endVars>>

CloseEntry(s) ==
  /\ closes' = [closes EXCEPT ![s] = @ + 1]
  /\ sockOpen' = sockOpen \ {s}

CloseSession(s) ==
  /\ MoveConn(s, "closing", "ending")
  /\ CloseEntry(s)
  /\ UNCHANGED <<entries, out, writerVars, mainVars, endVars>>

EndReadLoop(s) ==
  /\ conn[s] = "ending"
  /\ conn' = [conn EXCEPT ![s] = "left"]
  /\ wg' = wg \ {s}
  /\ UNCHANGED <<sockOpen, entries, late, out, closes, writerVars, mainVars, endVars>>

-----------------------------------------------------------------------------
(***************************************************************************)
(* The writer goroutine of register: ranges over the queue, ends at the    *)
(* first write error.                                                      *)
(***************************************************************************)
WriterTake(s) ==
  /\ writer[s] = "waiting" /\ out[s] # <<>>
  /\ inHand' = [inHand EXCEPT ![s] = Head(out[s])]
  /\ out' = [out EXCEPT ![s] = Tail(@)]
  /\ writer' = [writer EXCEPT ![s] = "writing"]
  /\ UNCHANGED <<connVars, sockOpen, entries, closes, written, mainVars, endVars>>

WriterWrite(s) ==
  /\ writer[s] = "writing" /\ s \in sockOpen \ Stuck
  /\ written' = [written EXCEPT ![s] = Append(@, inHand[s])]
  /\ inHand' = [inHand EXCEPT ![s] = 0]
  /\ writer' = [writer EXCEPT ![s] = "waiting"]
  /\ UNCHANGED <<connVars, sockOpen, entries, out, closes, mainVars, endVars>>

\* Mutant: the writer goes on after a write error.
WriterFailGoesOn(s) ==
  /\ writer[s] = "writing"
  /\ inHand' = [inHand EXCEPT ![s] = 0]
  /\ writer' = [writer EXCEPT ![s] = "waiting"]
  /\ UNCHANGED <<connVars, sockOpen, entries, out, closes, written, mainVars, endVars>>

\* A write fails on a closed socket, and may fail on an open one.
WriterFail(s) ==
  /\ writer[s] = "writing"
  /\ inHand' = [inHand EXCEPT ![s] = 0]
  /\ writer' = [writer EXCEPT ![s] = "exited"]
  /\ UNCHANGED <<connVars, sockOpen, entries, out, closes, written, mainVars, endVars>>

WriterExit(s) ==
  /\ writer[s] = "waiting" /\ out[s] = <<>> /\ closes[s] > 0
  /\ writer' = [writer EXCEPT ![s] = "exited"]
  /\ UNCHANGED <<connVars, sockOpen, entries, out, closes, inHand, written, mainVars, endVars>>

-----------------------------------------------------------------------------
(***************************************************************************)
(* Activate's own goroutine: a frame is broadcast to the sessions of the   *)
(* moment, or sent to one session, registered or not.                      *)
(***************************************************************************)
TakeFrame ==
  /\ main = "serving" /\ frame < Frames
  /\ frame' = frame + 1
  /\ \/ todo' = entries
     \/ \E s \in Sessions : todo' = {s}
  /\ main' = "sending"
  /\ UNCHANGED <<connVars, sockOpen, entries, out, closes, writerVars, cur, queued, endVars>>

\* The failure is reported; while it waits to be, the context may end the loop.
Report(s) ==
  \/ todo' = todo \ {s}
  \/ ctxDone /\ todo' = {}

\* Hub.send looks the session up under the lock ...
Lookup(s) ==
  /\ main = "sending" /\ cur = NoSession /\ s \in todo
  /\ \/ s \in entries /\ cur' = s /\ UNCHANGED todo
     \/ s \notin entries /\ Report(s) /\ UNCHANGED cur
  /\ UNCHANGED <<connVars, sockOpen, entries, out, closes, writerVars, main, frame, queued, endVars>>

\* Mutant: a full queue makes the sender wait.
SendBlocking(s) ==
  /\ main = "sending" /\ cur = s
  /\ closes[s] = 0 /\ Len(out[s]) < Buffer
  /\ out' = [out EXCEPT ![s] = Append(@, frame)]
  /\ queued' = [queued EXCEPT ![s] = Append(@, frame)]
  /\ todo' = todo \ {s} /\ cur' = NoSession
  /\ UNCHANGED <<connVars, sockOpen, entries, closes, writerVars, main, frame, endVars>>

\* ... and sends after it has unlocked: the queue may be closed by then.
Send(s) ==
  /\ main = "sending" /\ cur = s
  /\ cur' = NoSession
  /\ \/ /\ closes[s] = 0 /\ Len(out[s]) < Buffer
        /\ out' = [out EXCEPT ![s] = Append(@, frame)]
        /\ queued' = [queued EXCEPT ![s] = Append(@, frame)]
        /\ todo' = todo \ {s}
        /\ UNCHANGED crashed
     \/ /\ closes[s] = 0 /\ Len(out[s]) = Buffer
        /\ Report(s)
        /\ UNCHANGED <<out, queued, crashed>>
     \/ /\ closes[s] > 0
        /\ crashed' = TRUE
        /\ UNCHANGED <<out, queued, todo>>
  /\ UNCHANGED <<connVars, sockOpen, entries, closes, writerVars, main, frame, ctxDone, dstClosed>>

FrameDone ==
  /\ main = "sending" /\ todo = {} /\ cur = NoSession
  /\ main' = "serving"
  /\ UNCHANGED <<connVars, sockOpen, entries, out, closes, writerVars, frame, todo, cur, queued, endVars>>

\* The context ends the outbound loop; closeAll takes its list of sessions.
CloseAll ==
  /\ main = "serving" /\ ctxDone
  /\ main' = "closing"
  /\ todo' = entries
  /\ UNCHANGED <<connVars, sockOpen, entries, out, closes, writerVars, frame, cur, queued, endVars>>

\* unregister, called by closeAll for each of them.
CloseAllUnregister(s) ==
  /\ main = "closing" /\ cur = NoSession /\ s \in todo
  /\ todo' = todo \ {s}
  /\ entries' = entries \ {s}
  /\ cur' = IF s \in entries THEN s ELSE NoSession
  /\ UNCHANGED <<connVars, sockOpen, out, closes, writerVars, main, frame, queued, endVars>>

CloseAllClose(s) ==
  /\ main = "closing" /\ cur = s
  /\ CloseEntry(s)
  /\ cur' = NoSession
  /\ UNCHANGED <<connVars, entries, out, writerVars, main, frame, todo, queued, endVars>>

CloseAllDone ==
  /\ main = "closing" /\ todo = {} /\ cur = NoSession
  /\ main' = "waiting"
  /\ UNCHANGED <<connVars, sockOpen, entries, out, closes, writerVars, frame, todo, cur, queued, endVars>>

\* Mutant: Activate returns without waiting for the read loops.
ReturnAtOnce ==
  /\ main = "waiting"
  /\ main' = "returned"
  /\ UNCHANGED <<connVars, sockOpen, entries, out, closes, writerVars, frame, todo, cur, queued, endVars>>

\* wg.Wait; Activate returns.
Return ==
  /\ main = "waiting" /\ wg = {}
  /\ main' = "returned"
  /\ UNCHANGED <<connVars, sockOpen, entries, out, closes, writerVars, frame, todo, cur, queued, endVars>>

\* DuplexPort.Inbound: once the adapter has exited, the port closes inCh.
PortClose ==
  /\ main = "returned" /\ ~dstClosed
  /\ dstClosed' = TRUE
  /\ UNCHANGED <<connVars, sockOpen, entries, out, closes, writerVars, mainVars, ctxDone, crashed>>

Cancel ==
  /\ ~ctxDone
  /\ ctxDone' = TRUE
  /\ UNCHANGED <<connVars, sockOpen, entries, out, closes, writerVars, mainVars, dstClosed, crashed>>

-----------------------------------------------------------------------------
ReadLoopStep(s) ==
  StartReadLoop(s) \/ Emit(s) \/ EmitGiveUp(s) \/ ReadError(s) \/ Unregister(s) \/ CloseSession(s) \/ EndReadLoop(s)
ClientStep(s) == Register(s) \/ PeerClose(s) \/ ReadFrame(s)
WriterStep(s) == WriterTake(s) \/ WriterWrite(s) \/ WriterFail(s) \/ WriterExit(s)
FrameStep == FrameDone \/ \E s \in Sessions : Lookup(s) \/ Send(s)
CloseStep ==
  CloseAll \/ CloseAllDone \/ Return \/ \E s \in Sessions : CloseAllUnregister(s) \/ CloseAllClose(s)

Next ==
  /\ ~crashed
  /\ \/ \E s \in Sessions : ReadLoopStep(s) \/ ClientStep(s) \/ WriterStep(s)
     \/ TakeFrame \/ FrameStep \/ CloseStep \/ PortClose \/ Cancel

\* The goroutines run on; a blocked write need not complete, and clients,
\* the feed and the context do as they please.
Fairness ==
  /\ \A s \in Sessions : WF_vars(~crashed /\ ReadLoopStep(s))
  /\ WF_vars(~crashed /\ FrameStep) /\ WF_vars(~crashed /\ CloseStep) /\ WF_vars(~crashed /\ PortClose)

Spec == Init /\ [][Next]_vars
FairSpec == Spec /\ Fairness

-----------------------------------------------------------------------------
(***************************************************************************)
(* Properties.                                                             *)
(***************************************************************************)
TypeOK ==
  /\ {ctxDone, dstClosed, crashed} \subseteq BOOLEAN
  /\ conn \in [Sessions -> {"idle", "registered", "reading", "emitting",
                            "leaving", "closing", "ending", "left"}]
  /\ {sockOpen, entries, wg, late, todo} \subseteq SUBSET Sessions
  /\ \A s \in Sessions : out[s] \in Seq(1..Frames) /\ Len(out[s]) <= Buffer
  /\ closes \in [Sessions -> Nat]
  /\ writer \in [Sessions -> {"unborn", "waiting", "writing", "exited"}]
  /\ inHand \in [Sessions -> 0..Frames]
  /\ main \in {"serving", "sending", "closing", "waiting", "returned"}
  /\ frame \in 0..Frames
  /\ cur \in Sessions \cup {NoSession}
  /\ \A s \in Sessions : queued[s] \in Seq(1..Frames) /\ written[s] \in Seq(1..Frames)

\* A session that leaves while closeAll runs is closed once, by whichever of
\* the two removed it (closing a closed channel panics).
ClosedOnce == \A s \in Sessions : closes[s] <= 1

\* A registered session's queue is open: a queue is closed only after its
\* session has been removed.
RegisteredIsOpen == \A s \in entries : closes[s] = 0

\* A client gets the frames that were accepted for it in their order, each at
\* most once, and misses none while its writer lives.
FramesInOrder ==
  \A s \in Sessions :
    /\ IsPrefix(written[s], queued[s])
    /\ writer[s] = "waiting" => written[s] \o out[s] = queued[s]

\* When Activate returns, every session whose read loop was counted while the
\* context lived has left and its socket is closed.
EndedAtReturn ==
  main = "returned" =>
    \A s \in Sessions \ late :
      conn[s] \in {"reading", "emitting", "leaving", "closing", "ending", "left"} =>
        conn[s] = "left" /\ s \notin sockOpen

\* A client that does not read its socket blocks neither the pipeline nor the
\* other sessions: a frame taken is always done with.
SlowClientIsolated == main = "sending" ~> main # "sending" \/ crashed

\* A session counted while the context lived ends with it, whatever its
\* client does.
SessionsEnd ==
  \A s \in Sessions :
    ctxDone /\ s \notin late /\ conn[s] \in {"reading", "emitting"}
      ~> conn[s] = "left" \/ crashed

=============================================================================
