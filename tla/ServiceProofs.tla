---------------------------- MODULE ServiceProofs ----------------------------
(* What one service runs, each on its own: the lifecycle of its App, its     *)
(* WebSocket hub, and the credential cache of its HTTP client, for any       *)
(* number of goroutines, hooks, connections, frames, callers and fetches.    *)
EXTENDS MCWsHub, MCCredentialCache, MCAppLifecycle, SequenceTheorems, TLAPS

-----------------------------------------------------------------------------
(* The hub: a session's queue is closed at most once; frames are written in  *)
(* order and none is lost but with its socket; what was counted has ended    *)
(* when Activate does.                                                       *)

(* One token per session: not registered yet, registered, held by the read  *)
(* loop that unregisters it, held by closeAll, or spent on the close.       *)
Fresh(s) == conn[s] = "idle"
HeldByReader(s) == conn[s] = "closing"
HeldByCloseAll(s) == main = "closing" /\ cur = s

TokenType ==
  /\ conn \in [Sessions -> {"idle", "registered", "reading", "emitting",
                            "leaving", "closing", "ending", "left"}]
  /\ entries \subseteq Sessions
  /\ closes \in [Sessions -> Nat]
  /\ todo \subseteq Sessions

TokenInv ==
  /\ TokenType
  /\ main = "serving" => cur = NoSession
  /\ \A s \in Sessions :
       /\ Fresh(s) => closes[s] = 0 /\ s \notin entries /\ ~HeldByCloseAll(s)
       /\ s \in entries => closes[s] = 0 /\ ~HeldByReader(s) /\ ~HeldByCloseAll(s)
       /\ HeldByReader(s) => closes[s] = 0 /\ ~HeldByCloseAll(s)
       /\ HeldByCloseAll(s) => closes[s] = 0
       /\ closes[s] <= 1

\* What the token depends on.
tokenVars == <<conn, entries, closes, main, cur, todo>>

LEMMA TokenUnchanged == TokenInv /\ UNCHANGED tokenVars => TokenInv'
BY DEF TokenInv, TokenType, tokenVars, Fresh, HeldByReader, HeldByCloseAll

LEMMA TokenInit == Init => TokenInv
<1> SUFFICES ASSUME Init PROVE TokenInv
  OBVIOUS
<1>1. closes \in [Sessions -> Nat] /\ conn \in [Sessions -> {"idle"}]
  BY DEF Init
<1> QED
  BY <1>1 DEF Init, TokenInv, TokenType, Fresh, HeldByReader, HeldByCloseAll

LEMMA TokenStep == TokenInv /\ [Next]_vars => TokenInv'
<1> SUFFICES ASSUME TokenInv, [Next]_vars PROVE TokenInv'
  OBVIOUS
<1> USE HubAssumption DEF TokenInv, TokenType, Fresh, HeldByReader, HeldByCloseAll
<1>1. ASSUME NEW s \in Sessions, ReadLoopStep(s) PROVE TokenInv'
  <2>1. CASE Emit(s) BY <2>1 DEF Emit, MoveConn, mainVars
  <2>2. CASE EmitGiveUp(s) BY <2>2 DEF EmitGiveUp, MoveConn, mainVars
  <2>3. CASE ReadError(s) BY <2>3 DEF ReadError, MoveConn, mainVars
  <2>4. CASE Unregister(s) BY <2>4 DEF Unregister, MoveConn, mainVars
  <2>5. CASE CloseSession(s) BY <2>5 DEF CloseSession, CloseEntry, MoveConn, mainVars
  <2>6. CASE EndReadLoop(s) BY <2>6 DEF EndReadLoop, mainVars
  <2>7. CASE StartReadLoop(s) BY <2>7 DEF StartReadLoop, mainVars
  <2> QED BY <1>1, <2>1, <2>2, <2>3, <2>4, <2>5, <2>6, <2>7 DEF ReadLoopStep
<1>2. ASSUME NEW s \in Sessions, ClientStep(s) PROVE TokenInv'
  <2>1. CASE Register(s) BY <2>1 DEF Register, mainVars
  <2>2. CASE PeerClose(s) BY <2>2 DEF PeerClose, connVars, mainVars
  <2>3. CASE ReadFrame(s) BY <2>3 DEF ReadFrame, MoveConn, mainVars
  <2> QED BY <1>2, <2>1, <2>2, <2>3 DEF ClientStep
<1>3. ASSUME NEW s \in Sessions, WriterStep(s) PROVE TokenInv'
  <2>1. UNCHANGED tokenVars
    BY <1>3 DEF WriterStep, WriterTake, WriterWrite, WriterFail, WriterExit, tokenVars, connVars, mainVars
  <2> QED BY <2>1, TokenUnchanged
<1>4. CASE TakeFrame BY <1>4 DEF TakeFrame, connVars
<1>5. CASE FrameStep
  <2>1. CASE FrameDone BY <2>1 DEF FrameDone, connVars
  <2>2. ASSUME NEW s \in Sessions, Lookup(s) PROVE TokenInv'
    BY <2>2 DEF Lookup, Report, connVars
  <2>3. ASSUME NEW s \in Sessions, Send(s) PROVE TokenInv'
    BY <2>3 DEF Send, Report, connVars
  <2> QED BY <1>5, <2>1, <2>2, <2>3 DEF FrameStep
<1>6. CASE CloseStep
  <2>1. CASE CloseAll BY <2>1 DEF CloseAll, connVars
  <2>2. CASE CloseAllDone BY <2>2 DEF CloseAllDone, connVars
  <2>3. CASE Return BY <2>3 DEF Return, connVars
  <2>4. ASSUME NEW s \in Sessions, CloseAllUnregister(s) PROVE TokenInv'
    BY <2>4 DEF CloseAllUnregister, connVars
  <2>5. ASSUME NEW s \in Sessions, CloseAllClose(s) PROVE TokenInv'
    BY <2>5 DEF CloseAllClose, CloseEntry, connVars
  <2> QED BY <1>6, <2>1, <2>2, <2>3, <2>4, <2>5 DEF CloseStep
<1>7. CASE PortClose \/ Cancel BY <1>7 DEF PortClose, Cancel, connVars, mainVars
<1>8. CASE UNCHANGED vars BY <1>8 DEF vars
<1> QED BY <1>1, <1>2, <1>3, <1>4, <1>5, <1>6, <1>7, <1>8 DEF Next

\* The read loop and closeAll never close the same queue twice: whoever took
\* the session out of the registry under the lock is the only one to close it.
THEOREM ClosedOnceHolds == Spec => []ClosedOnce
<1>1. TokenInv => ClosedOnce
  BY DEF TokenInv, ClosedOnce
<1> QED BY <1>1, TokenInit, TokenStep, PTL DEF Spec

\* A session that is still in the registry has an open queue.
THEOREM RegisteredIsOpenHolds == Spec => []RegisteredIsOpen
<1>1. TokenInv => RegisteredIsOpen
  BY DEF TokenInv, TokenType, RegisteredIsOpen
<1> QED BY <1>1, TokenInit, TokenStep, PTL DEF Spec

-----------------------------------------------------------------------------
(* Activate returns after the sessions it counts have left.                 *)

Counted == {"reading", "emitting", "leaving", "closing", "ending"}

\* wg covers every read loop under way; after wg.Wait it covers late ones only.
\* An open socket belongs to whoever has the token of its session.
EndInv ==
  /\ main \in {"closing", "waiting", "returned"} => ctxDone
  /\ main = "returned" => wg \subseteq late
  /\ \A s \in Sessions :
       /\ conn[s] \in Counted => s \in wg
       /\ conn[s] \in {"ending", "left"} => s \notin entries
       /\ s \in sockOpen => s \in entries \/ HeldByReader(s) \/ HeldByCloseAll(s)

endDeps == <<tokenVars, ctxDone, wg, late, sockOpen>>

LEMMA EndUnchanged == EndInv /\ UNCHANGED endDeps => EndInv'
BY DEF EndInv, endDeps, tokenVars, Counted, HeldByReader, HeldByCloseAll

LEMMA EndInit == Init => EndInv
<1> SUFFICES ASSUME Init PROVE EndInv
  OBVIOUS
<1>1. \A s \in Sessions : conn[s] = "idle"
  BY DEF Init
<1> QED BY <1>1 DEF Init, EndInv, Counted

LEMMA EndStep == TokenInv /\ EndInv /\ [Next]_vars => EndInv'
<1> SUFFICES ASSUME TokenInv, EndInv, [Next]_vars PROVE EndInv'
  OBVIOUS
<1>a. /\ conn \in [Sessions -> {"idle", "registered", "reading", "emitting",
                                "leaving", "closing", "ending", "left"}]
      /\ main = "serving" => cur = NoSession
      /\ \A s \in Sessions : conn[s] = "idle" => s \notin entries
      /\ \A s \in Sessions : s \in entries => conn[s] # "closing"
  BY DEF TokenInv, TokenType, Fresh, HeldByReader
<1> USE <1>a, HubAssumption DEF EndInv, Counted, HeldByReader, HeldByCloseAll
<1>1. ASSUME NEW s \in Sessions, ReadLoopStep(s) PROVE EndInv'
  <2>1. CASE Emit(s) BY <2>1 DEF Emit, MoveConn, mainVars
  <2>2. CASE EmitGiveUp(s) BY <2>2 DEF EmitGiveUp, MoveConn, mainVars, endVars
  <2>3. CASE ReadError(s) BY <2>3 DEF ReadError, MoveConn, mainVars, endVars
  <2>4. CASE Unregister(s) BY <2>4 DEF Unregister, MoveConn, mainVars, endVars
  <2>5. CASE CloseSession(s) BY <2>5 DEF CloseSession, CloseEntry, MoveConn, mainVars, endVars
  <2>6. CASE EndReadLoop(s) BY <2>6 DEF EndReadLoop, mainVars, endVars
  <2>7. CASE StartReadLoop(s) BY <2>7 DEF StartReadLoop, mainVars, endVars
  <2> QED BY <1>1, <2>1, <2>2, <2>3, <2>4, <2>5, <2>6, <2>7 DEF ReadLoopStep
<1>2. ASSUME NEW s \in Sessions, ClientStep(s) PROVE EndInv'
  <2>1. CASE Register(s) BY <2>1 DEF Register, mainVars, endVars
  <2>2. CASE PeerClose(s) BY <2>2 DEF PeerClose, connVars, mainVars, endVars
  <2>3. CASE ReadFrame(s) BY <2>3 DEF ReadFrame, MoveConn, mainVars, endVars
  <2> QED BY <1>2, <2>1, <2>2, <2>3 DEF ClientStep
<1>3. ASSUME NEW s \in Sessions, WriterStep(s) PROVE EndInv'
  <2>1. UNCHANGED endDeps
    BY <1>3 DEF WriterStep, WriterTake, WriterWrite, WriterFail, WriterExit, endDeps, tokenVars,
                connVars, mainVars, endVars
  <2> QED BY <2>1, EndUnchanged
<1>4. CASE TakeFrame BY <1>4 DEF TakeFrame, connVars, endVars
<1>5. CASE FrameStep
  <2>1. CASE FrameDone BY <2>1 DEF FrameDone, connVars, endVars
  <2>2. ASSUME NEW s \in Sessions, Lookup(s) PROVE EndInv'
    BY <2>2 DEF Lookup, connVars, endVars
  <2>3. ASSUME NEW s \in Sessions, Send(s) PROVE EndInv'
    BY <2>3 DEF Send, connVars
  <2> QED BY <1>5, <2>1, <2>2, <2>3 DEF FrameStep
<1>6. CASE CloseStep
  <2>1. CASE CloseAll BY <2>1 DEF CloseAll, connVars, endVars
  <2>2. CASE CloseAllDone BY <2>2 DEF CloseAllDone, connVars, endVars
  <2>3. CASE Return BY <2>3 DEF Return, connVars, endVars
  <2>4. ASSUME NEW s \in Sessions, CloseAllUnregister(s) PROVE EndInv'
    BY <2>4 DEF CloseAllUnregister, connVars, endVars
  <2>5. ASSUME NEW s \in Sessions, CloseAllClose(s) PROVE EndInv'
    BY <2>5 DEF CloseAllClose, CloseEntry, connVars, endVars
  <2> QED BY <1>6, <2>1, <2>2, <2>3, <2>4, <2>5 DEF CloseStep
<1>7. CASE PortClose \/ Cancel BY <1>7 DEF PortClose, Cancel, connVars, mainVars
<1>8. CASE UNCHANGED vars BY <1>8 DEF vars
<1> HIDE DEF EndInv
<1> QED BY <1>1, <1>2, <1>3, <1>4, <1>5, <1>6, <1>7, <1>8 DEF Next

\* When Activate returns, the sessions it counted while its context lived have
\* left and their sockets are closed, however many connections there are and
\* whoever of the read loop and closeAll came first.
THEOREM EndedAtReturnHolds == Spec => []EndedAtReturn
<1>1. EndInv => EndedAtReturn
  <2> SUFFICES ASSUME EndInv, main = "returned", NEW s \in Sessions \ late,
                      conn[s] \in Counted \cup {"left"}
               PROVE  conn[s] = "left" /\ s \notin sockOpen
    BY DEF EndedAtReturn, Counted
  <2>1. conn[s] = "left"
    BY DEF EndInv
  <2>2. s \notin entries /\ ~HeldByReader(s) /\ ~HeldByCloseAll(s)
    BY <2>1 DEF EndInv, HeldByReader, HeldByCloseAll
  <2> QED BY <2>1, <2>2 DEF EndInv
<1> QED BY <1>1, TokenInit, TokenStep, EndInit, EndStep, PTL DEF Spec

-----------------------------------------------------------------------------
(* A client gets its frames in order.                                       *)

\* What a session's queue o holds follows, in the frames q accepted for it, the
\* frames w written and the frame h in the writer's hand, as long as its writer
\* has not ended.
Ahead(w, st) == Len(w) + (IF st = "writing" THEN 1 ELSE 0)

Ordered(q, w, o, h, st) ==
  /\ Len(w) <= Len(q)
  /\ \A i \in 1..Len(w) : w[i] = q[i]
  /\ st # "exited" =>
       /\ Len(q) = Ahead(w, st) + Len(o)
       /\ \A j \in 1..Len(o) : q[Ahead(w, st) + j] = o[j]
  /\ st = "writing" => q[Len(w) + 1] = h

OrderType ==
  /\ out \in [Sessions -> Seq(Nat)] /\ queued \in [Sessions -> Seq(Nat)]
  /\ written \in [Sessions -> Seq(Nat)] /\ inHand \in [Sessions -> Nat]
  /\ writer \in [Sessions -> {"unborn", "waiting", "writing", "exited"}]
  /\ frame \in Nat

InOrder(s) == Ordered(queued[s], written[s], out[s], inHand[s], writer[s])

OrderInv == OrderType /\ \A s \in Sessions : InOrder(s)

orderVars == <<out, queued, written, inHand, writer, frame>>

LEMMA OrderUnchanged == OrderInv /\ UNCHANGED orderVars => OrderInv'
BY DEF OrderInv, OrderType, InOrder, orderVars

LEMMA OrderInit == Init => OrderInv
<1> SUFFICES ASSUME Init PROVE OrderInv
  OBVIOUS
<1>1. <<>> \in Seq(Nat) /\ Len(<<>>) = 0
  OBVIOUS
<1>2. OrderType BY <1>1 DEF Init, OrderType
<1>3. ASSUME NEW s \in Sessions PROVE InOrder(s)
  <2>1. written[s] = <<>> /\ queued[s] = <<>> /\ out[s] = <<>> /\ writer[s] = "unborn"
    BY DEF Init
  <2> QED BY <2>1, <1>1 DEF InOrder, Ordered, Ahead
<1> QED BY <1>2, <1>3 DEF OrderInv

\* A writer is born with the session's registration.
Unborn == \A s \in Sessions : conn[s] = "idle" => writer[s] = "unborn"

LEMMA UnbornInit == Init => Unborn
BY DEF Init, Unborn

LEMMA UnbornStep == TokenInv /\ OrderInv /\ Unborn /\ [Next]_vars => Unborn'
<1> SUFFICES ASSUME TokenInv, OrderInv, Unborn, [Next]_vars PROVE Unborn'
  OBVIOUS
<1>0. /\ conn \in [Sessions -> {"idle", "registered", "reading", "emitting",
                                "leaving", "closing", "ending", "left"}]
      /\ writer \in [Sessions -> {"unborn", "waiting", "writing", "exited"}]
  BY DEF TokenInv, TokenType, OrderInv, OrderType
<1> USE <1>0 DEF Unborn
<1>1. ASSUME NEW s \in Sessions, ReadLoopStep(s) PROVE Unborn'
  BY <1>1 DEF ReadLoopStep, StartReadLoop, Emit, EmitGiveUp, ReadError, Unregister, CloseSession,
              EndReadLoop, MoveConn, writerVars
<1>2. ASSUME NEW s \in Sessions, ClientStep(s) PROVE Unborn'
  BY <1>2 DEF ClientStep, Register, PeerClose, ReadFrame, MoveConn, connVars, writerVars
<1>3. ASSUME NEW s \in Sessions, WriterStep(s) PROVE Unborn'
  BY <1>3 DEF WriterStep, WriterTake, WriterWrite, WriterFail, WriterExit, connVars
<1>4. CASE TakeFrame \/ FrameStep \/ CloseStep \/ PortClose \/ Cancel
  BY <1>4 DEF TakeFrame, FrameStep, FrameDone, Lookup, Send, CloseStep, CloseAll, CloseAllDone, Return,
              CloseAllUnregister, CloseAllClose, PortClose, Cancel, connVars, writerVars
<1>5. CASE UNCHANGED vars BY <1>5 DEF vars
<1> QED BY <1>1, <1>2, <1>3, <1>4, <1>5 DEF Next

LEMMA TakeOrdered ==
  ASSUME NEW q \in Seq(Nat), NEW w \in Seq(Nat), NEW o \in Seq(Nat), NEW h, o # <<>>,
         Ordered(q, w, o, h, "waiting")
  PROVE  Ordered(q, w, Tail(o), Head(o), "writing")
<1>1. Len(o) \in Nat \ {0} /\ Len(Tail(o)) = Len(o) - 1 /\ Head(o) = o[1]
      /\ \A j \in 1..Len(Tail(o)) : Tail(o)[j] = o[j + 1]
  OBVIOUS
<1>0. Len(w) \in Nat /\ Ahead(w, "waiting") = Len(w)
  BY DEF Ahead
<1>2. /\ Len(w) \in Nat /\ Len(q) = Len(w) + Len(o)
      /\ \A j \in 1..Len(o) : q[Len(w) + j] = o[j]
  BY <1>0 DEF Ordered
<1>3. Len(q) = Len(w) + 1 + Len(Tail(o)) /\ Len(w) <= Len(q) /\ q[Len(w) + 1] = Head(o)
  BY <1>1, <1>2
<1>4. ASSUME NEW j \in 1..Len(Tail(o)) PROVE q[Len(w) + 1 + j] = Tail(o)[j]
  <2>1. j + 1 \in 1..Len(o) /\ Len(w) + (j + 1) = Len(w) + 1 + j
    BY <1>1, <1>2
  <2> QED BY <1>1, <1>2, <2>1
<1> QED BY <1>3, <1>4 DEF Ordered, Ahead

LEMMA WriteOrdered ==
  ASSUME NEW q \in Seq(Nat), NEW w \in Seq(Nat), NEW o \in Seq(Nat), NEW h \in Nat,
         NEW g, Ordered(q, w, o, h, "writing")
  PROVE  Ordered(q, Append(w, h), o, g, "waiting")
<1> DEFINE v == Append(w, h)
<1>1. /\ Len(v) = Len(w) + 1 /\ v[Len(w) + 1] = h
      /\ \A i \in 1..Len(w) : v[i] = w[i]
  OBVIOUS
<1>2. /\ Len(w) \in Nat /\ Len(o) \in Nat /\ Len(q) = Len(w) + 1 + Len(o)
      /\ \A j \in 1..Len(o) : q[Len(w) + 1 + j] = o[j]
      /\ q[Len(w) + 1] = h
  BY DEF Ordered, Ahead
<1> HIDE DEF v
<1>3. ASSUME NEW i \in 1..Len(v) PROVE v[i] = q[i]
  <2>1. CASE i = Len(w) + 1
    <3>1. v[i] = h /\ q[i] = h BY <1>1, <1>2, <2>1
    <3> QED BY <3>1
  <2>2. CASE i \in 1..Len(w) BY <1>1, <2>2 DEF Ordered
  <2> QED BY <1>1, <1>2, <2>1, <2>2
<1>4. Len(v) <= Len(q) /\ Len(q) = Len(v) + Len(o) /\ \A j \in 1..Len(o) : q[Len(v) + j] = o[j]
  BY <1>1, <1>2
<1>5. Ordered(q, v, o, g, "waiting")
  BY <1>3, <1>4 DEF Ordered, Ahead
<1> QED BY <1>5 DEF v

LEMMA AppendOrdered ==
  ASSUME NEW q \in Seq(Nat), NEW w \in Seq(Nat), NEW o \in Seq(Nat), NEW h, NEW st,
         NEW f \in Nat, Ordered(q, w, o, h, st)
  PROVE  Ordered(Append(q, f), w, Append(o, f), h, st)
<1> DEFINE p == Append(q, f)
           r == Append(o, f)
<1>1. /\ Len(p) = Len(q) + 1 /\ p[Len(q) + 1] = f
      /\ \A i \in 1..Len(q) : p[i] = q[i]
      /\ Len(r) = Len(o) + 1 /\ r[Len(o) + 1] = f
      /\ \A i \in 1..Len(o) : r[i] = o[i]
      /\ Len(q) \in Nat /\ Len(o) \in Nat /\ Len(w) \in Nat
  OBVIOUS
<1> HIDE DEF p, r
<1>2. Len(w) <= Len(p) /\ \A i \in 1..Len(w) : w[i] = p[i]
  BY <1>1 DEF Ordered
<1>3. ASSUME st # "exited"
      PROVE  /\ Len(p) = Ahead(w, st) + Len(r)
             /\ \A j \in 1..Len(r) : p[Ahead(w, st) + j] = r[j]
  <2>1. /\ Ahead(w, st) \in Nat /\ Len(q) = Ahead(w, st) + Len(o)
        /\ \A j \in 1..Len(o) : q[Ahead(w, st) + j] = o[j]
    BY <1>1, <1>3 DEF Ordered, Ahead
  <2>2. ASSUME NEW j \in 1..Len(r) PROVE p[Ahead(w, st) + j] = r[j]
    <3>1. CASE j = Len(o) + 1 BY <1>1, <2>1, <3>1
    <3>2. CASE j \in 1..Len(o)
      <4>0. Ahead(w, st) \in Nat /\ Len(o) \in Nat /\ Len(q) = Ahead(w, st) + Len(o)
        BY <1>1, <2>1
      <4>1. Ahead(w, st) + j \in 1..Len(q) BY <4>0, <3>2
      <4> QED BY <1>1, <2>1, <3>2, <4>1
    <3> QED BY <1>1, <3>1, <3>2
  <2> QED BY <1>1, <2>1, <2>2
<1>4. ASSUME st = "writing" PROVE p[Len(w) + 1] = h
  <2>1. Len(q) = Len(w) + 1 + Len(o) /\ q[Len(w) + 1] = h
    BY <1>4 DEF Ordered, Ahead
  <2>2. Len(w) + 1 \in 1..Len(q) BY <1>1, <2>1
  <2> QED BY <1>1, <2>1, <2>2
<1>5. Ordered(p, w, r, h, st)
  BY <1>2, <1>3, <1>4 DEF Ordered
<1> QED BY <1>5 DEF p, r

LEMMA WriterKeepsOrder ==
  ASSUME OrderInv, NEW s \in Sessions, WriterStep(s)
  PROVE  OrderInv'
<1>0. OrderType /\ (\A t \in Sessions : InOrder(t))
  BY DEF OrderInv
<1>1. CASE WriterTake(s)
  <2>1. /\ writer[s] = "waiting" /\ out[s] # <<>>
        /\ out' = [out EXCEPT ![s] = Tail(@)]
        /\ inHand' = [inHand EXCEPT ![s] = Head(out[s])]
        /\ writer' = [writer EXCEPT ![s] = "writing"]
        /\ UNCHANGED <<written, queued, frame>>
    BY <1>1 DEF WriterTake, mainVars
  <2>2. out[s] \in Seq(Nat) /\ queued[s] \in Seq(Nat) /\ written[s] \in Seq(Nat)
    BY <1>0 DEF OrderType
  <2>3. Head(out[s]) \in Nat /\ Tail(out[s]) \in Seq(Nat)
    BY <2>1, <2>2
  <2>4. OrderType' BY <1>0, <2>1, <2>3 DEF OrderType
  <2>5. Ordered(queued[s], written[s], Tail(out[s]), Head(out[s]), "writing")
    <3>1. Ordered(queued[s], written[s], out[s], inHand[s], "waiting")
      BY <1>0, <2>1 DEF InOrder
    <3> QED BY <2>1, <2>2, <3>1, TakeOrdered
  <2>6. ASSUME NEW t \in Sessions PROVE InOrder(t)'
    BY <1>0, <2>1, <2>5 DEF InOrder, OrderType
  <2> QED BY <2>4, <2>6 DEF OrderInv
<1>2. CASE WriterWrite(s)
  <2>1. /\ writer[s] = "writing"
        /\ written' = [written EXCEPT ![s] = Append(@, inHand[s])]
        /\ inHand' = [inHand EXCEPT ![s] = 0]
        /\ writer' = [writer EXCEPT ![s] = "waiting"]
        /\ UNCHANGED <<out, queued, frame>>
    BY <1>2 DEF WriterWrite, mainVars
  <2>2. /\ out[s] \in Seq(Nat) /\ queued[s] \in Seq(Nat) /\ written[s] \in Seq(Nat)
        /\ inHand[s] \in Nat
    BY <1>0 DEF OrderType
  <2>3. Append(written[s], inHand[s]) \in Seq(Nat)
    BY <2>2
  <2>4. OrderType' BY <1>0, <2>1, <2>3 DEF OrderType
  <2>5. Ordered(queued[s], Append(written[s], inHand[s]), out[s], 0, "waiting")
    <3>1. Ordered(queued[s], written[s], out[s], inHand[s], "writing")
      BY <1>0, <2>1 DEF InOrder
    <3> QED BY <2>2, <3>1, WriteOrdered
  <2>6. ASSUME NEW t \in Sessions PROVE InOrder(t)'
    BY <1>0, <2>1, <2>5 DEF InOrder, OrderType
  <2> QED BY <2>4, <2>6 DEF OrderInv
<1>3. CASE WriterFail(s) \/ WriterExit(s)
  <2>1. /\ writer' = [writer EXCEPT ![s] = "exited"]
        /\ inHand' = [inHand EXCEPT ![s] = 0] \/ UNCHANGED inHand
        /\ UNCHANGED <<out, queued, written, frame>>
    BY <1>3 DEF WriterFail, WriterExit, mainVars
  <2>2. OrderType' BY <1>0, <2>1 DEF OrderType
  <2>3. Ordered(queued[s], written[s], out[s], inHand'[s], "exited")
    BY <1>0 DEF InOrder, Ordered
  <2>4. ASSUME NEW t \in Sessions PROVE InOrder(t)'
    BY <1>0, <2>1, <2>3 DEF InOrder, OrderType
  <2> QED BY <2>2, <2>4 DEF OrderInv
<1> QED BY <1>1, <1>2, <1>3 DEF WriterStep

LEMMA SendKeepsOrder ==
  ASSUME OrderInv, NEW s \in Sessions, Send(s)
  PROVE  OrderInv'
<1>0. OrderType /\ (\A t \in Sessions : InOrder(t))
  BY DEF OrderInv
<1>1. CASE UNCHANGED <<out, queued>>
  <2>1. UNCHANGED orderVars
    BY <1>1 DEF Send, orderVars, writerVars
  <2> QED BY <2>1, OrderUnchanged
<1>2. CASE /\ out' = [out EXCEPT ![s] = Append(@, frame)]
           /\ queued' = [queued EXCEPT ![s] = Append(@, frame)]
  <2>1. UNCHANGED <<written, inHand, writer, frame>>
    BY DEF Send, writerVars
  <2>2. out[s] \in Seq(Nat) /\ queued[s] \in Seq(Nat) /\ written[s] \in Seq(Nat) /\ frame \in Nat
    BY <1>0 DEF OrderType
  <2>3. Append(out[s], frame) \in Seq(Nat) /\ Append(queued[s], frame) \in Seq(Nat)
    BY <2>2
  <2>4. OrderType' BY <1>0, <1>2, <2>1, <2>3 DEF OrderType
  <2>5. Ordered(Append(queued[s], frame), written[s], Append(out[s], frame), inHand[s], writer[s])
    <3>1. Ordered(queued[s], written[s], out[s], inHand[s], writer[s])
      BY <1>0 DEF InOrder
    <3> QED BY <2>2, <3>1, AppendOrdered
  <2>6. ASSUME NEW t \in Sessions PROVE InOrder(t)'
    BY <1>0, <1>2, <2>1, <2>5 DEF InOrder, OrderType
  <2> QED BY <2>4, <2>6 DEF OrderInv
<1> QED BY <1>1, <1>2 DEF Send

LEMMA OrderStep == OrderInv /\ Unborn /\ [Next]_vars => OrderInv'
<1> SUFFICES ASSUME OrderInv, Unborn, [Next]_vars PROVE OrderInv'
  OBVIOUS
<1>1. ASSUME NEW s \in Sessions, ReadLoopStep(s) PROVE OrderInv'
  <2>1. UNCHANGED orderVars
    BY <1>1 DEF ReadLoopStep, StartReadLoop, Emit, EmitGiveUp, ReadError, Unregister, CloseSession,
                EndReadLoop, orderVars, writerVars, mainVars
  <2> QED BY <2>1, OrderUnchanged
<1>2. ASSUME NEW s \in Sessions, ClientStep(s) PROVE OrderInv'
  <2>1. CASE PeerClose(s) \/ ReadFrame(s)
    <3>1. UNCHANGED orderVars
      BY <2>1 DEF PeerClose, ReadFrame, orderVars, writerVars, mainVars
    <3> QED BY <3>1, OrderUnchanged
  <2>2. CASE Register(s)
    <3>1. writer' = [writer EXCEPT ![s] = "waiting"] /\ UNCHANGED <<out, queued, written, inHand, frame>>
      BY <2>2 DEF Register, mainVars
    <3>2. writer[s] = "unborn"
      BY <2>2 DEF Register, Unborn
    <3>3. OrderType'
      BY <3>1 DEF OrderInv, OrderType
    <3>4. Ordered(queued[s], written[s], out[s], inHand[s], "waiting")
      BY <3>2 DEF OrderInv, InOrder, Ordered, Ahead
    <3>5. ASSUME NEW t \in Sessions PROVE InOrder(t)'
      BY <3>1, <3>4 DEF OrderInv, OrderType, InOrder
    <3> QED BY <3>3, <3>5 DEF OrderInv
  <2> QED BY <1>2, <2>1, <2>2 DEF ClientStep
<1>3. ASSUME NEW s \in Sessions, WriterStep(s) PROVE OrderInv'
  BY <1>3, WriterKeepsOrder
<1>4. CASE TakeFrame BY <1>4 DEF TakeFrame, OrderInv, OrderType, InOrder, Ahead, writerVars
<1>5. CASE FrameStep
  <2>1. CASE FrameDone \/ \E s \in Sessions : Lookup(s)
    <3>1. UNCHANGED orderVars
      BY <2>1 DEF FrameDone, Lookup, orderVars, writerVars
    <3> QED BY <3>1, OrderUnchanged
  <2>2. ASSUME NEW s \in Sessions, Send(s) PROVE OrderInv'
    BY <2>2, SendKeepsOrder
  <2> QED BY <1>5, <2>1, <2>2 DEF FrameStep
<1>6. CASE CloseStep \/ PortClose \/ Cancel
  <2>1. UNCHANGED orderVars
    BY <1>6 DEF CloseStep, CloseAll, CloseAllDone, Return, CloseAllUnregister, CloseAllClose, PortClose,
                Cancel, orderVars, writerVars, mainVars
  <2> QED BY <2>1, OrderUnchanged
<1>7. CASE UNCHANGED vars
  <2>1. UNCHANGED orderVars BY <1>7 DEF vars, orderVars
  <2> QED BY <2>1, OrderUnchanged
<1> QED BY <1>1, <1>2, <1>3, <1>4, <1>5, <1>6, <1>7 DEF Next

LEMMA OrderedWhole ==
  ASSUME NEW q \in Seq(Nat), NEW w \in Seq(Nat), NEW o \in Seq(Nat), NEW h,
         Ordered(q, w, o, h, "waiting")
  PROVE  w \o o = q
<1> DEFINE cat == w \o o
<1>0. Len(w) \in Nat /\ Len(o) \in Nat /\ Ahead(w, "waiting") = Len(w)
  BY DEF Ahead
<1>1. /\ Len(w) \in Nat /\ Len(o) \in Nat /\ Len(q) = Len(w) + Len(o)
      /\ \A j \in 1..Len(o) : q[Len(w) + j] = o[j]
      /\ \A i \in 1..Len(w) : w[i] = q[i]
  BY <1>0 DEF Ordered
<1>2. /\ cat \in Seq(Nat) /\ Len(cat) = Len(w) + Len(o)
      /\ \A i \in 1..Len(w) : cat[i] = w[i]
      /\ \A i \in Len(w) + 1..Len(w) + Len(o) : cat[i] = o[i - Len(w)]
  OBVIOUS
<1> HIDE DEF cat
<1>3. ASSUME NEW i \in 1..Len(q) PROVE cat[i] = q[i]
  <2>1. CASE i <= Len(w) BY <1>1, <1>2, <2>1
  <2>2. CASE i > Len(w)
    <3>1. /\ i - Len(w) \in 1..Len(o) /\ Len(w) + (i - Len(w)) = i
          /\ i \in Len(w) + 1..Len(w) + Len(o)
      BY <1>1, <2>2
    <3>2. q[i] = o[i - Len(w)]
      BY <1>1, <3>1
    <3> QED BY <1>2, <3>1, <3>2
  <2> QED BY <1>1, <2>1, <2>2
<1>4. cat = q
  BY <1>1, <1>2, <1>3
<1> QED BY <1>4 DEF cat

LEMMA OrderGivesPrefix ==
  ASSUME OrderInv, NEW s \in Sessions
  PROVE  /\ IsPrefix(written[s], queued[s])
         /\ writer[s] = "waiting" => written[s] \o out[s] = queued[s]
<1>1. /\ out[s] \in Seq(Nat) /\ queued[s] \in Seq(Nat) /\ written[s] \in Seq(Nat)
      /\ Ordered(queued[s], written[s], out[s], inHand[s], writer[s])
  BY DEF OrderInv, OrderType, InOrder
<1>2. SubSeq(written[s], 1, Len(written[s])) = SubSeq(queued[s], 1, Len(written[s]))
  BY <1>1 DEF Ordered
<1>3. IsPrefix(written[s], queued[s])
  BY <1>1, <1>2 DEF Ordered, IsPrefix
<1> QED BY <1>1, <1>3, OrderedWhole

\* What reaches a client is a prefix of what was accepted for it, and all of it
\* but for what is still queued while its writer lives: for any number of
\* sessions and frames and any queue size.
THEOREM FramesInOrderHolds == Spec => []FramesInOrder
<1>1. OrderInv => FramesInOrder
  BY OrderGivesPrefix DEF FramesInOrder
<1> QED BY <1>1, TokenInit, TokenStep, UnbornInit, UnbornStep, OrderInit, OrderStep, PTL DEF Spec

-----------------------------------------------------------------------------
(* The cache: one fetch at a time, none before the last one's time is over,  *)
(* and a rejected credential is not handed out again.                        *)

LEMMA CacheNumbers == TTL \in Nat /\ MaxFetches \in Nat \ {0} /\ MaxTime \in Nat
BY CacheAssumption DEF C!CacheSizes

FetchRecord ==
    [at : C!Time, end : C!Time, ok : BOOLEAN, done : BOOLEAN, spoilt : BOOLEAN]

CacheType ==
    /\ current \in 0 .. fetches
    /\ inflight \in 0 .. fetches
    /\ fetches \in Nat
    /\ fetch \in [C!Fetch -> FetchRecord]
    /\ now \in C!Time
    /\ pc \in [Callers -> C!Locations]
    /\ on \in [Callers -> 0 .. fetches]
    /\ got \in [Callers -> 0 .. fetches]
    /\ rejected \subseteq 1 .. fetches
    /\ known \in [Callers -> SUBSET rejected]
    /\ fetches <= MaxFetches

\* Who leads a fetch or waits for one has it in hand, and nobody else has; a fetch being stored is
\* the one in flight, and no other fetch in hand is closed before its store.
InHand ==
    /\ \A p \in Callers : pc[p] \in {"joined", "lead", "inner", "closing"} => on[p] # 0
    /\ \A p \in Callers : pc[p] \in {"idle", "begun"} => on[p] = 0
    /\ \A p \in Callers : pc[p] = "closing" => on[p] # inflight
    /\ inflight # 0 => ~fetch[inflight].done
    /\ \A k \in C!Fetch : k > fetches => ~fetch[k].done

\* Nobody holds the credential still being fetched, nor caches it; what is
\* rejected is neither cached nor in flight.
NotYetKnown ==
    /\ inflight # 0 => /\ \A p \in Callers : got[p] # inflight
                       /\ current # inflight
                       /\ inflight \notin rejected
    /\ current \notin rejected
    /\ \A p \in Callers : on[p] \notin known[p]

CacheInv == CacheType /\ InHand /\ C!SingleFlight /\ NotYetKnown /\ C!RejectedNotReused

\* What the four updates of a fetch leave of it.
LEMMA UpdateAt ==
    ASSUME NEW f \in [C!Fetch -> FetchRecord], NEW k \in C!Fetch, NEW t \in C!Time
    PROVE  LET g == [f EXCEPT ![k].at = t]
           IN /\ g \in [C!Fetch -> FetchRecord]
              /\ \A j \in C!Fetch : g[j].done = f[j].done
BY DEF FetchRecord

LEMMA UpdateDone ==
    ASSUME NEW f \in [C!Fetch -> FetchRecord], NEW k \in C!Fetch
    PROVE  LET g == [f EXCEPT ![k].done = TRUE]
           IN /\ g \in [C!Fetch -> FetchRecord]
              /\ \A j \in C!Fetch : j # k => g[j].done = f[j].done
BY DEF FetchRecord

LEMMA UpdateSpoilt ==
    ASSUME NEW f \in [C!Fetch -> FetchRecord], NEW k \in C!Fetch, NEW b \in BOOLEAN
    PROVE  LET g == [f EXCEPT ![k].spoilt = b]
           IN /\ g \in [C!Fetch -> FetchRecord]
              /\ \A j \in C!Fetch : g[j].done = f[j].done
BY DEF FetchRecord

LEMMA UpdateStore ==
    ASSUME NEW f \in [C!Fetch -> FetchRecord], NEW k \in C!Fetch, NEW ok \in BOOLEAN,
           now \in C!Time
    PROVE  LET g == [f EXCEPT ![k] = C!Stored(f[k], ok)]
           IN /\ g \in [C!Fetch -> FetchRecord]
              /\ \A j \in C!Fetch : g[j].done = f[j].done
<1>1. (f[k].spoilt \/ ~ok) \in BOOLEAN
  OBVIOUS
<1>2. C!Stored(f[k], ok) \in FetchRecord /\ C!Stored(f[k], ok).done = f[k].done
  BY <1>1 DEF FetchRecord, C!Stored
<1> QED BY <1>2

LEMMA CacheInit == C!Init => CacheInv
BY CacheNumbers DEF C!Init, CacheInv, CacheType, InHand, C!SingleFlight, NotYetKnown,
   C!RejectedNotReused, C!Fetching, C!Fetch, C!Time, C!Locations, C!NoFetch, FetchRecord

LEMMA CacheStep == CacheInv /\ [C!Next]_(C!vars) => CacheInv'
<1> SUFFICES ASSUME CacheInv, [C!Next]_(C!vars) PROVE CacheInv'
  OBVIOUS
<1> USE CacheNumbers DEF CacheInv, CacheType, InHand, C!SingleFlight, NotYetKnown,
        C!RejectedNotReused, C!Fetching, C!Fetch, C!Locations
<1>1. CASE C!Tick BY <1>1 DEF C!Tick, C!caller, C!Time
<1>2. ASSUME NEW p \in Callers, C!Begin(p) PROVE CacheInv'
  <2>1. CacheType' BY <1>2 DEF C!Begin
  <2>2. InHand' BY <1>2 DEF C!Begin
  <2>3. C!SingleFlight' BY <1>2 DEF C!Begin
  <2>4. on[p] \notin rejected
    BY <1>2 DEF C!Begin
  <2>5. NotYetKnown' BY <1>2, <2>4 DEF C!Begin
  <2>6. C!RejectedNotReused' BY <1>2 DEF C!Begin
  <2> QED BY <2>1, <2>2, <2>3, <2>5, <2>6
<1>3. ASSUME NEW p \in Callers, C!Hit(p) PROVE CacheInv'
  <2>1. current # 0 /\ current \notin known[p]
    <3>1. known[p] \subseteq rejected
      BY <1>3
    <3>2. current \notin rejected /\ current # 0
      BY <1>3 DEF C!Hit, C!Usable
    <3> QED BY <3>1, <3>2
  <2>2. CacheType' /\ InHand' /\ C!SingleFlight'
    BY <1>3 DEF C!Hit
  <2>3. NotYetKnown' /\ C!RejectedNotReused'
    BY <1>3, <2>1 DEF C!Hit
  <2> QED BY <2>2, <2>3
<1>4. ASSUME NEW p \in Callers, C!Join(p) PROVE CacheInv'
  BY <1>4 DEF C!Join
<1>5. ASSUME NEW p \in Callers, C!Lead(p) PROVE CacheInv'
  <2>1. CacheType'
    <3>1. fetches' = fetches + 1 /\ 0 .. fetches \subseteq 0 .. fetches'
      BY <1>5 DEF C!Lead
    <3>2. inflight' \in 0 .. fetches' /\ on' \in [Callers -> 0 .. fetches']
      BY <1>5, <3>1 DEF C!Lead
    <3>3. got' \in [Callers -> 0 .. fetches'] /\ current' \in 0 .. fetches'
      BY <1>5, <3>1 DEF C!Lead
    <3>4. rejected' \subseteq 1 .. fetches' /\ known' \in [Callers -> SUBSET rejected']
      BY <1>5, <3>1 DEF C!Lead
    <3> QED BY <1>5, <3>1, <3>2, <3>3, <3>4 DEF C!Lead
  <2>2. InHand'
    <3>1. fetches + 1 \in C!Fetch /\ ~fetch[fetches + 1].done
      BY <1>5 DEF C!Lead
    <3>2. \A q \in Callers : on[q] # fetches + 1 /\ on[q] \in Nat
      BY <1>5
    <3> QED BY <1>5, <3>1, <3>2 DEF C!Lead
  <2>3. C!SingleFlight'
    <3>1. \A q \in Callers : ~C!Fetching(q)
      BY <1>5 DEF C!Lead, C!Alone
    <3>2. \A q \in Callers : C!Fetching(q)' => q = p
      BY <1>5, <3>1 DEF C!Lead
    <3>3. on'[p] = inflight'
      BY <1>5 DEF C!Lead
    <3> QED BY <3>2, <3>3
  <2>4. NotYetKnown' BY <1>5 DEF C!Lead
  <2> QED BY <1>5, <2>1, <2>2, <2>3, <2>4 DEF C!Lead
<1>6. ASSUME NEW p \in Callers, C!CallInner(p) PROVE CacheInv'
  <2>1. on[p] \in C!Fetch /\ now \in C!Time
    BY <1>6 DEF C!CallInner
  <2>2. /\ fetch' \in [C!Fetch -> FetchRecord]
        /\ \A k \in C!Fetch : fetch'[k].done = fetch[k].done
    <3>1. fetch \in [C!Fetch -> FetchRecord] /\ fetch' = [fetch EXCEPT ![on[p]].at = now]
      BY <1>6 DEF C!CallInner
    <3> HIDE DEF CacheInv, CacheType, InHand, C!SingleFlight, NotYetKnown,
                 C!RejectedNotReused, C!Fetch
    <3> QED BY <2>1, <3>1, UpdateAt
  <2>3. CacheType' /\ C!SingleFlight' /\ NotYetKnown' /\ C!RejectedNotReused'
    BY <1>6, <2>2 DEF C!CallInner
  <2>4. InHand'
    BY <1>6, <2>2 DEF C!CallInner
  <2> QED BY <2>3, <2>4
<1>7. ASSUME NEW p \in Callers, NEW ok \in BOOLEAN, C!Store(p, ok) PROVE CacheInv'
  <2>5. on[p] \in C!Fetch /\ now \in C!Time
    BY <1>7 DEF C!Store
  <2>6. /\ fetch' \in [C!Fetch -> FetchRecord]
        /\ \A k \in C!Fetch : fetch'[k].done = fetch[k].done
    <3>1. fetch \in [C!Fetch -> FetchRecord]
      OBVIOUS
    <3>2. fetch' = [fetch EXCEPT ![on[p]] = C!Stored(fetch[on[p]], ok)]
      BY <1>7 DEF C!Store
    <3> HIDE DEF CacheInv, CacheType, InHand, C!SingleFlight, NotYetKnown,
                 C!RejectedNotReused, C!Fetch
    <3> QED BY <2>5, <3>1, <3>2, UpdateStore
  <2>1. CacheType' BY <1>7, <2>6 DEF C!Store
  <2>2. InHand' BY <1>7, <2>6 DEF C!Store
  <2>3. C!SingleFlight' BY <1>7 DEF C!Store
  <2>4. NotYetKnown' BY <1>7 DEF C!Store
  <2> QED BY <1>7, <2>1, <2>2, <2>3, <2>4 DEF C!Store
<1>8. ASSUME NEW p \in Callers, C!Close(p) PROVE CacheInv'
  <2>6. on[p] \in C!Fetch /\ on[p] # inflight
    BY <1>8 DEF C!Close
  <2>7. /\ fetch' \in [C!Fetch -> FetchRecord]
        /\ \A k \in C!Fetch : k # on[p] => fetch'[k].done = fetch[k].done
    BY <1>8, <2>6, UpdateDone DEF C!Close
  <2>1. CacheType' BY <1>8, <2>7 DEF C!Close, C!Return, C!Result
  <2>2. InHand' BY <1>8, <2>6, <2>7 DEF C!Close, C!Return, C!Result
  <2>3. C!SingleFlight' BY <1>8 DEF C!Close, C!Return
  <2>4. NotYetKnown' BY <1>8 DEF C!Close, C!Return, C!Result
  <2>5. C!RejectedNotReused' BY <1>8 DEF C!Close, C!Return, C!Result
  <2> QED BY <2>1, <2>2, <2>3, <2>4, <2>5
<1>9. ASSUME NEW p \in Callers, C!Joined(p) PROVE CacheInv'
  <2>1. CacheType' BY <1>9 DEF C!Joined, C!Return, C!Result
  <2>2. InHand' BY <1>9 DEF C!Joined, C!Return, C!Result
  <2>3. C!SingleFlight' BY <1>9 DEF C!Joined, C!Return
  <2>4. NotYetKnown' BY <1>9 DEF C!Joined, C!Return, C!Result
  <2>5. C!RejectedNotReused' BY <1>9 DEF C!Joined, C!Return, C!Result
  <2> QED BY <2>1, <2>2, <2>3, <2>4, <2>5
<1>10. ASSUME NEW p \in Callers, C!Invalidate(p) PROVE CacheInv'
  <2>4. got[p] \in 1 .. fetches /\ fetches \in C!Fetch
    BY <1>10 DEF C!Invalidate
  <2>5. /\ fetch' \in [C!Fetch -> FetchRecord]
        /\ \A k \in C!Fetch : fetch'[k].done = fetch[k].done
    BY <1>10, <2>4, UpdateSpoilt DEF C!Invalidate
  <2>1. CacheType' BY <1>10, <2>4, <2>5 DEF C!Invalidate
  <2>2. InHand' BY <1>10, <2>5 DEF C!Invalidate
  <2>3. NotYetKnown' BY <1>10 DEF C!Invalidate
  <2> QED BY <1>10, <2>1, <2>2, <2>3 DEF C!Invalidate
<1>11. CASE UNCHANGED C!vars BY <1>11 DEF C!vars
<1> HIDE DEF CacheInv
<1> QED
  BY <1>1, <1>2, <1>3, <1>4, <1>5, <1>6, <1>7, <1>8, <1>9, <1>10, <1>11 DEF C!Next

\* At most one caller invokes inner, and it leads the fetch in flight.
THEOREM SingleFlightHolds == CacheSpec => []SingleFlight
<1>1. CacheInv => C!SingleFlight
  BY DEF CacheInv
<1> QED BY <1>1, CacheInit, CacheStep, PTL DEF CacheSpec, C!Spec, SingleFlight, C!SingleFlight

\* A credential whose rejection was reported before a call is not its result.
THEOREM RejectedNotReusedHolds == CacheSpec => []RejectedNotReused
<1>1. CacheInv => C!RejectedNotReused
  BY DEF CacheInv
<1> QED BY <1>1, CacheInit, CacheStep, PTL DEF CacheSpec, C!Spec, RejectedNotReused, C!RejectedNotReused

-----------------------------------------------------------------------------
(* The age of what is handed out.  Fetches follow one another: when none is  *)
(* in flight, the last one is cached, or was spoilt. A leader has therefore  *)
(* found every earlier credential expired, or one of them spoilt; and what   *)
(* a call waits for is still being fetched after the call began.             *)

Latest ==
    inflight = 0 /\ fetches # 0 =>
        current = fetches \/ (current = 0 /\ fetch[fetches].spoilt)
Later == \A i, j \in C!Fetch : i < j /\ C!Invoked(j) => fetch[i].at <= fetch[j].at
Justified ==
    \A p \in Callers : pc[p] = "lead" =>
        \A i \in 1 .. on[p] - 1 :
            \/ start[p] >= fetch[i].at + TTL
            \/ \E k \in i .. on[p] - 1 : fetch[k].spoilt
Awaited ==
    \A p \in Callers : pc[p] \in {"joined", "closing"} =>
        on[p] = inflight \/ start[p] <= fetch[on[p]].end

Clocks ==
    /\ start \in [Callers -> Nat] /\ \A p \in Callers : start[p] <= now
    /\ inflight \in {0, fetches}
    /\ \A k \in C!Fetch : fetch[k].at <= now

AgeInv == Clocks /\ Latest /\ Later /\ Justified /\ Awaited /\ C!TTLKept

LEMMA AgeInit == C!Init => AgeInv
BY CacheNumbers DEF C!Init, AgeInv, Clocks, Latest, Later, Justified, Awaited, C!TTLKept,
   C!OncePerTTL, C!FreshEnough, C!Invoked, C!Fetch, C!NoFetch

\* A step that leaves the times of the fetches alone, spoils none less, and
\* changes nothing for whoever waits, holds or leads.
LEMMA AgeKept ==
    ASSUME CacheInv, AgeInv, Clocks',
           \A k \in C!Fetch : /\ fetch'[k].at = fetch[k].at
                              /\ fetch[k].end = fetch'[k].end
                              /\ fetch[k].spoilt => fetch'[k].spoilt,
           fetches' = fetches,
           \A p \in Callers : (pc'[p] = "lead") = (pc[p] = "lead"),
           \A p \in Callers : pc[p] = "lead" => on'[p] = on[p] /\ start'[p] = start[p]
    PROVE  Later' /\ Justified' /\ C!OncePerTTL'
<1>1. \A k \in C!Fetch : C!Invoked(k)' = C!Invoked(k)
  BY DEF C!Invoked
<1>2. Later'
  BY <1>1 DEF AgeInv, Later
<1>3. C!OncePerTTL'
  <2> SUFFICES ASSUME NEW i \in C!Fetch, NEW j \in C!Fetch, i < j, C!Invoked(j)',
                      fetch'[j].at < fetch'[i].at + TTL
               PROVE  \E k \in i .. j - 1 : fetch'[k].spoilt
    BY DEF C!OncePerTTL
  <2>1. \E k \in i .. j - 1 : fetch[k].spoilt
    BY <1>1 DEF AgeInv, C!TTLKept, C!OncePerTTL
  <2> QED BY <2>1, CacheNumbers DEF C!Fetch
<1>4. Justified'
  <2> SUFFICES ASSUME NEW p \in Callers, pc'[p] = "lead", NEW i \in 1 .. on'[p] - 1
               PROVE  \/ start'[p] >= fetch'[i].at + TTL
                      \/ \E k \in i .. on'[p] - 1 : fetch'[k].spoilt
    BY DEF Justified
  <2>1. pc[p] = "lead" /\ on'[p] = on[p] /\ start'[p] = start[p]
    OBVIOUS
  <2>2. on[p] \in 1 .. MaxFetches /\ 1 .. on[p] - 1 \subseteq C!Fetch
    BY <2>1, CacheNumbers DEF CacheInv, CacheType, InHand, C!Fetch
  <2>3. \/ start[p] >= fetch[i].at + TTL
        \/ \E k \in i .. on[p] - 1 : fetch[k].spoilt
    BY <2>1 DEF AgeInv, Justified
  <2> QED BY <2>1, <2>2, <2>3
<1> QED BY <1>2, <1>3, <1>4

LEMMA AgeStep == CacheInv /\ CacheInv' /\ AgeInv /\ [C!Next]_(C!vars) => AgeInv'
<1> SUFFICES ASSUME CacheInv, CacheInv', AgeInv, [C!Next]_(C!vars) PROVE AgeInv'
  OBVIOUS
<1>t. /\ now \in Nat /\ fetches \in Nat /\ fetches <= MaxFetches /\ current \in 0 .. fetches
      /\ \A p \in Callers : on[p] \in 0 .. fetches /\ got[p] \in 0 .. fetches
      /\ pc \in [Callers -> C!Locations]
      /\ DOMAIN fetch = C!Fetch /\ DOMAIN on = Callers /\ DOMAIN got = Callers
      /\ \A k \in C!Fetch : fetch[k].at \in Nat /\ fetch[k].end \in Nat
      /\ \A k \in 1 .. fetches : k \in C!Fetch
  BY CacheNumbers DEF CacheInv, CacheType, FetchRecord, C!Time, C!Fetch
<1>c. Clocks /\ Latest /\ Later /\ Justified /\ Awaited /\ C!OncePerTTL /\ C!FreshEnough
  BY DEF AgeInv, C!TTLKept
<1>h. /\ inflight # 0 => current # inflight /\ \A p \in Callers : got[p] # inflight
      /\ \A p \in Callers : C!Fetching(p) => on[p] = inflight /\ on[p] # 0
      /\ \A p, q \in Callers : C!Fetching(p) /\ C!Fetching(q) => p = q
      /\ \A p \in Callers : pc[p] \in {"joined", "closing"} => on[p] # 0
      /\ \A p \in Callers : pc[p] = "closing" => on[p] # inflight
  BY DEF CacheInv, InHand, NotYetKnown, C!SingleFlight, C!Fetching
<1> USE <1>t DEF C!Locations
\* What is enough for the steps that leave the times of the fetches alone.
<1>k. ASSUME Clocks', Latest', Awaited', C!FreshEnough', fetches' = fetches,
             \A k \in C!Fetch : /\ fetch'[k].at = fetch[k].at
                                /\ fetch[k].end = fetch'[k].end
                                /\ fetch[k].spoilt => fetch'[k].spoilt,
             \A p \in Callers : (pc'[p] = "lead") = (pc[p] = "lead"),
             \A p \in Callers : pc[p] = "lead" => on'[p] = on[p] /\ start'[p] = start[p]
      PROVE  AgeInv'
  <2>1. Later' /\ Justified' /\ C!OncePerTTL'
    BY <1>k, AgeKept
  <2> QED BY <1>k, <2>1 DEF AgeInv, C!TTLKept
<1>1. CASE C!Tick
  BY <1>1, <1>c, <1>k, CacheNumbers
     DEF C!Tick, C!caller, Clocks, Latest, Awaited, C!FreshEnough
<1>2. ASSUME NEW p \in Callers, C!Begin(p) PROVE AgeInv'
  BY <1>2, <1>c, <1>k DEF C!Begin, Clocks, Latest, Awaited, C!FreshEnough
<1>3. ASSUME NEW p \in Callers, C!Hit(p) PROVE AgeInv'
  BY <1>3, <1>c, <1>k DEF C!Hit, C!Usable, Clocks, Latest, Awaited, C!FreshEnough
<1>4. ASSUME NEW p \in Callers, C!Join(p) PROVE AgeInv'
  BY <1>4, <1>c, <1>k DEF C!Join, Clocks, Latest, Awaited, C!FreshEnough
<1>5. ASSUME NEW p \in Callers, C!Lead(p) PROVE AgeInv'
  <2>1. /\ inflight = 0 /\ fetches < MaxFetches /\ fetches' = fetches + 1
        /\ inflight' = fetches + 1 /\ on' = [on EXCEPT ![p] = fetches + 1]
        /\ pc' = [pc EXCEPT ![p] = "lead"]
        /\ UNCHANGED <<now, current, fetch, start, got>>
    BY <1>5 DEF C!Lead, C!Alone
  <2>2. \A q \in Callers : pc[q] # "lead"
    BY <2>1, <1>h DEF C!Fetching
  <2>3. \A k \in 1 .. fetches : C!Invoked(k)
    BY <2>2 DEF C!Invoked
  <2>4. \A k \in C!Fetch : C!Invoked(k)' => C!Invoked(k)
    BY <2>1, <2>3 DEF C!Invoked, C!Fetch
  <2>5. Clocks' /\ Latest' BY <1>c, <2>1 DEF Clocks, Latest
  <2>6. Later' BY <1>c, <2>1, <2>4 DEF Later
  <2>7. C!OncePerTTL' BY <1>c, <2>1, <2>4 DEF C!OncePerTTL
  <2>8. Awaited' BY <1>c, <1>h, <2>1 DEF Awaited, Clocks
  <2>9. C!FreshEnough' BY <1>c, <2>1 DEF C!FreshEnough
  <2>10. \A i \in 1 .. fetches : \/ start[p] >= fetch[i].at + TTL
                                 \/ \E k \in i .. fetches : fetch[k].spoilt
    <3> SUFFICES ASSUME NEW i \in 1 .. fetches
                 PROVE  \/ start[p] >= fetch[i].at + TTL
                        \/ \E k \in i .. fetches : fetch[k].spoilt
      OBVIOUS
    <3>1. CASE current = fetches
      <4>0. current # 0 /\ current \in C!Fetch
        BY <3>1
      <4>1. start[p] \in Nat /\ start[p] >= fetch[current].at + TTL
        <5>1. start[p] \in Nat BY <1>c DEF Clocks
        <5>2. ~(start[p] < fetch[current].at + TTL)
          BY <1>5, <4>0 DEF C!Lead, C!Usable
        <5>3. fetch[current].at \in Nat BY <4>0
        <5> QED BY <5>1, <5>2, <5>3, CacheNumbers
      <4>2. fetch[i].at <= fetch[current].at
        BY <1>c, <2>3, <3>1 DEF Later
      <4> QED BY <3>1, <4>1, <4>2, CacheNumbers
    <3>2. CASE fetch[fetches].spoilt
      BY <3>2
    <3> QED BY <1>c, <2>1, <3>1, <3>2 DEF Latest
  <2>11. Justified'
    BY <2>1, <2>2, <2>10 DEF Justified
  <2> QED BY <2>5, <2>6, <2>7, <2>8, <2>9, <2>11 DEF AgeInv, C!TTLKept
<1>6. ASSUME NEW p \in Callers, C!CallInner(p) PROVE AgeInv'
  <2>1. /\ pc[p] = "lead" /\ on[p] = inflight /\ inflight = fetches /\ inflight \in C!Fetch
        /\ pc' = [pc EXCEPT ![p] = "inner"]
        /\ UNCHANGED <<now, current, inflight, fetches, start, on, got>>
    BY <1>6, <1>c, <1>h DEF C!CallInner, C!Fetching, Clocks
  <2>2. /\ fetch'[inflight].at = now
        /\ \A k \in C!Fetch : /\ k # inflight => fetch'[k].at = fetch[k].at
                              /\ fetch'[k].end = fetch[k].end
                              /\ fetch'[k].spoilt = fetch[k].spoilt
    <3>1. fetch' = [fetch EXCEPT ![inflight].at = now]
      BY <1>6, <2>1 DEF C!CallInner
    <3>2. fetch \in [C!Fetch -> FetchRecord] BY DEF CacheInv, CacheType
    <3> QED BY <2>1, <3>1, <3>2 DEF FetchRecord
  <2>3. \A k \in C!Fetch : C!Invoked(k)' => C!Invoked(k) \/ k = inflight
    BY <2>1 DEF C!Invoked
  <2>4. Clocks' BY <1>c, <2>1, <2>2 DEF Clocks
  <2>5. Latest' /\ Awaited'
    BY <1>c, <1>h, <2>1, <2>2 DEF Latest, Awaited
  <2>6. C!FreshEnough'
    BY <1>c, <1>h, <2>1, <2>2 DEF C!FreshEnough
  <2>7. Later'
    <3> SUFFICES ASSUME NEW i \in C!Fetch, NEW j \in C!Fetch, i < j, C!Invoked(j)'
                 PROVE  fetch'[i].at <= fetch'[j].at
      BY DEF Later
    <3>1. j <= fetches /\ i # inflight
      BY <2>1 DEF C!Invoked, C!Fetch
    <3> QED BY <1>c, <2>1, <2>2, <2>3, <3>1 DEF Later, Clocks
  <2>8. C!OncePerTTL'
    <3> SUFFICES ASSUME NEW i \in C!Fetch, NEW j \in C!Fetch, i < j, C!Invoked(j)',
                        fetch'[j].at < fetch'[i].at + TTL
                 PROVE  \E k \in i .. j - 1 : fetch'[k].spoilt
      BY DEF C!OncePerTTL
    <3>1. j <= fetches /\ i # inflight /\ i .. j - 1 \subseteq C!Fetch
      BY <2>1 DEF C!Invoked, C!Fetch
    <3>2. CASE j = inflight
      <4>1. start[p] \in Nat /\ start[p] <= now BY <1>c DEF Clocks
      <4>2. i \in 1 .. on[p] - 1 /\ ~(start[p] >= fetch[i].at + TTL)
        BY <2>1, <2>2, <3>1, <3>2, <4>1, CacheNumbers DEF C!Fetch
      <4>3. \E k \in i .. on[p] - 1 : fetch[k].spoilt
        BY <1>c, <2>1, <4>2 DEF Justified
      <4> QED BY <2>1, <2>2, <3>1, <3>2, <4>3
    <3>3. CASE j # inflight
      <4>1. \E k \in i .. j - 1 : fetch[k].spoilt
        BY <1>c, <2>2, <2>3, <3>1, <3>3 DEF C!OncePerTTL
      <4> QED BY <2>2, <3>1, <4>1
    <3> QED BY <3>2, <3>3
  <2>9. Justified'
    BY <1>h, <2>1 DEF Justified, C!Fetching
  <2> QED BY <2>4, <2>5, <2>6, <2>7, <2>8, <2>9 DEF AgeInv, C!TTLKept
<1>7. ASSUME NEW p \in Callers, NEW ok \in BOOLEAN, C!Store(p, ok) PROVE AgeInv'
  <2>1. /\ pc[p] = "inner" /\ on[p] = inflight /\ inflight = fetches /\ inflight \in C!Fetch
        /\ inflight' = 0 /\ current' = IF ok THEN inflight ELSE 0
        /\ pc' = [pc EXCEPT ![p] = "closing"]
        /\ UNCHANGED <<now, fetches, start, on, got>>
    BY <1>7, <1>c, <1>h DEF C!Store, C!Fetching, Clocks
  <2>2. /\ fetch'[inflight].end = now
        /\ ~ok => fetch'[inflight].spoilt
        /\ \A k \in C!Fetch : /\ k # inflight => fetch'[k].end = fetch[k].end
                              /\ fetch'[k].at = fetch[k].at
                              /\ fetch[k].spoilt => fetch'[k].spoilt
    <3>1. fetch' = [fetch EXCEPT ![inflight] = C!Stored(fetch[inflight], ok)]
      BY <1>7, <2>1 DEF C!Store
    <3>2. fetch \in [C!Fetch -> FetchRecord] BY DEF CacheInv, CacheType
    <3>3. \A k \in C!Fetch : fetch'[k] = IF k = inflight THEN C!Stored(fetch[k], ok) ELSE fetch[k]
      BY <2>1, <3>1, <3>2
    <3>4. /\ C!Stored(fetch[inflight], ok).end = now
          /\ C!Stored(fetch[inflight], ok).at = fetch[inflight].at
          /\ C!Stored(fetch[inflight], ok).spoilt = (fetch[inflight].spoilt \/ ~ok)
      BY <2>1, <3>2 DEF FetchRecord, C!Stored
    <3> QED BY <2>1, <3>3, <3>4
  <2>3. Clocks' /\ Latest' BY <1>c, <2>1, <2>2 DEF Clocks, Latest
  <2>4. Awaited' BY <1>c, <1>h, <2>1, <2>2 DEF Awaited, Clocks
  <2>5. C!FreshEnough' BY <1>c, <1>h, <2>1, <2>2 DEF C!FreshEnough
  <2>6. /\ \A k \in C!Fetch : C!Invoked(k)' = C!Invoked(k)
        /\ \A q \in Callers : pc'[q] # "lead"
    BY <1>h, <2>1 DEF C!Invoked, C!Fetching
  <2>7. Later' BY <1>c, <2>2, <2>6 DEF Later
  <2>8. C!OncePerTTL'
    <3> SUFFICES ASSUME NEW i \in C!Fetch, NEW j \in C!Fetch, i < j, C!Invoked(j)',
                        fetch'[j].at < fetch'[i].at + TTL
                 PROVE  \E k \in i .. j - 1 : fetch'[k].spoilt
      BY DEF C!OncePerTTL
    <3>1. \E k \in i .. j - 1 : fetch[k].spoilt
      BY <1>c, <2>2, <2>6 DEF C!OncePerTTL
    <3> QED BY <2>2, <3>1, CacheNumbers DEF C!Fetch
  <2>9. Justified' BY <2>6 DEF Justified
  <2> QED BY <2>3, <2>4, <2>5, <2>7, <2>8, <2>9 DEF AgeInv, C!TTLKept
<1>8. ASSUME NEW p \in Callers, C!Close(p) PROVE AgeInv'
  <2>1. on[p] \in C!Fetch /\ on[p] # inflight /\ pc[p] = "closing" /\ C!Return(p)
    BY <1>8, <1>h DEF C!Close
  <2>2. \A k \in C!Fetch : /\ fetch'[k].at = fetch[k].at /\ fetch'[k].end = fetch[k].end
                        /\ fetch'[k].spoilt = fetch[k].spoilt
    <3>1. fetch' = [fetch EXCEPT ![on[p]].done = TRUE] BY <1>8 DEF C!Close
    <3>2. fetch \in [C!Fetch -> FetchRecord] BY DEF CacheInv, CacheType
    <3> QED BY <2>1, <3>1, <3>2 DEF FetchRecord
  <2>3. UNCHANGED <<now, current, inflight, fetches, start>> BY <1>8 DEF C!Close
  <2>4. Clocks' /\ Latest' BY <1>c, <2>2, <2>3 DEF Clocks, Latest
  <2>5. Awaited' BY <1>c, <1>h, <2>1, <2>2, <2>3 DEF Awaited, C!Return
  <2>6. C!FreshEnough'
    BY <1>c, <2>1, <2>2, <2>3 DEF Awaited, C!FreshEnough, C!Return, C!Result
  <2> QED BY <1>k, <2>1, <2>2, <2>3, <2>4, <2>5, <2>6 DEF C!Return
<1>9. ASSUME NEW p \in Callers, C!Joined(p) PROVE AgeInv'
  <2>1. on[p] \in C!Fetch /\ on[p] # inflight
    BY <1>9, <1>h DEF C!Joined, CacheInv, InHand
  <2>2. Clocks' /\ Latest' BY <1>9, <1>c DEF C!Joined, Clocks, Latest
  <2>3. Awaited' BY <1>9, <1>c DEF C!Joined, Awaited, C!Return
  <2>4. C!FreshEnough'
    BY <1>9, <1>c, <2>1 DEF C!Joined, Awaited, C!FreshEnough, C!Return, C!Result
  <2> QED BY <1>9, <1>k, <2>2, <2>3, <2>4 DEF C!Joined, C!Return
<1>10. ASSUME NEW p \in Callers, C!Invalidate(p) PROVE AgeInv'
  <2>1. fetches \in C!Fetch /\ current' = 0 /\ got' = [got EXCEPT ![p] = 0]
        /\ UNCHANGED <<now, inflight, fetches, pc, start, on>>
    BY <1>10 DEF C!Invalidate
  <2>2. /\ fetch'[fetches].spoilt
        /\ \A k \in C!Fetch : /\ fetch'[k].at = fetch[k].at /\ fetch'[k].end = fetch[k].end
                              /\ fetch[k].spoilt => fetch'[k].spoilt
    <3>1. fetch' = [fetch EXCEPT ![fetches].spoilt = TRUE] BY <1>10 DEF C!Invalidate
    <3>2. fetch \in [C!Fetch -> FetchRecord] BY DEF CacheInv, CacheType
    <3> QED BY <2>1, <3>1, <3>2 DEF FetchRecord
  <2>3. Clocks' /\ Latest' BY <1>c, <2>1, <2>2 DEF Clocks, Latest
  <2>4. Awaited' BY <1>c, <1>h, <2>1, <2>2 DEF Awaited
  <2>5. C!FreshEnough' BY <1>c, <2>1, <2>2 DEF C!FreshEnough
  <2> QED BY <1>k, <2>1, <2>2, <2>3, <2>4, <2>5
<1>11. CASE UNCHANGED C!vars
  BY <1>11, <1>c, <1>k DEF C!vars, Clocks, Latest, Awaited, C!FreshEnough
<1> QED
  BY <1>1, <1>2, <1>3, <1>4, <1>5, <1>6, <1>7, <1>8, <1>9, <1>10, <1>11 DEF C!Next

\* inner is invoked once per TTL unless something was spoilt in between, and
\* nobody is handed a credential that had expired when the call began.
THEOREM TTLKeptHolds == CacheSpec => []TTLKept
<1>1. AgeInv => C!TTLKept BY DEF AgeInv
<1> QED BY <1>1, CacheInit, CacheStep, AgeInit, AgeStep, PTL DEF CacheSpec, C!Spec, TTLKept, C!TTLKept

-----------------------------------------------------------------------------
(* The lifecycle: type correctness, the order of the teardown and the errors *)
(* it reports.                                                               *)

LEMMA AppNames ==
  /\ Goroutines \cap Components = {}
  /\ Runners \cap Stoppers = {}
  /\ Hooks \cap {A!NoOne, A!Teardown} = {}
BY AppAssumption DEF A!AppSets

LEMMA AppInitType == A!Init => A!TypeOK
<1> SUFFICES ASSUME A!Init PROVE A!TypeOK
  OBVIOUS
<1>1. A!CtxType BY DEF A!Init, A!CtxType
<1>2. A!JobType BY DEF A!Init, A!JobType, A!JobStates
<1>3. A!HookType BY DEF A!Init, A!HookType
<1>4. A!DownType
  <2>1. pending \in Seq(Hooks) /\ ran \in Seq(Hooks) BY DEF A!Init
  <2>2. hookRun \in [Hooks -> {"idle", "running", "ok", "err"}] BY DEF A!Init
  <2> QED BY <2>1, <2>2 DEF A!Init, A!DownType, A!Phases
<1>5. A!WaiterType BY DEF A!Init, A!WaiterType
<1> QED BY <1>1, <1>2, <1>3, <1>4, <1>5 DEF A!TypeOK

LEMMA GoStepType ==
  ASSUME A!TypeOK, NEW j \in A!Jobs, A!GoStep(j)
  PROVE  A!TypeOK'
<1>1. A!CtxType'
  BY DEF A!TypeOK, A!CtxType, A!GoStep, A!GoCheck, A!GoAdd, A!FnReturn, A!GoRecord, A!GoFailFast, A!GoDone
<1>2. A!JobType'
  <2> USE DEF A!TypeOK, A!JobType, A!JobStates
  <2>1. CASE A!GoCheck(j) BY <2>1 DEF A!GoCheck
  <2>2. CASE A!GoAdd(j) BY <2>2 DEF A!GoAdd
  <2>3. CASE A!FnReturn(j) BY <2>3 DEF A!FnReturn
  <2>4. CASE A!GoRecord(j) BY <2>4 DEF A!GoRecord
  <2>5. CASE A!GoFailFast(j) BY <2>5 DEF A!GoFailFast
  <2>6. CASE A!GoDone(j) BY <2>6 DEF A!GoDone
  <2> QED BY <2>1, <2>2, <2>3, <2>4, <2>5, <2>6 DEF A!GoStep
<1>3. UNCHANGED <<A!hookVars, A!downVars, waiter>>
  BY DEF A!GoStep, A!GoCheck, A!GoAdd, A!FnReturn, A!GoRecord, A!GoFailFast, A!GoDone
<1>4. A!HookType' /\ A!DownType' /\ A!WaiterType'
  BY <1>3 DEF A!TypeOK, A!HookType, A!DownType, A!WaiterType, A!hookVars, A!downVars
<1> QED BY <1>1, <1>2, <1>4 DEF A!TypeOK

LEMMA ComponentStepType ==
  ASSUME A!TypeOK, NEW c \in Components, A!ComponentStep(c)
  PROVE  A!TypeOK'
<1> USE DEF A!ComponentStep, A!SuperviseCheck, A!SuperviseStart, A!Drain
<1>1. UNCHANGED <<cancelled, A!hookVars, A!downVars, waiter>>
  OBVIOUS
<1>2. A!CtxType' /\ A!HookType' /\ A!DownType' /\ A!WaiterType'
  BY <1>1 DEF A!TypeOK, A!CtxType, A!HookType, A!DownType, A!WaiterType, A!hookVars, A!downVars
<1>3. A!JobType'
  BY DEF A!TypeOK, A!JobType, A!JobStates, A!Jobs
<1> QED BY <1>2, <1>3 DEF A!TypeOK

LEMMA HookStepType ==
  ASSUME A!TypeOK, NEW h \in Hooks, A!HookStep(h)
  PROVE  A!TypeOK'
<1>1. UNCHANGED <<cancelled, A!jobVars, waiter>>
  BY DEF A!HookStep, A!HookCheck, A!HookAppend, A!HookReturn
<1>2. A!CtxType' /\ A!JobType' /\ A!WaiterType'
  BY <1>1 DEF A!TypeOK, A!CtxType, A!JobType, A!WaiterType, A!jobVars
<1>3. A!HookType' /\ A!DownType'
  <2> USE DEF A!TypeOK, A!HookType, A!DownType
  <2>1. CASE A!HookCheck(h) BY <2>1 DEF A!HookCheck, A!downVars
  <2>2. CASE A!HookAppend(h) BY <2>2 DEF A!HookAppend, A!downVars
  <2>3. CASE A!HookReturn(h) BY <2>3 DEF A!HookReturn, A!hookVars
  <2> QED BY <2>1, <2>2, <2>3 DEF A!HookStep
<1> QED BY <1>2, <1>3 DEF A!TypeOK

LEMMA WaiterStepType ==
  ASSUME A!TypeOK, NEW w \in A!Waiters, A!WaiterStep(w)
  PROVE  A!TypeOK'
<1> USE DEF A!WaiterStep, A!RunSelect, A!CallShutdown, A!OnceDo, A!ShutdownReturn
<1>1. UNCHANGED <<A!jobVars, A!hookVars>>
  OBVIOUS
<1>2. A!JobType' /\ A!HookType'
  BY <1>1 DEF A!TypeOK, A!JobType, A!HookType, A!jobVars, A!hookVars
<1>3. A!CtxType'
  BY DEF A!TypeOK, A!CtxType
<1>4. A!WaiterType'
  BY DEF A!TypeOK, A!WaiterType
<1>5. A!DownType'
  BY DEF A!TypeOK, A!DownType, A!downVars, A!Phases
<1> QED BY <1>2, <1>3, <1>4, <1>5 DEF A!TypeOK

\* The first n elements of a sequence.
LEMMA Prefix ==
  ASSUME NEW S, NEW s \in Seq(S), NEW n \in Nat, n <= Len(s)
  PROVE  /\ SubSeq(s, 1, n) \in Seq(S)
         /\ Len(SubSeq(s, 1, n)) = n
         /\ \A i \in 1..n : SubSeq(s, 1, n)[i] = s[i]
<1>1. \A i \in 1..n : s[i] \in S
  OBVIOUS
<1>2. /\ SubSeq(s, 1, n) \in Seq(S)
      /\ Len(SubSeq(s, 1, n)) = IF 1 <= n THEN n - 1 + 1 ELSE 0
      /\ \A i \in 1..(n - 1 + 1) : SubSeq(s, 1, n)[i] = s[1 + i - 1]
  BY <1>1, SubSeqProperties
<1> QED BY <1>2

\* Taking the last element off a non-empty sequence leaves a sequence.
LEMMA FrontLast ==
  ASSUME NEW S, NEW s \in Seq(S), s # <<>>
  PROVE  A!Front(s) \in Seq(S) /\ A!Last(s) \in S
BY DEF A!Front, A!Last

LEMMA TeardownStepType ==
  ASSUME A!TypeOK, A!TeardownStep
  PROVE  A!TypeOK'
<1>1. UNCHANGED <<cancelled, A!jobVars, A!hookVars, waiter>>
  BY DEF A!TeardownStep, A!Wait, A!Snapshot, A!StartHook, A!Deadline, A!AwaitHook, A!Collect
<1>2. A!CtxType' /\ A!JobType' /\ A!HookType' /\ A!WaiterType'
  BY <1>1 DEF A!TypeOK, A!CtxType, A!JobType, A!HookType, A!WaiterType, A!jobVars, A!hookVars
<1>3. A!DownType'
  <2> USE DEF A!TypeOK, A!DownType, A!Phases
  <2>1. CASE A!Wait BY <2>1 DEF A!Wait
  <2>2. CASE A!Snapshot BY <2>2 DEF A!Snapshot, A!HookType
  <2>3. CASE A!StartHook
    <3>1. A!Last(pending) \in Hooks BY <2>3, FrontLast DEF A!StartHook
    <3>2. ran' \in Seq(Hooks) BY <2>3, <3>1 DEF A!StartHook
    <3>3. hookRun' \in [Hooks -> {"idle", "running", "ok", "err"}] BY <2>3, <3>1 DEF A!StartHook
    <3> QED BY <2>3, <3>2, <3>3 DEF A!StartHook
  <2>4. CASE A!Deadline BY <2>4 DEF A!Deadline
  <2>5. CASE A!AwaitHook
    <3>1. pending' \in Seq(Hooks) /\ A!Last(pending) \in Hooks BY <2>5, FrontLast DEF A!AwaitHook
    <3>2. hookErrs' \subseteq Hooks BY <2>5, <3>1 DEF A!AwaitHook
    <3> QED BY <2>5, <3>1, <3>2 DEF A!AwaitHook
  <2>6. CASE A!Collect BY <2>6 DEF A!Collect, A!JobType
  <2> QED BY <2>1, <2>2, <2>3, <2>4, <2>5, <2>6 DEF A!TeardownStep
<1> QED BY <1>2, <1>3 DEF A!TypeOK

\* Every variable keeps its type in every step of every actor.
THEOREM AppTypeCorrect == AppSpec => []A!TypeOK
<1>1. A!TypeOK /\ [A!Next]_(A!vars) => A!TypeOK'
  <2> SUFFICES ASSUME A!TypeOK, [A!Next]_(A!vars) PROVE A!TypeOK'
    OBVIOUS
  <2>1. CASE UNCHANGED A!vars
    BY <2>1 DEF A!vars, A!TypeOK, A!CtxType, A!JobType, A!HookType, A!DownType, A!WaiterType,
       A!jobVars, A!hookVars, A!downVars
  <2> QED BY <2>1, GoStepType, ComponentStepType, HookStepType, WaiterStepType,
             TeardownStepType DEF A!Next
<1> QED BY AppInitType, <1>1, PTL DEF AppSpec, A!Spec

-----------------------------------------------------------------------------
(* wg counts exactly the goroutines between Add and Done: with that, the    *)
(* order "wait, then hooks" is inductive.                                   *)
WgInv == \A j \in A!Jobs : j \in counted <=> job[j] \in A!InWg
WaitInv == WgInv /\ A!HooksAfterGoroutines

LEMMA GoStepWait ==
  ASSUME A!TypeOK, WaitInv, NEW j \in A!Jobs, A!GoStep(j)
  PROVE  WaitInv'
<1> USE DEF A!TypeOK, A!JobType, WaitInv, WgInv, A!HooksAfterGoroutines, A!InWg, A!WaitReturned, A!downVars
<1>1. CASE A!GoCheck(j) BY <1>1 DEF A!GoCheck, A!MayCallGo
<1>2. CASE A!GoAdd(j) BY <1>2 DEF A!GoAdd
<1>3. CASE A!FnReturn(j) BY <1>3 DEF A!FnReturn
<1>4. CASE A!GoRecord(j) BY <1>4 DEF A!GoRecord
<1>5. CASE A!GoFailFast(j) BY <1>5 DEF A!GoFailFast
<1>6. CASE A!GoDone(j) BY <1>6 DEF A!GoDone
<1> QED BY <1>1, <1>2, <1>3, <1>4, <1>5, <1>6 DEF A!GoStep

LEMMA ComponentStepWait ==
  ASSUME A!TypeOK, WaitInv, NEW c \in Components, A!ComponentStep(c)
  PROVE  WaitInv'
<1> USE DEF A!TypeOK, A!JobType, WaitInv, WgInv, A!HooksAfterGoroutines, A!InWg,
            A!WaitReturned, A!downVars, A!Jobs
<1>1. CASE A!SuperviseCheck(c) BY <1>1 DEF A!SuperviseCheck
<1>2. CASE A!SuperviseStart(c) BY <1>2 DEF A!SuperviseStart
<1>3. CASE A!Drain(c) BY <1>3 DEF A!Drain
<1> QED BY <1>1, <1>2, <1>3 DEF A!ComponentStep

\* Shutdown waits for the supervised goroutines before it runs a hook: any
\* goroutine still running beside the hooks was counted after Wait returned.
THEOREM HooksAfterGoroutinesHolds == AppSpec => []A!HooksAfterGoroutines
<1>1. A!Init => WaitInv
  BY DEF A!Init, WaitInv, WgInv, A!HooksAfterGoroutines, A!InWg, A!WaitReturned
<1>2. A!TypeOK /\ WaitInv /\ [A!Next]_(A!vars) => WaitInv'
  <2> SUFFICES ASSUME A!TypeOK, WaitInv, [A!Next]_(A!vars) PROVE WaitInv'
    OBVIOUS
  <2> USE DEF WaitInv, WgInv, A!HooksAfterGoroutines, A!WaitReturned, A!jobVars, A!downVars
  <2>1. CASE UNCHANGED A!vars BY <2>1 DEF A!vars
  <2>2. ASSUME NEW h \in Hooks, A!HookStep(h) PROVE WaitInv'
    BY <2>2 DEF A!HookStep, A!HookCheck, A!HookAppend, A!HookReturn
  <2>3. ASSUME NEW w \in A!Waiters, A!WaiterStep(w) PROVE WaitInv'
    BY <2>3 DEF A!WaiterStep, A!RunSelect, A!CallShutdown, A!OnceDo, A!ShutdownReturn
  <2>4. CASE A!TeardownStep
    <3>1. CASE A!Wait BY <3>1 DEF A!Wait
    <3>2. CASE A!Snapshot BY <3>2 DEF A!Snapshot
    <3>3. CASE A!StartHook BY <3>3 DEF A!StartHook
    <3>4. CASE A!Deadline BY <3>4 DEF A!Deadline
    <3>5. CASE A!AwaitHook BY <3>5 DEF A!AwaitHook
    <3>6. CASE A!Collect BY <3>6 DEF A!Collect
    <3> QED BY <2>4, <3>1, <3>2, <3>3, <3>4, <3>5, <3>6 DEF A!TeardownStep
  <2> QED BY <2>1, <2>2, <2>3, <2>4, GoStepWait, ComponentStepWait DEF A!Next
<1>3. WaitInv => A!HooksAfterGoroutines
  BY DEF WaitInv
<1> QED BY <1>1, <1>2, <1>3, AppTypeCorrect, PTL DEF AppSpec, A!Spec

-----------------------------------------------------------------------------
(* The hooks.  Accepting a hook holds hookmu until it is appended and needs *)
(* a live context; the teardown cancels first and copies the hooks under    *)
(* hookmu.  So the copy is final: what was accepted is in it.               *)
Snapshotted == phase \in {"hooks", "awaiting", "done"}
Missing == IF phase = "awaiting" THEN 1 ELSE 0

GateInv ==
  /\ phase # "idle" => cancelled
  /\ \A h \in Hooks : reg[h] = "accepted" <=> hookmu = h
  /\ \A h \in Hooks : reg[h] = "registered" => h \in A!Range(hooks)
  /\ Snapshotted => hookmu = A!NoOne
  /\ \A w \in A!Waiters : waiter[w] = "returned" => phase = "done"

TurnInv ==
  /\ ~Snapshotted => ran = <<>>
  /\ Snapshotted =>
       /\ Len(ran) + Len(pending) = Len(hooks) + Missing
       /\ \A i \in 1..Len(pending) : pending[i] = hooks[i]
       /\ \A i \in 1..Len(ran) : ran[i] = hooks[Len(hooks) - i + 1]
  /\ phase = "done" => pending = <<>>

HookInv == GateInv /\ TurnInv

\* Steps that touch no hook, no lock and no teardown keep HookInv, even when
\* they cancel the context.
LEMMA OutsideHooks ==
  ASSUME HookInv, UNCHANGED <<A!hookVars, phase, pending, ran>>, cancelled => cancelled',
         \A w \in A!Waiters : waiter'[w] = "returned" => waiter[w] = "returned" \/ phase = "done"
  PROVE  HookInv'
BY DEF HookInv, GateInv, TurnInv, Snapshotted, Missing, A!hookVars

LEMMA HookStepInv ==
  ASSUME A!TypeOK, HookInv, NEW h \in Hooks, A!HookStep(h)
  PROVE  HookInv'
<1>1. CASE A!HookReturn(h)
  BY <1>1, OutsideHooks DEF A!HookReturn, HookInv, GateInv, A!hookVars
<1>2. CASE A!HookCheck(h)
  <2>1. UNCHANGED <<hooks, phase, pending, ran, cancelled, waiter>>
    BY <1>2 DEF A!HookCheck, A!downVars
  <2>2. TurnInv'
    BY <2>1 DEF HookInv, TurnInv, Snapshotted, Missing
  <2>3. GateInv'
    BY <1>2, <2>1, AppNames DEF A!HookCheck, HookInv, GateInv, Snapshotted, A!TypeOK, A!HookType,
       A!DownType, A!Phases
  <2> QED BY <2>2, <2>3 DEF HookInv
<1>3. CASE A!HookAppend(h)
  <2>1. UNCHANGED <<phase, pending, ran, cancelled, waiter>>
    BY <1>3 DEF A!HookAppend, A!downVars
  <2>2. ~Snapshotted
    BY <1>3, AppNames DEF A!HookAppend, HookInv, GateInv
  <2>3. TurnInv'
    BY <2>1, <2>2 DEF HookInv, TurnInv, Snapshotted
  <2>4. A!Range(hooks') = A!Range(hooks) \cup {h}
    BY <1>3 DEF A!HookAppend, A!Range, A!TypeOK, A!HookType
  <2>5. GateInv'
    BY <1>3, <2>1, <2>2, <2>4, AppNames DEF A!HookAppend, HookInv, GateInv, Snapshotted,
       A!TypeOK, A!HookType
  <2> QED BY <2>3, <2>5 DEF HookInv
<1> QED BY <1>1, <1>2, <1>3 DEF A!HookStep

LEMMA WaiterStepInv ==
  ASSUME A!TypeOK, HookInv, NEW w \in A!Waiters, A!WaiterStep(w)
  PROVE  HookInv'
<1>1. CASE A!RunSelect(w) \/ A!CallShutdown(w) \/ A!ShutdownReturn(w)
  BY <1>1, OutsideHooks DEF A!RunSelect, A!CallShutdown, A!ShutdownReturn, A!TypeOK, A!WaiterType,
     A!downVars
<1>2. CASE A!OnceDo(w)
  BY <1>2 DEF A!OnceDo, HookInv, GateInv, TurnInv, Snapshotted, Missing, A!hookVars
<1> QED BY <1>1, <1>2 DEF A!WaiterStep

LEMMA TeardownGate ==
  ASSUME A!TypeOK, HookInv, A!TeardownStep
  PROVE  GateInv'
<1> USE DEF HookInv, GateInv, Snapshotted, A!TypeOK, A!DownType, A!Phases, A!hookVars
<1>1. CASE A!Wait BY <1>1 DEF A!Wait
<1>2. CASE A!Snapshot BY <1>2 DEF A!Snapshot
<1>3. CASE A!StartHook BY <1>3 DEF A!StartHook
<1>4. CASE A!Deadline BY <1>4 DEF A!Deadline
<1>5. CASE A!AwaitHook BY <1>5 DEF A!AwaitHook
<1>6. CASE A!Collect BY <1>6 DEF A!Collect
<1> QED BY <1>1, <1>2, <1>3, <1>4, <1>5, <1>6 DEF A!TeardownStep

LEMMA TeardownOrder ==
  ASSUME A!TypeOK, HookInv, A!TeardownStep
  PROVE  TurnInv'
<1> USE DEF HookInv, TurnInv, Snapshotted, Missing, A!hookVars
<1>1. CASE A!Wait BY <1>1 DEF A!Wait
<1>2. CASE A!Snapshot BY <1>2 DEF A!Snapshot, A!TypeOK, A!HookType
<1>3. CASE A!StartHook
  <2>1. /\ pending \in Seq(Hooks) /\ pending # <<>> /\ ran \in Seq(Hooks)
        /\ pending' = pending /\ hooks' = hooks
        /\ ran' = Append(ran, pending[Len(pending)])
    BY <1>3 DEF A!StartHook, A!TypeOK, A!DownType, A!Last
  <2>2. phase = "hooks" /\ phase' = "awaiting"
    BY <1>3 DEF A!StartHook
  <2>3. Len(pending) = Len(hooks) - Len(ran) /\ Len(pending) > 0 /\ hooks \in Seq(Hooks)
    BY <2>1, <2>2 DEF A!TypeOK, A!HookType
  <2>4. pending[Len(pending)] = hooks[Len(hooks) - (Len(ran) + 1) + 1]
    <3>1. Len(hooks) - (Len(ran) + 1) + 1 = Len(pending) /\ Len(pending) \in 1..Len(pending)
      BY <2>1, <2>3
    <3>2. \A i \in 1..Len(pending) : pending[i] = hooks[i]
      BY <2>2
    <3> QED BY <3>1, <3>2, Zenon
  <2>5. \A i \in 1..Len(ran') : ran'[i] = hooks[Len(hooks) - i + 1]
    BY <2>1, <2>2, <2>3, <2>4
  <2>6. Len(ran') + Len(pending') = Len(hooks') + 1
    BY <2>1, <2>2, <2>3
  <2>7. \A i \in 1..Len(pending') : pending'[i] = hooks'[i]
    BY <2>1, <2>2
  <2> QED BY <2>1, <2>2, <2>5, <2>6, <2>7
<1>4. CASE A!Deadline BY <1>4 DEF A!Deadline
<1>5. CASE A!AwaitHook
  <2>1. /\ pending \in Seq(Hooks) /\ pending # <<>> /\ ran \in Seq(Hooks) /\ hooks \in Seq(Hooks)
        /\ pending' = SubSeq(pending, 1, Len(pending) - 1)
        /\ UNCHANGED <<ran, hooks>>
    BY <1>5 DEF A!AwaitHook, A!TypeOK, A!DownType, A!HookType, A!Front
  <2>2. phase = "awaiting" /\ phase' = "hooks"
    BY <1>5 DEF A!AwaitHook
  <2>3. Len(pending') = Len(pending) - 1 /\ \A i \in 1..Len(pending') : pending'[i] = pending[i]
    <3> HIDE DEF HookInv
    <3>1. Len(pending) - 1 \in Nat /\ Len(pending) - 1 <= Len(pending)
      BY <2>1
    <3> QED BY <2>1, <3>1, Prefix
  <2>4. Len(ran') + Len(pending') = Len(hooks')
    BY <2>1, <2>2, <2>3
  <2>5. \A i \in 1..Len(pending') : pending'[i] = hooks'[i]
    BY <2>1, <2>2, <2>3
  <2> QED BY <2>1, <2>2, <2>4, <2>5
<1>6. CASE A!Collect BY <1>6 DEF A!Collect
<1> QED BY <1>1, <1>2, <1>3, <1>4, <1>5, <1>6 DEF A!TeardownStep

LEMMA HookInvariant == AppSpec => []HookInv
<1>1. A!Init => HookInv
  BY AppNames DEF A!Init, HookInv, GateInv, TurnInv, Snapshotted, Missing
<1>2. A!TypeOK /\ HookInv /\ [A!Next]_(A!vars) => HookInv'
  <2> SUFFICES ASSUME A!TypeOK, HookInv, [A!Next]_(A!vars) PROVE HookInv'
    OBVIOUS
  <2>1. ASSUME NEW j \in A!Jobs, A!GoStep(j) PROVE HookInv'
    <3>1. UNCHANGED <<A!hookVars, phase, pending, ran, waiter>> /\ (cancelled => cancelled')
      BY <2>1 DEF A!GoStep, A!GoCheck, A!GoAdd, A!FnReturn, A!GoRecord, A!GoFailFast, A!GoDone, A!downVars
    <3> QED BY <3>1, OutsideHooks
  <2>2. ASSUME NEW c \in Components, A!ComponentStep(c) PROVE HookInv'
    BY <2>2, OutsideHooks DEF A!ComponentStep, A!SuperviseCheck, A!SuperviseStart, A!Drain, A!downVars
  <2>3. CASE UNCHANGED A!vars BY <2>3, OutsideHooks DEF A!vars, A!downVars
  <2>4. CASE A!TeardownStep BY <2>4, TeardownGate, TeardownOrder DEF HookInv
  <2> QED BY <2>1, <2>2, <2>3, <2>4, HookStepInv, WaiterStepInv DEF A!Next
<1> QED BY <1>1, <1>2, AppTypeCorrect, PTL DEF AppSpec, A!Spec

\* Shutdown runs the hooks in the reverse of the order OnShutdown accepted
\* them, none skipped and none twice.
THEOREM HooksRunLIFOHolds == AppSpec => []A!HooksRunLIFO
<1>1. A!TypeOK /\ HookInv => A!HooksRunLIFO
  <2> SUFFICES ASSUME A!TypeOK, HookInv PROVE A!HooksRunLIFO
    OBVIOUS
  <2>1. ran \in Seq(Hooks) /\ hooks \in Seq(Hooks) /\ pending \in Seq(Hooks)
    BY DEF A!TypeOK, A!DownType, A!HookType
  <2>2. /\ Len(ran) <= Len(hooks)
        /\ \A i \in 1..Len(ran) : ran[i] = hooks[Len(hooks) - i + 1]
    <3>1. CASE ~Snapshotted BY <2>1, <3>1 DEF HookInv, TurnInv
    <3>2. CASE Snapshotted
      <4>1. Len(pending) >= Missing
        BY <2>1, <3>2 DEF A!TypeOK, A!DownType, Missing
      <4> QED BY <2>1, <3>2, <4>1 DEF HookInv, TurnInv, Missing
    <3> QED BY <3>1, <3>2
  <2>3. A!Reverse(hooks) \in Seq(Hooks) /\ Len(A!Reverse(hooks)) = Len(hooks)
        /\ \A i \in 1..Len(hooks) : A!Reverse(hooks)[i] = hooks[Len(hooks) - i + 1]
    BY <2>1 DEF A!Reverse
  <2>4. /\ SubSeq(A!Reverse(hooks), 1, Len(ran)) \in Seq(Hooks)
        /\ Len(SubSeq(A!Reverse(hooks), 1, Len(ran))) = Len(ran)
        /\ \A i \in 1..Len(ran) : SubSeq(A!Reverse(hooks), 1, Len(ran))[i] = ran[i]
    <3> DEFINE R == A!Reverse(hooks)
               n == Len(ran)
    <3>1. R \in Seq(Hooks) /\ n \in Nat /\ n <= Len(R)
      BY <2>1, <2>2, <2>3
    <3>2. ASSUME NEW i \in 1..n PROVE R[i] = ran[i]
      <4>1. i \in 1..Len(hooks) /\ i \in 1..Len(ran)
        BY <2>1, <2>2
      <4> QED BY <4>1, <2>2, <2>3
    <3> HIDE DEF R, n
    <3>3. /\ SubSeq(R, 1, n) \in Seq(Hooks) /\ Len(SubSeq(R, 1, n)) = n
          /\ \A i \in 1..n : SubSeq(R, 1, n)[i] = R[i]
      BY <3>1, Prefix
    <3>4. \A i \in 1..n : SubSeq(R, 1, n)[i] = ran[i]
      BY <3>2, <3>3
    <3> QED BY <3>3, <3>4 DEF R, n
  <2> DEFINE T == SubSeq(A!Reverse(hooks), 1, Len(ran))
  <2>5. ran \in Seq(Hooks) /\ T \in Seq(Hooks) /\ Len(ran) = Len(T)
        /\ \A i \in 1..Len(ran) : ran[i] = T[i]
    BY <2>1, <2>4
  <2> HIDE DEF T
  <2>6. ran = T
    BY <2>5, SeqEqual
  <2> QED BY <2>6 DEF A!HooksRunLIFO, T
<1> QED BY <1>1, HookInvariant, AppTypeCorrect, PTL

\* By the time any Run or Shutdown call returns, every hook that OnShutdown
\* accepted has been started.
THEOREM AcceptedHooksRunHolds == AppSpec => []A!AcceptedHooksRun
<1>1. A!TypeOK /\ HookInv => A!AcceptedHooksRun
  <2> SUFFICES ASSUME A!TypeOK, HookInv, NEW w \in A!Waiters, waiter[w] = "returned",
                      NEW h \in Hooks, reg[h] \in {"accepted", "registered"}
               PROVE  h \in A!Range(ran)
    BY DEF A!AcceptedHooksRun
  <2>1. phase = "done" /\ hookmu = A!NoOne
    BY DEF HookInv, GateInv, Snapshotted
  <2>2. h \in A!Range(hooks)
    BY <2>1, AppNames DEF HookInv, GateInv
  <2>3. ran \in Seq(Hooks) /\ hooks \in Seq(Hooks)
        /\ Len(ran) = Len(hooks) /\ \A i \in 1..Len(ran) : ran[i] = hooks[Len(hooks) - i + 1]
    BY <2>1 DEF HookInv, TurnInv, Snapshotted, Missing, A!TypeOK, A!DownType, A!HookType
  <2>4. PICK k \in 1..Len(hooks) : hooks[k] = h
    BY <2>2, <2>3 DEF A!Range
  <2>5. ran[Len(hooks) - k + 1] = h /\ Len(hooks) - k + 1 \in DOMAIN ran
    BY <2>3, <2>4
  <2> QED BY <2>5 DEF A!Range
<1> QED BY <1>1, HookInvariant, AppTypeCorrect, PTL

\* Every hook OnShutdown accepted runs, once, in the reverse of the order of
\* acceptance, after the goroutines that were counted when Wait returned, and
\* has been started when a Run or Shutdown call returns.
THEOREM HooksRunHolds == AppSpec => []HooksRun
  BY HooksAfterGoroutinesHolds, HooksRunLIFOHolds, AcceptedHooksRunHolds, PTL DEF A!HooksRun, HooksRun

-----------------------------------------------------------------------------
(* The errors.  A failure is recorded before wg lets its goroutine go, and  *)
(* the outcome of a hook is taken down, or its deadline, before the next    *)
(* one starts: so nothing is missing when the errors are joined.            *)
JobErrors ==
  /\ \A j \in failures : job[j] \in {"failed", "recorded", "returned", "exited"}
  /\ \A j \in failures : job[j] # "failed" => j \in goErr
HookErrors ==
  \A h \in Hooks : hookRun[h] \in {"running", "err"} =>
    h \in hookErrs \/ (phase = "awaiting" /\ h = A!Last(pending))
Joined == phase = "done" => failures \ lateJobs \subseteq result /\ hookErrs \subseteq result
ReportInv == JobErrors /\ HookErrors /\ Joined

LEMMA GoStepReport ==
  ASSUME A!TypeOK, A!HooksAfterGoroutines, ReportInv, NEW j \in A!Jobs, A!GoStep(j)
  PROVE  ReportInv'
<1> USE DEF A!TypeOK, A!JobType, ReportInv, JobErrors, HookErrors, Joined, A!downVars
<1>1. CASE A!GoCheck(j) BY <1>1 DEF A!GoCheck, A!MayCallGo
<1>2. CASE A!GoAdd(j) BY <1>2 DEF A!GoAdd
<1>3. CASE A!FnReturn(j)
  BY <1>3 DEF A!FnReturn, A!HooksAfterGoroutines, A!WaitReturned, A!InWg
<1>4. CASE A!GoRecord(j) BY <1>4 DEF A!GoRecord
<1>5. CASE A!GoFailFast(j) BY <1>5 DEF A!GoFailFast
<1>6. CASE A!GoDone(j) BY <1>6 DEF A!GoDone
<1> QED BY <1>1, <1>2, <1>3, <1>4, <1>5, <1>6 DEF A!GoStep

LEMMA TeardownReport ==
  ASSUME A!TypeOK, A!HooksAfterGoroutines, ReportInv, A!TeardownStep
  PROVE  ReportInv'
<1> USE DEF A!TypeOK, A!DownType, A!Phases, ReportInv, JobErrors, HookErrors, Joined, A!jobVars, A!hookVars
<1>1. CASE A!Wait BY <1>1 DEF A!Wait
<1>2. CASE A!Snapshot BY <1>2 DEF A!Snapshot
<1>3. CASE A!StartHook BY <1>3 DEF A!StartHook
<1>4. CASE A!Deadline BY <1>4 DEF A!Deadline
<1>5. CASE A!AwaitHook BY <1>5 DEF A!AwaitHook
<1>6. CASE A!Collect
  <2>1. failures \ lateJobs \subseteq goErr
    BY <1>6 DEF A!Collect, A!HooksAfterGoroutines, A!WaitReturned, A!InWg, A!JobType
  <2> QED BY <1>6, <2>1 DEF A!Collect
<1> QED BY <1>1, <1>2, <1>3, <1>4, <1>5, <1>6 DEF A!TeardownStep

LEMMA ReportStep ==
  A!TypeOK /\ A!HooksAfterGoroutines /\ ReportInv /\ [A!Next]_(A!vars) => ReportInv'
<1> SUFFICES ASSUME A!TypeOK, A!HooksAfterGoroutines, ReportInv, [A!Next]_(A!vars) PROVE ReportInv'
  OBVIOUS
<1> USE DEF ReportInv, JobErrors, HookErrors, Joined, A!jobVars, A!downVars
<1>1. ASSUME NEW c \in Components, A!ComponentStep(c) PROVE ReportInv'
  <2> USE <1>1 DEF A!TypeOK, A!JobType, A!Jobs
  <2>1. CASE A!SuperviseCheck(c) BY <2>1 DEF A!SuperviseCheck
  <2>2. CASE A!SuperviseStart(c) BY <2>2 DEF A!SuperviseStart
  <2>3. CASE A!Drain(c) BY <2>3 DEF A!Drain
  <2> QED BY <2>1, <2>2, <2>3 DEF A!ComponentStep
<1>2. ASSUME NEW h \in Hooks, A!HookStep(h) PROVE ReportInv'
  <2>1. CASE A!HookCheck(h) \/ A!HookAppend(h) BY <2>1 DEF A!HookCheck, A!HookAppend
  <2>2. CASE A!HookReturn(h) BY <2>2 DEF A!HookReturn, A!TypeOK, A!DownType
  <2> QED BY <1>2, <2>1, <2>2 DEF A!HookStep
<1>3. ASSUME NEW w \in A!Waiters, A!WaiterStep(w) PROVE ReportInv'
  BY <1>3 DEF A!WaiterStep, A!RunSelect, A!CallShutdown, A!OnceDo, A!ShutdownReturn
<1>4. CASE UNCHANGED A!vars BY <1>4 DEF A!vars
<1> HIDE DEF ReportInv
<1> QED BY <1>1, <1>2, <1>3, <1>4, GoStepReport, TeardownReport DEF A!Next

\* What Run and Shutdown return names every goroutine that failed, except one
\* Go counted after Wait returned, and every hook that failed in time
\* (recordErr before wg.Done, runHook's select, errors.Join in shutdown).
THEOREM ErrorsReportedHolds == AppSpec => []ErrorsReported
<1>1. A!Init => ReportInv
  BY DEF A!Init, ReportInv, JobErrors, HookErrors, Joined
<1>2. ReportInv => A!ErrorsReported
  BY DEF ReportInv, HookErrors, Joined, A!ErrorsReported
<1> QED BY <1>1, <1>2, ReportStep, AppTypeCorrect, HooksAfterGoroutinesHolds, PTL
     DEF AppSpec, A!Spec, ErrorsReported, A!ErrorsReported
=============================================================================
