---------------------------- MODULE FanOutProofs ----------------------------
(* The sink port: Push and Close exclude each other, what a port that closed *)
(* of itself had accepted has reached its adapters, and each adapter sees a  *)
(* bounded first-in-first-out link.  The broadcast hub: it neither sends to  *)
(* a closed channel nor closes one twice, and no session loses, repeats or   *)
(* reorders a value.  The pipe port: each pair of a producer side and an     *)
(* output is a bounded first-in-first-out link.  All for any number of       *)
(* calls, adapters, outputs, sessions and values, and every buffer size.     *)
EXTENDS MCFanOut, MCPipePort, SequenceLemmas

(* The lock protocol: a reader is inside only while the port is open, and   *)
(* only Close, which needs all readers out, ends that.                      *)
GateType ==
  /\ mode \in {"none", "push", "closed"}
  /\ push \in [Pushers -> {"idle", "locking", "sending", "sent", "cancelled", "notStarted"}]
  /\ close \in [Closers -> {"idle", "locking", "waiting", "returned"}]
GateInv ==
  /\ GateType
  /\ \A p \in Pushers : push[p] = "sending" => mode = "push"
  /\ pushClosed <=> mode = "closed"

LEMMA GateInit == Init => GateInv
BY DEF Init, GateInv, GateType

LEMMA GateStep == GateInv /\ [Next]_vars => GateInv'
<1> SUFFICES ASSUME GateInv, [Next]_vars PROVE GateInv'
  OBVIOUS
<1> USE DEF GateInv, GateType
<1>1. CASE Start
  BY <1>1 DEF Start, Readers
<1>2. ASSUME NEW p \in Pushers, PushStep(p) PROVE GateInv'
  <2>1. CASE PushCall(p) BY <2>1 DEF PushCall
  <2>2. CASE PushLock(p) BY <2>2 DEF PushLock
  <2>3. CASE PushSend(p) BY <2>3 DEF PushSend
  <2>4. CASE PushGiveUp(p) BY <2>4 DEF PushGiveUp
  <2> QED BY <1>2, <2>1, <2>2, <2>3, <2>4 DEF PushStep
<1>3. ASSUME NEW c \in Closers, CloseStep(c) PROVE GateInv'
  <2>1. CASE CloseCall(c) BY <2>1 DEF CloseCall
  <2>2. CASE CloseLock(c) BY <2>2 DEF CloseLock, Readers
  <2>3. CASE CloseReturn(c) BY <2>3 DEF CloseReturn
  <2> QED BY <1>3, <2>1, <2>2, <2>3 DEF CloseStep
<1>4. CASE Cancel BY <1>4 DEF Cancel, callVars
<1>5. CASE FromStep
  BY <1>5 DEF FromStep, FromReceive, FromExit, callVars
<1>6. CASE DrainStep
  BY <1>6 DEF DrainStep, DrainReceive, FeedClose, FeedDone, callVars
<1>7. ASSUME NEW a \in Adapters, FeedStep(a) \/ AdapterStep(a) PROVE GateInv'
  BY <1>7 DEF FeedStep, FeedSend, FeedGiveUp, AdapterStep, AdapterReceive, AdapterExit, callVars
<1>8. CASE UNCHANGED vars BY <1>8 DEF vars
<1> QED BY <1>1, <1>2, <1>3, <1>4, <1>5, <1>6, <1>7, <1>8 DEF Next

\* No Push is ever in the middle of a send when pushCh is closed, so no Push
\* panics (the comment on SinkPort.Push).
THEOREM NoSendOnClosedHolds == Spec => []NoSendOnClosed
<1>1. GateInv => NoSendOnClosed
  BY DEF GateInv, NoSendOnClosed, Readers
<1> QED BY <1>1, GateInit, GateStep, PTL DEF Spec

-----------------------------------------------------------------------------
(* The way of an item to an adapter: four places one after the other, and   *)
(* what becomes of the whole when an item enters, moves on, leaves or is    *)
(* lost.                                                                    *)

Way(p, q, r, u) == p \o q \o r \o u

LEMMA WayLength ==
  ASSUME NEW S, NEW p \in Seq(S), NEW q \in Seq(S), NEW r \in Seq(S), NEW u \in Seq(S)
  PROVE  /\ Way(p, q, r, u) \in Seq(S)
         /\ Len(Way(p, q, r, u)) = Len(p) + Len(q) + Len(r) + Len(u)
BY DEF Way

LEMMA EnterLast ==
  ASSUME NEW S, NEW p \in Seq(S), NEW q \in Seq(S), NEW r \in Seq(S), NEW u \in Seq(S),
         NEW x \in S, NEW w \in Seq(S), w = Way(p, q, r, u)
  PROVE  Way(p, q, r, Append(u, x)) = Append(w, x)
<1>1. /\ p \o q \in Seq(S) /\ p \o q \o r \in Seq(S) /\ <<x>> \in Seq(S)
      /\ (p \o q \o r) \o u \in Seq(S)
  OBVIOUS
<1>2. Append(u, x) = u \o <<x>> /\ Append(w, x) = w \o <<x>>
  BY <1>1, AppendIsConcat
<1>3. PICK v \in Seq(S) : v = p \o q \o r
  BY <1>1
<1>4. v \o (u \o <<x>>) = (v \o u) \o <<x>>
  BY <1>1, ConcatAssociative
<1> QED BY <1>2, <1>3, <1>4 DEF Way

LEMMA EnterHand ==
  ASSUME NEW S, NEW p \in Seq(S), NEW q \in Seq(S), NEW x \in S,
         NEW w \in Seq(S), w = Way(p, q, <<>>, <<>>)
  PROVE  Way(p, q, <<x>>, <<>>) = Append(w, x)
<1>1. p \o q \in Seq(S) /\ <<x>> \in Seq(S) /\ (p \o q) \o <<x>> \in Seq(S)
  OBVIOUS
<1>2. ((p \o q) \o <<x>>) \o <<>> = (p \o q) \o <<x>> /\ (p \o q) \o <<>> = p \o q
  BY <1>1, ConcatEmptySeq
<1>3. w = p \o q
  BY <1>2 DEF Way
<1> QED BY <1>1, <1>2, <1>3, AppendIsConcat DEF Way

LEMMA MoveToHand ==
  ASSUME NEW S, NEW p \in Seq(S), NEW q \in Seq(S), NEW u \in Seq(S), u # <<>>
  PROVE  Way(p, q, <<Head(u)>>, Tail(u)) = Way(p, q, <<>>, u)
<1>1. Head(u) \in S /\ <<Head(u)>> \in Seq(S) /\ Tail(u) \in Seq(S) /\ p \o q \in Seq(S)
  BY HeadTailProperties
<1>2. <<Head(u)>> \o Tail(u) = u
  BY <1>1
<1>5. ASSUME NEW a \in Seq(S), NEW b \in Seq(S), NEW c \in Seq(S)
      PROVE  (a \o b) \o c = a \o (b \o c)
  BY ConcatAssociative
<1>3. ((p \o q) \o <<Head(u)>>) \o Tail(u) = (p \o q) \o (<<Head(u)>> \o Tail(u))
  BY ONLY <1>1, <1>5, Zenon
<1>4. (p \o q) \o <<>> = p \o q
  BY <1>1, ConcatEmptySeq
<1> QED BY <1>2, <1>3, <1>4 DEF Way

LEMMA MoveOn ==
  ASSUME NEW S, NEW p \in Seq(S), NEW u \in Seq(S), NEW x \in S
  PROVE  Way(p, <<x>>, <<>>, u) = Way(p, <<>>, <<x>>, u)
<1>1. p \o <<x>> \in Seq(S)
  OBVIOUS
<1>2. (p \o <<x>>) \o <<>> = p \o <<x>> /\ p \o <<>> = p
  BY <1>1, ConcatEmptySeq
<1> QED BY <1>2 DEF Way

LEMMA MoveToFirst ==
  ASSUME NEW S, NEW p \in Seq(S), NEW r \in Seq(S), NEW u \in Seq(S), NEW x \in S
  PROVE  Way(Append(p, x), <<>>, r, u) = Way(p, <<x>>, r, u)
<1>1. p \o <<x>> \in Seq(S) /\ Append(p, x) = p \o <<x>>
  BY AppendIsConcat
<1>2. (p \o <<x>>) \o <<>> = p \o <<x>>
  BY <1>1, ConcatEmptySeq
<1> QED BY <1>1, <1>2 DEF Way

LEMMA ConcatTail ==
  ASSUME NEW S, NEW s \in Seq(S), NEW t \in Seq(S), s # <<>>
  PROVE  /\ s \o t \in Seq(S) /\ s \o t # <<>>
         /\ Head(s \o t) = Head(s) /\ Tail(s \o t) = Tail(s) \o t
<1>1. s \o t \in Seq(S) /\ s \o t # <<>> /\ Head(s \o t) = Head(s)
  OBVIOUS
<1>2. Tail(s) \in Seq(S) /\ Tail(s) \o t \in Seq(S) /\ Tail(s \o t) \in Seq(S)
  BY <1>1, HeadTailProperties, ConcatProperties
<1>3. Len(Tail(s \o t)) = Len(Tail(s) \o t)
  BY <1>1, <1>2
<1>4. \A i \in 1 .. Len(Tail(s \o t)) : Tail(s \o t)[i] = (Tail(s) \o t)[i]
  BY <1>1, <1>2
<1> QED BY <1>1, <1>2, <1>3, <1>4, SeqEqual

LEMMA LeaveFirst ==
  ASSUME NEW S, NEW p \in Seq(S), NEW q \in Seq(S), NEW r \in Seq(S), NEW u \in Seq(S),
         NEW w \in Seq(S), w = Way(p, q, r, u), p # <<>>
  PROVE  w # <<>> /\ Head(w) = Head(p) /\ Tail(w) = Way(Tail(p), q, r, u)
<1>1. /\ p \o q \in Seq(S) /\ p \o q # <<>> /\ Head(p \o q) = Head(p)
      /\ Tail(p \o q) = Tail(p) \o q
  BY ConcatTail
<1>2. /\ (p \o q) \o r \in Seq(S) /\ (p \o q) \o r # <<>> /\ Head((p \o q) \o r) = Head(p \o q)
      /\ Tail((p \o q) \o r) = Tail(p \o q) \o r
  BY <1>1, ConcatTail
<1>3. PICK v \in Seq(S) : v = (p \o q) \o r
  BY <1>2
<1>4. v # <<>> /\ Head(v) = Head(p) /\ Tail(v) = Tail(p) \o q \o r
  BY <1>1, <1>2, <1>3
<1>5. v \o u # <<>> /\ Head(v \o u) = Head(v) /\ Tail(v \o u) = Tail(v) \o u
  BY <1>3, <1>4, ConcatTail
<1> QED BY <1>3, <1>4, <1>5 DEF Way

LEMMA LeaveHand ==
  ASSUME NEW S, NEW r \in Seq(S), NEW u \in Seq(S), NEW x \in S,
         NEW w \in Seq(S), w = Way(<<>>, <<x>>, r, u)
  PROVE  w # <<>> /\ Head(w) = x /\ Tail(w) = Way(<<>>, <<>>, r, u)
<1>1. <<x>> \in Seq(S) /\ <<x>> # <<>> /\ Head(<<x>>) = x /\ Tail(<<x>>) = <<>>
  OBVIOUS
<1>2. <<>> \o <<x>> = <<x>> /\ <<>> \o <<>> = <<>>
  BY <1>1, ConcatEmptySeq
<1>3. /\ <<x>> \o r \in Seq(S) /\ <<x>> \o r # <<>> /\ Head(<<x>> \o r) = x
      /\ Tail(<<x>> \o r) = <<>> \o r
  BY <1>1, ConcatTail
<1>4. /\ (<<x>> \o r) \o u # <<>> /\ Head((<<x>> \o r) \o u) = x
      /\ Tail((<<x>> \o r) \o u) = Tail(<<x>> \o r) \o u
  BY <1>3, ConcatTail
<1> QED BY <1>2, <1>3, <1>4 DEF Way

LEMMA WayLose ==
  ASSUME NEW S, NEW p \in Seq(S), NEW q \in Seq(S), NEW r \in Seq(S), NEW u \in Seq(S),
         NEW x \in S
  PROVE  /\ \E i \in DOMAIN Way(p, q, <<x>>, u) :
              Way(p, q, <<>>, u) = RemoveAt(Way(p, q, <<x>>, u), i)
         /\ \E i \in DOMAIN Way(p, <<x>>, r, u) :
              Way(p, <<>>, r, u) = RemoveAt(Way(p, <<x>>, r, u), i)
<1>1. ASSUME NEW s \in Seq(S), NEW t \in Seq(S)
      PROVE  \E i \in DOMAIN ((s \o <<x>>) \o t) : s \o t = RemoveAt((s \o <<x>>) \o t, i)
  <2> DEFINE w == (s \o <<x>>) \o t
             l == SubSeq(w, 1, Len(s))
             m == SubSeq(w, Len(s) + 2, Len(w))
  <2>1. /\ w \in Seq(S) /\ Len(w) = Len(s) + 1 + Len(t) /\ Len(s) \in Nat /\ Len(t) \in Nat
        /\ \A i \in 1 .. Len(s) : w[i] = s[i]
        /\ \A i \in 1 .. Len(t) : w[Len(s) + 1 + i] = t[i]
    <3> DEFINE v == s \o <<x>>
    <3>1. /\ v \in Seq(S) /\ Len(v) = Len(s) + 1 /\ Len(s) \in Nat /\ Len(t) \in Nat
          /\ \A i \in 1 .. Len(s) : v[i] = s[i]
      OBVIOUS
    <3> HIDE DEF v
    <3>5. v \in Seq(S) /\ t \in Seq(S) BY <3>1
    <3>2. /\ v \o t \in Seq(S) /\ Len(v \o t) = Len(v) + Len(t)
          /\ \A i \in 1 .. Len(v) : (v \o t)[i] = v[i]
          /\ \A i \in 1 .. Len(t) : (v \o t)[Len(v) + i] = t[i]
      BY ONLY <3>5
    <3>3. w = v \o t BY DEF v
    <3> HIDE DEF w
    <3>4. \A i \in 1 .. Len(s) : i \in 1 .. Len(v) BY <3>1
    <3> QED BY <3>1, <3>2, <3>3, <3>4
  <2>10. w = (s \o <<x>>) \o t OBVIOUS
  <2> HIDE DEF w
  <2>2. l = s
    <3>1. l \in Seq(S) /\ Len(l) = Len(s) /\ \A i \in 1 .. Len(s) : l[i] = s[i]
      BY <2>1
    <3> QED BY <3>1, SeqEqual
  <2>3. m = t
    <3>1. m \in Seq(S) /\ Len(m) = Len(t) /\ \A i \in 1 .. Len(t) : m[i] = t[i]
      BY <2>1
    <3> QED BY <3>1, SeqEqual
  <2>4. PICK k \in DOMAIN w : k - 1 = Len(s) /\ k + 1 = Len(s) + 2
    <3>1. Len(s) + 1 \in DOMAIN w /\ (Len(s) + 1) - 1 = Len(s) /\ (Len(s) + 1) + 1 = Len(s) + 2
      BY <2>1
    <3> QED BY <3>1
  <2>5. RemoveAt(w, k) = SubSeq(w, 1, k - 1) \o SubSeq(w, k + 1, Len(w))
    BY DEF RemoveAt
  <2>6. SubSeq(w, 1, k - 1) = l /\ SubSeq(w, k + 1, Len(w)) = m
    BY <2>4
  <2> HIDE DEF l, m
  <2>7. s \o t = RemoveAt(w, k)
    BY <2>2, <2>3, <2>5, <2>6
  <2> QED BY <2>7, <2>10
<1>2. p \o q \in Seq(S) /\ r \o u \in Seq(S) /\ p \o <<x>> \in Seq(S) /\ <<x>> \in Seq(S)
  OBVIOUS
<1>3. (p \o q) \o <<>> = p \o q /\ p \o <<>> = p
  BY <1>2, ConcatEmptySeq
<1>4. /\ ((p \o <<x>>) \o r) \o u = (p \o <<x>>) \o (r \o u)
      /\ (p \o r) \o u = p \o (r \o u)
  <2>1. ASSUME NEW s \in Seq(S) PROVE (s \o r) \o u = s \o (r \o u)
    BY ConcatAssociative
  <2>2. p \o <<x>> \in Seq(S) OBVIOUS
  <2> QED BY <2>1, <2>2
<1>5. \E i \in DOMAIN Way(p, q, <<x>>, u) : Way(p, q, <<>>, u) = RemoveAt(Way(p, q, <<x>>, u), i)
  <2>1. \E i \in DOMAIN (((p \o q) \o <<x>>) \o u) :
          (p \o q) \o u = RemoveAt(((p \o q) \o <<x>>) \o u, i)
    BY <1>1, <1>2
  <2> QED BY <1>3, <2>1 DEF Way
<1>6. \E i \in DOMAIN Way(p, <<x>>, r, u) : Way(p, <<>>, r, u) = RemoveAt(Way(p, <<x>>, r, u), i)
  <2>1. \E i \in DOMAIN ((p \o <<x>>) \o (r \o u)) :
          p \o (r \o u) = RemoveAt((p \o <<x>>) \o (r \o u), i)
    BY <1>1, <1>2
  <2> QED BY <1>3, <1>4, <2>1 DEF Way
<1> QED BY <1>5, <1>6

LEMMA LoseHeld ==
  ASSUME NEW S, NEW p \in Seq(S), NEW q \in Seq(S), NEW u \in Seq(S), NEW x \in S,
         NEW w \in Seq(S), w = Way(p, q, <<x>>, u)
  PROVE  \E i \in DOMAIN w : Way(p, q, <<>>, u) = RemoveAt(w, i)
BY WayLose

LEMMA LoseOffered ==
  ASSUME NEW S, NEW p \in Seq(S), NEW r \in Seq(S), NEW u \in Seq(S), NEW x \in S,
         NEW w \in Seq(S), w = Way(p, <<x>>, r, u)
  PROVE  \E i \in DOMAIN w : Way(p, <<>>, r, u) = RemoveAt(w, i)
BY WayLose

-----------------------------------------------------------------------------
(* Every step, seen from an adapter, is one of a first-in-first-out link's. *)

FeedHand(a) == IF drain = "sending" /\ turn <= a THEN <<item>> ELSE <<>>
FromHand == IF from = "holding" THEN <<hold>> ELSE <<>>
WayTo(a) == Way(ch[a], FeedHand(a), FromHand, pushCh)

FlowType ==
  /\ mode = "none" => from = "unborn" /\ drain = "unborn"
  /\ pushCh \in Seq(Pushers) /\ Len(pushCh) <= Cap
  /\ ch \in [Adapters -> Seq(Pushers)] /\ \A a \in Adapters : Len(ch[a]) <= Cap
  /\ delivered \in [Adapters -> Seq(Pushers)]
  /\ accepted \in Seq(Pushers)
  /\ from \in {"unborn", "receiving", "holding", "exited"}
  /\ from = "holding" => hold \in Pushers
  /\ drain \in {"unborn", "receiving", "sending", "closed", "done"}
  /\ drain = "sending" => item \in Pushers /\ turn \in Adapters
  /\ adapter \in [Adapters -> {"running", "exited"}]

LEMMA FlowTypeInit == Init => FlowType
BY SinkAssumption DEF Init, FlowType

LEMMA FlowTypeStep == FlowType /\ [Next]_vars => FlowType'
<1> SUFFICES ASSUME FlowType, [Next]_vars PROVE FlowType'
  OBVIOUS
<1> USE SinkAssumption DEF FlowType, callVars, pipeVars
<1>1. CASE Start BY <1>1 DEF Start
<1>2. ASSUME NEW p \in Pushers, PushStep(p) PROVE FlowType'
  <2>1. CASE PushCall(p) BY <2>1 DEF PushCall
  <2>2. CASE PushLock(p) BY <2>2 DEF PushLock
  <2>3. CASE PushSend(p)
    <3>1. Append(accepted, p) \in Seq(Pushers) /\ Append(pushCh, p) \in Seq(Pushers)
      OBVIOUS
    <3>a. Len(Append(pushCh, p)) = Len(pushCh) + 1 /\ Len(pushCh) \in Nat
      BY AppendProperties
    <3>2. pushCh' \in Seq(Pushers) /\ Len(pushCh') <= Cap
      <4>1. CASE Len(pushCh) < Cap /\ pushCh' = Append(pushCh, p) BY <3>1, <3>a, <4>1
      <4>2. CASE UNCHANGED pushCh BY <4>2
      <4> QED BY <2>3, <4>1, <4>2 DEF PushSend
    <3> QED BY <2>3, <3>1, <3>2 DEF PushSend
  <2>4. CASE PushGiveUp(p) BY <2>4 DEF PushGiveUp
  <2> QED BY <1>2, <2>1, <2>2, <2>3, <2>4 DEF PushStep
<1>3. ASSUME NEW c \in Closers, CloseStep(c) PROVE FlowType'
  BY <1>3 DEF CloseStep, CloseCall, CloseLock, CloseReturn
<1>4. CASE Cancel BY <1>4 DEF Cancel
<1>5. CASE FromReceive
  <2>1. Head(pushCh) \in Pushers /\ Tail(pushCh) \in Seq(Pushers) /\ Len(Tail(pushCh)) <= Cap
    BY <1>5 DEF FromReceive
  <2> QED BY <1>5, <2>1 DEF FromReceive
<1>6. CASE FromExit BY <1>6 DEF FromExit
<1>7. CASE DrainReceive BY <1>7 DEF DrainReceive, Adapters
<1>8. CASE FeedClose \/ FeedDone BY <1>8 DEF FeedClose, FeedDone
<1>9. ASSUME NEW a \in Adapters, FeedSend(a) PROVE FlowType'
  <2>1. item \in Pushers /\ turn = a /\ a \in 1..N /\ N \in Nat
    BY <1>9 DEF FeedSend, Adapters
  <2>2. Append(ch[a], item) \in Seq(Pushers) /\ Append(delivered[a], item) \in Seq(Pushers)
    BY <1>9, <2>1
  <2>a. Len(Append(ch[a], item)) = Len(ch[a]) + 1 /\ Len(ch[a]) \in Nat
    BY <1>9, <2>1, AppendProperties
  <2>3. /\ ch' \in [Adapters -> Seq(Pushers)] /\ \A b \in Adapters : Len(ch'[b]) <= Cap
        /\ delivered' \in [Adapters -> Seq(Pushers)]
    <3>1. CASE ch' = [ch EXCEPT ![a] = Append(@, item)] /\ UNCHANGED delivered /\ Len(ch[a]) < Cap
      BY <2>2, <2>a, <3>1
    <3>2. CASE delivered' = [delivered EXCEPT ![a] = Append(@, item)] /\ UNCHANGED ch
      BY <2>2, <3>2
    <3> QED BY <1>9, <3>1, <3>2 DEF FeedSend
  <2>4. drain' = "sending" => item' \in Pushers /\ turn' \in Adapters
    <3> HIDE DEF FlowType
    <3>1. CASE a = N BY <1>9, <3>1 DEF FeedSend, Advance
    <3>2. CASE a # N
      <4>1. turn' = a + 1 /\ item' = item BY <1>9, <3>2 DEF FeedSend, Advance
      <4> QED BY <2>1, <3>2, <4>1 DEF Adapters
    <3> QED BY <3>1, <3>2
  <2>5. drain' \in {"receiving", "sending"}
    BY <1>9 DEF FeedSend, Advance
  <2> QED BY <1>9, <2>3, <2>4, <2>5 DEF FeedSend
<1>10. ASSUME NEW a \in Adapters, FeedGiveUp(a) PROVE FlowType'
  BY <1>10 DEF FeedGiveUp
<1>11. ASSUME NEW a \in Adapters, AdapterReceive(a) PROVE FlowType'
  <2>1. Head(ch[a]) \in Pushers /\ Tail(ch[a]) \in Seq(Pushers) /\ Len(Tail(ch[a])) <= Cap
    BY <1>11 DEF AdapterReceive
  <2> QED BY <1>11, <2>1 DEF AdapterReceive
<1>12. ASSUME NEW a \in Adapters, AdapterExit(a) PROVE FlowType'
  BY <1>12 DEF AdapterExit
<1>13. CASE UNCHANGED vars BY <1>13 DEF vars
<1> HIDE DEF FlowType
<1> QED
  BY <1>1, <1>2, <1>3, <1>4, <1>5, <1>6, <1>7, <1>8, <1>9, <1>10, <1>11, <1>12, <1>13
     DEF Next, FromStep, DrainStep, FeedStep, AdapterStep

Stays(a) ==
  /\ WayTo(a)' = WayTo(a) /\ delivered'[a] = delivered[a] /\ accepted' = accepted
  /\ ctxDone' = ctxDone \/ ctxDone' = TRUE
Puts(a) ==
  /\ Len(WayTo(a)) < 2 * Cap + 2
  /\ \E v \in Pushers : WayTo(a)' = Append(WayTo(a), v) /\ accepted' = Append(accepted, v)
  /\ delivered'[a] = delivered[a] /\ ctxDone' = ctxDone
Gets(a) ==
  /\ WayTo(a) # <<>> /\ WayTo(a)' = Tail(WayTo(a))
  /\ delivered'[a] = Append(delivered[a], Head(WayTo(a)))
  /\ accepted' = accepted /\ ctxDone' = ctxDone
Loses(a) ==
  /\ ctxDone /\ \E i \in DOMAIN WayTo(a) : WayTo(a)' = RemoveAt(WayTo(a), i)
  /\ delivered'[a] = delivered[a] /\ accepted' = accepted /\ ctxDone' = ctxDone
Moves(a) == Stays(a) \/ Puts(a) \/ Gets(a) \/ Loses(a)

LEMMA StepMoves ==
  ASSUME FlowType, [Next]_vars, NEW a \in Adapters
  PROVE  Moves(a)
<1> DEFINE f == FeedHand(a)
           h == FromHand
<1>t. /\ ch[a] \in Seq(Pushers) /\ f \in Seq(Pushers) /\ h \in Seq(Pushers) /\ pushCh \in Seq(Pushers)
      /\ Len(ch[a]) <= Cap /\ Len(f) <= 1 /\ Len(pushCh) <= Cap /\ Cap \in Nat
      /\ delivered \in [Adapters -> Seq(Pushers)] /\ ch \in [Adapters -> Seq(Pushers)]
      /\ a \in Nat /\ N \in Nat
  BY SinkAssumption DEF FlowType, FeedHand, FromHand, Adapters
<1>l. /\ WayTo(a) \in Seq(Pushers)
      /\ Len(WayTo(a)) = Len(ch[a]) + Len(f) + Len(h) + Len(pushCh)
  BY <1>t, WayLength DEF WayTo
<1>w. PICK w \in Seq(Pushers) : w = WayTo(a)
  BY <1>l
\* Nothing on the way to a changes.
<1>s. ASSUME UNCHANGED <<from, hold, drain, turn, item, pushCh, accepted>>, ch'[a] = ch[a],
             delivered'[a] = delivered[a], ctxDone' = ctxDone \/ ctxDone' = TRUE
      PROVE  Moves(a)
  BY <1>s DEF Moves, Stays, WayTo, FeedHand, FromHand
<1>1. CASE Start
  BY <1>1 DEF Start, FlowType, Moves, Stays, WayTo, FeedHand, FromHand
<1>p. WayTo(a)' = Way(ch'[a], FeedHand(a)', FromHand', pushCh')
  BY DEF WayTo
<1>2. ASSUME NEW p \in Pushers, PushStep(p) PROVE Moves(a)
  <2>1. CASE PushSend(p)
    <3>1. delivered'[a] = delivered[a] /\ ctxDone' = ctxDone /\ accepted' = Append(accepted, p)
      BY <2>1 DEF PushSend
    <3>2. FeedHand(a)' = f /\ ch'[a] = ch[a]
      BY <2>1 DEF PushSend, FeedHand
    <3>3. CASE Len(pushCh) < Cap /\ pushCh' = Append(pushCh, p) /\ UNCHANGED <<from, hold>>
      <4>1. WayTo(a)' = Append(WayTo(a), p)
        <5>1. Way(ch[a], f, h, Append(pushCh, p)) = Append(w, p)
          BY <1>t, <1>w, EnterLast DEF WayTo
        <5>2. FromHand' = h
          BY <3>3 DEF FromHand
        <5> QED BY <1>p, <1>w, <3>2, <3>3, <5>1, <5>2
      <4>2. Len(WayTo(a)) < 2 * Cap + 2
        <5>1. Len(h) <= 1 BY DEF FromHand
        <5> QED BY <1>t, <1>l, <3>3, <5>1
      <4> QED BY <3>1, <4>1, <4>2 DEF Moves, Puts
    <3>4. CASE Cap = 0 /\ from = "receiving" /\ from' = "holding" /\ hold' = p /\ UNCHANGED pushCh
      <4>1. pushCh = <<>> /\ h = <<>> /\ FromHand' = <<p>> /\ pushCh' = <<>>
        BY <1>t, <3>4 DEF FromHand
      <4>2. WayTo(a)' = Append(WayTo(a), p)
        BY <1>t, <1>l, <3>2, <4>1, <1>p, EnterHand DEF WayTo
      <4>3. Len(WayTo(a)) < 2 * Cap + 2
        BY <1>t, <1>l, <3>4, <4>1
      <4> QED BY <3>1, <4>2, <4>3 DEF Moves, Puts
    <3> QED BY <2>1, <3>3, <3>4 DEF PushSend
  <2>2. CASE PushCall(p) BY <1>s, <2>2 DEF PushCall, pipeVars
  <2>3. CASE PushLock(p) BY <1>s, <2>3 DEF PushLock, pipeVars
  <2>4. CASE PushGiveUp(p) BY <1>s, <2>4 DEF PushGiveUp, pipeVars
  <2> QED BY <1>2, <2>1, <2>2, <2>3, <2>4 DEF PushStep
<1>3. ASSUME NEW c \in Closers, CloseStep(c) PROVE Moves(a)
  BY <1>3, <1>s DEF CloseStep, CloseCall, CloseLock, CloseReturn, pipeVars
<1>4. CASE Cancel
  BY <1>4, <1>s DEF Cancel, pipeVars, callVars
<1>5. CASE FromReceive
  <2>1. /\ h = <<>> /\ FromHand' = <<Head(pushCh)>> /\ pushCh' = Tail(pushCh) /\ pushCh # <<>>
        /\ FeedHand(a)' = f /\ ch'[a] = ch[a] /\ delivered'[a] = delivered[a]
        /\ accepted' = accepted /\ ctxDone' = ctxDone
    BY <1>5 DEF FromReceive, FromHand, FeedHand
  <2>2. Head(pushCh) \in Pushers
    BY <1>t, <2>1
  <2>3. WayTo(a)' = WayTo(a)
    BY <1>t, <2>1, <2>2, <1>p, MoveToHand DEF WayTo
  <2> QED BY <2>1, <2>3 DEF Moves, Stays
<1>6. CASE FromExit
  <2>1. /\ FromHand' = <<>> /\ pushCh' = pushCh
        /\ FeedHand(a)' = f /\ ch'[a] = ch[a] /\ delivered'[a] = delivered[a]
        /\ accepted' = accepted /\ ctxDone' = ctxDone
    BY <1>6 DEF FromExit, FromHand, FeedHand, callVars
  <2>2. CASE from = "holding"
    <3>1. h = <<hold>> /\ hold \in Pushers /\ ctxDone
      BY <1>6, <2>2 DEF FromExit, FromHand, FlowType
    <3>2. w = Way(ch[a], f, <<hold>>, pushCh) /\ WayTo(a)' = Way(ch[a], f, <<>>, pushCh)
      BY <1>p, <1>w, <2>1, <3>1 DEF WayTo
    <3>3. \E i \in DOMAIN w : Way(ch[a], f, <<>>, pushCh) = RemoveAt(w, i)
      BY <1>t, <1>w, <3>1, <3>2, LoseHeld
    <3> QED BY <1>w, <2>1, <3>1, <3>2, <3>3 DEF Moves, Loses
  <2>3. CASE from # "holding"
    BY <2>1, <2>3 DEF Moves, Stays, WayTo, FromHand
  <2> QED BY <2>2, <2>3
<1>7. CASE DrainReceive
  <2>1. /\ f = <<>> /\ h = <<hold>> /\ hold \in Pushers
        /\ FeedHand(a)' = <<hold>> /\ FromHand' = <<>>
        /\ pushCh' = pushCh /\ ch'[a] = ch[a] /\ delivered'[a] = delivered[a]
        /\ accepted' = accepted /\ ctxDone' = ctxDone
    BY <1>7 DEF DrainReceive, FlowType, FeedHand, FromHand, callVars, Adapters
  <2>2. WayTo(a)' = WayTo(a)
    BY <1>t, <2>1, <1>p, MoveOn DEF WayTo
  <2> QED BY <2>1, <2>2 DEF Moves, Stays
<1>8. CASE FeedClose \/ FeedDone
  BY <1>8 DEF FeedClose, FeedDone, Moves, Stays, WayTo, FeedHand, FromHand, callVars
<1>9. ASSUME NEW b \in Adapters, FeedSend(b) PROVE Moves(a)
  <2>1. /\ drain = "sending" /\ turn = b /\ item \in Pushers /\ b \in Nat /\ b <= N /\ a <= N
        /\ FromHand' = h /\ pushCh' = pushCh /\ accepted' = accepted /\ ctxDone' = ctxDone
    BY <1>9, SinkAssumption DEF FeedSend, FlowType, FromHand, callVars, Adapters
  <2>2. CASE b # a
    <3>1. FeedHand(a)' = f
      <4>1. CASE b = N BY <1>9, <1>t, <2>1, <2>2, <4>1 DEF FeedSend, Advance, FeedHand
      <4>2. CASE b # N
        <5>1. drain' = "sending" /\ turn' = b + 1 /\ item' = item
          BY <1>9, <2>1, <4>2 DEF FeedSend, Advance
        <5> QED BY <1>t, <2>1, <2>2, <5>1 DEF FeedHand
      <4> QED BY <4>1, <4>2
    <3>2. ch'[a] = ch[a] /\ delivered'[a] = delivered[a]
      BY <1>9, <1>t, <2>2 DEF FeedSend
    <3> QED BY <2>1, <3>1, <3>2 DEF Moves, Stays, WayTo
  <2>3. CASE b = a
    <3>1. f = <<item>> /\ FeedHand(a)' = <<>>
      BY <1>9, <1>t, <2>1, <2>3 DEF FeedSend, Advance, FeedHand
    <3>2. CASE ch' = [ch EXCEPT ![a] = Append(@, item)] /\ UNCHANGED delivered
      <4>1. ch'[a] = Append(ch[a], item)
        BY <1>t, <3>2
      <4>2. WayTo(a)' = WayTo(a)
        BY <1>t, <2>1, <3>1, <4>1, <1>p, MoveToFirst DEF WayTo
      <4> QED BY <2>1, <3>2, <4>2 DEF Moves, Stays
    <3>3. CASE /\ Cap = 0 /\ delivered' = [delivered EXCEPT ![a] = Append(@, item)]
               /\ UNCHANGED ch
      <4>1. ch[a] = <<>> /\ ch'[a] = <<>> /\ delivered'[a] = Append(delivered[a], item)
        BY <1>t, <3>3
      <4>2. /\ WayTo(a) # <<>> /\ Head(WayTo(a)) = item /\ WayTo(a)' = Tail(WayTo(a))
        <5>1. w = Way(<<>>, <<item>>, h, pushCh)
          BY <1>w, <3>1, <4>1 DEF WayTo
        <5>2. w # <<>> /\ Head(w) = item /\ Tail(w) = Way(<<>>, <<>>, h, pushCh)
          <6>1. h \in Seq(Pushers) /\ pushCh \in Seq(Pushers) /\ item \in Pushers
            BY <1>t, <2>1
          <6> HIDE DEF h
          <6> QED BY <1>w, <5>1, <6>1, LeaveHand
        <5> QED BY <1>p, <1>w, <2>1, <3>1, <4>1, <5>2
      <4> QED BY <2>1, <4>1, <4>2 DEF Moves, Gets
    <3> QED BY <1>9, <2>3, <3>2, <3>3 DEF FeedSend
  <2> QED BY <2>2, <2>3
<1>10. ASSUME NEW b \in Adapters, FeedGiveUp(b) PROVE Moves(a)
  <2>1. /\ drain = "sending" /\ item \in Pushers /\ ctxDone
        /\ FeedHand(a)' = <<>> /\ FromHand' = h /\ pushCh' = pushCh /\ ch'[a] = ch[a]
        /\ delivered'[a] = delivered[a] /\ accepted' = accepted /\ ctxDone' = ctxDone
    BY <1>10 DEF FeedGiveUp, FlowType, FeedHand, FromHand, callVars
  <2>2. CASE f = <<>>
    BY <2>1, <2>2 DEF Moves, Stays, WayTo
  <2>3. CASE f = <<item>>
    <3>1. w = Way(ch[a], <<item>>, h, pushCh) /\ WayTo(a)' = Way(ch[a], <<>>, h, pushCh)
      BY <1>p, <1>w, <2>1, <2>3 DEF WayTo
    <3>2. \E i \in DOMAIN w : Way(ch[a], <<>>, h, pushCh) = RemoveAt(w, i)
      BY <1>t, <1>w, <2>1, <3>1, LoseOffered
    <3> QED BY <1>w, <2>1, <3>1, <3>2 DEF Moves, Loses
  <2> QED BY <2>1, <2>2, <2>3 DEF FeedHand
<1>11. ASSUME NEW b \in Adapters, AdapterReceive(b) PROVE Moves(a)
  <2>1. CASE b # a
    BY <1>11, <1>s, <1>t, <2>1 DEF AdapterReceive, callVars
  <2>2. CASE b = a
    <3>1. /\ ch[a] # <<>> /\ ch'[a] = Tail(ch[a])
          /\ delivered'[a] = Append(delivered[a], Head(ch[a]))
          /\ FeedHand(a)' = f /\ FromHand' = h /\ pushCh' = pushCh
          /\ accepted' = accepted /\ ctxDone' = ctxDone
      BY <1>11, <1>t, <2>2 DEF AdapterReceive, FeedHand, FromHand, callVars
    <3>2. /\ WayTo(a) # <<>> /\ Head(WayTo(a)) = Head(ch[a]) /\ WayTo(a)' = Tail(WayTo(a))
      <4>1. w # <<>> /\ Head(w) = Head(ch[a]) /\ Tail(w) = Way(Tail(ch[a]), f, h, pushCh)
        BY <1>t, <1>w, <3>1, LeaveFirst DEF WayTo
      <4> QED BY <1>p, <1>w, <3>1, <4>1
    <3> QED BY <3>1, <3>2 DEF Moves, Gets
  <2> QED BY <2>1, <2>2
<1>12. ASSUME NEW b \in Adapters, AdapterExit(b) PROVE Moves(a)
  BY <1>12, <1>s DEF AdapterExit, callVars
<1>13. CASE UNCHANGED vars BY <1>13, <1>s DEF vars
<1> QED
  BY <1>1, <1>2, <1>3, <1>4, <1>5, <1>6, <1>7, <1>8, <1>9, <1>10, <1>11, <1>12, <1>13
     DEF Next, FromStep, DrainStep, FeedStep, AdapterStep

-----------------------------------------------------------------------------
(* While the context lives nothing is lost, so at any moment an adapter has *)
(* received what was accepted except what is still on its way; and the      *)
(* goroutines end from the front of the port to its back, each only once it *)
(* has emptied what it reads from.                                          *)
Kept(a) == accepted = delivered[a] \o WayTo(a)
Ended ==
  /\ from = "exited" => pushClosed /\ pushCh = <<>>
  /\ drain \in {"closed", "done"} => from = "exited"
  /\ \A a \in Adapters : adapter[a] = "exited" => drain \in {"closed", "done"} /\ ch[a] = <<>>
EndInv ==
  /\ ctxDone \in BOOLEAN
  /\ ~ctxDone => Ended
  /\ drain = "done" => \A a \in Adapters : adapter[a] = "exited"
FlowInv ==
  /\ GateInv /\ FlowType /\ EndInv
  /\ ~ctxDone => \A a \in Adapters : Kept(a)

LEMMA PassOn ==
  ASSUME NEW S, NEW d \in Seq(S), NEW w \in Seq(S)
  PROVE  /\ \A v \in S : d \o Append(w, v) = Append(d \o w, v)
         /\ w # <<>> => Append(d, Head(w)) \o Tail(w) = d \o w
<1>1. ASSUME NEW v \in S PROVE d \o Append(w, v) = Append(d \o w, v)
  <2>1. Append(w, v) = w \o <<v>> /\ d \o w \in Seq(S) /\ <<v>> \in Seq(S)
    BY AppendIsConcat
  <2>2. Append(d \o w, v) = (d \o w) \o <<v>>
    BY <2>1, AppendIsConcat
  <2>3. (d \o w) \o <<v>> = d \o (w \o <<v>>)
    BY <2>1, ConcatAssociative
  <2> QED BY <2>1, <2>2, <2>3
<1>2. ASSUME w # <<>> PROVE Append(d, Head(w)) \o Tail(w) = d \o w
  <2>1. Head(w) \in S /\ <<Head(w)>> \in Seq(S) /\ Tail(w) \in Seq(S)
    BY <1>2, HeadTailProperties
  <2>2. Append(d, Head(w)) = d \o <<Head(w)>> /\ <<Head(w)>> \o Tail(w) = w
    BY <1>2, <2>1, AppendIsConcat
  <2>3. (d \o <<Head(w)>>) \o Tail(w) = d \o (<<Head(w)>> \o Tail(w))
    BY <2>1, ConcatAssociative
  <2> QED BY <2>2, <2>3
<1> QED BY <1>1, <1>2

LEMMA WayToType ==
  ASSUME FlowType, NEW a \in Adapters
  PROVE  WayTo(a) \in Seq(Pushers)
<1>1. /\ ch[a] \in Seq(Pushers) /\ FeedHand(a) \in Seq(Pushers) /\ FromHand \in Seq(Pushers)
      /\ pushCh \in Seq(Pushers)
  BY DEF FlowType, FeedHand, FromHand
<1> QED BY <1>1, WayLength DEF WayTo

LEMMA FlowInit == Init => FlowInv
<1> SUFFICES ASSUME Init PROVE FlowInv
  OBVIOUS
<1>1. EndInv
  BY DEF Init, Ended, EndInv
<1>2. ASSUME NEW a \in Adapters PROVE Kept(a)
  BY DEF Init, Kept, WayTo, Way, FeedHand, FromHand
<1> QED BY <1>1, <1>2, GateInit, FlowTypeInit DEF FlowInv

LEMMA EndStep ==
  ASSUME GateInv, FlowType, EndInv, [Next]_vars
  PROVE  EndInv'
<1> USE DEF EndInv, Ended, FlowType, callVars, pipeVars
<1>1. CASE Start BY <1>1 DEF Start
<1>2. ASSUME NEW p \in Pushers, PushStep(p) PROVE EndInv'
  <2>1. CASE PushCall(p) BY <2>1 DEF PushCall
  <2>2. CASE PushLock(p) BY <2>2 DEF PushLock
  <2>3. CASE PushSend(p)
    <3>1. ~pushClosed /\ p \in Pushers
      BY <2>3 DEF PushSend, GateInv
    <3> QED BY <2>3, <3>1 DEF PushSend
  <2>4. CASE PushGiveUp(p) BY <2>4 DEF PushGiveUp
  <2> QED BY <1>2, <2>1, <2>2, <2>3, <2>4 DEF PushStep
<1>3. ASSUME NEW c \in Closers, CloseStep(c) PROVE EndInv'
  BY <1>3 DEF CloseStep, CloseCall, CloseLock, CloseReturn
<1>4. CASE Cancel BY <1>4 DEF Cancel
<1>5. CASE FromStep BY <1>5 DEF FromStep, FromReceive, FromExit
<1>6. CASE DrainStep BY <1>6 DEF DrainStep, DrainReceive, FeedClose, FeedDone
<1>7. ASSUME NEW a \in Adapters, FeedStep(a) PROVE EndInv'
  <2>1. drain = "sending" /\ drain' \in {"sending", "receiving"}
        /\ UNCHANGED <<pushClosed, pushCh, from, adapter, ctxDone>>
    BY <1>7 DEF FeedStep, FeedSend, FeedGiveUp, Advance
  <2> QED BY <2>1
<1>8. ASSUME NEW a \in Adapters, AdapterReceive(a) PROVE EndInv'
  <2>1. /\ adapter[a] = "running" /\ \A b \in Adapters \ {a} : ch'[b] = ch[b]
        /\ UNCHANGED <<pushClosed, pushCh, from, drain, adapter, ctxDone>>
    BY <1>8 DEF AdapterReceive
  <2> QED BY <2>1
<1>9. ASSUME NEW a \in Adapters, AdapterExit(a) PROVE EndInv'
  BY <1>9 DEF AdapterExit
<1>10. CASE UNCHANGED vars BY <1>10 DEF vars
<1> HIDE DEF EndInv, FlowType
<1> QED
  BY <1>1, <1>2, <1>3, <1>4, <1>5, <1>6, <1>7, <1>8, <1>9, <1>10 DEF Next, AdapterStep

LEMMA FlowStep == FlowInv /\ [Next]_vars => FlowInv'
<1> SUFFICES ASSUME FlowInv, [Next]_vars PROVE FlowInv'
  OBVIOUS
<1>1. GateInv' /\ FlowType' /\ GateInv /\ FlowType
  BY GateStep, FlowTypeStep DEF FlowInv
<1>2. ASSUME ~ctxDone', NEW a \in Adapters PROVE Kept(a)'
  <2>1. Moves(a) /\ WayTo(a) \in Seq(Pushers) /\ delivered[a] \in Seq(Pushers)
    BY <1>1, StepMoves, WayToType DEF FlowType
  <2>2. ~ctxDone /\ Kept(a)
    BY <1>2, <2>1 DEF FlowInv, Moves, Stays, Puts, Gets, Loses
  <2>3. PICK w \in Seq(Pushers), d \in Seq(Pushers) : w = WayTo(a) /\ d = delivered[a]
    BY <2>1
  <2>4. accepted = d \o w
    BY <2>2, <2>3 DEF Kept
  <2>5. CASE Stays(a)
    BY <2>2, <2>5 DEF Stays, Kept
  <2>6. CASE Puts(a)
    <3>1. PICK v \in Pushers : WayTo(a)' = Append(w, v) /\ accepted' = Append(accepted, v)
      BY <2>3, <2>6 DEF Puts
    <3>2. d \o Append(w, v) = Append(d \o w, v)
      BY PassOn
    <3>3. delivered'[a] = d
      BY <2>3, <2>6 DEF Puts
    <3> QED BY <2>4, <3>1, <3>2, <3>3 DEF Kept
  <2>7. CASE Gets(a)
    <3>1. w # <<>> /\ WayTo(a)' = Tail(w) /\ delivered'[a] = Append(d, Head(w)) /\ accepted' = accepted
      BY <2>3, <2>7 DEF Gets
    <3>2. Append(d, Head(w)) \o Tail(w) = d \o w
      BY <3>1, PassOn
    <3> QED BY <2>4, <3>1, <3>2 DEF Kept
  <2>8. CASE Loses(a)
    BY <2>2, <2>8 DEF Loses
  <2> QED BY <2>1, <2>5, <2>6, <2>7, <2>8 DEF Moves
<1>3. EndInv'
  BY <1>1, EndStep DEF FlowInv
<1> QED BY <1>1, <1>2, <1>3 DEF FlowInv

\* Close waits for the drain goroutine; when that has ended and the context
\* did not end first, every adapter has received every item whose Push
\* returned nil, in the order the port accepted them (feed and Close in
\* sink_port.go).
THEOREM FlushedWhenDoneHolds == Spec => []FlushedWhenDone
<1>1. FlowInv => FlushedWhenDone
  <2> SUFFICES ASSUME FlowInv, drain = "done", ~ctxDone, NEW a \in Adapters
               PROVE  delivered[a] = accepted
    BY DEF FlushedWhenDone
  <2>1. ch[a] = <<>> /\ FeedHand(a) = <<>> /\ FromHand = <<>> /\ pushCh = <<>>
    BY DEF FlowInv, EndInv, Ended, FeedHand, FromHand
  <2>2. WayTo(a) = <<>>
    BY <2>1 DEF WayTo, Way
  <2>3. delivered[a] \in Seq(Pushers)
    BY DEF FlowInv, FlowType
  <2>4. delivered[a] \o <<>> = delivered[a]
    BY <2>3, ConcatEmptySeq
  <2> QED BY <2>2, <2>4 DEF FlowInv, Kept
<1> QED BY <1>1, FlowInit, FlowStep, PTL DEF Spec

(* The refinement: at each step the link as the adapter sees it takes one   *)
(* of its own actions, or none.                                             *)
LEMMA OnItsWayIsWay == OnItsWay = WayTo(Observed)
BY DEF OnItsWay, WayTo, Way, FeedHand, FromHand

LEMMA LinkInit == Init => Link!Init
BY SinkAssumption DEF Init, Link!Init, OnItsWay, Adapters

LEMMA LinkStep == FlowInv /\ [Next]_vars => [Link!Next]_(Link!linkVars)
<1> SUFFICES ASSUME FlowInv, [Next]_vars PROVE [Link!Next]_(Link!linkVars)
  OBVIOUS
<1>1. Observed \in Adapters /\ Moves(Observed) /\ ctxDone \in BOOLEAN
  BY SinkAssumption, StepMoves DEF FlowInv, EndInv, Adapters
<1>2. OnItsWay = WayTo(Observed) /\ OnItsWay' = WayTo(Observed)'
  BY OnItsWayIsWay DEF OnItsWay, WayTo, Way, FeedHand, FromHand
<1>3. CASE Stays(Observed)
  BY <1>1, <1>2, <1>3 DEF Stays, Link!Next, Link!Break, Link!linkVars
<1>4. CASE Puts(Observed)
  BY <1>1, <1>2, <1>4 DEF Puts, Link!Next, Link!Put, Link!linkVars
<1>5. CASE Gets(Observed)
  BY <1>1, <1>2, <1>5 DEF Gets, Link!Next, Link!Get, Link!linkVars
<1>6. CASE Loses(Observed)
  <2>1. PICK i \in DOMAIN OnItsWay : OnItsWay' = RemoveAt(OnItsWay, i)
    BY <1>2, <1>6 DEF Loses
  <2>2. Link!Lose
    BY <1>6, <2>1 DEF Loses, Link!Lose, RemoveAt, Link!RemoveAt
  <2> QED BY <2>2 DEF Link!Next
<1> QED BY <1>1, <1>3, <1>4, <1>5, <1>6 DEF Moves

\* From Push to any one adapter the port implements a bounded first-in-
\* first-out link: fan-out, backpressure and cancellation never reorder,
\* duplicate or invent an item for it, and lose none while the context
\* lives (SinkPort.feed, stream.From and stream.Drain).
THEOREM AdapterSeesFifoHolds == Spec => AdapterSeesFifo
<1> QED BY LinkInit, LinkStep, FlowInit, FlowStep, PTL DEF Spec, AdapterSeesFifo, Link!Spec

-----------------------------------------------------------------------------
(* The broadcast hub.                                                        *)

\* What is closed, or still to be, belongs to a session that has subscribed, and no subscriber
\* of a hub that still runs is closed.
HubInv ==
    /\ sess \in [Sessions -> {"new", "waiting", "writing", "leaving", "ended"}]
    /\ closed \cup subs \cup todo \subseteq {s \in Sessions : sess[s] # "new"}
    /\ hub \in {"select", "fan"} => subs \cap closed = {}
    /\ H!NoSendOnClosed

LEMMA HubInit == H!Init => HubInv
BY DEF H!Init, HubInv, H!NoSendOnClosed

LEMMA HubRuns == HubInv /\ [H!Next]_(H!vars) => HubInv'
<1> SUFFICES ASSUME HubInv, [H!Next]_(H!vars) PROVE HubInv'
  OBVIOUS
<1> USE DEF HubInv, H!NoSendOnClosed, H!source, H!session
<1>1. CASE H!SourceSend BY <1>1 DEF H!SourceSend
<1>2. CASE H!SourceClose BY <1>2 DEF H!SourceClose
<1>3. CASE H!Cancel BY <1>3 DEF H!Cancel
<1>4. CASE H!Receive BY <1>4 DEF H!Receive
<1>5. CASE H!FanDone BY <1>5 DEF H!FanDone
<1>6. CASE H!Stop BY <1>6 DEF H!Stop
<1>7. CASE H!Exit BY <1>7 DEF H!Exit
<1>8. ASSUME NEW s \in Sessions, H!Deliver(s) PROVE HubInv'
  BY <1>8 DEF H!Deliver, H!HandOver
<1>9. ASSUME NEW s \in Sessions, H!Drop(s) PROVE HubInv'
  BY <1>9 DEF H!Drop
<1>10. ASSUME NEW s \in Sessions, H!CloseSub(s) PROVE HubInv'
  BY <1>10 DEF H!CloseSub
<1>11. ASSUME NEW s \in Sessions, H!Subscribe(s) PROVE HubInv'
  BY <1>11 DEF H!Subscribe, H!MutexFree
<1>12. ASSUME NEW s \in Sessions, H!Take(s) PROVE HubInv'
  BY <1>12 DEF H!Take
<1>13. ASSUME NEW s \in Sessions, H!Written(s) PROVE HubInv'
  BY <1>13 DEF H!Written
<1>14. ASSUME NEW s \in Sessions, H!Disconnect(s) PROVE HubInv'
  BY <1>14 DEF H!Disconnect
<1>15. ASSUME NEW s \in Sessions, H!Leave(s) PROVE HubInv'
  BY <1>15 DEF H!Leave
<1>16. ASSUME NEW s \in Sessions, H!Unsubscribe(s) PROVE HubInv'
  BY <1>16 DEF H!Unsubscribe, H!MutexFree
<1>17. CASE UNCHANGED H!vars BY <1>17 DEF H!vars
<1> HIDE DEF HubInv
<1> QED
  BY <1>1, <1>2, <1>3, <1>4, <1>5, <1>6, <1>7, <1>8, <1>9, <1>10, <1>11, <1>12,
     <1>13, <1>14, <1>15, <1>16, <1>17 DEF H!Next, H!HubStep, H!SessionStep

\* Whoever subscribes or leaves, the loops of the hub meet open channels only.
THEOREM SubscribersOpenHolds == MCSpec => []SubscribersOpen
<1>1. HubInv => SubscribersOpen
  BY DEF HubInv, SubscribersOpen
<1>2. MCInit => HubInv
  BY HubInit DEF MCInit
<1>3. HubInv /\ [MCNext]_<<running, vars, hubVars>> => HubInv'
  <2>1. UNCHANGED hubVars => UNCHANGED H!vars BY DEF hubVars, H!vars
  <2> QED BY <2>1, HubRuns DEF MCNext
<1> QED BY <1>1, <1>2, <1>3, PTL DEF MCSpec

-----------------------------------------------------------------------------
(* Every value is received, dropped, or still to come.                       *)

\* What a session has received or holds, q, and what was dropped for it, m,
\* are within 1..n and account for lo+1..n.
Account(q, m, lo, n) ==
    /\ H!InOrder(q)
    /\ H!ToSet(q) \cap m = {}
    /\ H!ToSet(q) \cup m \subseteq 1 .. n
    /\ lo + 1 .. n \subseteq H!ToSet(q) \cup m

LEMMA AppendSet ==
    ASSUME NEW q \in Seq(Nat), NEW v \in Nat
    PROVE  Append(q, v) \in Seq(Nat) /\ H!ToSet(Append(q, v)) = H!ToSet(q) \cup {v}
<1>1. /\ Append(q, v) \in Seq(Nat) /\ DOMAIN Append(q, v) = 1 .. Len(q) + 1
      /\ Append(q, v)[Len(q) + 1] = v
      /\ \A i \in 1 .. Len(q) : Append(q, v)[i] = q[i]
      /\ Len(q) \in Nat /\ DOMAIN q = 1 .. Len(q)
  OBVIOUS
<1>2. H!ToSet(Append(q, v)) \subseteq H!ToSet(q) \cup {v}
  BY <1>1 DEF H!ToSet
<1>3. H!ToSet(q) \cup {v} \subseteq H!ToSet(Append(q, v))
  <2>1. \A i \in 1 .. Len(q) : i \in 1 .. Len(q) + 1
    BY <1>1
  <2>2. Len(q) + 1 \in 1 .. Len(q) + 1
    BY <1>1
  <2> QED BY <1>1, <2>1, <2>2 DEF H!ToSet
<1> QED BY <1>1, <1>2, <1>3

LEMMA AppendInOrder ==
    ASSUME NEW q \in Seq(Nat), NEW v \in Nat, H!InOrder(q), \A x \in H!ToSet(q) : x < v
    PROVE  H!InOrder(Append(q, v))
<1> DEFINE r == Append(q, v)
<1>1. /\ Len(r) = Len(q) + 1 /\ Len(q) \in Nat /\ r[Len(q) + 1] = v
      /\ \A i \in 1 .. Len(q) : r[i] = q[i]
  OBVIOUS
<1>2. \A i \in 1 .. Len(q) : q[i] < v
  BY DEF H!ToSet
<1> HIDE DEF r
<1>3. ASSUME NEW i \in 1 .. Len(r), NEW j \in 1 .. Len(r), i < j PROVE r[i] < r[j]
  <2>1. i \in 1 .. Len(q)
    BY <1>1, <1>3
  <2>2. CASE j = Len(q) + 1
    BY <1>1, <1>2, <2>1, <2>2
  <2>3. CASE j \in 1 .. Len(q)
    BY <1>1, <1>3, <2>1, <2>3 DEF H!InOrder
  <2> QED BY <1>1, <2>2, <2>3
<1>4. H!InOrder(r)
  BY <1>3 DEF H!InOrder
<1> QED BY <1>4 DEF r

\* What a session holds is the same before and after it takes a value.
LEMMA TakeCat ==
    ASSUME NEW S, NEW g \in Seq(S), NEW c \in Seq(S), c # <<>>, <<Head(c)>> \o Tail(c) = c
    PROVE  Append(g, Head(c)) \o Tail(c) = g \o c
<1>1. /\ Head(c) \in S /\ Tail(c) \in Seq(S) /\ <<Head(c)>> \in Seq(S)
  OBVIOUS
<1>2. Append(g, Head(c)) = g \o <<Head(c)>>
  BY <1>1, AppendIsConcat
<1>3. (g \o <<Head(c)>>) \o Tail(c) = g \o (<<Head(c)>> \o Tail(c))
  BY <1>1, ConcatAssociative
<1> QED BY <1>1, <1>2, <1>3

LEMMA TakeKeeps ==
    ASSUME NEW g \in Seq(Nat), NEW c \in Seq(Nat), c # <<>>
    PROVE  /\ Append(g, Head(c)) \in Seq(Nat) /\ Tail(c) \in Seq(Nat)
           /\ Append(g, Head(c)) \o Tail(c) = g \o c
<1>1. /\ Head(c) \in Nat /\ Tail(c) \in Seq(Nat) /\ <<Head(c)>> \in Seq(Nat)
      /\ Append(g, Head(c)) \in Seq(Nat)
  OBVIOUS
<1>2. <<Head(c)>> \o Tail(c) = c
  <2> DEFINE d == <<Head(c)>> \o Tail(c)
  <2>1. /\ Len(c) \in Nat \ {0} /\ Len(Tail(c)) = Len(c) - 1 /\ Head(c) = c[1]
        /\ \A i \in 1 .. Len(Tail(c)) : Tail(c)[i] = c[i + 1]
    OBVIOUS
  <2>2. /\ d \in Seq(Nat) /\ Len(d) = 1 + Len(Tail(c))
        /\ \A i \in 1 .. 1 + Len(Tail(c)) : d[i] = IF i <= 1 THEN Head(c) ELSE Tail(c)[i - 1]
    <3>1. Len(<<Head(c)>>) = 1 /\ <<Head(c)>>[1] = Head(c)
      OBVIOUS
    <3> QED BY <1>1, <2>1, <3>1, ConcatProperties
  <2> HIDE DEF d
  <2>3. ASSUME NEW i \in 1 .. Len(d) PROVE d[i] = c[i]
    <3>1. CASE i = 1 BY <2>1, <2>2, <3>1
    <3>2. CASE i > 1
      <4>1. i - 1 \in 1 .. Len(Tail(c)) /\ (i - 1) + 1 = i BY <2>1, <2>2, <3>2
      <4> QED BY <2>1, <2>2, <3>2, <4>1
    <3> QED BY <2>1, <2>2, <3>1, <3>2
  <2>4. d = c
    BY <2>1, <2>2, <2>3, SeqEqual
  <2> QED BY <2>4 DEF d
<1> QED BY <1>1, <1>2, TakeCat

LEMMA AppendCat ==
    ASSUME NEW g \in Seq(Nat), NEW c \in Seq(Nat), NEW v \in Nat
    PROVE  g \o Append(c, v) = Append(g \o c, v)
<1>1. <<v>> \in Seq(Nat) /\ g \o c \in Seq(Nat)
  OBVIOUS
<1>2. Append(c, v) = c \o <<v>> /\ Append(g \o c, v) = (g \o c) \o <<v>>
  BY <1>1, AppendIsConcat
<1> QED BY <1>1, <1>2, ConcatAssociative

\* A value delivered, or dropped, is accounted for.
LEMMA AccountDelivered ==
    ASSUME NEW q \in Seq(Nat), NEW m, NEW lo \in Nat, NEW n \in Nat \ {0},
           Account(q, m, lo, n - 1)
    PROVE  Account(Append(q, n), m, lo, n)
<1>1. H!ToSet(Append(q, n)) = H!ToSet(q) \cup {n}
  BY AppendSet
<1>2. \A x \in H!ToSet(q) \cup m : x \in Nat /\ x < n
  BY DEF Account
<1>3. H!InOrder(Append(q, n))
  BY <1>2, AppendInOrder DEF Account
<1>4. 1 .. n = (1 .. n - 1) \cup {n} /\ lo + 1 .. n \subseteq (lo + 1 .. n - 1) \cup {n}
  OBVIOUS
<1> QED BY <1>1, <1>2, <1>3, <1>4 DEF Account

LEMMA AccountDropped ==
    ASSUME NEW q \in Seq(Nat), NEW m, NEW lo \in Nat, NEW n \in Nat \ {0},
           Account(q, m, lo, n - 1)
    PROVE  Account(q, m \cup {n}, lo, n)
<1>1. \A x \in H!ToSet(q) \cup m : x \in Nat /\ x < n
  BY DEF Account
<1>2. 1 .. n = (1 .. n - 1) \cup {n} /\ lo + 1 .. n \subseteq (lo + 1 .. n - 1) \cup {n}
  OBVIOUS
<1> QED BY <1>1, <1>2 DEF Account

AccountType ==
    /\ taken \in Nat
    /\ hub \in {"select", "fan", "closing", "exited"}
    /\ hub = "fan" => taken # 0 /\ todo \subseteq subs
    /\ subCh \in [Sessions -> Seq(Nat)]
    /\ got \in [Sessions -> Seq(Nat)]
    /\ missed \in [Sessions -> SUBSET Nat]
    /\ since \in [Sessions -> Nat]
    /\ subs \subseteq Sessions

\* A session that has left is owed nothing more.
Bound(s) == IF s \in subs THEN since[s] ELSE H!Visited(s)
AccountOf(s) == Account(got[s] \o subCh[s], missed[s], Bound(s), H!Visited(s))
AccountInv == AccountType /\ \A s \in Sessions : AccountOf(s)

accountVars == <<taken, hub, todo, subs, subCh, got, missed, since>>

LEMMA AccountUnchanged == AccountInv /\ UNCHANGED accountVars => AccountInv'
BY DEF AccountInv, AccountType, AccountOf, Bound, H!Visited, accountVars

LEMMA AccountInit == H!Init => AccountInv
<1> SUFFICES ASSUME H!Init PROVE AccountInv
  OBVIOUS
<1>1. AccountType
  BY DEF H!Init, AccountType
<1>2. ASSUME NEW s \in Sessions PROVE AccountOf(s)
  <2>1. got[s] = <<>> /\ subCh[s] = <<>> /\ missed[s] = {} /\ Bound(s) = 0 /\ H!Visited(s) = 0
    BY DEF H!Init, Bound, H!Visited
  <2>2. <<>> \o <<>> = <<>> /\ H!ToSet(<<>>) = {} /\ H!InOrder(<<>>)
    BY DEF H!ToSet, H!InOrder
  <2> QED BY <2>1, <2>2 DEF AccountOf, Account
<1> QED BY <1>1, <1>2 DEF AccountInv

\* Who is owed nothing stays so while the hub reads on.
LEMMA AccountGrows ==
    ASSUME NEW q, NEW m, NEW n \in Nat, NEW k \in Nat, k >= n, Account(q, m, n, n)
    PROVE  Account(q, m, k, k)
<1>1. 1 .. n \subseteq 1 .. k /\ k + 1 .. k = {}
  OBVIOUS
<1> QED BY <1>1 DEF Account

LEMMA AccountStep == AccountInv /\ [H!Next]_(H!vars) => AccountInv'
<1> SUFFICES ASSUME AccountInv, [H!Next]_(H!vars) PROVE AccountInv'
  OBVIOUS
<1>0. AccountType /\ (\A s \in Sessions : AccountOf(s))
  BY DEF AccountInv
<1>1. CASE H!SourceSend \/ H!SourceClose \/ H!Cancel
  <2>1. UNCHANGED accountVars
    BY <1>1 DEF H!SourceSend, H!SourceClose, H!Cancel, accountVars, H!session
  <2> QED BY <2>1, AccountUnchanged
<1>2. CASE H!Receive
  <2>1. /\ hub = "select" /\ hub' = "fan" /\ todo' = subs /\ taken' = taken + 1
        /\ UNCHANGED <<subs, subCh, got, missed, since>>
    BY <1>2 DEF H!Receive, H!session
  <2>2. AccountType' BY <1>0, <2>1 DEF AccountType
  <2>3. ASSUME NEW s \in Sessions PROVE AccountOf(s)'
    <3>1. CASE s \in subs
      <4>1. H!Visited(s)' = H!Visited(s) /\ Bound(s)' = Bound(s)
        BY <1>0, <2>1, <3>1 DEF AccountType, H!Visited, Bound
      <4> QED BY <1>0, <2>1, <4>1 DEF AccountOf
    <3>2. CASE s \notin subs
      <4>1. /\ H!Visited(s) = taken /\ H!Visited(s)' = taken + 1
            /\ Bound(s) = taken /\ Bound(s)' = taken + 1 /\ taken \in Nat
        BY <1>0, <2>1, <3>2 DEF AccountType, H!Visited, Bound
      <4>2. Account(got[s] \o subCh[s], missed[s], taken, taken)
        BY <1>0, <4>1 DEF AccountOf
      <4>3. Account(got[s] \o subCh[s], missed[s], taken + 1, taken + 1)
        BY <4>1, <4>2, AccountGrows
      <4> QED BY <2>1, <4>1, <4>3 DEF AccountOf
    <3> QED BY <3>1, <3>2
  <2> QED BY <2>2, <2>3 DEF AccountInv
<1>3. CASE H!FanDone \/ H!Stop \/ H!Exit
  <2>1. /\ hub' \in {"select", "closing", "exited"} /\ (hub = "fan" => todo = {})
        /\ UNCHANGED <<taken, subs, subCh, got, missed, since>>
    BY <1>3 DEF H!FanDone, H!Stop, H!Exit, H!session
  <2>2. AccountType' BY <1>0, <2>1 DEF AccountType
  <2>3. ASSUME NEW s \in Sessions PROVE AccountOf(s)'
    <3>1. H!Visited(s)' = H!Visited(s) /\ Bound(s)' = Bound(s)
      BY <1>0, <2>1 DEF AccountType, H!Visited, Bound
    <3> QED BY <1>0, <2>1, <3>1 DEF AccountOf
  <2> QED BY <2>2, <2>3 DEF AccountInv
<1>4. ASSUME NEW s \in Sessions, H!CloseSub(s) PROVE AccountInv'
  <2>1. hub = "closing" /\ UNCHANGED <<taken, hub, subs, subCh, got, missed, since>>
    BY <1>4 DEF H!CloseSub, H!session
  <2>2. AccountType' BY <1>0, <2>1 DEF AccountType
  <2>3. ASSUME NEW t \in Sessions PROVE AccountOf(t)'
    <3>1. H!Visited(t)' = H!Visited(t) /\ Bound(t)' = Bound(t)
      BY <2>1 DEF H!Visited, Bound
    <3> QED BY <1>0, <2>1, <3>1 DEF AccountOf
  <2> QED BY <2>2, <2>3 DEF AccountInv
<1>5. ASSUME NEW s \in Sessions, H!Deliver(s) \/ H!Drop(s) PROVE AccountInv'
  <2>1. /\ s \in todo /\ hub = "fan" /\ todo' = todo \ {s} /\ s \in subs
        /\ UNCHANGED <<taken, hub, subs, since>>
    BY <1>0, <1>5 DEF H!Deliver, H!Drop, H!source, H!session, AccountType
  <2>2. /\ taken \in Nat \ {0} /\ got[s] \in Seq(Nat) /\ subCh[s] \in Seq(Nat) /\ since[s] \in Nat
        /\ H!Visited(s) = taken - 1 /\ Bound(s) = since[s]
    BY <1>0, <2>1 DEF AccountType, H!Visited, Bound
  <2>3. H!Visited(s)' = taken /\ Bound(s)' = since[s]
    BY <2>1 DEF H!Visited, Bound
  <2>4. Account(got[s] \o subCh[s], missed[s], since[s], taken - 1)
    BY <1>0, <2>2 DEF AccountOf
  <2>5. got[s] \o subCh[s] \in Seq(Nat)
    BY <2>2
  <2>6. ASSUME NEW t \in Sessions, t # s,
               got'[t] = got[t] /\ subCh'[t] = subCh[t] /\ missed'[t] = missed[t]
        PROVE  AccountOf(t)'
    <3>1. H!Visited(t)' = H!Visited(t) /\ Bound(t)' = Bound(t)
      BY <2>1, <2>6 DEF H!Visited, Bound
    <3> QED BY <1>0, <2>6, <3>1 DEF AccountOf
  <2>7. CASE H!Drop(s)
    <3>1. missed' = [missed EXCEPT ![s] = @ \cup {taken}] /\ UNCHANGED <<subCh, got>>
      BY <2>7 DEF H!Drop, H!session
    <3>2. AccountType' BY <1>0, <2>1, <2>2, <3>1 DEF AccountType
    <3>3. Account(got[s] \o subCh[s], missed[s] \cup {taken}, since[s], taken)
      BY <2>2, <2>4, <2>5, AccountDropped
    <3>4. AccountOf(s)'
      BY <1>0, <2>3, <3>1, <3>3, <2>1 DEF AccountOf, AccountType
    <3>5. ASSUME NEW t \in Sessions, t # s PROVE AccountOf(t)'
      BY <1>0, <2>6, <3>1, <3>5 DEF AccountType
    <3> QED BY <3>2, <3>4, <3>5 DEF AccountInv
  <2>8. CASE H!Deliver(s)
    <3>1. /\ \/ subCh' = [subCh EXCEPT ![s] = Append(@, taken)] /\ UNCHANGED got
             \/ subCh[s] = <<>> /\ UNCHANGED subCh /\ got' = [got EXCEPT ![s] = Append(@, taken)]
          /\ UNCHANGED missed
      BY <2>8 DEF H!Deliver, H!HandOver
    <3>2. Append(subCh[s], taken) \in Seq(Nat) /\ Append(got[s], taken) \in Seq(Nat)
      BY <2>2
    <3>3. AccountType' BY <1>0, <2>1, <2>2, <3>1, <3>2 DEF AccountType
    <3>4. Account(Append(got[s] \o subCh[s], taken), missed[s], since[s], taken)
      BY <2>2, <2>4, <2>5, AccountDelivered
    <3>5. got'[s] \o subCh'[s] = Append(got[s] \o subCh[s], taken)
      <4>1. CASE subCh' = [subCh EXCEPT ![s] = Append(@, taken)] /\ UNCHANGED got
        BY <1>0, <2>2, <4>1, AppendCat DEF AccountType
      <4>2. CASE subCh[s] = <<>> /\ UNCHANGED subCh /\ got' = [got EXCEPT ![s] = Append(@, taken)]
        <5>1. got'[s] = Append(got[s], taken) /\ subCh'[s] = <<>>
          BY <1>0, <4>2 DEF AccountType
        <5> QED BY <2>2, <3>2, <4>2, <5>1, ConcatEmptySeq
      <4> QED BY <3>1, <4>1, <4>2
    <3>6. AccountOf(s)'
      BY <2>3, <2>1, <3>1, <3>4, <3>5 DEF AccountOf
    <3>7. ASSUME NEW t \in Sessions, t # s PROVE AccountOf(t)'
      BY <1>0, <2>6, <3>1, <3>7 DEF AccountType
    <3> QED BY <3>3, <3>6, <3>7 DEF AccountInv
  <2> QED BY <1>5, <2>7, <2>8
<1>6. ASSUME NEW s \in Sessions, H!Take(s) PROVE AccountInv'
  <2>1. /\ subCh[s] # <<>> /\ got' = [got EXCEPT ![s] = Append(@, Head(subCh[s]))]
        /\ subCh' = [subCh EXCEPT ![s] = Tail(@)]
        /\ UNCHANGED <<taken, hub, todo, subs, missed, since>>
    BY <1>6 DEF H!Take
  <2>2. got[s] \in Seq(Nat) /\ subCh[s] \in Seq(Nat)
    BY <1>0 DEF AccountType
  <2>3. /\ Append(got[s], Head(subCh[s])) \in Seq(Nat) /\ Tail(subCh[s]) \in Seq(Nat)
        /\ Append(got[s], Head(subCh[s])) \o Tail(subCh[s]) = got[s] \o subCh[s]
    BY <2>1, <2>2, TakeKeeps
  <2>4. AccountType' BY <1>0, <2>1, <2>3 DEF AccountType
  <2>5. ASSUME NEW t \in Sessions PROVE AccountOf(t)'
    <3>1. H!Visited(t)' = H!Visited(t) /\ Bound(t)' = Bound(t)
      BY <2>1 DEF H!Visited, Bound
    <3>2. got'[t] \o subCh'[t] = got[t] \o subCh[t]
      BY <1>0, <2>1, <2>3 DEF AccountType
    <3> QED BY <1>0, <2>1, <3>1, <3>2 DEF AccountOf
  <2> QED BY <2>4, <2>5 DEF AccountInv
<1>7. ASSUME NEW s \in Sessions, H!Subscribe(s) PROVE AccountInv'
  <2>1. /\ hub # "fan" /\ subs' = subs \cup {s} /\ since' = [since EXCEPT ![s] = taken]
        /\ UNCHANGED <<taken, hub, todo, subCh, got, missed>>
    BY <1>7 DEF H!Subscribe, H!MutexFree
  <2>2. AccountType' BY <1>0, <2>1 DEF AccountType
  <2>3. ASSUME NEW t \in Sessions PROVE AccountOf(t)'
    <3>1. H!Visited(t)' = H!Visited(t) /\ H!Visited(t) = taken /\ taken \in Nat
      BY <1>0, <2>1 DEF H!Visited, AccountType
    <3>2. CASE t # s
      <4>1. Bound(t)' = Bound(t)
        BY <1>0, <2>1, <3>1, <3>2 DEF Bound, AccountType
      <4> QED BY <1>0, <2>1, <3>1, <4>1 DEF AccountOf
    <3>3. CASE t = s
      <4>1. Bound(s)' = taken
        BY <1>0, <2>1 DEF Bound, AccountType
      <4>2. Account(got[s] \o subCh[s], missed[s], Bound(s), taken)
        BY <1>0, <3>1, <3>3 DEF AccountOf
      <4>3. Account(got[s] \o subCh[s], missed[s], taken, taken)
        <5>1. taken + 1 .. taken = {}
          BY <3>1
        <5> QED BY <4>2, <5>1 DEF Account
      <4> QED BY <2>1, <3>1, <3>3, <4>1, <4>3 DEF AccountOf
    <3> QED BY <3>2, <3>3
  <2> QED BY <2>2, <2>3 DEF AccountInv
<1>8. ASSUME NEW s \in Sessions, H!Written(s) \/ H!Disconnect(s) \/ H!Leave(s) PROVE AccountInv'
  <2>1. UNCHANGED accountVars
    BY <1>8 DEF H!Written, H!Disconnect, H!Leave, accountVars
  <2> QED BY <2>1, AccountUnchanged
<1>9. ASSUME NEW s \in Sessions, H!Unsubscribe(s) PROVE AccountInv'
  <2>1. /\ hub # "fan" /\ subs' = subs \ {s}
        /\ UNCHANGED <<taken, hub, todo, subCh, got, missed, since>>
    BY <1>9 DEF H!Unsubscribe, H!MutexFree
  <2>2. AccountType' BY <1>0, <2>1 DEF AccountType
  <2>3. ASSUME NEW t \in Sessions PROVE AccountOf(t)'
    <3>1. H!Visited(t)' = H!Visited(t) /\ H!Visited(t) = taken /\ taken \in Nat
      BY <1>0, <2>1 DEF H!Visited, AccountType
    <3>2. CASE t # s
      <4>1. Bound(t)' = Bound(t)
        BY <2>1, <3>1, <3>2 DEF Bound
      <4> QED BY <1>0, <2>1, <3>1, <4>1 DEF AccountOf
    <3>3. CASE t = s
      <4>1. Bound(s)' = taken
        BY <2>1, <3>1, <3>3 DEF Bound
      <4>2. Account(got[s] \o subCh[s], missed[s], Bound(s), taken)
        BY <1>0, <3>1, <3>3 DEF AccountOf
      <4>3. Account(got[s] \o subCh[s], missed[s], taken, taken)
        <5>1. taken + 1 .. taken = {}
          BY <3>1
        <5> QED BY <4>2, <5>1 DEF Account
      <4> QED BY <2>1, <3>1, <3>3, <4>1, <4>3 DEF AccountOf
    <3> QED BY <3>2, <3>3
  <2> QED BY <2>2, <2>3 DEF AccountInv
<1>10. CASE UNCHANGED H!vars
  <2>1. UNCHANGED accountVars BY <1>10 DEF H!vars, accountVars
  <2> QED BY <2>1, AccountUnchanged
<1> QED
  BY <1>1, <1>2, <1>3, <1>4, <1>5, <1>6, <1>7, <1>8, <1>9, <1>10 DEF H!Next, H!HubStep, H!SessionStep

\* A session receives the values since it subscribed, in order, but for those
\* dropped for it: for any number of sessions and values and any buffer.
THEOREM AccountedHolds == MCSpec => []Accounted
<1>1. AccountInv => Accounted
  BY DEF AccountInv, AccountOf, Account, Accounted, H!Accounted, H!Owed, Bound
<1>2. MCInit => AccountInv
  BY AccountInit DEF MCInit
<1>3. AccountInv /\ [MCNext]_<<running, vars, hubVars>> => AccountInv'
  <2>1. UNCHANGED hubVars => UNCHANGED H!vars BY DEF hubVars, H!vars
  <2> QED BY <2>1, AccountStep DEF MCNext
<1> QED BY <1>1, <1>2, <1>3, PTL DEF MCSpec

-----------------------------------------------------------------------------
(* The pipe port of MCPipePort, beside the sink port and the hub; no        *)
(* formula is about two of the three.                                       *)

\* An item stays on the side of the pump it came in by, and the pumps are
\* born with Connect.
Owned == \A k \in P!Pumps : chan[k] \in Seq(P!Own(k)) /\ held[k] \in Seq(P!Own(k))
Unborn == ~connected => \A k \in P!Pumps : pump[k] = "unborn"
PipeInv == P!PipeSizes /\ P!TypeOK /\ Owned /\ Unborn

LEMMA CatLength ==
  ASSUME NEW S, NEW a \in Seq(S), NEW b \in Seq(S)
  PROVE  a \o b \in Seq(S) /\ Len(a \o b) = Len(a) + Len(b) /\ Len(a) \in Nat
OBVIOUS

LEMMA PipeSets ==
  ASSUME P!PipeSizes
  PROVE  /\ "push" \in P!Pumps /\ "in" \in P!Pumps /\ P!SinkOutputs \subseteq P!Outputs /\ 1 \in P!Outputs
         /\ Sinks + Streams \in P!Outputs /\ P!Outputs \subseteq Nat /\ Buffer \in Nat
         /\ P!Own("push") = Pushes /\ P!Own("in") = Ingests /\ \A k : P!Own(k) \subseteq P!Items
         /\ Side \in P!Pumps /\ Watched \in P!Outputs
BY DEF P!PipeSizes, P!Pumps, P!SinkOutputs, P!Outputs, P!Own, P!Items

LEMMA PipeInit == P!PipeSizes /\ P!Init => PipeInv
<1> SUFFICES ASSUME P!PipeSizes, P!Init PROVE PipeInv
  OBVIOUS
<1>h. /\ <<>> \in Seq(P!Items) /\ Len(<<>>) = 0 /\ Buffer \in Nat /\ 0 <= Buffer /\ 0 <= 1
      /\ \A k : <<>> \in Seq(P!Own(k))
  BY PipeSets
<1>1. P!CallType
  <2>1. /\ connected \in BOOLEAN /\ pipeDone \in BOOLEAN
        /\ calling \in [Pushes -> {"idle", "sending", "sent", "cancelled"}]
        /\ source \in {"running", "exited", "closed"}
    BY DEF P!Init
  <2>2. chan \in [P!Pumps -> Seq(P!Items)] /\ entered \in [P!Pumps -> Seq(P!Items)]
    BY <1>h DEF P!Init
  <2>3. \A k \in P!Pumps : chan[k] = <<>>
    BY DEF P!Init
  <2> QED BY <1>h, <2>1, <2>2, <2>3, Zenon DEF P!CallType
<1>2. P!PumpType
  BY PipeSets DEF P!Init, P!PumpType
<1>3. P!OutType
  <2>1. /\ outClosed \in BOOLEAN /\ done \in BOOLEAN
        /\ feed \in [P!SinkOutputs -> {"unborn", "running", "exited"}]
    BY DEF P!Init
  <2>2. /\ out \in [P!Outputs -> Seq(P!Items)] /\ feeding \in [P!SinkOutputs -> Seq(P!Items)]
        /\ arrived \in [P!Outputs -> Seq(P!Items)]
    BY <1>h DEF P!Init
  <2>3. /\ \A o \in P!Outputs : out[o] = <<>>
        /\ \A o \in P!SinkOutputs : feeding[o] = <<>>
    BY DEF P!Init
  <2> QED BY <1>h, <2>1, <2>2, <2>3, Zenon DEF P!OutType
<1>4. Owned
  <2>1. \A k \in P!Pumps : chan[k] = <<>> /\ held[k] = <<>>
    BY DEF P!Init
  <2> QED BY <1>h, <2>1, Zenon DEF Owned
<1>5. Unborn
  BY DEF P!Init, Unborn
<1> QED BY <1>1, <1>2, <1>3, <1>4, <1>5 DEF PipeInv, P!TypeOK

LEMMA EnqueueType ==
  ASSUME PipeInv, NEW k \in P!Pumps, NEW v \in P!Own(k), P!Enqueue(k, v)
  PROVE  /\ chan' \in [P!Pumps -> Seq(P!Items)] /\ \A j \in P!Pumps : Len(chan'[j]) <= Buffer
         /\ entered' \in [P!Pumps -> Seq(P!Items)]
         /\ \A j \in P!Pumps : chan'[j] \in Seq(P!Own(j))
<1>1. /\ chan \in [P!Pumps -> Seq(P!Items)] /\ entered \in [P!Pumps -> Seq(P!Items)] /\ Buffer \in Nat /\ v \in P!Items
      /\ \A j \in P!Pumps : Len(chan[j]) <= Buffer /\ chan[j] \in Seq(P!Own(j)) /\ Len(chan[j]) \in Nat
  BY PipeSets DEF PipeInv, P!TypeOK, P!CallType, Owned
<1>2. /\ Append(chan[k], v) \in Seq(P!Own(k)) /\ Append(chan[k], v) \in Seq(P!Items)
      /\ Len(Append(chan[k], v)) <= Buffer /\ Append(entered[k], v) \in Seq(P!Items)
  BY <1>1 DEF P!Enqueue
<1>3. /\ chan' = [chan EXCEPT ![k] = Append(chan[k], v)]
      /\ entered' = [entered EXCEPT ![k] = Append(entered[k], v)]
  BY DEF P!Enqueue
<1> QED BY <1>1, <1>2, <1>3

LEMMA CallTypeStep == PipeInv /\ [P!Next]_(P!vars) => P!CallType' /\ \A j \in P!Pumps : chan'[j] \in Seq(P!Own(j))
<1> DEFINE Goal == P!CallType' /\ \A j \in P!Pumps : chan'[j] \in Seq(P!Own(j))
<1> SUFFICES ASSUME PipeInv, [P!Next]_(P!vars) PROVE Goal
  OBVIOUS
<1>0. P!CallType /\ \A j \in P!Pumps : chan[j] \in Seq(P!Own(j))
  BY DEF PipeInv, P!TypeOK, Owned
<1>p. P!PipeSizes /\ "push" \in P!Pumps /\ "in" \in P!Pumps /\ P!Own("push") = Pushes /\ P!Own("in") = Ingests
  BY PipeSets DEF PipeInv
<1> USE DEF P!CallType
<1>1. CASE UNCHANGED <<chan, entered>> /\ calling' = calling /\ UNCHANGED <<connected, pipeDone, source>>
  BY <1>0, <1>1
<1>2. CASE P!Connect \/ P!Cancel \/ P!SourceExit \/ P!SourceClose
  BY <1>0, <1>2 DEF P!Connect, P!Cancel, P!SourceExit, P!SourceClose
<1>3. ASSUME NEW p \in Pushes, P!PushCall(p) \/ P!PushGiveUp(p) PROVE Goal
  BY <1>0, <1>3 DEF P!PushCall, P!PushGiveUp
<1>4. ASSUME NEW p \in Pushes, P!PushSend(p) PROVE Goal
  <2>1. P!Enqueue("push", p) /\ p \in P!Own("push") /\ "push" \in P!Pumps
    BY <1>4, <1>p DEF P!PushSend
  <2>2. /\ chan' \in [P!Pumps -> Seq(P!Items)] /\ \A j \in P!Pumps : Len(chan'[j]) <= Buffer
        /\ entered' \in [P!Pumps -> Seq(P!Items)]
        /\ \A j \in P!Pumps : chan'[j] \in Seq(P!Own(j))
    BY <2>1, EnqueueType
  <2> QED BY <1>0, <1>4, <2>2 DEF P!PushSend
<1>5. ASSUME NEW v \in Ingests, P!Ingest(v) PROVE Goal
  <2>1. P!Enqueue("in", v) /\ v \in P!Own("in") /\ "in" \in P!Pumps
    BY <1>5, <1>p DEF P!Ingest
  <2>2. /\ chan' \in [P!Pumps -> Seq(P!Items)] /\ \A j \in P!Pumps : Len(chan'[j]) <= Buffer
        /\ entered' \in [P!Pumps -> Seq(P!Items)]
        /\ \A j \in P!Pumps : chan'[j] \in Seq(P!Own(j))
    BY <2>1, EnqueueType
  <2> QED BY <1>0, <1>5, <2>2 DEF P!Ingest
<1>6. ASSUME NEW k \in P!Pumps, P!PumpReceive(k) PROVE Goal
  <2>1. chan[k] \in Seq(P!Items) /\ chan[k] \in Seq(P!Own(k)) /\ chan[k] # <<>> /\ Len(chan[k]) \in Nat
        /\ Len(chan[k]) <= Buffer
    BY <1>0, <1>6 DEF P!PumpReceive
  <2>2. /\ Tail(chan[k]) \in Seq(P!Items) /\ Tail(chan[k]) \in Seq(P!Own(k))
        /\ Len(Tail(chan[k])) <= Buffer
    <3>1. Len(Tail(chan[k])) = Len(chan[k]) - 1
      BY <2>1
    <3> QED BY <1>p, <2>1, <3>1, PipeSets
  <2>3. chan' = [chan EXCEPT ![k] = Tail(chan[k])]
    BY <1>6 DEF P!PumpReceive
  <2> QED BY <1>0, <1>6, <2>2, <2>3 DEF P!PumpReceive
<1>7. ASSUME NEW k \in P!Pumps, P!PumpExit(k) \/ P!FanOut(k) \/ P!FanOutGiveUp(k) PROVE Goal
  BY <1>1, <1>7 DEF P!PumpExit, P!FanOut, P!FanOutGiveUp
<1>8. CASE P!CloseOutputs \/ P!CloseDone
  BY <1>1, <1>8 DEF P!CloseOutputs, P!CloseDone
<1>9. ASSUME NEW o \in P!Outputs, P!StreamReceive(o) PROVE Goal
  BY <1>1, <1>9 DEF P!StreamReceive
<1>10. ASSUME NEW o \in P!SinkOutputs, P!FeedStep(o) PROVE Goal
  BY <1>1, <1>10 DEF P!FeedStep, P!FeedReceive, P!FeedDeliver, P!FeedExit
<1>11. CASE UNCHANGED P!vars
  BY <1>1, <1>11 DEF P!vars
<1> QED
  BY <1>2, <1>3, <1>4, <1>5, <1>6, <1>7, <1>8, <1>9, <1>10, <1>11 DEF P!Next, P!PushStep, P!PumpStep

PumpGoal == P!PumpType /\ (\A j \in P!Pumps : held[j] \in Seq(P!Own(j))) /\ Unborn

LEMMA PumpTypeStep == PipeInv /\ [P!Next]_(P!vars) => PumpGoal'
<1> SUFFICES ASSUME PipeInv, [P!Next]_(P!vars) PROVE PumpGoal'
  OBVIOUS
<1>0. PumpGoal
  BY DEF PipeInv, P!TypeOK, Owned, PumpGoal
<1>p. P!PipeSizes
  BY DEF PipeInv
<1>t. P!PumpType
  BY <1>0 DEF PumpGoal
<1>1. CASE UNCHANGED P!pumpVars /\ connected' = connected
  BY <1>0, <1>1 DEF PumpGoal, P!PumpType, Unborn, P!pumpVars
<1>h. <<>> \in Seq(P!Items) /\ \A k \in P!Pumps : <<>> \in Seq(P!Own(k))
  OBVIOUS
<1>2. CASE P!Cancel \/ P!SourceExit \/ P!SourceClose \/ P!CloseOutputs \/ P!CloseDone \/ UNCHANGED P!vars
  BY <1>1, <1>2 DEF P!Cancel, P!SourceExit, P!SourceClose, P!CloseOutputs, P!CloseDone, P!vars, P!pumpVars
<1>3. CASE P!Connect
  <2>1. pump' = [k \in P!Pumps |-> "receiving"] /\ UNCHANGED <<held, visiting>> /\ connected' = TRUE
    BY <1>3 DEF P!Connect
  <2>2. \A k \in P!Pumps : held[k] = <<>>
    BY <1>0, <1>3 DEF P!Connect, Unborn, PumpGoal, P!PumpType
  <2>3. P!PumpType'
    BY <1>t, <2>1, <2>2 DEF P!PumpType
  <2> QED BY <1>0, <2>1, <2>3 DEF PumpGoal, Unborn
<1>4. ASSUME NEW p \in Pushes, P!PushStep(p) PROVE PumpGoal'
  BY <1>1, <1>4 DEF P!PushStep, P!PushCall, P!PushSend, P!PushGiveUp, P!pumpVars
<1>5. ASSUME NEW v \in Ingests, P!Ingest(v) PROVE PumpGoal'
  BY <1>1, <1>5 DEF P!Ingest, P!pumpVars
<1>6. ASSUME NEW k \in P!Pumps, P!PumpReceive(k) PROVE PumpGoal'
  <2>1. Head(chan[k]) \in P!Own(k) /\ Head(chan[k]) \in P!Items
    <3>1. chan[k] \in Seq(P!Own(k)) /\ chan[k] # <<>>
      BY <1>6 DEF PipeInv, Owned, P!PumpReceive
    <3>2. Head(chan[k]) \in P!Own(k)
      BY <3>1
    <3> QED BY <1>p, <3>2, PipeSets
  <2>2. PICK x \in P!Own(k) : x = Head(chan[k]) /\ x \in P!Items
    BY <2>1
  <2>3. /\ held' = [held EXCEPT ![k] = <<x>>] /\ pump' = [pump EXCEPT ![k] = "sending"]
        /\ visiting' = [visiting EXCEPT ![k] = 1] /\ connected' = connected /\ connected
    BY <1>0, <1>6, <2>2 DEF P!PumpReceive, PumpGoal, Unborn
  <2>4. <<x>> \in Seq(P!Own(k)) /\ <<x>> \in Seq(P!Items) /\ Len(<<x>>) = 1
    BY <2>2
  <2>5. P!PumpType'
    BY <1>p, <1>t, <2>3, <2>4, PipeSets DEF P!PumpType
  <2>6. \A j \in P!Pumps : held'[j] \in Seq(P!Own(j))
    BY <1>0, <2>3, <2>4 DEF PumpGoal, P!PumpType
  <2> QED BY <2>3, <2>5, <2>6 DEF PumpGoal, Unborn
<1>7. ASSUME NEW k \in P!Pumps, P!PumpExit(k) PROVE PumpGoal'
  <2>1. pump[k] = "receiving" /\ pump' = [pump EXCEPT ![k] = "exited"] /\ UNCHANGED <<held, visiting, connected>>
    BY <1>7 DEF P!PumpExit
  <2>2. connected
    BY <1>0, <2>1 DEF PumpGoal, Unborn
  <2>3. P!PumpType'
    BY <1>t, <2>1 DEF P!PumpType
  <2> QED BY <1>0, <2>1, <2>2, <2>3 DEF PumpGoal, Unborn
<1>8. ASSUME NEW k \in P!Pumps, pump[k] = "sending", pump' = [pump EXCEPT ![k] = "receiving"],
             held' = [held EXCEPT ![k] = <<>>], UNCHANGED <<visiting, connected>>
      PROVE  PumpGoal'
  <2>2. connected
    BY <1>0, <1>8 DEF PumpGoal, Unborn
  <2>3. P!PumpType'
    BY <1>t, <1>8, <1>h DEF P!PumpType
  <2>4. \A j \in P!Pumps : held'[j] \in Seq(P!Own(j))
    BY <1>0, <1>8, <1>h DEF PumpGoal, P!PumpType
  <2> QED BY <1>8, <2>2, <2>3, <2>4 DEF PumpGoal, Unborn
<1>9. ASSUME NEW k \in P!Pumps, P!FanOut(k) PROVE PumpGoal'
  <2>1. CASE visiting[k] = Sinks + Streams
    BY <1>8, <1>9, <2>1 DEF P!FanOut, P!Advance
  <2>2. CASE visiting[k] # Sinks + Streams
    <3>1. visiting' = [visiting EXCEPT ![k] = @ + 1] /\ UNCHANGED <<pump, held, connected>>
      BY <1>9, <2>2 DEF P!FanOut, P!Advance
    <3>2. visiting[k] + 1 \in P!Outputs
      <4>1. visiting[k] \in P!Outputs /\ Sinks \in Nat /\ Streams \in Nat
        BY <1>p, <1>t DEF P!PumpType, P!PipeSizes
      <4> QED BY <2>2, <4>1 DEF P!Outputs
    <3>3. P!PumpType'
      BY <1>t, <3>1, <3>2 DEF P!PumpType
    <3> QED BY <1>0, <3>1, <3>3 DEF PumpGoal, Unborn
  <2> QED BY <2>1, <2>2
<1>10. ASSUME NEW k \in P!Pumps, P!FanOutGiveUp(k) PROVE PumpGoal'
  BY <1>8, <1>10 DEF P!FanOutGiveUp
<1>11. ASSUME NEW o \in P!Outputs, P!StreamReceive(o) PROVE PumpGoal'
  BY <1>1, <1>11 DEF P!StreamReceive, P!pumpVars
<1>12. ASSUME NEW o \in P!SinkOutputs, P!FeedStep(o) PROVE PumpGoal'
  BY <1>1, <1>12 DEF P!FeedStep, P!FeedReceive, P!FeedDeliver, P!FeedExit, P!pumpVars
<1> QED
  BY <1>2, <1>3, <1>4, <1>5, <1>6, <1>7, <1>9, <1>10, <1>11, <1>12 DEF P!Next, P!PumpStep

LEMMA OutTypeStep == PipeInv /\ [P!Next]_(P!vars) => P!OutType'
<1> SUFFICES ASSUME PipeInv, [P!Next]_(P!vars) PROVE P!OutType'
  OBVIOUS
<1>0. P!OutType /\ P!PumpType
  BY DEF PipeInv, P!TypeOK
<1>p. P!PipeSizes /\ P!SinkOutputs \subseteq P!Outputs /\ Buffer \in Nat
  BY PipeSets DEF PipeInv
<1>h. <<>> \in Seq(P!Items) /\ Len(<<>>) = 0 /\ 0 <= 1
  OBVIOUS
<1>t. ASSUME NEW s \in Seq(P!Items), s # <<>>, Len(s) <= Buffer
      PROVE  /\ Tail(s) \in Seq(P!Items) /\ Len(Tail(s)) <= Buffer
             /\ Head(s) \in P!Items /\ <<Head(s)>> \in Seq(P!Items) /\ Len(<<Head(s)>>) <= 1
  <2>1. Tail(s) \in Seq(P!Items) /\ Len(Tail(s)) = Len(s) - 1 /\ Len(s) \in Nat /\ Head(s) \in P!Items
    BY <1>t
  <2> QED BY <1>p, <1>t, <2>1
<1>1. CASE UNCHANGED <<P!outVars, P!endVars>>
  BY <1>0, <1>1 DEF P!OutType, P!outVars, P!endVars
<1>2. CASE P!Cancel \/ P!SourceExit \/ P!SourceClose \/ UNCHANGED P!vars
  BY <1>1, <1>2 DEF P!Cancel, P!SourceExit, P!SourceClose, P!vars, P!outVars, P!endVars
<1>3. CASE P!Connect
  BY <1>0, <1>3 DEF P!Connect, P!OutType, P!endVars
<1>4. ASSUME NEW p \in Pushes, P!PushStep(p) PROVE P!OutType'
  BY <1>1, <1>4 DEF P!PushStep, P!PushCall, P!PushSend, P!PushGiveUp
<1>5. ASSUME NEW v \in Ingests, P!Ingest(v) PROVE P!OutType'
  BY <1>1, <1>5 DEF P!Ingest
<1>6. CASE P!CloseOutputs \/ P!CloseDone
  BY <1>0, <1>6 DEF P!CloseOutputs, P!CloseDone, P!OutType, P!outVars
<1>7. ASSUME NEW k \in P!Pumps, P!PumpReceive(k) \/ P!PumpExit(k) \/ P!FanOutGiveUp(k) PROVE P!OutType'
  BY <1>1, <1>7 DEF P!PumpReceive, P!PumpExit, P!FanOutGiveUp
<1>8. ASSUME NEW k \in P!Pumps, P!FanOut(k) PROVE P!OutType'
  <2>1. /\ visiting[k] \in P!Outputs /\ held[k] \in Seq(P!Items) /\ Len(held[k]) = 1
        /\ out[visiting[k]] \in Seq(P!Items) /\ Len(out[visiting[k]]) < Buffer
    BY <1>0, <1>8 DEF P!FanOut, P!PumpType, P!OutType
  <2>2. PICK z \in Seq(P!Items) : z = out[visiting[k]] \o held[k] /\ Len(z) <= Buffer
    <3>1. PICK a \in Seq(P!Items), b \in Seq(P!Items) :
            a = out[visiting[k]] /\ b = held[k] /\ Len(a) < Buffer /\ Len(b) = 1
      BY <2>1
    <3>2. a \o b \in Seq(P!Items) /\ Len(a \o b) = Len(a) + Len(b) /\ Len(a) \in Nat
      BY CatLength
    <3>3. Len(a \o b) <= Buffer
      BY <1>p, <3>1, <3>2
    <3>4. a \o b = out[visiting[k]] \o held[k]
      BY <3>1
    <3> QED BY <3>2, <3>3, <3>4
  <2>3. out' = [out EXCEPT ![visiting[k]] = z] /\ UNCHANGED <<feed, feeding, arrived>> /\ UNCHANGED <<outClosed, done>>
    BY <1>8, <2>2 DEF P!FanOut, P!endVars
  <2> QED BY <1>0, <2>1, <2>2, <2>3 DEF P!OutType
<1>9. ASSUME NEW o \in P!Outputs, P!StreamReceive(o) PROVE P!OutType'
  <2>1. out[o] \in Seq(P!Items) /\ out[o] # <<>> /\ Len(out[o]) <= Buffer /\ arrived[o] \in Seq(P!Items)
    BY <1>0, <1>9 DEF P!StreamReceive, P!OutType
  <2>2. PICK z \in Seq(P!Items) : z = Tail(out[o]) /\ Len(z) <= Buffer
    BY <1>t, <2>1
  <2>3. Append(arrived[o], Head(out[o])) \in Seq(P!Items)
    BY <1>t, <2>1
  <2>4. /\ out' = [out EXCEPT ![o] = z]
        /\ arrived' = [arrived EXCEPT ![o] = Append(arrived[o], Head(out[o]))]
        /\ UNCHANGED <<feed, feeding, outClosed, done>>
    BY <1>9, <2>2 DEF P!StreamReceive, P!endVars
  <2> QED BY <1>0, <2>2, <2>3, <2>4 DEF P!OutType
<1>10. ASSUME NEW o \in P!SinkOutputs, P!FeedReceive(o) PROVE P!OutType'
  <2>0. o \in P!Outputs
    BY <1>p
  <2>1. out[o] \in Seq(P!Items) /\ out[o] # <<>> /\ Len(out[o]) <= Buffer
    BY <1>0, <1>10, <2>0 DEF P!FeedReceive, P!OutType
  <2>2. PICK z \in Seq(P!Items) : z = Tail(out[o]) /\ Len(z) <= Buffer
    BY <1>t, <2>1
  <2>3. PICK y \in Seq(P!Items) : y = <<Head(out[o])>> /\ Len(y) <= 1
    BY <1>t, <2>1
  <2>4. /\ out' = [out EXCEPT ![o] = z] /\ feeding' = [feeding EXCEPT ![o] = y]
        /\ UNCHANGED <<feed, arrived, outClosed, done>>
    BY <1>10, <2>2, <2>3 DEF P!FeedReceive, P!endVars
  <2> QED BY <1>0, <2>0, <2>2, <2>3, <2>4 DEF P!OutType
<1>11. ASSUME NEW o \in P!SinkOutputs, P!FeedDeliver(o) PROVE P!OutType'
  <2>0. o \in P!Outputs
    BY <1>p
  <2>1. arrived[o] \o feeding[o] \in Seq(P!Items)
    BY <1>0, <2>0 DEF P!OutType
  <2>2. /\ feeding' = [feeding EXCEPT ![o] = <<>>] /\ arrived' = [arrived EXCEPT ![o] = arrived[o] \o feeding[o]]
        /\ UNCHANGED <<out, feed, outClosed, done>>
    BY <1>11 DEF P!FeedDeliver, P!endVars
  <2> QED BY <1>0, <1>h, <2>0, <2>1, <2>2 DEF P!OutType
<1>12. ASSUME NEW o \in P!SinkOutputs, P!FeedExit(o) PROVE P!OutType'
  <2>1. /\ feeding' = [feeding EXCEPT ![o] = <<>>] /\ feed' = [feed EXCEPT ![o] = "exited"]
        /\ UNCHANGED <<out, arrived, outClosed, done>>
    BY <1>12 DEF P!FeedExit, P!endVars
  <2> QED BY <1>0, <1>h, <2>1 DEF P!OutType
<1> QED
  BY <1>2, <1>3, <1>4, <1>5, <1>6, <1>7, <1>8, <1>9, <1>10, <1>11, <1>12 DEF P!Next, P!PumpStep, P!FeedStep

LEMMA PipeStep == PipeInv /\ [P!Next]_(P!vars) => PipeInv'
<1> SUFFICES ASSUME PipeInv, [P!Next]_(P!vars) PROVE PipeInv'
  OBVIOUS
<1>1. P!PipeSizes'
  BY DEF PipeInv, P!PipeSizes, P!Pumps, P!Outputs
<1>2. P!CallType' /\ \A j \in P!Pumps : chan'[j] \in Seq(P!Own(j))
  BY CallTypeStep
<1>3. PumpGoal'
  BY PumpTypeStep
<1>4. P!OutType'
  BY OutTypeStep
<1>5. \A j \in P!Pumps : held'[j] \in Seq(P!Own(j))
  BY <1>3 DEF PumpGoal
<1>6. Owned'
  BY <1>2, <1>5 DEF Owned
<1> QED BY <1>1, <1>2, <1>3, <1>4, <1>6 DEF PipeInv, P!TypeOK, PumpGoal

-----------------------------------------------------------------------------
(* What a pump's items look like in a sequence that both pumps feed.        *)
LEMMA Flattens == \A q : P!FlattenSeq(q) = FlattenSeq(q)
BY Zenon DEF P!FlattenSeq, FlattenSeq

One(k, x) == IF x \in P!Own(k) THEN <<x>> ELSE <<>>
Ones(k) == [x \in P!Items |-> One(k, x)]

LEMMA OnesType ==
  /\ \A k, x : One(k, x) \in Seq(P!Own(k)) /\ Len(One(k, x)) \in Nat /\ Len(One(k, x)) <= 1
  /\ \A k : Ones(k) \in [P!Items -> Seq(P!Own(k))]
<1>1. ASSUME NEW k, NEW x PROVE One(k, x) \in Seq(P!Own(k)) /\ Len(One(k, x)) \in Nat /\ Len(One(k, x)) <= 1
  <2>1. CASE x \in P!Own(k)
    BY <2>1 DEF One
  <2>2. CASE x \notin P!Own(k)
    BY <2>2 DEF One
  <2> QED BY <2>1, <2>2
<1> QED BY <1>1 DEF Ones

LEMMA MineIs ==
  ASSUME NEW k, NEW s \in Seq(P!Items)
  PROVE  Same(P!Mine(k, s), Gather(s, Ones(k)))
<1>1. \A i \in DOMAIN s : s[i] \in P!Items
  OBVIOUS
<1>2. [i \in DOMAIN s |-> IF s[i] \in P!Own(k) THEN <<s[i]>> ELSE <<>>] = Images(s, Ones(k))
  BY <1>1 DEF Images, Ones, One
<1>3. P!Mine(k, s) = FlattenSeq([i \in DOMAIN s |-> IF s[i] \in P!Own(k) THEN <<s[i]>> ELSE <<>>])
  BY Flattens, Zenon DEF P!Mine
<1> QED BY <1>2, <1>3, Zenon DEF Gather, Same

LEMMA MineType == ASSUME NEW k, NEW s \in Seq(P!Items) PROVE P!Mine(k, s) \in Seq(P!Own(k))
<1>1. Ones(k) \in [P!Items -> Seq(P!Own(k))]
  BY OnesType
<1>2. Gather(s, Ones(k)) \in Seq(P!Own(k))
  BY <1>1, GatherType
<1>3. Same(P!Mine(k, s), Gather(s, Ones(k)))
  BY MineIs
<1> QED BY <1>2, <1>3 DEF Same

LEMMA MineNone == \A k : P!Mine(k, <<>>) = <<>>
<1> SUFFICES ASSUME NEW k PROVE P!Mine(k, <<>>) = <<>>
  OBVIOUS
<1>1. PICK e \in Seq(P!Items) : e = <<>>
  BY SeqNone
<1>2. Same(P!Mine(k, e), Gather(e, Ones(k)))
  BY MineIs
<1> QED BY <1>1, <1>2, GatherNone, Zenon DEF Same

LEMMA MineLast ==
  ASSUME NEW k, NEW s \in Seq(P!Items), NEW x \in P!Items
  PROVE  Same(P!Mine(k, Append(s, x)), P!Mine(k, s) \o One(k, x))
<1>1. Ones(k) \in [P!Items -> Seq(P!Own(k))] /\ Ones(k)[x] = One(k, x)
  BY OnesType DEF Ones
<1>2. PICK z \in Seq(P!Items) : z = Append(s, x)
  <2>1. Append(s, x) \in Seq(P!Items)
    OBVIOUS
  <2> QED BY <2>1
<1>3. Same(P!Mine(k, s), Gather(s, Ones(k))) /\ Same(P!Mine(k, z), Gather(z, Ones(k)))
  BY MineIs
<1>4. Same(Gather(Append(s, x), Ones(k)), Gather(s, Ones(k)) \o Ones(k)[x])
  BY <1>1, GatherLast
<1> QED BY <1>1, <1>2, <1>3, <1>4, Zenon DEF Same

LEMMA MineFirst ==
  ASSUME NEW k, NEW s \in Seq(P!Items), s # <<>>
  PROVE  Same(P!Mine(k, s), One(k, Head(s)) \o P!Mine(k, Tail(s)))
<1>1. Ones(k) \in [P!Items -> Seq(P!Own(k))] /\ Ones(k)[Head(s)] = One(k, Head(s))
  <2>1. Head(s) \in P!Items
    OBVIOUS
  <2> QED BY <2>1, OnesType DEF Ones
<1>2. PICK z \in Seq(P!Items) : z = Tail(s)
  <2>1. Tail(s) \in Seq(P!Items)
    OBVIOUS
  <2> QED BY <2>1
<1>3. Same(P!Mine(k, s), Gather(s, Ones(k))) /\ Same(P!Mine(k, z), Gather(z, Ones(k)))
  BY MineIs
<1>4. Same(Gather(s, Ones(k)), Ones(k)[Head(s)] \o Gather(Tail(s), Ones(k)))
  BY <1>1, GatherFirst
<1> QED BY <1>1, <1>2, <1>3, <1>4, Zenon DEF Same

LEMMA MineOne == ASSUME NEW k, NEW x \in P!Items PROVE Same(P!Mine(k, <<x>>), One(k, x))
<1>1. PICK e \in Seq(P!Items) : e = <<>> /\ Append(e, x) = <<x>>
  <2>1. <<>> \in Seq(P!Items) /\ Append(<<>>, x) = <<x>>
    OBVIOUS
  <2> QED BY <2>1
<1>2. Same(P!Mine(k, Append(e, x)), P!Mine(k, e) \o One(k, x))
  BY MineLast
<1>3. One(k, x) \in Seq(P!Own(k))
  BY OnesType
<1>4. Same(<<>> \o One(k, x), One(k, x))
  BY <1>3, NoneCat
<1> QED BY <1>1, <1>2, <1>4, MineNone, Zenon DEF Same

LEMMA MineLength ==
  ASSUME NEW k, NEW s \in Seq(P!Items)
  PROVE  Len(P!Mine(k, s)) \in Nat /\ Len(P!Mine(k, s)) <= Len(s)
<1> DEFINE Ls == {n \in Nat : \A r \in Seq(P!Items) : Len(r) = n => Len(P!Mine(k, r)) <= n}
<1>1. 0 \in Ls
  <2>1. ASSUME NEW r \in Seq(P!Items), Len(r) = 0 PROVE Len(P!Mine(k, r)) <= 0
    <3>1. r = <<>> /\ Len(<<>>) = 0
      BY <2>1, EmptySeq
    <3> QED BY <3>1, MineNone
  <2> QED BY <2>1
<1>2. ASSUME NEW n \in Nat, n \in Ls PROVE n + 1 \in Ls
  <2>1. ASSUME NEW r \in Seq(P!Items), Len(r) = n + 1 PROVE Len(P!Mine(k, r)) <= n + 1
    <3>0. HasLast(r, P!Items, n)
      BY <2>1, LastOff
    <3>1. PICK t \in Seq(P!Items), x \in P!Items : Len(t) = n /\ r = Append(t, x)
      BY <3>0 DEF HasLast
    <3>2. Len(P!Mine(k, t)) <= n
      BY <1>2, <3>1
    <3>3. Same(P!Mine(k, r), P!Mine(k, t) \o One(k, x))
      BY <3>1, MineLast
    <3>4. P!Mine(k, t) \in Seq(P!Own(k)) /\ One(k, x) \in Seq(P!Own(k)) /\ Len(One(k, x)) <= 1
      BY MineType, OnesType
    <3>5. Len(P!Mine(k, t) \o One(k, x)) = Len(P!Mine(k, t)) + Len(One(k, x))
          /\ Len(P!Mine(k, t)) \in Nat /\ Len(One(k, x)) \in Nat
      BY <3>4
    <3>6. P!Mine(k, r) = P!Mine(k, t) \o One(k, x)
      BY <3>3 DEF Same
    <3> QED BY <3>2, <3>4, <3>5, <3>6
  <2> QED BY <2>1
<1> HIDE DEF Ls
<1>3. Nat \subseteq Ls
  BY <1>1, <1>2, Induct
<1>4. Len(s) \in Ls
  BY <1>3
<1>5. P!Mine(k, s) \in Seq(P!Own(k))
  BY MineType
<1>6. Len(P!Mine(k, s)) \in Nat
  BY <1>5
<1> QED BY <1>4, <1>6 DEF Ls

-----------------------------------------------------------------------------
(* The way from a pump to an output, as the way to an adapter above.        *)
LEMMA WayMiddle ==
  ASSUME NEW S, NEW p \in Seq(S), NEW q \in Seq(S), NEW r \in Seq(S), NEW u \in Seq(S)
  PROVE  Same(Way(p, q, r, u), Way(p, q \o r, <<>>, u))
<1>1. q \o r \in Seq(S) /\ Same((p \o q) \o r, p \o (q \o r))
  BY SeqCat, CatCat
<1>2. p \o (q \o r) \in Seq(S)
  BY <1>1, SeqCat
<1>3. Same((p \o (q \o r)) \o <<>>, p \o (q \o r))
  BY <1>2, NoneCat
<1> QED BY <1>1, <1>3, Zenon DEF Way, Same

LEMMA WayFront ==
  ASSUME NEW S, NEW s \in Seq(S), NEW t \in Seq(S), NEW r \in Seq(S), NEW u \in Seq(S)
  PROVE  Same(Way(<<>>, s \o t, r, u), Way(s, t, r, u))
<1>1. s \o t \in Seq(S)
  BY SeqCat
<1>2. Same(<<>> \o (s \o t), s \o t)
  BY <1>1, NoneCat
<1> QED BY <1>2, Zenon DEF Way, Same

LEMMA WayGathered ==
  ASSUME NEW S, NEW p \in Seq(S), NEW q \in Seq(S), NEW r \in Seq(S), NEW u \in Seq(S)
  PROVE  Same(Way(p, q, r, u), Way(<<>>, p, q \o r, u))
<1>1. Same(<<>> \o p, p) /\ Same((p \o q) \o r, p \o (q \o r))
  BY NoneCat, CatCat
<1> QED BY <1>1, Zenon DEF Way, Same

\* One item taken out.
Gap(w, v) == \E i \in DOMAIN w : v = RemoveAt(w, i)

LEMMA GapMiddle ==
  ASSUME NEW S, NEW p \in Seq(S), NEW q \in Seq(S), NEW u \in Seq(S), NEW x \in S
  PROVE  Gap(Way(p, q, <<x>>, u), Way(p, q, <<>>, u))
<1>1. \E i \in DOMAIN Way(p, q, <<x>>, u) : Way(p, q, <<>>, u) = RemoveAt(Way(p, q, <<x>>, u), i)
  <2>1. PICK w \in Seq(S), y \in Seq(S) : w = Way(p, q, y, u) /\ y = <<x>>
    <3>1. <<x>> \in Seq(S)
      OBVIOUS
    <3>2. Way(p, q, <<x>>, u) \in Seq(S)
      BY <3>1, WayLength
    <3> QED BY <3>1, <3>2
  <2>2. w = Way(p, q, <<x>>, u)
    BY <2>1
  <2>3. \E i \in DOMAIN w : Way(p, q, <<>>, u) = RemoveAt(w, i)
    BY <2>2, LoseHeld
  <2> QED BY <2>2, <2>3
<1> QED BY <1>1 DEF Gap

LEMMA GapFront ==
  ASSUME NEW S, NEW q \in Seq(S), NEW r \in Seq(S), NEW u \in Seq(S), NEW x \in S
  PROVE  Gap(Way(<<x>>, q, r, u), Way(<<>>, q, r, u))
<1>1. PICK e \in Seq(S), y \in Seq(S), v \in Seq(S) : e = <<>> /\ y = <<x>> /\ v = q \o r
  <2>1. <<>> \in Seq(S) /\ <<x>> \in Seq(S) /\ q \o r \in Seq(S)
    OBVIOUS
  <2> QED BY <2>1
<1>2. Same(Way(y, q, r, u), Way(<<>>, y, q \o r, u)) /\ Same(Way(e, q, r, u), Way(<<>>, e, q \o r, u))
  BY WayGathered
<1>3. \E i \in DOMAIN Way(e, <<x>>, v, u) : Way(e, <<>>, v, u) = RemoveAt(Way(e, <<x>>, v, u), i)
  <2>1. PICK w \in Seq(S) : w = Way(e, <<x>>, v, u)
    BY <1>1, WayLength
  <2>2. \E i \in DOMAIN w : Way(e, <<>>, v, u) = RemoveAt(w, i)
    <3>1. e \in Seq(S) /\ v \in Seq(S) /\ w \in Seq(S) /\ w = Way(e, <<x>>, v, u)
      BY <1>1, <2>1
    <3> QED BY ONLY <3>1, x \in S, u \in Seq(S), LoseOffered
  <2> QED BY <2>1, <2>2
<1> QED BY <1>1, <1>2, <1>3, Zenon DEF Same, Gap

\* Its first item gone.
Rest1(w, x, v) == w # <<>> /\ Head(w) = x /\ Tail(w) = v

LEMMA FrontLeft ==
  ASSUME NEW S, NEW q \in Seq(S), NEW r \in Seq(S), NEW u \in Seq(S), NEW x \in S
  PROVE  Rest1(Way(<<x>>, q, r, u), x, Way(<<>>, q, r, u))
<1>1. PICK y \in Seq(S) : y = <<x>> /\ y # <<>> /\ Head(y) = x /\ Tail(y) = <<>>
  <2>1. <<x>> \in Seq(S) /\ <<x>> # <<>> /\ Head(<<x>>) = x /\ Tail(<<x>>) = <<>>
    OBVIOUS
  <2> QED BY <2>1
<1>2. PICK w \in Seq(S) : w = Way(y, q, r, u)
  BY WayLength
<1>3. w # <<>> /\ Head(w) = Head(y) /\ Tail(w) = Way(Tail(y), q, r, u)
  <2>1. y # <<>>
    BY <1>1
  <2> QED BY <1>2, <2>1, LeaveFirst
<1> QED BY <1>1, <1>2, <1>3 DEF Rest1

\* What is with the output's Feed; the whole way; and what the link may do.
With(o) == IF o \in P!SinkOutputs THEN feeding[o] ELSE <<>>
PipeWay(k, o) == Way(P!Mine(k, With(o)), P!Mine(k, out[o]), P!InHand(k, o), chan[k])

Fits(k, w, v) == Len(w) < 2 * Buffer + 2 /\ \E x \in P!Own(k) : v = Append(w, x)
Hands(w, v, g, f) == \E x : Rest1(w, x, v) /\ f = Append(g, x)
PipeSees(k, c, w, v, g, f) ==
  \/ v = w /\ f = g
  \/ Fits(k, w, v) /\ f = g
  \/ Hands(w, v, g, f)
  \/ c /\ Gap(w, v) /\ f = g

Arrived(k, o) == P!Mine(k, arrived[o])

LEMMA FirstAndRest ==
  ASSUME NEW S, NEW s \in Seq(S), s # <<>>
  PROVE  \E x \in S, q \in Seq(S) : x = Head(s) /\ q = Tail(s)
<1>1. Head(s) \in S /\ Tail(s) \in Seq(S)
  OBVIOUS
<1> QED BY <1>1

LEMMA OneItem ==
  ASSUME NEW S, NEW s \in Seq(S), Len(s) = 1
  PROVE  \E x \in S : s = <<x>>
<1>1. s[1] \in S /\ <<s[1]>> \in Seq(S) /\ Len(<<s[1]>>) = 1 /\ \A i \in 1..1 : <<s[1]>>[i] = s[i]
  OBVIOUS
<1>2. s = <<s[1]>>
  BY <1>1, SeqEqual
<1> QED BY <1>1, <1>2

LEMMA AtMostOne ==
  ASSUME NEW S, NEW s \in Seq(S), Len(s) = 1 \/ s = <<>>
  PROVE  Len(s) \in Nat /\ Len(s) <= 1
<1>1. CASE Len(s) = 1
  BY <1>1
<1>2. CASE s = <<>>
  BY <1>2, EmptySeq
<1> QED BY <1>1, <1>2

LEMMA JustOne ==
  ASSUME NEW S, NEW s \in Seq(S), s # <<>>, Len(s) <= 1
  PROVE  \E x \in S : s = <<x>>
<1>1. Len(s) \in Nat /\ Len(s) # 0
  BY EmptySeq
<1> QED BY <1>1, OneItem

LEMMA WayShort ==
  ASSUME NEW S, NEW p \in Seq(S), NEW q \in Seq(S), NEW r \in Seq(S), NEW u \in Seq(S),
         NEW b \in Nat, Len(p) <= 1, Len(q) <= b, Len(r) <= 1, Len(u) < b
  PROVE  Len(Way(p, q, r, u)) < 2 * b + 2
<1>1. Len(Way(p, q, r, u)) = Len(p) + Len(q) + Len(r) + Len(u)
  BY WayLength
<1>2. Len(p) \in Nat /\ Len(q) \in Nat /\ Len(r) \in Nat /\ Len(u) \in Nat
  OBVIOUS
<1> QED BY <1>1, <1>2

LEMMA MineShort ==
  ASSUME NEW k, NEW s \in Seq(P!Items), NEW b \in Nat, Len(s) <= b
  PROVE  Len(P!Mine(k, s)) <= b
<1>1. PICK n \in Nat : n = Len(P!Mine(k, s)) /\ n <= Len(s)
  BY MineLength
<1>2. Len(s) \in Nat
  OBVIOUS
<1> QED BY <1>1, <1>2

PartsTyped(k, o) ==
  /\ With(o) \in Seq(P!Items) /\ Len(With(o)) \in Nat /\ Len(With(o)) <= 1
  /\ out[o] \in Seq(P!Items) /\ Len(out[o]) \in Nat /\ Len(out[o]) <= Buffer
  /\ P!InHand(k, o) \in Seq(P!Own(k)) /\ Len(P!InHand(k, o)) \in Nat /\ Len(P!InHand(k, o)) <= 1
  /\ chan[k] \in Seq(P!Own(k)) /\ Len(chan[k]) \in Nat /\ arrived[o] \in Seq(P!Items) /\ Buffer \in Nat
  /\ P!Mine(k, With(o)) \in Seq(P!Own(k)) /\ P!Mine(k, out[o]) \in Seq(P!Own(k)) /\ Arrived(k, o) \in Seq(P!Own(k))

LEMMA PartsType ==
  ASSUME PipeInv, NEW k \in P!Pumps, NEW o \in P!Outputs
  PROVE  PartsTyped(k, o)
<1>1. With(o) \in Seq(P!Items) /\ Len(With(o)) \in Nat /\ Len(With(o)) <= 1
  <2>1. CASE o \in P!SinkOutputs
    <3>1. feeding[o] \in Seq(P!Items) /\ Len(feeding[o]) <= 1
      BY <2>1 DEF PipeInv, P!TypeOK, P!OutType
    <3>2. Len(feeding[o]) \in Nat
      BY <3>1
    <3> QED BY <2>1, <3>1, <3>2 DEF With
  <2>2. CASE o \notin P!SinkOutputs
    BY <2>2 DEF With
  <2> QED BY <2>1, <2>2
<1>2. /\ out[o] \in Seq(P!Items) /\ Len(out[o]) <= Buffer /\ arrived[o] \in Seq(P!Items)
      /\ chan[k] \in Seq(P!Own(k)) /\ held[k] \in Seq(P!Own(k))
  BY DEF PipeInv, P!TypeOK, P!OutType, Owned
<1>3. Len(held[k]) <= 1 /\ Len(held[k]) \in Nat
  <2>1. Len(held[k]) = 1 \/ held[k] = <<>>
    BY DEF PipeInv, P!TypeOK, P!PumpType
  <2> QED BY <1>2, <2>1, AtMostOne
<1>4. P!InHand(k, o) \in Seq(P!Own(k)) /\ Len(P!InHand(k, o)) \in Nat /\ Len(P!InHand(k, o)) <= 1
  <2>1. CASE visiting[k] <= o
    BY <1>2, <1>3, <2>1 DEF P!InHand
  <2>2. CASE ~(visiting[k] <= o)
    BY <2>2 DEF P!InHand
  <2> QED BY <2>1, <2>2
<1>5. Len(out[o]) \in Nat /\ Len(chan[k]) \in Nat /\ Buffer \in Nat
  BY <1>2, PipeSets DEF PipeInv
<1>6. P!Mine(k, With(o)) \in Seq(P!Own(k)) /\ P!Mine(k, out[o]) \in Seq(P!Own(k)) /\ Arrived(k, o) \in Seq(P!Own(k))
  BY <1>1, <1>2, MineType DEF Arrived
<1> QED BY <1>1, <1>2, <1>4, <1>5, <1>6 DEF PartsTyped

\* What each kind of step does, seen from a pump and an output.
Sees(k, o) == PipeSees(k, pipeDone, PipeWay(k, o), PipeWay(k, o)', Arrived(k, o), Arrived(k, o)')

LEMMA WayNext ==
  ASSUME NEW k, NEW o
  PROVE  /\ PipeWay(k, o)' = Way(P!Mine(k, With(o)'), P!Mine(k, out'[o]), P!InHand(k, o)', chan'[k])
         /\ Arrived(k, o)' = P!Mine(k, arrived'[o])
         /\ P!InHand(k, o)' = IF visiting'[k] <= o THEN held'[k] ELSE <<>>
         /\ With(o)' = IF o \in P!SinkOutputs THEN feeding'[o] ELSE <<>>
BY DEF PipeWay, Arrived, P!InHand, With, Way, P!Mine, P!Own, P!SinkOutputs

LEMMA Unmoved ==
  ASSUME NEW k, NEW o, With(o)' = With(o), out'[o] = out[o], P!InHand(k, o)' = P!InHand(k, o),
         chan'[k] = chan[k], arrived'[o] = arrived[o]
  PROVE  Sees(k, o)
<1>1. PipeWay(k, o)' = PipeWay(k, o)
  BY WayNext DEF PipeWay
<1>2. Arrived(k, o)' = Arrived(k, o)
  BY WayNext DEF Arrived
<1> QED BY <1>1, <1>2 DEF Sees, PipeSees

LEMMA AllUnmoved ==
  ASSUME NEW k, NEW o, UNCHANGED <<held, visiting, out, feeding, chan, arrived>>
  PROVE  Sees(k, o)
BY Unmoved DEF With, P!InHand

LEMMA EnqueueSeen ==
  ASSUME PipeInv, NEW k \in P!Pumps, NEW o \in P!Outputs, NEW j \in P!Pumps, NEW v \in P!Own(j), P!Enqueue(j, v),
         UNCHANGED <<held, visiting, out, feeding, arrived>>
  PROVE  Sees(k, o)
<1>1. With(o)' = With(o) /\ P!InHand(k, o)' = P!InHand(k, o)
  BY DEF With, P!InHand
<1>2. chan \in [P!Pumps -> Seq(P!Items)]
  BY DEF PipeInv, P!TypeOK, P!CallType
<1>3. CASE j # k
  <2>1. chan'[k] = chan[k]
    BY <1>2, <1>3 DEF P!Enqueue
  <2> QED BY <1>1, <2>1, Unmoved
<1>4. CASE j = k
  <2>1. chan'[k] = Append(chan[k], v) /\ Len(chan[k]) < Buffer
    BY <1>2, <1>4 DEF P!Enqueue
  <2>2. PartsTyped(k, o)
    BY PartsType
  <2>3. PICK w \in Seq(P!Own(k)) : w = PipeWay(k, o)
    BY <2>2, WayLength DEF PipeWay, PartsTyped
  <2>4. Len(w) < 2 * Buffer + 2
    <3>1. /\ P!Mine(k, With(o)) \in Seq(P!Own(k)) /\ P!Mine(k, out[o]) \in Seq(P!Own(k))
          /\ P!InHand(k, o) \in Seq(P!Own(k)) /\ chan[k] \in Seq(P!Own(k))
          /\ Buffer \in Nat /\ 1 \in Nat /\ Len(P!InHand(k, o)) <= 1
          /\ With(o) \in Seq(P!Items) /\ out[o] \in Seq(P!Items)
          /\ Len(With(o)) <= 1 /\ Len(out[o]) <= Buffer
      BY <2>2 DEF PartsTyped
    <3>2. Len(P!Mine(k, With(o))) <= 1 /\ Len(P!Mine(k, out[o])) <= Buffer
      BY <3>1, MineShort
    <3>3. Len(Way(P!Mine(k, With(o)), P!Mine(k, out[o]), P!InHand(k, o), chan[k])) < 2 * Buffer + 2
      BY <2>1, <3>1, <3>2, WayShort
    <3> QED BY <2>3, <3>3 DEF PipeWay
  <2>5. Way(P!Mine(k, With(o)), P!Mine(k, out[o]), P!InHand(k, o), Append(chan[k], v)) = Append(w, v)
    <3>1. w = Way(P!Mine(k, With(o)), P!Mine(k, out[o]), P!InHand(k, o), chan[k])
      BY <2>3 DEF PipeWay
    <3>2. v \in P!Own(k) /\ w \in Seq(P!Own(k))
      BY <1>4, <2>3
    <3>3. /\ P!Mine(k, With(o)) \in Seq(P!Own(k)) /\ P!Mine(k, out[o]) \in Seq(P!Own(k))
          /\ P!InHand(k, o) \in Seq(P!Own(k)) /\ chan[k] \in Seq(P!Own(k))
      BY <2>2 DEF PartsTyped
    <3> QED BY ONLY <3>1, <3>2, <3>3, EnterLast
  <2>6. PipeWay(k, o)' = Append(w, v)
    BY <1>1, <2>1, <2>5, WayNext
  <2>7. Arrived(k, o)' = Arrived(k, o)
    BY WayNext DEF Arrived
  <2> QED BY <1>4, <2>3, <2>4, <2>6, <2>7 DEF Sees, PipeSees, Fits
<1> QED BY <1>3, <1>4

LEMMA ReceiveSeen ==
  ASSUME PipeInv, NEW k \in P!Pumps, NEW o \in P!Outputs, NEW j \in P!Pumps, P!PumpReceive(j)
  PROVE  Sees(k, o)
<1>1. With(o)' = With(o) /\ UNCHANGED <<out, arrived>>
  BY DEF With, P!PumpReceive, P!outVars
<1>2. /\ chan \in [P!Pumps -> Seq(P!Items)] /\ held \in [P!Pumps -> Seq(P!Items)] /\ visiting \in [P!Pumps -> P!Outputs]
      /\ \A i \in P!Pumps : pump[i] = "receiving" => held[i] = <<>>
  BY DEF PipeInv, P!TypeOK, P!CallType, P!PumpType
<1>3. CASE j # k
  <2>1. chan'[k] = chan[k] /\ held'[k] = held[k] /\ visiting'[k] = visiting[k]
    BY <1>2, <1>3 DEF P!PumpReceive
  <2>2. P!InHand(k, o)' = P!InHand(k, o)
    BY <2>1 DEF P!InHand
  <2> QED BY <1>1, <2>1, <2>2, Unmoved
<1>4. CASE j = k
  <2>1. /\ chan'[k] = Tail(chan[k]) /\ held'[k] = <<Head(chan[k])>> /\ visiting'[k] = 1
        /\ chan[k] # <<>> /\ held[k] = <<>>
    BY <1>2, <1>4 DEF P!PumpReceive
  <2>2. PartsTyped(k, o) /\ 1 <= o
    BY PartsType DEF PipeInv, P!PipeSizes, P!Outputs
  <2>3. P!InHand(k, o) = <<>> /\ P!InHand(k, o)' = <<Head(chan[k])>>
    BY <2>1, <2>2 DEF P!InHand
  <2>4. Way(P!Mine(k, With(o)), P!Mine(k, out[o]), <<Head(chan[k])>>, Tail(chan[k])) =
          Way(P!Mine(k, With(o)), P!Mine(k, out[o]), <<>>, chan[k])
    BY <2>1, <2>2, MoveToHand DEF PartsTyped
  <2>5. PipeWay(k, o)' = PipeWay(k, o)
    BY <1>1, <2>1, <2>3, <2>4, WayNext DEF PipeWay
  <2>6. Arrived(k, o)' = Arrived(k, o)
    BY <1>1, WayNext DEF Arrived
  <2> QED BY <2>5, <2>6 DEF Sees, PipeSees
<1> QED BY <1>3, <1>4

LEMMA FanOutSeen ==
  ASSUME PipeInv, NEW k \in P!Pumps, NEW o \in P!Outputs, NEW j \in P!Pumps, P!FanOut(j)
  PROVE  Sees(k, o)
<1>1. With(o)' = With(o) /\ UNCHANGED <<chan, arrived>>
  BY DEF With, P!FanOut
<1>2. /\ out \in [P!Outputs -> Seq(P!Items)] /\ held \in [P!Pumps -> Seq(P!Items)] /\ visiting \in [P!Pumps -> P!Outputs]
      /\ P!Outputs = 1..(Sinks + Streams) /\ Sinks \in Nat /\ Streams \in Nat
  BY DEF PipeInv, P!TypeOK, P!OutType, P!PumpType, P!Outputs, P!PipeSizes
<1>3. PICK y \in P!Own(j) : held[j] = <<y>> /\ y \in P!Items
  <2>1. held[j] \in Seq(P!Own(j)) /\ Len(held[j]) = 1
    BY DEF PipeInv, P!TypeOK, P!PumpType, Owned, P!FanOut
  <2>2. PICK y \in P!Own(j) : held[j] = <<y>>
    BY <2>1, OneItem
  <2> QED BY <2>2, PipeSets DEF PipeInv
<1>4. out' = [out EXCEPT ![visiting[j]] = Append(out[visiting[j]], y)]
  <2>1. out' = [out EXCEPT ![visiting[j]] = out[visiting[j]] \o <<y>>]
    BY <1>3 DEF P!FanOut
  <2>2. out[visiting[j]] \in Seq(P!Items)
    BY <1>2
  <2>3. Append(out[visiting[j]], y) = out[visiting[j]] \o <<y>>
    BY <1>3, <2>2, AppendIsConcat
  <2> QED BY <2>1, <2>3
<1>5. PartsTyped(k, o)
  BY PartsType
<1>6. Arrived(k, o)' = Arrived(k, o)
  BY <1>1, WayNext DEF Arrived
<1>7. IF visiting[j] = Sinks + Streams THEN held' = [held EXCEPT ![j] = <<>>] /\ visiting' = visiting
      ELSE visiting' = [visiting EXCEPT ![j] = visiting[j] + 1] /\ held' = held
  BY DEF P!FanOut, P!Advance
<1>8. CASE visiting[j] # o
  <2>1. out'[o] = out[o]
    BY <1>2, <1>4, <1>8
  <2>2. P!InHand(k, o)' = P!InHand(k, o)
    <3>1. CASE j # k
      <4>1. held'[k] = held[k] /\ visiting'[k] = visiting[k]
        BY <1>2, <1>7, <3>1
      <4> QED BY <4>1 DEF P!InHand
    <3>2. CASE j = k /\ visiting[k] = Sinks + Streams
      <4>1. ~(visiting[k] <= o) /\ visiting'[k] = visiting[k]
        BY <1>2, <1>7, <1>8, <3>2
      <4> QED BY <4>1 DEF P!InHand
    <3>3. CASE j = k /\ visiting[k] # Sinks + Streams
      <4>1. visiting'[k] = visiting[k] + 1 /\ held'[k] = held[k]
        BY <1>2, <1>7, <3>3
      <4>2. (visiting'[k] <= o) <=> (visiting[k] <= o)
        BY <1>2, <1>8, <3>3, <4>1
      <4> QED BY <4>1, <4>2 DEF P!InHand
    <3> QED BY <3>1, <3>2, <3>3
  <2> QED BY <1>1, <2>1, <2>2, Unmoved
<1>9. ASSUME visiting[j] = o PROVE /\ out'[o] = Append(out[o], y)
                               /\ Same(P!Mine(k, Append(out[o], y)), P!Mine(k, out[o]) \o One(k, y))
  BY <1>2, <1>3, <1>4, <1>5, <1>9, MineLast DEF PartsTyped
<1>10. CASE visiting[j] = o /\ j # k
  <2>1. held'[k] = held[k] /\ visiting'[k] = visiting[k]
    BY <1>2, <1>7, <1>10
  <2>2. P!InHand(k, o)' = P!InHand(k, o)
    BY <2>1 DEF P!InHand
  <2>3. One(k, y) = <<>>
    BY <1>3, <1>10 DEF One, P!Own, P!Pumps, PipeInv, P!PipeSizes
  <2>4. Same(P!Mine(k, out[o]) \o <<>>, P!Mine(k, out[o]))
    BY <1>5, NoneCat DEF PartsTyped
  <2>5. P!Mine(k, out'[o]) = P!Mine(k, out[o])
    BY <1>9, <1>10, <2>3, <2>4, Zenon DEF Same
  <2>6. PipeWay(k, o)' = PipeWay(k, o)
    BY <1>1, <2>2, <2>5, WayNext DEF PipeWay
  <2> QED BY <1>6, <2>6 DEF Sees, PipeSees
<1>11. CASE visiting[j] = o /\ j = k
  <2>1. P!InHand(k, o) = <<y>> /\ P!InHand(k, o)' = <<>>
    BY <1>2, <1>3, <1>7, <1>11 DEF P!InHand
  <2>2. One(k, y) = <<y>> /\ <<y>> \in Seq(P!Own(k))
    BY <1>3, <1>11 DEF One
  <2>3. P!Mine(k, out'[o]) = P!Mine(k, out[o]) \o <<y>>
    BY <1>9, <1>11, <2>2, Zenon DEF Same
  <2>4. Same(Way(P!Mine(k, With(o)), P!Mine(k, out[o]), <<y>>, chan[k]),
             Way(P!Mine(k, With(o)), P!Mine(k, out[o]) \o <<y>>, <<>>, chan[k]))
    BY <1>5, <2>2, WayMiddle DEF PartsTyped
  <2>5. PipeWay(k, o)' = PipeWay(k, o)
    BY <1>1, <2>1, <2>3, <2>4, WayNext DEF PipeWay, Same
  <2> QED BY <1>6, <2>5 DEF Sees, PipeSees
<1> QED BY <1>8, <1>10, <1>11

LEMMA GiveUpSeen ==
  ASSUME PipeInv, NEW k \in P!Pumps, NEW o \in P!Outputs, NEW j \in P!Pumps, P!FanOutGiveUp(j)
  PROVE  Sees(k, o)
<1>1. With(o)' = With(o) /\ UNCHANGED <<out, arrived, chan, visiting>> /\ pipeDone
  BY DEF With, P!FanOutGiveUp, P!outVars
<1>2. held \in [P!Pumps -> Seq(P!Items)] /\ held' = [held EXCEPT ![j] = <<>>]
  BY DEF PipeInv, P!TypeOK, P!PumpType, P!FanOutGiveUp
<1>3. CASE j # k \/ ~(visiting[k] <= o)
  <2>1. P!InHand(k, o)' = P!InHand(k, o)
    BY <1>1, <1>2, <1>3 DEF P!InHand
  <2> QED BY <1>1, <2>1, Unmoved
<1>4. CASE j = k /\ visiting[k] <= o
  <2>1. PICK x \in P!Own(k) : held[k] = <<x>>
    <3>1. held[k] \in Seq(P!Own(k)) /\ Len(held[k]) = 1
      BY <1>4 DEF PipeInv, P!TypeOK, P!PumpType, Owned, P!FanOutGiveUp
    <3> QED BY <3>1, OneItem
  <2>2. P!InHand(k, o) = <<x>> /\ P!InHand(k, o)' = <<>>
    BY <1>1, <1>2, <1>4, <2>1 DEF P!InHand
  <2>3. PartsTyped(k, o)
    BY PartsType
  <2>4. Gap(Way(P!Mine(k, With(o)), P!Mine(k, out[o]), <<x>>, chan[k]),
            Way(P!Mine(k, With(o)), P!Mine(k, out[o]), <<>>, chan[k]))
    BY <2>1, <2>3, GapMiddle DEF PartsTyped
  <2>5. Gap(PipeWay(k, o), PipeWay(k, o)')
    BY <1>1, <2>2, <2>4, WayNext DEF PipeWay
  <2>6. Arrived(k, o)' = Arrived(k, o)
    BY <1>1, WayNext DEF Arrived
  <2> QED BY <1>1, <2>5, <2>6 DEF Sees, PipeSees
<1> QED BY <1>3, <1>4

\* An item leaves the front of the way: the pump's own, or another's, which it never saw there.
LEMMA FrontGoes ==
  ASSUME PipeInv, NEW k \in P!Pumps, NEW o \in P!Outputs, NEW x \in P!Items, NEW q \in Seq(P!Items),
         Same(PipeWay(k, o), Way(One(k, x), P!Mine(k, q), P!InHand(k, o), chan[k])),
         Same(PipeWay(k, o)', Way(<<>>, P!Mine(k, q), P!InHand(k, o), chan[k])),
         arrived'[o] = Append(arrived[o], x)
  PROVE  Sees(k, o)
<1>1. PartsTyped(k, o) /\ P!Mine(k, q) \in Seq(P!Own(k))
  BY PartsType, MineType
<1>2. Arrived(k, o)' = Arrived(k, o) \o One(k, x)
  <2>1. Same(P!Mine(k, Append(arrived[o], x)), P!Mine(k, arrived[o]) \o One(k, x))
    BY <1>1, MineLast DEF PartsTyped
  <2> QED BY <2>1, WayNext, Zenon DEF Arrived, Same
<1>3. CASE x \in P!Own(k)
  <2>1. One(k, x) = <<x>>
    BY <1>3 DEF One
  <2>2. Rest1(Way(<<x>>, P!Mine(k, q), P!InHand(k, o), chan[k]), x, Way(<<>>, P!Mine(k, q), P!InHand(k, o), chan[k]))
    BY <1>1, <1>3, FrontLeft DEF PartsTyped
  <2>3. Rest1(PipeWay(k, o), x, PipeWay(k, o)')
    BY <2>1, <2>2, Zenon DEF Same
  <2>4. Append(Arrived(k, o), x) = Arrived(k, o) \o <<x>>
    BY <1>1, <1>3, AppendIsConcat DEF PartsTyped
  <2> QED BY <1>2, <2>1, <2>3, <2>4, Zenon DEF Sees, PipeSees, Hands
<1>4. CASE x \notin P!Own(k)
  <2>1. One(k, x) = <<>>
    BY <1>4 DEF One
  <2>2. Same(Arrived(k, o) \o <<>>, Arrived(k, o))
    BY <1>1, NoneCat DEF PartsTyped
  <2> QED BY <1>2, <2>1, <2>2, Zenon DEF Same, Sees, PipeSees
<1> QED BY <1>3, <1>4

\* An output's first item, as its Feed or its consumer takes it.
LEMMA TakeOut ==
  ASSUME PipeInv, NEW k \in P!Pumps, NEW o \in P!Outputs, out[o] # <<>>, With(o) = <<>>
  PROVE  Same(PipeWay(k, o), Way(One(k, Head(out[o])), P!Mine(k, Tail(out[o])), P!InHand(k, o), chan[k]))
<1>1. PartsTyped(k, o)
  BY PartsType
<1>2. PICK x \in P!Items, q \in Seq(P!Items) : x = Head(out[o]) /\ q = Tail(out[o])
  <2>1. out[o] \in Seq(P!Items)
    BY <1>1 DEF PartsTyped
  <2> QED BY <2>1, FirstAndRest
<1>3. Same(P!Mine(k, out[o]), One(k, x) \o P!Mine(k, q))
  BY <1>1, <1>2, MineFirst DEF PartsTyped
<1>4. One(k, x) \in Seq(P!Own(k)) /\ P!Mine(k, q) \in Seq(P!Own(k))
  BY OnesType, MineType
<1>5. Same(Way(<<>>, One(k, x) \o P!Mine(k, q), P!InHand(k, o), chan[k]), Way(One(k, x), P!Mine(k, q), P!InHand(k, o), chan[k]))
  BY <1>1, <1>4, WayFront DEF PartsTyped
<1> QED BY <1>2, <1>3, <1>5, MineNone, Zenon DEF PipeWay, Same

LEMMA StreamSeen ==
  ASSUME PipeInv, NEW k \in P!Pumps, NEW o \in P!Outputs, NEW j \in P!Outputs, P!StreamReceive(j)
  PROVE  Sees(k, o)
<1>1. With(o)' = With(o) /\ UNCHANGED <<chan, held, visiting>> /\ P!InHand(k, o)' = P!InHand(k, o)
  BY DEF With, P!StreamReceive, P!pumpVars, P!InHand
<1>2. out \in [P!Outputs -> Seq(P!Items)] /\ arrived \in [P!Outputs -> Seq(P!Items)]
  BY DEF PipeInv, P!TypeOK, P!OutType
<1>3. CASE j # o
  <2>1. out'[o] = out[o] /\ arrived'[o] = arrived[o]
    BY <1>2, <1>3 DEF P!StreamReceive
  <2> QED BY <1>1, <2>1, Unmoved
<1>4. CASE j = o
  <2>1. /\ out[o] # <<>> /\ With(o) = <<>> /\ out'[o] = Tail(out[o])
        /\ arrived'[o] = Append(arrived[o], Head(out[o]))
    BY <1>2, <1>4 DEF P!StreamReceive, With
  <2>2. PICK x \in P!Items, q \in Seq(P!Items) : x = Head(out[o]) /\ q = Tail(out[o])
    <3>1. out[o] \in Seq(P!Items)
      BY <1>2
    <3> QED BY <2>1, <3>1, FirstAndRest
  <2>3. Same(PipeWay(k, o), Way(One(k, x), P!Mine(k, q), P!InHand(k, o), chan[k]))
    BY <2>1, <2>2, TakeOut
  <2>4. Same(PipeWay(k, o)', Way(<<>>, P!Mine(k, q), P!InHand(k, o), chan[k]))
    BY <1>1, <2>1, <2>2, WayNext, MineNone DEF Same
  <2>5. arrived'[o] = Append(arrived[o], x)
    BY <2>1, <2>2
  <2> QED BY <2>3, <2>4, <2>5, FrontGoes
<1> QED BY <1>3, <1>4

LEMMA FeedSeen ==
  ASSUME PipeInv, NEW k \in P!Pumps, NEW o \in P!Outputs, NEW j \in P!SinkOutputs, P!FeedStep(j)
  PROVE  Sees(k, o)
<1>1. UNCHANGED <<chan, held, visiting>> /\ P!InHand(k, o)' = P!InHand(k, o)
  BY DEF P!FeedStep, P!FeedReceive, P!FeedDeliver, P!FeedExit, P!pumpVars, P!InHand
<1>2. /\ out \in [P!Outputs -> Seq(P!Items)] /\ arrived \in [P!Outputs -> Seq(P!Items)]
      /\ feeding \in [P!SinkOutputs -> Seq(P!Items)] /\ \A i \in P!SinkOutputs : Len(feeding[i]) <= 1
  BY DEF PipeInv, P!TypeOK, P!OutType
<1>3. PartsTyped(k, o)
  BY PartsType
<1>4. CASE j # o
  <2>1. out'[o] = out[o] /\ arrived'[o] = arrived[o] /\ (o \in P!SinkOutputs => feeding'[o] = feeding[o])
    BY <1>2, <1>4 DEF P!FeedStep, P!FeedReceive, P!FeedDeliver, P!FeedExit
  <2>2. With(o)' = With(o)
    BY <2>1 DEF With
  <2> QED BY <1>1, <2>1, <2>2, Unmoved
<1>5. ASSUME j = o PROVE o \in P!SinkOutputs /\ With(o) = feeding[o] /\ With(o)' = feeding'[o]
  BY <1>5 DEF With
<1>6. CASE j = o /\ P!FeedReceive(o)
  <2>1. /\ out[o] # <<>> /\ With(o) = <<>> /\ out'[o] = Tail(out[o]) /\ With(o)' = <<Head(out[o])>>
        /\ arrived' = arrived
    BY <1>2, <1>5, <1>6 DEF P!FeedReceive
  <2>2. PICK x \in P!Items, q \in Seq(P!Items) : x = Head(out[o]) /\ q = Tail(out[o])
    <3>1. out[o] \in Seq(P!Items)
      BY <1>2
    <3> QED BY <2>1, <3>1, FirstAndRest
  <2>3. Same(PipeWay(k, o), Way(One(k, x), P!Mine(k, q), P!InHand(k, o), chan[k]))
    BY <2>1, <2>2, TakeOut
  <2>4. Same(P!Mine(k, <<x>>), One(k, x))
    BY MineOne
  <2>5. PipeWay(k, o)' = Way(P!Mine(k, <<x>>), P!Mine(k, q), P!InHand(k, o), chan[k])
    BY <1>1, <2>1, <2>2, WayNext
  <2>6. Arrived(k, o)' = Arrived(k, o)
    BY <2>1, WayNext DEF Arrived
  <2> QED BY <2>3, <2>4, <2>5, <2>6, Zenon DEF Same, Sees, PipeSees
<1>h. ASSUME j = o, feeding[o] # <<>> PROVE \E x \in P!Items : feeding[o] = <<x>>
  <2>1. feeding[o] \in Seq(P!Items) /\ Len(feeding[o]) <= 1
    BY <1>2, <1>5, <1>h
  <2> QED BY <1>h, <2>1, JustOne
<1>f. ASSUME NEW x \in P!Items, With(o) = <<x>>
      PROVE  Same(PipeWay(k, o), Way(One(k, x), P!Mine(k, out[o]), P!InHand(k, o), chan[k]))
  <2>1. Same(P!Mine(k, <<x>>), One(k, x))
    BY MineOne
  <2> QED BY <1>f, <2>1, Zenon DEF Same, PipeWay
<1>e. ASSUME With(o)' = <<>>, out' = out
      PROVE  Same(PipeWay(k, o)', Way(<<>>, P!Mine(k, out[o]), P!InHand(k, o), chan[k]))
  BY <1>e, <1>1, WayNext, MineNone DEF Same
<1>7. CASE j = o /\ P!FeedDeliver(o)
  <2>1. PICK x \in P!Items : feeding[o] = <<x>>
    BY <1>7, <1>h DEF P!FeedDeliver
  <2>2. With(o) = <<x>> /\ With(o)' = <<>> /\ out' = out /\ arrived'[o] = arrived[o] \o <<x>>
    <3>1. o \in P!SinkOutputs /\ o \in P!Outputs
      BY <1>5, <1>7
    <3> QED BY <1>2, <1>5, <1>7, <2>1, <3>1 DEF P!FeedDeliver
  <2>3. arrived'[o] = Append(arrived[o], x)
    <3>1. Append(arrived[o], x) = arrived[o] \o <<x>>
      BY <1>2, AppendIsConcat
    <3> QED BY <2>2, <3>1
  <2>4. Same(PipeWay(k, o), Way(One(k, x), P!Mine(k, out[o]), P!InHand(k, o), chan[k]))
    BY <1>f, <2>2
  <2>5. Same(PipeWay(k, o)', Way(<<>>, P!Mine(k, out[o]), P!InHand(k, o), chan[k]))
    BY <1>e, <2>2
  <2>6. out[o] \in Seq(P!Items)
    BY <1>2
  <2> QED BY <2>3, <2>4, <2>5, <2>6, FrontGoes
<1>8. CASE j = o /\ P!FeedExit(o)
  <2>1. With(o)' = <<>> /\ UNCHANGED <<out, arrived>> /\ (pipeDone \/ With(o) = <<>>)
    BY <1>2, <1>5, <1>8 DEF P!FeedExit
  <2>2. CASE feeding[o] = <<>>
    <3>1. With(o)' = With(o)
      BY <1>5, <1>8, <2>1, <2>2
    <3> QED BY <1>1, <2>1, <3>1, Unmoved
  <2>3. CASE feeding[o] # <<>>
    <3>1. PICK x \in P!Items : feeding[o] = <<x>>
      BY <1>8, <1>h, <2>3
    <3>2. With(o) = <<x>> /\ pipeDone
      BY <1>5, <1>8, <2>1, <2>3, <3>1
    <3>3. Same(PipeWay(k, o), Way(One(k, x), P!Mine(k, out[o]), P!InHand(k, o), chan[k]))
      BY <1>f, <3>2
    <3>4. Same(PipeWay(k, o)', Way(<<>>, P!Mine(k, out[o]), P!InHand(k, o), chan[k]))
      BY <1>e, <2>1
    <3>5. Arrived(k, o)' = Arrived(k, o)
      BY <2>1, WayNext DEF Arrived
    <3>6. CASE x \in P!Own(k)
      <4>1. One(k, x) = <<x>>
        BY <3>6 DEF One
      <4>2. Gap(Way(<<x>>, P!Mine(k, out[o]), P!InHand(k, o), chan[k]), Way(<<>>, P!Mine(k, out[o]), P!InHand(k, o), chan[k]))
        BY <1>3, <3>6, GapFront DEF PartsTyped
      <4>3. Gap(PipeWay(k, o), PipeWay(k, o)')
        BY <3>3, <3>4, <4>1, <4>2, Zenon DEF Same
      <4> QED BY <3>2, <3>5, <4>3 DEF Sees, PipeSees
    <3>7. CASE x \notin P!Own(k)
      <4>1. One(k, x) = <<>>
        BY <3>7 DEF One
      <4>2. PipeWay(k, o)' = PipeWay(k, o)
        BY <3>3, <3>4, <4>1, Zenon DEF Same
      <4> QED BY <3>5, <4>2 DEF Sees, PipeSees
    <3> QED BY <3>6, <3>7
  <2> QED BY <2>2, <2>3
<1> QED BY <1>4, <1>6, <1>7, <1>8 DEF P!FeedStep

LEMMA StepSeen ==
  ASSUME PipeInv, [P!Next]_(P!vars), NEW k \in P!Pumps, NEW o \in P!Outputs
  PROVE  Sees(k, o)
<1>p. "push" \in P!Pumps /\ "in" \in P!Pumps /\ P!Own("push") = Pushes /\ P!Own("in") = Ingests
  BY PipeSets DEF PipeInv
<1>1. CASE P!Connect \/ P!Cancel \/ P!SourceExit \/ P!SourceClose \/ P!CloseOutputs \/ P!CloseDone \/ UNCHANGED P!vars
  BY <1>1, AllUnmoved
     DEF P!Connect, P!Cancel, P!SourceExit, P!SourceClose, P!CloseOutputs, P!CloseDone, P!vars, P!pumpVars, P!outVars
<1>2. ASSUME NEW p \in Pushes, P!PushCall(p) \/ P!PushGiveUp(p) PROVE Sees(k, o)
  BY <1>2, AllUnmoved DEF P!PushCall, P!PushGiveUp, P!pumpVars, P!outVars
<1>3. ASSUME NEW p \in Pushes, P!PushSend(p) PROVE Sees(k, o)
  <2>1. P!Enqueue("push", p) /\ p \in P!Own("push") /\ UNCHANGED <<held, visiting, out, feeding, arrived>>
    BY <1>3, <1>p DEF P!PushSend, P!pumpVars, P!outVars
  <2> QED BY <1>p, <2>1, EnqueueSeen
<1>4. ASSUME NEW v \in Ingests, P!Ingest(v) PROVE Sees(k, o)
  <2>1. P!Enqueue("in", v) /\ v \in P!Own("in") /\ UNCHANGED <<held, visiting, out, feeding, arrived>>
    BY <1>4, <1>p DEF P!Ingest, P!pumpVars, P!outVars
  <2> QED BY <1>p, <2>1, EnqueueSeen
<1>5. ASSUME NEW j \in P!Pumps, P!PumpExit(j) PROVE Sees(k, o)
  BY <1>5, AllUnmoved DEF P!PumpExit, P!outVars
<1>6. ASSUME NEW j \in P!Pumps, P!PumpReceive(j) \/ P!FanOut(j) \/ P!FanOutGiveUp(j) PROVE Sees(k, o)
  BY <1>6, ReceiveSeen, FanOutSeen, GiveUpSeen
<1>7. ASSUME NEW j \in P!Outputs, P!StreamReceive(j) PROVE Sees(k, o)
  BY <1>7, StreamSeen
<1>8. ASSUME NEW j \in P!SinkOutputs, P!FeedStep(j) PROVE Sees(k, o)
  BY <1>8, FeedSeen
<1> QED BY <1>1, <1>2, <1>3, <1>4, <1>5, <1>6, <1>7, <1>8 DEF P!Next, P!PushStep, P!PumpStep

LEMMA CancelSeen == [P!Next]_(P!vars) => pipeDone' = pipeDone \/ P!Cancel
BY DEF P!Next, P!Connect, P!PushStep, P!PushCall, P!PushSend, P!PushGiveUp, P!Ingest, P!SourceExit, P!SourceClose,
       P!PumpStep, P!PumpReceive, P!PumpExit, P!FanOut, P!FanOutGiveUp, P!CloseOutputs, P!CloseDone,
       P!StreamReceive, P!FeedStep, P!FeedReceive, P!FeedDeliver, P!FeedExit, P!vars

LEMMA PipeLinkInit == P!PipeSizes /\ P!Init => P!Link!Init
<1> SUFFICES ASSUME P!PipeSizes, P!Init PROVE P!Link!Init
  OBVIOUS
<1>1. Side \in P!Pumps /\ Watched \in P!Outputs
  BY PipeSets
<1>2. /\ chan[Side] = <<>> /\ held[Side] = <<>> /\ out[Watched] = <<>> /\ arrived[Watched] = <<>>
      /\ With(Watched) = <<>> /\ P!InHand(Side, Watched) = <<>> /\ pipeDone = FALSE
  BY <1>1 DEF P!Init, With, P!InHand
<1>3. Arrived(Side, Watched) = <<>>
  BY <1>2, MineNone DEF Arrived
<1>4. PipeWay(Side, Watched) = ((<<>> \o <<>>) \o <<>>) \o <<>>
  BY <1>2, MineNone DEF PipeWay, Way
<1>5. PipeWay(Side, Watched) = <<>>
  <2>1. Same(<<>> \o <<>>, <<>>)
    BY SeqNone, NoneCat
  <2> QED BY <1>4, <2>1 DEF Same
<1>6. P!OnItsWay(Side, Watched) = PipeWay(Side, Watched)
  BY DEF P!OnItsWay, PipeWay, Way, With
<1> QED BY <1>2, <1>3, <1>5, <1>6 DEF P!Link!Init, Arrived

LEMMA PipeLinkStep == PipeInv /\ [P!Next]_(P!vars) => [P!Link!Next]_(P!Link!linkVars)
<1> SUFFICES ASSUME PipeInv, [P!Next]_(P!vars) PROVE [P!Link!Next]_(P!Link!linkVars)
  OBVIOUS
<1> DEFINE w == P!OnItsWay(Side, Watched)
           g == P!Mine(Side, arrived[Watched])
<1>1. Sees(Side, Watched)
  BY PipeSets, StepSeen DEF PipeInv
<1>2. /\ w = PipeWay(Side, Watched) /\ w' = PipeWay(Side, Watched)'
      /\ g = Arrived(Side, Watched) /\ g' = Arrived(Side, Watched)'
  BY DEF P!OnItsWay, PipeWay, Way, With, Arrived
<1>3. PipeSees(Side, pipeDone, w, w', g, g')
  BY <1>1, <1>2, Zenon DEF Sees
<1>4. CASE P!Cancel
  <2>1. UNCHANGED <<chan, held, visiting, out, feeding, arrived>> /\ pipeDone' = TRUE
    BY <1>4 DEF P!Cancel, P!pumpVars, P!outVars
  <2>2. w' = w /\ g' = g
    BY <2>1 DEF P!OnItsWay, P!InHand, P!Mine, P!Own, P!SinkOutputs
  <2> QED BY <2>1, <2>2 DEF P!Link!Next, P!Link!Break
<1>5. CASE pipeDone' = pipeDone
  <2>1. CASE w' = w /\ g' = g
    BY <1>5, <2>1 DEF P!Link!linkVars
  <2>2. CASE Fits(Side, w, w') /\ g' = g
    BY <1>5, <2>2 DEF Fits, P!Link!Next, P!Link!Put
  <2>3. CASE Hands(w, w', g, g')
    BY <1>5, <2>3 DEF Hands, Rest1, P!Link!Next, P!Link!Get
  <2>4. CASE pipeDone /\ Gap(w, w') /\ g' = g
    BY <1>5, <2>4 DEF Gap, RemoveAt, P!Link!Next, P!Link!Lose, P!Link!RemoveAt
  <2> QED BY <1>3, <2>1, <2>2, <2>3, <2>4 DEF PipeSees
<1> QED BY <1>4, <1>5, CancelSeen

\* From the calls of Push, or from the input port, to any one output the pipe
\* implements a bounded first-in-first-out link: the other producers, the
\* other outputs and a cancellation never reorder, duplicate or invent an
\* item of that side, and lose none while the context lives (the pump
\* goroutines of PipePort.Connect, fanOut and OutputPort.Feed).
THEOREM ProducerSeesFifoHolds == PipeSpec => ProducerSeesFifo
<1>1. PipeSpec => P!Link!Spec
  <2>1. P!Init => PipeInv /\ P!Link!Init
    BY PipeAssumption, PipeInit, PipeLinkInit
  <2> QED BY <2>1, PipeStep, PipeLinkStep, PTL DEF PipeSpec, P!Spec, P!Link!Spec
<1> QED BY <1>1 DEF ProducerSeesFifo, P!ProducerSeesFifo
=============================================================================
