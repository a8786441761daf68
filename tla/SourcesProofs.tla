---------------------------- MODULE SourcesProofs ---------------------------
(* The dialled WebSocket: whatever connections come and go, the outbound    *)
(* loop writes to the newest one and finds it while it is read.  The other  *)
(* adapters: whatever the outside offers, what reaches the port's stream    *)
(* does so in its order and once, nothing is sent to a closed port, and each *)
(* of the port's channels is a first-in-first-out link that loses nothing   *)
(* while the context lives.                                                 *)
EXTENDS MCSources, FiniteSetTheorems, FunctionTheorems, SequenceTheorems, TLAPS

(* The only socket that may be open is the newest; it is closed before the  *)
(* dial loop goes on.                                                       *)
OnlyNewestOpen ==
  /\ open \subseteq {gen}
  /\ loop \in {"top", "ended", "exited"} => open = {}

DialType ==
  /\ loop \in {"top", "offering", "reading", "removing", "ended", "exited"}
  /\ gen \in Nat
  /\ sockCh \in Seq(Nat) /\ Len(sockCh) <= 1
  /\ writer \in {"idle", "writing", "returning", "left"}
  /\ inHand \in Nat
  /\ inbound \in Nat

(* The end of every connection but the newest was reported, and the dial    *)
(* loop goes on only when the end of that one was reported too.             *)
GapsReported ==
  /\ inbound <= gen
  /\ 1..(gen - 1) \subseteq gaps
  /\ loop = "top" => 1..gen \subseteq gaps

DialInv == DialType /\ OnlyNewestOpen /\ GapsReported /\ SentOnNewest /\ ReachesNewest

LEMMA DialInit == Init => DialInv
BY DEF Init, DialInv, DialType, OnlyNewestOpen, GapsReported, SentOnNewest, ReachesNewest

LEMMA DialStep == DialInv /\ [Next]_vars => DialInv'
<1> SUFFICES ASSUME DialInv, [Next]_vars PROVE DialInv'
  OBVIOUS
<1> USE DialAssumption DEF DialInv, DialType, OnlyNewestOpen, GapsReported, SentOnNewest,
                           ReachesNewest, loopVars, writeVars
<1>1. CASE Dial BY <1>1 DEF Dial
<1>2. CASE Offer BY <1>2 DEF Offer
<1>3. CASE ReadFrame BY <1>3 DEF ReadFrame
<1>4. CASE ReadFail BY <1>4 DEF ReadFail
<1>5. CASE PeerClose BY <1>5 DEF PeerClose
<1>6. CASE CloseOnCancel BY <1>6 DEF CloseOnCancel
<1>7. CASE ReadEnd BY <1>7 DEF ReadEnd
<1>8. CASE Remove BY <1>8 DEF Remove
<1>9. CASE EndConn BY <1>9 DEF EndConn
<1>10. CASE LoopExit BY <1>10 DEF LoopExit
<1>11. CASE WriteTake
  <2>1. Head(sockCh) \in Nat /\ (sockCh = <<gen>> => Head(sockCh) = gen)
    BY <1>11 DEF WriteTake
  <2> QED BY <1>11, <2>1 DEF WriteTake
<1>12. CASE Write BY <1>12 DEF Write
<1>13. CASE PutBack BY <1>13 DEF PutBack
<1>14. CASE WriterExit BY <1>14 DEF WriterExit
<1>15. CASE Cancel BY <1>15 DEF Cancel
<1>16. CASE UNCHANGED vars BY <1>16 DEF vars
<1> QED
  BY <1>1, <1>2, <1>3, <1>4, <1>5, <1>6, <1>7, <1>8, <1>9, <1>10, <1>11, <1>12, <1>13,
     <1>14, <1>15, <1>16 DEF Next, LoopStep, WriterStep

\* A frame whose write succeeded went to the newest connection.
THEOREM SentOnNewestHolds == Spec => []SentOnNewest
<1>1. DialInv => SentOnNewest
  BY DEF DialInv
<1> QED BY <1>1, DialInit, DialStep, PTL DEF Spec

\* While a connection is read, the outbound loop finds it or has it in hand.
THEOREM ReachesNewestHolds == Spec => []ReachesNewest
<1>1. DialInv => ReachesNewest
  BY DEF DialInv
<1> QED BY <1>1, DialInit, DialStep, PTL DEF Spec

\* Before a frame of a new connection comes in, the end of every earlier one
\* was reported as a gap.
THEOREM GapBeforeFramesHolds == Spec => []GapBeforeFrames
<1>1. DialInv => GapBeforeFrames
  BY DEF DialInv, DialType, GapsReported, GapBeforeFrames
<1> QED BY <1>1, DialInit, DialStep, PTL DEF Spec

-----------------------------------------------------------------------------
(* A line of places that items pass from the last to the first: any two     *)
(* items in it, the one ahead first, are related by R.                      *)
Places == 1..6
InLine(R, f) ==
  \A a, b \in Places : \A i \in DOMAIN f[a], j \in DOMAIN f[b] :
    a < b \/ (a = b /\ i < j) => <<f[a][i], f[b][j]>> \in R

Thinned(f, g) ==
  \A a \in Places : g[a] = f[a] \/ g[a] = <<>> \/ (f[a] # <<>> /\ g[a] = Tail(f[a]))
Shifted(f, g, p, q) ==
  /\ p < q /\ f[q] # <<>> /\ \A a \in Places : p < a /\ a < q => f[a] = <<>>
  /\ g[p] = Append(f[p], Head(f[q])) /\ g[q] = Tail(f[q])
  /\ \A a \in Places : a # p /\ a # q => g[a] = f[a]
Entered(R, f, g, p, x) ==
  /\ g[p] = Append(f[p], x) /\ \A a \in Places : a # p => g[a] = f[a]
  /\ \A a \in Places : \A i \in DOMAIN f[a] :
       (a <= p => <<f[a][i], x>> \in R) /\ (p < a => <<x, f[a][i]>> \in R)
Filled(R, f, g) ==
  /\ f[6] = <<>> /\ \A a \in Places : a # 6 => g[a] = f[a]
  /\ \A k, m \in DOMAIN g[6] : k < m => <<g[6][k], g[6][m]>> \in R
  /\ \A a \in Places : a # 6 => \A i \in DOMAIN f[a], k \in DOMAIN g[6] : <<f[a][i], g[6][k]>> \in R

LEMMA PlaceNumbers == 6 \in Places /\ \A a \in Places : a \in Nat /\ a <= 6
BY DEF Places

\* Items that leave the line from the front of their places leave it in order.
LEMMA Thin ==
  ASSUME NEW R, NEW T, NEW f \in [Places -> Seq(T)], NEW g \in [Places -> Seq(T)], InLine(R, f),
         Thinned(f, g)
  PROVE  InLine(R, g)
<1>1. ASSUME NEW a \in Places
      PROVE  \E d \in {0, 1} : \A i \in DOMAIN g[a] : i + d \in DOMAIN f[a] /\ f[a][i + d] = g[a][i]
  <2>1. f[a] \in Seq(T) /\ (g[a] = f[a] \/ g[a] = <<>> \/ (f[a] # <<>> /\ g[a] = Tail(f[a])))
    BY DEF Thinned
  <2>2. CASE g[a] = f[a]
    <3>1. \A i \in DOMAIN g[a] : i + 0 \in DOMAIN f[a] /\ f[a][i + 0] = g[a][i]
      BY <2>1, <2>2
    <3> QED BY <3>1
  <2>3. CASE g[a] = <<>>
    BY <2>3
  <2>4. CASE f[a] # <<>> /\ g[a] = Tail(f[a])
    <3>1. \A i \in DOMAIN g[a] : i + 1 \in DOMAIN f[a] /\ f[a][i + 1] = g[a][i]
      BY <2>1, <2>4
    <3> QED BY <3>1
  <2> QED BY <2>1, <2>2, <2>3, <2>4
<1>2. ASSUME NEW a \in Places, NEW b \in Places, NEW i \in DOMAIN g[a], NEW j \in DOMAIN g[b],
             a < b \/ (a = b /\ i < j)
      PROVE  <<g[a][i], g[b][j]>> \in R
  <2>0. a \in Nat /\ b \in Nat
    BY PlaceNumbers
  <2>1. i \in Nat /\ j \in Nat /\ g[a] \in Seq(T) /\ g[b] \in Seq(T)
    OBVIOUS
  <2>2. PICK d \in {0, 1} : \A k \in DOMAIN g[a] : k + d \in DOMAIN f[a] /\ f[a][k + d] = g[a][k]
    BY <1>1
  <2>3. CASE a = b
    <3>a. i \in DOMAIN g[a] /\ j \in DOMAIN g[a]
      BY <2>3
    <3>b. i + d < j + d
      <4>1. d \in Nat /\ i < j
        BY <1>2, <2>0, <2>3
      <4> QED BY <2>1, <4>1
    <3>1. i + d \in DOMAIN f[a] /\ j + d \in DOMAIN f[b] /\ i + d < j + d
          /\ f[a][i + d] = g[a][i] /\ f[b][j + d] = g[b][j]
      BY <2>2, <2>3, <3>a, <3>b
    <3> QED BY <2>3, <3>1 DEF InLine
  <2>4. CASE a # b
    <3>1. PICK e \in {0, 1} : \A k \in DOMAIN g[b] : k + e \in DOMAIN f[b] /\ f[b][k + e] = g[b][k]
      BY <1>1
    <3>2. i + d \in DOMAIN f[a] /\ j + e \in DOMAIN f[b] /\ a < b
          /\ f[a][i + d] = g[a][i] /\ f[b][j + e] = g[b][j]
      BY <1>2, <2>2, <2>4, <3>1
    <3> QED BY <3>2 DEF InLine
  <2> QED BY <2>3, <2>4
<1> QED BY <1>2 DEF InLine

\* The first item of a place goes to the end of an earlier one, over empty places.
LEMMA Shift ==
  ASSUME NEW R, NEW T, NEW f \in [Places -> Seq(T)], NEW g \in [Places -> Seq(T)], InLine(R, f),
         NEW p \in Places, NEW q \in Places, Shifted(f, g, p, q)
  PROVE  InLine(R, g)
<1>1. /\ f[p] \in Seq(T) /\ f[q] \in Seq(T) /\ Len(f[p]) \in Nat /\ Len(f[q]) \in Nat
      /\ 1 \in DOMAIN f[q] /\ Head(f[q]) = f[q][1]
      /\ DOMAIN g[p] = 1 .. Len(f[p]) + 1 /\ DOMAIN f[p] = 1 .. Len(f[p])
      /\ \A i \in DOMAIN f[p] : g[p][i] = f[p][i]
      /\ g[p][Len(f[p]) + 1] = f[q][1]
      /\ \A i \in DOMAIN g[q] : i + 1 \in DOMAIN f[q] /\ g[q][i] = f[q][i + 1]
  BY DEF Shifted
<1>o. p < q /\ p \in Nat /\ q \in Nat
  BY PlaceNumbers DEF Shifted
<1>s. /\ p < q /\ \A a \in Places : p < a /\ a < q => f[a] = <<>>
      /\ \A a \in Places : a # p /\ a # q => g[a] = f[a]
  BY DEF Shifted
<1>2. ASSUME NEW a \in Places, NEW b \in Places, NEW i \in DOMAIN g[a], NEW j \in DOMAIN g[b],
             a < b \/ (a = b /\ i < j)
      PROVE  <<g[a][i], g[b][j]>> \in R
  <2> DEFINE New(c, k) == c = p /\ k = Len(f[p]) + 1
  <2>0. a \in Nat /\ b \in Nat /\ p \in Nat /\ q \in Nat
    BY PlaceNumbers
  <2>1. /\ g[a] \in Seq(T) /\ g[b] \in Seq(T) /\ i \in Nat /\ j \in Nat /\ 1 <= i /\ 1 <= j
        /\ f[a] \in Seq(T) /\ f[b] \in Seq(T)
    OBVIOUS
  <2>2. CASE New(a, i)
    <3>1. b # p /\ a < b
      BY <1>1, <1>2, <2>0, <2>1, <2>2
    <3>2. CASE b = q
      <4>1. j + 1 \in DOMAIN f[q] /\ g[b][j] = f[q][j + 1] /\ 1 < j + 1
        BY <1>1, <1>2, <2>1, <3>2
      <4>2. g[a][i] = f[q][1]
        BY <1>1, <2>2
      <4> QED BY <1>1, <4>1, <4>2 DEF InLine
    <3>3. CASE b # q
      <4>1. g[b] = f[b] /\ j \in DOMAIN f[b]
        BY <1>s, <3>1, <3>3
      <4>2. q < b
        <5>1. f[b] # <<>> /\ p < b
          BY <2>2, <3>1, <4>1
        <5> QED BY <1>s, <2>0, <3>3, <5>1
      <4> QED BY <1>1, <2>2, <4>1, <4>2 DEF InLine
    <3> QED BY <3>2, <3>3
  <2>3. CASE ~New(a, i) /\ New(b, j)
    <3>1. a <= p /\ a # q /\ (a = p => i \in DOMAIN f[p])
      BY <1>s, <1>1, <1>2, <2>0, <2>1, <2>3
    <3>2. i \in DOMAIN f[a] /\ g[a][i] = f[a][i]
      BY <1>s, <1>1, <3>1
    <3>4. a < q
      BY <1>o, <2>0, <3>1
    <3>5. g[b][j] = f[q][1] /\ 1 \in DOMAIN f[q]
      BY <1>1, <2>3
    <3> QED BY <3>2, <3>4, <3>5 DEF InLine
  <2>4. CASE ~New(a, i) /\ ~New(b, j)
    <3>1. ASSUME NEW c \in Places, NEW k \in DOMAIN g[c], ~New(c, k)
          PROVE  LET d == IF c = q THEN 1 ELSE 0
                 IN  k + d \in DOMAIN f[c] /\ g[c][k] = f[c][k + d]
      <4>0. f[c] \in Seq(T) /\ g[c] \in Seq(T) /\ k \in Nat
        OBVIOUS
      <4>1. CASE c = p
        <5>1. k \in DOMAIN f[p]
          BY <1>1, <3>1, <4>0, <4>1
        <5>2. c # q
          BY <1>o, <4>1
        <5>3. k + 0 = k
          BY <4>0
        <5>4. k \in DOMAIN f[c] /\ g[c][k] = f[c][k]
          <6>1. g[p][k] = f[p][k]
            BY <1>1, <5>1
          <6> QED BY <4>1, <5>1, <6>1
        <5> QED BY <5>2, <5>3, <5>4
      <4>2. CASE c = q BY <1>1, <4>2
      <4>3. CASE c # p /\ c # q BY <1>s, <4>0, <4>3
      <4> QED BY <4>1, <4>2, <4>3
    <3>2. PICK d \in {0, 1} : i + d \in DOMAIN f[a] /\ g[a][i] = f[a][i + d] /\ (d = 1 <=> a = q)
      BY <2>4, <3>1
    <3>3. PICK e \in {0, 1} : j + e \in DOMAIN f[b] /\ g[b][j] = f[b][j + e] /\ (e = 1 <=> b = q)
      BY <2>4, <3>1
    <3>4. a < b \/ (a = b /\ i + d < j + e)
      BY <1>2, <2>1, <3>2, <3>3
    <3> QED BY <3>2, <3>3, <3>4 DEF InLine
  <2> QED BY <2>2, <2>3, <2>4
<1> QED BY <1>2 DEF InLine

\* An item enters one of the places.
LEMMA Enter ==
  ASSUME NEW R, NEW T, NEW f \in [Places -> Seq(T)], NEW g \in [Places -> Seq(T)], InLine(R, f),
         NEW p \in Places, NEW x \in T, Entered(R, f, g, p, x)
  PROVE  InLine(R, g)
<1>1. /\ f[p] \in Seq(T) /\ Len(f[p]) \in Nat
      /\ DOMAIN g[p] = 1 .. Len(f[p]) + 1 /\ DOMAIN f[p] = 1 .. Len(f[p])
      /\ \A i \in DOMAIN f[p] : g[p][i] = f[p][i]
      /\ g[p][Len(f[p]) + 1] = x
  BY DEF Entered
<1>e. /\ \A a \in Places : a # p => g[a] = f[a]
      /\ \A a \in Places : \A i \in DOMAIN f[a] :
           (a <= p => <<f[a][i], x>> \in R) /\ (p < a => <<x, f[a][i]>> \in R)
  BY DEF Entered
<1>2. ASSUME NEW a \in Places, NEW b \in Places, NEW i \in DOMAIN g[a], NEW j \in DOMAIN g[b],
             a < b \/ (a = b /\ i < j)
      PROVE  <<g[a][i], g[b][j]>> \in R
  <2> DEFINE New(c, k) == c = p /\ k = Len(f[p]) + 1
  <2>0. a \in Nat /\ b \in Nat /\ p \in Nat
    BY PlaceNumbers
  <2>1. /\ g[a] \in Seq(T) /\ g[b] \in Seq(T) /\ i \in Nat /\ j \in Nat
    OBVIOUS
  <2>2. \A c \in Places : \A k \in DOMAIN g[c] :
          ~New(c, k) => k \in DOMAIN f[c] /\ g[c][k] = f[c][k]
    <3> SUFFICES ASSUME NEW c \in Places, NEW k \in DOMAIN g[c], ~New(c, k)
                 PROVE  k \in DOMAIN f[c] /\ g[c][k] = f[c][k]
      OBVIOUS
    <3>1. CASE c = p BY <1>1, <3>1
    <3>2. CASE c # p BY <1>e, <3>2
    <3> QED BY <3>1, <3>2
  <2>3. CASE New(a, i)
    <3>1. p < b /\ g[a][i] = x /\ ~New(b, j)
      BY <1>1, <1>2, <2>0, <2>1, <2>3
    <3> QED BY <1>e, <2>2, <3>1
  <2>4. CASE ~New(a, i) /\ New(b, j)
    <3>1. a <= p /\ g[b][j] = x
      BY <1>1, <1>2, <2>0, <2>1, <2>4
    <3> QED BY <1>e, <2>2, <2>4, <3>1
  <2>5. CASE ~New(a, i) /\ ~New(b, j)
    BY <1>2, <2>2, <2>5 DEF InLine
  <2> QED BY <2>3, <2>4, <2>5
<1> QED BY <1>2 DEF InLine

\* A whole batch enters at the end.
LEMMA Fill ==
  ASSUME NEW R, NEW T, NEW f \in [Places -> Seq(T)], NEW g \in [Places -> Seq(T)], InLine(R, f),
         Filled(R, f, g)
  PROVE  InLine(R, g)
<1>1. ASSUME NEW a \in Places, NEW b \in Places, NEW i \in DOMAIN g[a], NEW j \in DOMAIN g[b],
             a < b \/ (a = b /\ i < j)
      PROVE  <<g[a][i], g[b][j]>> \in R
  <2>1. a \in Nat /\ b \in Nat /\ a <= 6 /\ b <= 6 /\ 6 \in Places
    BY PlaceNumbers
  <2>2. CASE b = 6
    BY <1>1, <2>1, <2>2 DEF Filled
  <2>3. CASE b # 6
    <3>1. a # 6
      BY <1>1, <2>1, <2>3
    <3> QED BY <1>1, <2>3, <3>1 DEF InLine, Filled
  <2> QED BY <2>2, <2>3
<1> QED BY <1>1 DEF InLine

-----------------------------------------------------------------------------
(* The items of a channel pass from the loop's batch to its hand, through   *)
(* the adapter's channel to the forwarder and through the port's to the     *)
(* stream.                                                                  *)
Line(c) ==
  [a \in Places |-> IF a = 1 THEN got[c] ELSE IF a = 2 THEN dst[c] ELSE IF a = 3 THEN held
                    ELSE IF a = 4 THEN mid[c] ELSE IF a = 5 THEN hand ELSE batch]

\* Files are told apart by their number, everything else is numbered as it comes.
Item == [n : Nat, to : S!Chans]
Offered ==
  {x \in Item : IF kind = "watch" /\ x.to = "values" THEN x.n \in known ELSE x.n <= made}
For(c, A) == {x \in A : x.to = c}
Ahead(c) ==
  {p \in Item \X Item :
     p[1].to = c /\ p[2].to = c =>
       IF kind = "watch" \/ c = "errors" THEN p[1].n # p[2].n ELSE p[1].n < p[2].n}

WorldType == buffer \in Nat /\ made \in Nat /\ known \subseteq Nat /\ dir \subseteq 1..MaxItems
Holds(A) ==
  /\ batch \in Seq(A) /\ hand \in Seq(A) /\ held \in Seq(A)
  /\ Len(hand) <= 1 /\ Len(held) <= 1
  /\ DOMAIN mid = S!Chans /\ DOMAIN dst = S!Chans /\ DOMAIN got = S!Chans
  /\ \A c \in S!Chans :
       mid[c] \in Seq(For(c, A)) /\ dst[c] \in Seq(For(c, A)) /\ got[c] \in Seq(For(c, A))
  /\ buffer = 0 => \A c \in S!Chans : dst[c] = <<>> /\ mid[c] = <<>>
PlaceType == WorldType /\ Holds(Offered)

(* Who may still send, and where: the port is closed only when Activate has *)
(* returned, and then no loop is left that sends to it.                     *)
Stages ==
  /\ fwd \in {"running", "ended"} /\ prod \in {"idle", "batch", "ended"}
  /\ closed => act = "returned"
  /\ act = "returned" => fwd = "ended" /\ (kind \in S!Direct => prod = "ended")
  /\ act = "starting" => prod # "batch" /\ (kind = "ingest" => ~hook)
  /\ act = "reporting" =>
       /\ prod = "ended" /\ fwd = "ended" /\ kind \in S!Callbacks \cup {"scan"}
       /\ hand # <<>> /\ hand[1].to = "errors"
  /\ prod # "batch" => batch = <<>> /\ (act = "reporting" \/ hand = <<>>)
  /\ prod # "ended" => kind \in S!Direct \cup S!Pumped
  /\ fwd = "running" => kind \in S!Pumped \cup {"ingest"}
  /\ act \in {"starting", "reporting"} \/ kind \in S!Direct \cup S!Callbacks =>
       held = <<>> /\ \A c \in S!Chans : mid[c] = <<>>
  /\ panicked => kind \in S!Callbacks

SourceInv ==
  /\ PlaceType /\ Stages
  /\ \A c \in S!Chans : InLine(Ahead(c), Line(c))

LEMMA StagesStep == PlaceType /\ Stages /\ S!Next => Stages'
<1> SUFFICES ASSUME PlaceType, Stages, S!Next PROVE Stages'
  OBVIOUS
<1> USE DEF Stages, S!fixed, S!flow, S!world, S!Direct, S!Pumped, S!Callbacks
<1>1. CASE S!OpenFile \/ S!RegisterRoute \/ S!BeginLoop
  BY <1>1 DEF S!OpenFile, S!RegisterRoute, S!BeginLoop, S!Serve
<1>2. CASE S!SetupFails BY <1>2 DEF S!SetupFails
<1>3. CASE S!RegisterHandler BY <1>3 DEF S!RegisterHandler
<1>4. CASE S!Subscribed BY <1>4 DEF S!Subscribed
<1>5. CASE S!StartFails BY <1>5 DEF S!StartFails
<1>6. CASE S!Report BY <1>6 DEF S!Report, S!ToPort
<1>7. ASSUME NEW c \in S!Chans, S!PollTick(c) \/ S!ScanLine(c) \/ S!Message(c) \/ S!SseEvent(c)
      PROVE  Stages'
  BY <1>7 DEF S!PollTick, S!ScanLine, S!Message, S!SseEvent, S!Produce, S!Looping
<1>8. ASSUME NEW c \in S!Chans, S!MqttMessage(c) \/ S!Mqtt5Message(c) PROVE Stages'
  BY <1>8 DEF S!MqttMessage, S!Mqtt5Message, S!Callback, S!ToPort
<1>9. ASSUME NEW c \in S!Chans, S!Take(c) PROVE Stages'
  BY <1>9 DEF S!Take, S!Forwarding
<1>10. ASSUME NEW c \in S!Chans, S!Receive(c) PROVE Stages'
  BY <1>10 DEF S!Receive
<1>11. CASE S!Query BY <1>11 DEF S!Query, S!Looping
<1>12. CASE S!List BY <1>12 DEF S!List, S!Looping
<1>13. CASE S!FileChange BY <1>13 DEF S!FileChange
<1>14. CASE S!Connect BY <1>14 DEF S!Connect, S!Looping
<1>15. CASE S!Disconnect BY <1>15 DEF S!Disconnect
<1>16. CASE S!NextRow BY <1>16 DEF S!NextRow
<1>17. CASE S!SendHand BY <1>17 DEF S!SendHand, S!ToPort, S!ToMid, S!Sent
<1>18. CASE S!GiveUpHand BY <1>18 DEF S!GiveUpHand, S!Sent, S!Returns
<1>19. CASE S!DropError BY <1>19 DEF S!DropError, S!Sent
<1>20. CASE S!StopLoop BY <1>20 DEF S!StopLoop, S!Looping, S!Returns
<1>21. CASE S!Ingest BY <1>21 DEF S!Ingest, S!ToMid
<1>22. CASE S!Forward BY <1>22 DEF S!Forward, S!Forwarding, S!ToPort
<1>23. CASE S!StopForward BY <1>23 DEF S!StopForward, S!Forwarding
<1>24. CASE S!Return BY <1>24 DEF S!Return
<1>25. CASE S!ClosePort BY <1>25 DEF S!ClosePort
<1>26. CASE S!Cancel BY <1>26 DEF S!Cancel
<1> QED
  BY <1>1, <1>2, <1>3, <1>4, <1>5, <1>6, <1>7, <1>8, <1>9, <1>10, <1>11, <1>12, <1>13, <1>14,
     <1>15, <1>16, <1>17, <1>18, <1>19, <1>20, <1>21, <1>22, <1>23, <1>24, <1>25, <1>26 DEF S!Next

-----------------------------------------------------------------------------
(* What each place may hold: items already offered, in its own channel.     *)

LEMMA SeqGrows ==
  ASSUME NEW A, NEW B, A \subseteq B, NEW s \in Seq(A)
  PROVE  s \in Seq(B)
OBVIOUS

\* The list of a finite set names each of its elements once.
LEMMA Listed ==
  ASSUME NEW D, IsFiniteSet(D), NEW q, q = S!SetToSeq(D)
  PROVE  q \in Seq(D) /\ \A i, j \in DOMAIN q : i < j => q[i] # q[j]
<1>1. Cardinality(D) \in Nat /\ ExistsBijection(1..Cardinality(D), D)
  BY FS_CardinalityType
<1>2. PICK f \in Bijection(1..Cardinality(D), D) : TRUE
  BY <1>1, Fun_ExistsBij
<1>3. /\ f \in [1..Cardinality(D) -> D]
      /\ \A i, j \in 1..Cardinality(D) : f[i] = f[j] => i = j
  BY <1>2, Fun_BijectionProperties
<1> DEFINE Lists(g) == g \in [1..Cardinality(D) -> D] /\ S!IsInjective(g)
<1>4. Lists(f)
  BY <1>3 DEF S!IsInjective
<1>n. S!Cardinality(D) = Cardinality(D)
  BY DEF S!Cardinality, Cardinality
<1>q. q = CHOOSE g \in [1..Cardinality(D) -> D] : S!IsInjective(g)
  BY <1>n DEF S!SetToSeq
<1>p. q = CHOOSE g : Lists(g)
  BY <1>q
<1>r. \E g : Lists(g)
  BY <1>4
<1>5. Lists(q)
  <2> HIDE DEF Lists
  <2> QED BY <1>p, <1>r, Zenon
<1>6. \A i, j \in DOMAIN q : i < j => q[i] # q[j]
  BY <1>1, <1>5 DEF S!IsInjective
<1> QED BY <1>1, <1>5, <1>6

\* What a step does to the world outside.
Moves ==
  /\ kind' = kind /\ buffer' = buffer
  /\ \/ made' = made \/ made' = made + 1
     \/ \E rows \in UNION {[1..k -> S!Chans] : k \in 0..2} : made' = made + Len(rows)
  /\ \/ dir' = dir
     \/ \E f \in 1..MaxItems : dir' = IF f \in dir THEN dir \ {f} ELSE dir \cup {f}
  /\ known' = known \/ known' = known \cup dir

LEMMA WorldMoves == S!Next => Moves
<1> SUFFICES ASSUME S!Next PROVE Moves
  OBVIOUS
<1> USE DEF Moves, S!fixed, S!flow, S!world
<1>1. CASE S!OpenFile \/ S!RegisterRoute \/ S!BeginLoop
  BY <1>1 DEF S!OpenFile, S!RegisterRoute, S!BeginLoop, S!Serve
<1>2. CASE S!SetupFails \/ S!RegisterHandler \/ S!Subscribed \/ S!StartFails \/ S!Report
  BY <1>2 DEF S!SetupFails, S!RegisterHandler, S!Subscribed, S!StartFails, S!Report
<1>3. ASSUME NEW c \in S!Chans, S!PollTick(c) \/ S!ScanLine(c) \/ S!Message(c) \/ S!SseEvent(c)
      PROVE  Moves
  BY <1>3 DEF S!PollTick, S!ScanLine, S!Message, S!SseEvent, S!Produce
<1>4. ASSUME NEW c \in S!Chans,
             S!MqttMessage(c) \/ S!Mqtt5Message(c) \/ S!Take(c) \/ S!Receive(c)
      PROVE  Moves
  BY <1>4 DEF S!MqttMessage, S!Mqtt5Message, S!Callback, S!Take, S!Receive
<1>5. CASE S!Query
  BY <1>5 DEF S!Query
<1>6. CASE S!List \/ S!Connect \/ S!Disconnect
  BY <1>6 DEF S!List, S!Connect, S!Disconnect
<1>7. CASE S!FileChange
  BY <1>7 DEF S!FileChange
<1>8. CASE S!NextRow \/ S!SendHand \/ S!GiveUpHand \/ S!DropError \/ S!StopLoop
  BY <1>8 DEF S!NextRow, S!SendHand, S!GiveUpHand, S!DropError, S!StopLoop
<1>9. CASE S!Ingest \/ S!Forward \/ S!StopForward \/ S!Return \/ S!ClosePort \/ S!Cancel
  BY <1>9 DEF S!Ingest, S!Forward, S!StopForward, S!Return, S!ClosePort, S!Cancel
<1> QED BY <1>1, <1>2, <1>3, <1>4, <1>5, <1>6, <1>7, <1>8, <1>9 DEF S!Next

LEMMA WorldStep ==
  ASSUME WorldType, S!Next
  PROVE  WorldType' /\ Offered \subseteq Offered' /\ Offered' \subseteq Item
<1>1. Moves
  BY WorldMoves
<1>2. made' \in Nat /\ made <= made'
  <2>1. \A rows \in UNION {[1..k -> S!Chans] : k \in 0..2} : Len(rows) \in Nat
    OBVIOUS
  <2> QED BY <1>1, <2>1 DEF Moves, WorldType
<1>3. dir' \subseteq 1..MaxItems
  <2>1. ASSUME NEW f \in 1..MaxItems, dir' = IF f \in dir THEN dir \ {f} ELSE dir \cup {f}
        PROVE  dir' \subseteq 1..MaxItems
    BY <2>1 DEF WorldType
  <2> QED BY <1>1, <2>1 DEF Moves, WorldType
<1>4. known \subseteq known' /\ known' \subseteq Nat
  <2>1. dir \subseteq Nat
    BY SourcesAssumption DEF WorldType
  <2> QED BY <1>1, <2>1 DEF Moves, WorldType
<1>5. WorldType'
  BY <1>1, <1>2, <1>3, <1>4 DEF Moves, WorldType
<1>6. Offered \subseteq Offered'
  BY <1>1, <1>2, <1>4 DEF Moves, WorldType, Offered, Item
<1> QED BY <1>5, <1>6 DEF Offered

\* Nothing held before the step is out of place after it.
LEMMA StillHolds ==
  ASSUME NEW A, NEW B, A \subseteq B, Holds(A)
  PROVE  Holds(B)
<1>1. \A c \in S!Chans : For(c, A) \subseteq For(c, B)
  BY DEF For
<1> QED BY <1>1, SeqGrows DEF Holds

\* A send to the port, or to the adapter's own channels.
LEMMA PortHolds ==
  ASSUME NEW A, Holds(A), buffer \in Nat, NEW x \in A, x.to \in S!Chans, S!ToPort(x)
  PROVE  /\ DOMAIN dst' = S!Chans /\ DOMAIN got' = S!Chans
         /\ \A c \in S!Chans : dst'[c] \in Seq(For(c, A)) /\ got'[c] \in Seq(For(c, A))
         /\ buffer = 0 => dst' = dst
<1>1. x \in For(x.to, A)
  BY DEF For
<1>2. /\ Append(dst[x.to], x) \in Seq(For(x.to, A))
      /\ Append(got[x.to], x) \in Seq(For(x.to, A))
      /\ Len(dst[x.to]) \in Nat
  BY <1>1 DEF Holds
<1>3. CASE S!Fits(x) /\ dst' = [dst EXCEPT ![x.to] = Append(@, x)] /\ UNCHANGED <<got, panicked>>
  BY <1>2, <1>3 DEF Holds, S!Fits
<1>4. CASE got' = [got EXCEPT ![x.to] = Append(@, x)] /\ UNCHANGED <<dst, panicked>>
  BY <1>2, <1>4 DEF Holds
<1>5. CASE UNCHANGED <<dst, got>>
  BY <1>5 DEF Holds
<1> QED BY <1>3, <1>4, <1>5 DEF S!ToPort

LEMMA MidHolds ==
  ASSUME NEW A, Holds(A), buffer \in Nat, NEW x \in A, x.to \in S!Chans, S!ToMid(x)
  PROVE  /\ DOMAIN mid' = S!Chans
         /\ \A c \in S!Chans : mid'[c] \in Seq(For(c, A))
         /\ held' \in Seq(A) /\ Len(held') <= 1
         /\ buffer = 0 => mid' = mid
<1>1. x \in For(x.to, A) /\ <<x>> \in Seq(A) /\ Len(<<x>>) <= 1
  BY DEF For
<1>2. Append(mid[x.to], x) \in Seq(For(x.to, A)) /\ Len(mid[x.to]) \in Nat
  BY <1>1 DEF Holds
<1>3. CASE Len(mid[x.to]) < buffer /\ mid' = [mid EXCEPT ![x.to] = Append(@, x)] /\ UNCHANGED held
  BY <1>2, <1>3 DEF Holds
<1>4. CASE held' = <<x>> /\ UNCHANGED mid
  BY <1>1, <1>4 DEF Holds
<1> QED BY <1>3, <1>4 DEF S!ToMid

\* What the world has just counted is on offer.
LEMMA NewOffered ==
  ASSUME WorldType, NEW c \in S!Chans, made' = made + 1, kind' = kind, kind = "watch" => c = "errors"
  PROVE  S!New(c) \in Offered'
<1>1. S!New(c) \in Item /\ S!New(c).n = made + 1 /\ S!New(c).to = c
  BY DEF S!New, Item, WorldType
<1>2. ~(kind' = "watch" /\ S!New(c).to = "values")
  BY <1>1
<1>3. S!New(c).n <= made'
  BY <1>1 DEF WorldType
<1> QED BY <1>1, <1>2, <1>3 DEF Offered

Kept(A) ==
  /\ batch' \in Seq(A) /\ hand' \in Seq(A) /\ held' \in Seq(A)
  /\ Len(hand') <= 1 /\ Len(held') <= 1
  /\ DOMAIN mid' = S!Chans /\ DOMAIN dst' = S!Chans /\ DOMAIN got' = S!Chans
  /\ \A c \in S!Chans :
       mid'[c] \in Seq(For(c, A)) /\ dst'[c] \in Seq(For(c, A)) /\ got'[c] \in Seq(For(c, A))
  /\ buffer = 0 => \A c \in S!Chans : dst'[c] = <<>> /\ mid'[c] = <<>>

LEMMA HoldsStep == PlaceType /\ Stages /\ S!Next => PlaceType'
<1> SUFFICES ASSUME PlaceType, Stages, S!Next PROVE PlaceType'
  OBVIOUS
<1>1. WorldType /\ WorldType' /\ buffer \in Nat /\ kind' = kind /\ buffer' = buffer
  BY WorldStep, WorldMoves DEF PlaceType, WorldType, Moves
<1>2. PICK A : A = Offered'
  OBVIOUS
<1>3. Holds(A) /\ A \subseteq Item
  BY <1>2, StillHolds, WorldStep DEF PlaceType
<1>4. Kept(A) => PlaceType'
  BY <1>1, <1>2 DEF Kept, PlaceType, Holds, For
<1>h. hand # <<>> => hand[1] \in A /\ hand[1].to \in S!Chans
  BY <1>3 DEF Holds, Item
<1> SUFFICES Kept(A)
  BY <1>4
<1>5. CASE UNCHANGED <<S!flow, batch>>
  BY <1>3, <1>5 DEF Holds, Kept, S!flow
<1>6. ASSUME NEW c \in S!Chans, made' = made + 1, kind = "watch" => c = "errors",
             \/ hand' = <<S!New(c)>> /\ batch' = batch
             \/ batch' = <<S!New(c)>> /\ hand' = hand,
             UNCHANGED <<mid, held, dst, got>>
      PROVE  Kept(A)
  <2>1. S!New(c) \in A
    BY <1>1, <1>2, <1>6, NewOffered
  <2>2. <<S!New(c)>> \in Seq(A) /\ Len(<<S!New(c)>>) = 1
    BY <2>1
  <2>3. batch' \in Seq(A) /\ hand' \in Seq(A) /\ Len(hand') <= 1
    <3>1. batch \in Seq(A) /\ hand \in Seq(A) /\ Len(hand) <= 1
      BY <1>3 DEF Holds
    <3>2. CASE hand' = <<S!New(c)>> /\ batch' = batch
      BY <2>2, <3>1, <3>2
    <3>3. CASE batch' = <<S!New(c)>> /\ hand' = hand
      BY <2>2, <3>1, <3>3
    <3> QED BY <1>6, <3>2, <3>3
  <2> QED BY <1>3, <1>6, <2>3 DEF Holds, Kept
<1> USE DEF S!fixed, S!flow, S!world
<1>7. CASE S!OpenFile \/ S!RegisterRoute \/ S!BeginLoop
  BY <1>5, <1>7 DEF S!OpenFile, S!RegisterRoute, S!BeginLoop, S!Serve
<1>8. CASE S!SetupFails \/ S!RegisterHandler \/ S!Subscribed \/ S!FileChange \/ S!Disconnect
           \/ S!StopLoop \/ S!Return \/ S!ClosePort \/ S!Cancel
  BY <1>5, <1>8 DEF S!SetupFails, S!RegisterHandler, S!Subscribed, S!FileChange, S!Disconnect,
                    S!StopLoop, S!Return, S!ClosePort, S!Cancel
<1>9. CASE S!StartFails
  <2>1. made' = made + 1 /\ hand' = <<S!New("errors")>> /\ batch' = batch /\ "errors" \in S!Chans
        /\ UNCHANGED <<mid, held, dst, got>>
    BY <1>9 DEF S!StartFails, S!New, S!Chans
  <2> QED BY <1>6, <2>1
<1>10. ASSUME NEW c \in S!Chans, S!PollTick(c) \/ S!ScanLine(c) \/ S!Message(c) \/ S!SseEvent(c)
       PROVE  Kept(A)
  <2>1. made' = made + 1 /\ hand' = <<S!New(c)>> /\ batch' = batch /\ kind # "watch"
        /\ UNCHANGED <<mid, held, dst, got>>
    BY <1>10 DEF S!PollTick, S!ScanLine, S!Message, S!SseEvent, S!Produce
  <2> QED BY <1>6, <2>1
<1>11. CASE S!Connect
  <2>1. CASE hand' = hand
    BY <1>5, <1>11, <2>1 DEF S!Connect
  <2>2. CASE hand' # hand
    <3>1. made' = made + 1 /\ hand' = <<S!New("errors")>> /\ batch' = batch /\ "errors" \in S!Chans
          /\ UNCHANGED <<mid, held, dst, got>>
      BY <1>11, <2>2 DEF S!Connect, S!Chans
    <3> QED BY <1>6, <3>1
  <2> QED BY <2>1, <2>2
<1>12. CASE S!Query
  <2>1. PICK rows \in UNION {[1..k -> S!Chans] : k \in 0..2} :
          /\ batch' = [i \in DOMAIN rows |-> [n |-> made + i, to |-> rows[i]]]
          /\ made' = made + Len(rows)
    BY <1>12 DEF S!Query
  <2>2. PICK k \in 0..2 : rows \in [1..k -> S!Chans]
    OBVIOUS
  <2>3. made \in Nat /\ k \in Nat /\ Len(rows) = k /\ DOMAIN rows = 1..k
    BY <1>1, <2>2 DEF WorldType
  <2>4. ASSUME NEW i \in 1..k PROVE batch'[i] \in A
    <3>1. batch'[i] = [n |-> made + i, to |-> rows[i]] /\ rows[i] \in S!Chans
      BY <2>1, <2>2, <2>3
    <3>2. made + i \in Nat /\ made + i <= made'
      BY <2>1, <2>3
    <3>3. kind' # "watch"
      BY <1>1, <1>12 DEF S!Query
    <3> QED BY <1>2, <3>1, <3>2, <3>3 DEF Offered, Item
  <2>5. batch' \in Seq(A)
    <3>1. batch' \in [1..k -> A]
      BY <2>1, <2>3, <2>4
    <3> QED BY <2>3, <3>1
  <2>6. UNCHANGED <<hand, mid, held, dst, got>>
    BY <1>12 DEF S!Query
  <2> QED BY <1>3, <2>5, <2>6 DEF Holds, Kept
<1>13. CASE S!List
  <2>1. UNCHANGED <<hand, mid, held, dst, got>> /\ kind = "watch"
    BY <1>13 DEF S!List
  <2>2. CASE batch' = <<S!New("errors")>> /\ made' = made + 1
    <3>1. "errors" \in S!Chans
      BY DEF S!Chans
    <3> QED BY <1>6, <2>1, <2>2, <3>1
  <2>3. ASSUME NEW q, q = S!SetToSeq(dir \ known), known' = known \cup dir,
               batch' = [i \in DOMAIN q |-> [n |-> q[i], to |-> "values"]]
        PROVE  Kept(A)
    <3>1. q \in Seq(dir \ known)
      <4>1. IsFiniteSet(1..MaxItems)
        BY FS_Interval, SourcesAssumption
      <4>2. IsFiniteSet(dir \ known)
        BY <1>1, <4>1, FS_Subset DEF WorldType
      <4> QED BY <2>3, <4>2, Listed
    <3>2. ASSUME NEW i \in DOMAIN q PROVE batch'[i] \in A
      <4>1. batch'[i] = [n |-> q[i], to |-> "values"] /\ q[i] \in known'
        BY <2>3, <3>1
      <4>2. q[i] \in Nat
        BY <1>1, <4>1 DEF WorldType
      <4>3. "values" \in S!Chans /\ kind' = "watch"
        BY <1>1, <2>1 DEF S!Chans
      <4> QED BY <1>2, <4>1, <4>2, <4>3 DEF Offered, Item
    <3>3. batch' \in Seq(A)
      <4>1. Len(q) \in Nat /\ DOMAIN q = 1..Len(q)
        BY <3>1
      <4>2. batch' \in [1..Len(q) -> A]
        BY <2>3, <3>2, <4>1
      <4> QED BY <4>1, <4>2
    <3> QED BY <1>3, <2>1, <3>3 DEF Holds, Kept
  <2> QED BY <1>13, <2>2, <2>3 DEF S!List
<1>14. CASE S!NextRow
  <2>1. Head(batch) \in A /\ Tail(batch) \in Seq(A)
    BY <1>3, <1>14 DEF S!NextRow, Holds
  <2>2. hand' = <<Head(batch)>> /\ batch' = Tail(batch) /\ UNCHANGED <<mid, held, dst, got>>
    BY <1>14 DEF S!NextRow
  <2>3. hand' \in Seq(A) /\ Len(hand') <= 1
    BY <2>1, <2>2
  <2> QED BY <1>3, <2>1, <2>2, <2>3 DEF Holds, Kept
<1>15. CASE S!SendHand
  <2>1. hand # <<>> /\ hand' = <<>> /\ batch' = batch
    BY <1>15 DEF S!SendHand
  <2>2. CASE S!ToPort(hand[1]) /\ UNCHANGED <<mid, held>>
    <3>1. /\ DOMAIN dst' = S!Chans /\ DOMAIN got' = S!Chans
          /\ \A c \in S!Chans : dst'[c] \in Seq(For(c, A)) /\ got'[c] \in Seq(For(c, A))
          /\ buffer = 0 => dst' = dst
      BY <1>1, <1>3, <1>h, <2>1, <2>2, PortHolds
    <3> QED BY <1>3, <2>1, <2>2, <3>1 DEF Holds, Kept
  <2>3. CASE S!ToMid(hand[1]) /\ UNCHANGED <<dst, got>>
    <3>1. /\ DOMAIN mid' = S!Chans
          /\ \A c \in S!Chans : mid'[c] \in Seq(For(c, A))
          /\ held' \in Seq(A) /\ Len(held') <= 1
          /\ buffer = 0 => mid' = mid
      BY <1>1, <1>3, <1>h, <2>1, <2>3, MidHolds
    <3> QED BY <1>3, <2>1, <2>3, <3>1 DEF Holds, Kept
  <2> QED BY <1>15, <2>2, <2>3 DEF S!SendHand
<1>16. CASE S!Report
  <2>1. hand # <<>> /\ hand' = <<>> /\ UNCHANGED <<batch, mid, held>>
    BY <1>16 DEF S!Report, Stages
  <2>2. CASE S!ToPort(hand[1])
    <3>1. /\ DOMAIN dst' = S!Chans /\ DOMAIN got' = S!Chans
          /\ \A c \in S!Chans : dst'[c] \in Seq(For(c, A)) /\ got'[c] \in Seq(For(c, A))
          /\ buffer = 0 => dst' = dst
      BY <1>1, <1>3, <1>h, <2>1, <2>2, PortHolds
    <3> QED BY <1>3, <2>1, <3>1 DEF Holds, Kept
  <2>3. CASE UNCHANGED <<dst, got>>
    BY <1>3, <2>1, <2>3 DEF Holds, Kept
  <2> QED BY <1>16, <2>2, <2>3 DEF S!Report
<1>17. CASE S!GiveUpHand \/ S!DropError \/ S!StopForward
  <2>1. /\ batch' \in {batch, <<>>} /\ hand' \in {hand, <<>>} /\ held' \in {held, <<>>}
        /\ UNCHANGED <<mid, dst, got>>
    BY <1>17 DEF S!GiveUpHand, S!DropError, S!StopForward
  <2>2. ASSUME NEW s \in Seq(A), NEW t \in {s, <<>>} PROVE t \in Seq(A) /\ (Len(s) <= 1 => Len(t) <= 1)
    <3>1. CASE t = s BY <3>1
    <3>2. CASE t = <<>> BY <3>2
    <3> QED BY <3>1, <3>2
  <2>3. batch' \in Seq(A) /\ hand' \in Seq(A) /\ held' \in Seq(A) /\ Len(hand') <= 1 /\ Len(held') <= 1
    BY <1>3, <2>1, <2>2 DEF Holds
  <2> QED BY <1>3, <2>1, <2>3 DEF Holds, Kept
<1>18. CASE S!Ingest
  <2>1. made' = made + 1 /\ kind # "watch" /\ "values" \in S!Chans
        /\ S!ToMid(S!New("values")) /\ UNCHANGED <<batch, hand, dst, got>>
    BY <1>18 DEF S!Ingest, S!Chans
  <2>2. S!New("values") \in A /\ S!New("values").to \in S!Chans
    BY <1>1, <1>2, <2>1, NewOffered DEF S!New
  <2>3. /\ DOMAIN mid' = S!Chans
        /\ \A c \in S!Chans : mid'[c] \in Seq(For(c, A))
        /\ held' \in Seq(A) /\ Len(held') <= 1
        /\ buffer = 0 => mid' = mid
    BY <1>1, <1>3, <2>1, <2>2, MidHolds
  <2> QED BY <1>3, <2>1, <2>3 DEF Holds, Kept
<1>19. ASSUME NEW c \in S!Chans, S!MqttMessage(c) \/ S!Mqtt5Message(c)
       PROVE  Kept(A)
  <2>1. made' = made + 1 /\ kind # "watch" /\ UNCHANGED <<batch, hand, mid, held>>
        /\ (S!ToPort(S!New(c)) \/ UNCHANGED <<dst, got>>)
    BY <1>19 DEF S!MqttMessage, S!Mqtt5Message, S!Callback
  <2>2. S!New(c) \in A /\ S!New(c).to \in S!Chans
    BY <1>1, <1>2, <2>1, NewOffered DEF S!New
  <2>3. CASE S!ToPort(S!New(c))
    <3>1. /\ DOMAIN dst' = S!Chans /\ DOMAIN got' = S!Chans
          /\ \A d \in S!Chans : dst'[d] \in Seq(For(d, A)) /\ got'[d] \in Seq(For(d, A))
          /\ buffer = 0 => dst' = dst
      BY <1>1, <1>3, <2>2, <2>3, PortHolds
    <3> QED BY <1>3, <2>1, <3>1 DEF Holds, Kept
  <2>4. CASE UNCHANGED <<dst, got>>
    BY <1>3, <2>1, <2>4 DEF Holds, Kept
  <2> QED BY <2>1, <2>3, <2>4
<1>20. CASE S!Forward
  <2>1. held # <<>> /\ held' = <<>> /\ UNCHANGED <<batch, hand, mid>> /\ S!ToPort(held[1])
    BY <1>20 DEF S!Forward
  <2>2. held[1] \in A /\ held[1].to \in S!Chans
    BY <1>3, <2>1 DEF Holds, Item
  <2>3. /\ DOMAIN dst' = S!Chans /\ DOMAIN got' = S!Chans
        /\ \A c \in S!Chans : dst'[c] \in Seq(For(c, A)) /\ got'[c] \in Seq(For(c, A))
        /\ buffer = 0 => dst' = dst
    BY <1>1, <1>3, <2>1, <2>2, PortHolds
  <2> QED BY <1>3, <2>1, <2>3 DEF Holds, Kept
<1>21. ASSUME NEW c \in S!Chans, S!Take(c) PROVE Kept(A)
  <2>1. /\ mid[c] # <<>> /\ held' = <<Head(mid[c])>> /\ mid' = [mid EXCEPT ![c] = Tail(@)]
        /\ UNCHANGED <<batch, hand, dst, got>>
    BY <1>21 DEF S!Take
  <2>2. Head(mid[c]) \in A /\ Tail(mid[c]) \in Seq(For(c, A)) /\ buffer # 0
    <3>1. mid[c] \in Seq(For(c, A)) /\ buffer # 0
      BY <1>3, <2>1 DEF Holds
    <3>2. Head(mid[c]) \in For(c, A) /\ Tail(mid[c]) \in Seq(For(c, A))
      BY <2>1, <3>1
    <3> QED BY <3>1, <3>2 DEF For
  <2>3. held' \in Seq(A) /\ Len(held') <= 1
    BY <2>1, <2>2
  <2> QED BY <1>3, <2>1, <2>2, <2>3 DEF Holds, Kept
<1>22. ASSUME NEW c \in S!Chans, S!Receive(c) PROVE Kept(A)
  <2>1. /\ dst[c] # <<>> /\ got' = [got EXCEPT ![c] = Append(@, Head(dst[c]))]
        /\ dst' = [dst EXCEPT ![c] = Tail(@)]
        /\ UNCHANGED <<batch, hand, mid, held>>
    BY <1>22 DEF S!Receive
  <2>2. /\ Append(got[c], Head(dst[c])) \in Seq(For(c, A)) /\ Tail(dst[c]) \in Seq(For(c, A))
        /\ buffer # 0
    BY <1>3, <2>1 DEF Holds
  <2> QED BY <1>3, <2>1, <2>2 DEF Holds, Kept
<1> QED
  BY <1>7, <1>8, <1>9, <1>10, <1>11, <1>12, <1>13, <1>14, <1>15, <1>16, <1>17, <1>18, <1>19,
     <1>20, <1>21, <1>22 DEF S!Next

-----------------------------------------------------------------------------
(* Every step moves the items of a channel along their line, or lets one in *)
(* where nothing that must stay ahead of it is behind.                      *)
Moved(R, f, g) ==
  \/ Thinned(f, g) \/ Filled(R, f, g)
  \/ \E p, q \in Places : Shifted(f, g, p, q)
  \/ \E p \in Places, x \in Item : Entered(R, f, g, p, x)

LEMMA SixPlaces ==
  /\ \A a \in Places : a \in {1, 2, 3, 4, 5, 6}
  /\ {1, 2, 3, 4, 5, 6} \subseteq Places
BY DEF Places

LEMMA Order ==
  \A a \in Places :
    /\ (1 < a <=> a \in {2, 3, 4, 5, 6}) /\ (2 < a <=> a \in {3, 4, 5, 6})
    /\ (3 < a <=> a \in {4, 5, 6}) /\ (4 < a <=> a \in {5, 6}) /\ (5 < a <=> a = 6)
    /\ (a < 2 <=> a = 1) /\ (a < 3 <=> a \in {1, 2}) /\ (a < 4 <=> a \in {1, 2, 3})
    /\ (a < 5 <=> a \in {1, 2, 3, 4}) /\ (a < 6 <=> a \in {1, 2, 3, 4, 5})
BY DEF Places

LEMMA OneItem ==
  ASSUME NEW T, NEW s \in Seq(T), Len(s) <= 1, s # <<>>
  PROVE  Head(s) = s[1] /\ Tail(s) = <<>> /\ s[1] \in T
<1>1. Len(s) = 1 /\ Head(s) = s[1] /\ s[1] \in T
  OBVIOUS
<1>2. Tail(s) \in Seq(T) /\ Len(Tail(s)) = 0
  BY <1>1
<1>3. \A t \in Seq(T) : Len(t) = 0 => t = <<>>
  OBVIOUS
<1> QED BY <1>1, <1>2, <1>3

LineFields ==
  \A c : /\ Line(c)[1] = got[c] /\ Line(c)[2] = dst[c] /\ Line(c)[3] = held
         /\ Line(c)[4] = mid[c] /\ Line(c)[5] = hand /\ Line(c)[6] = batch
         /\ DOMAIN Line(c) = Places

LEMMA LineIs == LineFields
BY SixPlaces DEF LineFields, Line

LinesTyped == \A c \in S!Chans : Line(c) \in [Places -> Seq(Offered)]

LEMMA LineType == PlaceType => LinesTyped
<1> SUFFICES PlaceType => \A c \in S!Chans : Line(c) \in [Places -> Seq(Offered)]
  BY DEF LinesTyped
<1> SUFFICES ASSUME PlaceType, NEW c \in S!Chans PROVE Line(c) \in [Places -> Seq(Offered)]
  OBVIOUS
<1>1. For(c, Offered) \subseteq Offered
  BY DEF For
<1>2. /\ got[c] \in Seq(Offered) /\ dst[c] \in Seq(Offered) /\ held \in Seq(Offered)
      /\ mid[c] \in Seq(Offered) /\ hand \in Seq(Offered) /\ batch \in Seq(Offered)
  BY <1>1, SeqGrows DEF PlaceType, Holds
<1> QED BY <1>2 DEF Line

LEMMA OfferedItems == Offered \subseteq Item
BY DEF Offered

LEMMA LineMoves ==
  ASSUME PlaceType, PlaceType', kind' = kind, NEW c \in S!Chans,
         InLine(Ahead(c), Line(c)), Moved(Ahead(c), Line(c), Line(c)')
  PROVE  InLine(Ahead(c), Line(c))'
<1>1. /\ Line(c) \in [Places -> Seq(Item)]
      /\ Line(c)' \in [Places -> Seq(Item)]
  <2>1. (PlaceType => LinesTyped)'
    BY LineType, PTL
  <2>2. (Offered \subseteq Item)'
    BY OfferedItems, PTL
  <2>3. Line(c) \in [Places -> Seq(Offered)]
    BY LineType DEF LinesTyped
  <2>4. Line(c)' \in [Places -> Seq(Offered')]
    BY <2>1 DEF LinesTyped
  <2> QED BY <2>2, <2>3, <2>4, OfferedItems
<1>2. PICK f, g, R : f = Line(c) /\ g = Line(c)' /\ R = Ahead(c)
  OBVIOUS
<1>3. InLine(R, f) /\ Moved(R, f, g)
  BY <1>2
<1>4. InLine(R, g)
  BY <1>1, <1>2, <1>3, Thin, Shift, Enter, Fill DEF Moved
<1>5. Ahead(c)' = R
  BY <1>2 DEF Ahead
<1> QED BY <1>2, <1>4, <1>5 DEF InLine

\* What the world counts next comes after all that was offered.
LEMMA NewIsLast ==
  ASSUME WorldType, NEW c \in S!Chans, NEW d \in S!Chans, kind = "watch" => d = "errors", NEW y \in Offered
  PROVE  /\ S!New(d) \in Item /\ S!New(d).to = d
         /\ <<y, S!New(d)>> \in Ahead(c)
         /\ c = "errors" \/ kind = "watch" \/ d # c \/ y.to # c => <<S!New(d), y>> \in Ahead(c)
<1>1. S!New(d) \in Item /\ S!New(d).to = d /\ S!New(d).n = made + 1
  BY DEF S!New, Item, WorldType
<1>2. y \in Item /\ y.n \in Nat /\ made \in Nat /\ c \in {"values", "errors"}
  BY DEF Offered, Item, WorldType, S!Chans
<1>3. y.to = c /\ d = c => y.n < made + 1
  BY <1>2 DEF Offered
<1> QED BY <1>1, <1>2, <1>3 DEF Ahead

\* So it may enter any place that nothing is behind which it must follow.
LEMMA NewEnters ==
  ASSUME WorldType, NEW c \in S!Chans, NEW d \in S!Chans, kind = "watch" => d = "errors",
         NEW f \in [Places -> Seq(Offered)], NEW g, NEW p \in Places,
         g[p] = Append(f[p], S!New(d)), \A a \in Places : a # p => g[a] = f[a],
         c = "errors" \/ kind = "watch" \/ d # c \/
           \A a \in Places : p < a => \A i \in DOMAIN f[a] : f[a][i].to # c
  PROVE  Moved(Ahead(c), f, g)
<1>1. S!New(d) \in Item
  BY DEF S!New, Item, WorldType
<1>2. ASSUME NEW a \in Places, NEW i \in DOMAIN f[a]
      PROVE  /\ <<f[a][i], S!New(d)>> \in Ahead(c)
             /\ p < a => <<S!New(d), f[a][i]>> \in Ahead(c)
  <2>1. f[a][i] \in Offered
    OBVIOUS
  <2> QED BY <2>1, NewIsLast
<1>3. Entered(Ahead(c), f, g, p, S!New(d))
  BY <1>2 DEF Entered
<1> QED BY <1>1, <1>3 DEF Moved

\* An item of the other channel is in nobody's way.
LEMMA OtherEnters ==
  ASSUME NEW c \in S!Chans, NEW x \in Item, x.to # c, Offered \subseteq Item,
         NEW f \in [Places -> Seq(Offered)], NEW g, NEW p \in Places,
         g[p] = Append(f[p], x), \A a \in Places : a # p => g[a] = f[a]
  PROVE  Moved(Ahead(c), f, g)
<1>1. ASSUME NEW a \in Places, NEW i \in DOMAIN f[a]
      PROVE  <<f[a][i], x>> \in Ahead(c) /\ <<x, f[a][i]>> \in Ahead(c)
  <2>1. f[a][i] \in Item
    OBVIOUS
  <2> QED BY <2>1 DEF Ahead
<1>2. Entered(Ahead(c), f, g, p, x)
  BY <1>1 DEF Entered
<1> QED BY <1>2 DEF Moved

\* Sends, seen by the line of a channel c.
LEMMA ToPortMoves ==
  ASSUME PlaceType, NEW x, x.to \in S!Chans, S!ToPort(x), NEW c \in S!Chans
  PROVE  \/ got'[c] = got[c] /\ dst'[c] = dst[c]
         \/ x.to = c /\ got'[c] = got[c] /\ dst'[c] = Append(dst[c], x)
         \/ x.to = c /\ dst[c] = <<>> /\ dst'[c] = dst[c] /\ got'[c] = Append(got[c], x)
BY DEF PlaceType, Holds, S!ToPort

LEMMA ToMidMoves ==
  ASSUME PlaceType, NEW x, x.to \in S!Chans, S!ToMid(x), NEW c \in S!Chans
  PROVE  \/ x.to # c /\ held' = held /\ mid'[c] = mid[c]
         \/ x.to = c /\ held' = held /\ mid'[c] = Append(mid[c], x)
         \/ /\ mid[c] = <<>> /\ mid'[c] = mid[c] /\ held = <<>> /\ held' = Append(held, x)
<1>1. DOMAIN mid = S!Chans /\ (buffer = 0 => mid[c] = <<>>)
  BY DEF PlaceType, Holds
<1>2. CASE mid' = [mid EXCEPT ![x.to] = Append(@, x)] /\ UNCHANGED held
  BY <1>1, <1>2
<1>3. CASE buffer = 0 /\ held = <<>> /\ held' = <<x>> /\ UNCHANGED mid
  <2>1. <<x>> = Append(<<>>, x)
    OBVIOUS
  <2> QED BY <1>1, <1>3, <2>1
<1> QED BY <1>2, <1>3 DEF S!ToMid, S!ForwarderWaits

LEMMA LineStep ==
  ASSUME PlaceType, Stages, S!Next, NEW c \in S!Chans, InLine(Ahead(c), Line(c))
  PROVE  InLine(Ahead(c), Line(c))'
<1>1. /\ PlaceType' /\ kind' = kind /\ WorldType /\ "errors" \in S!Chans /\ "values" \in S!Chans
      /\ Offered \subseteq Item
  BY HoldsStep, WorldMoves DEF Moves, PlaceType, S!Chans, Offered
<1>2. PICK f, g, R : f = Line(c) /\ g = Line(c)' /\ R = Ahead(c)
  OBVIOUS
<1>3. /\ f[1] = got[c] /\ f[2] = dst[c] /\ f[3] = held /\ f[4] = mid[c] /\ f[5] = hand /\ f[6] = batch
      /\ f \in [Places -> Seq(Offered)]
  BY <1>2, LineIs, LineType DEF LineFields, LinesTyped
<1>4. /\ g[1] = got'[c] /\ g[2] = dst'[c] /\ g[3] = held' /\ g[4] = mid'[c] /\ g[5] = hand'
      /\ g[6] = batch'
  <2>1. LineFields'
    BY LineIs, PTL
  <2> QED BY <1>2, <2>1 DEF LineFields
<1>o. /\ hand # <<>> => Head(hand) = hand[1] /\ Tail(hand) = <<>> /\ hand[1] \in Item
      /\ held # <<>> => Head(held) = held[1] /\ Tail(held) = <<>> /\ held[1] \in Item
  <2>1. hand \in Seq(Offered) /\ held \in Seq(Offered) /\ Len(hand) <= 1 /\ Len(held) <= 1
    BY DEF PlaceType, Holds
  <2> QED BY <1>1, <2>1, OneItem
<1> SUFFICES Moved(R, f, g)
  BY <1>1, <1>2, LineMoves
<1>t. ASSUME UNCHANGED <<mid, dst, got>>, hand' \in {hand, <<>>}, batch' \in {batch, <<>>},
             held' \in {held, <<>>}
      PROVE  Moved(R, f, g)
  <2>1. Thinned(f, g)
    BY <1>t, <1>3, <1>4, SixPlaces DEF Thinned
  <2> QED BY <2>1 DEF Moved
<1>s. ASSUME NEW p \in Places, NEW q \in Places, Shifted(f, g, p, q)
      PROVE  Moved(R, f, g)
  BY <1>s DEF Moved
<1>n. ASSUME NEW d \in S!Chans, kind = "watch" => d = "errors", batch = <<>>, hand = <<>>,
             UNCHANGED <<mid, held, dst, got>>,
             \/ hand' = <<S!New(d)>> /\ batch' = batch
             \/ batch' = <<S!New(d)>> /\ hand' = hand
      PROVE  Moved(R, f, g)
  <2>1. <<S!New(d)>> = Append(<<>>, S!New(d))
    OBVIOUS
  <2>2. PICK p \in {5, 6} : g[p] = Append(f[p], S!New(d)) /\ \A a \in Places : a # p => g[a] = f[a]
    BY <1>3, <1>4, <1>n, <2>1, SixPlaces
  <2>3. \A a \in Places : p < a => f[a] = <<>>
    <3>1. \A a \in Places : p < a => a = 6
      BY SixPlaces, Order
    <3> QED BY <1>3, <1>n, <3>1
  <2>4. \A a \in Places : p < a => \A i \in DOMAIN f[a] : f[a][i].to # c
    BY <2>3
  <2>5. p \in Places /\ f \in [Places -> Seq(Offered)]
    BY <1>3, SixPlaces
  <2>6. Moved(Ahead(c), f, g)
    BY <1>1, <1>n, <2>2, <2>4, <2>5, NewEnters
  <2> QED BY <1>2, <2>6
<1> USE DEF S!fixed, S!flow, S!world
<1>5. CASE S!OpenFile \/ S!RegisterRoute \/ S!BeginLoop
  BY <1>5, <1>t DEF S!OpenFile, S!RegisterRoute, S!BeginLoop, S!Serve
<1>6. CASE S!SetupFails \/ S!RegisterHandler \/ S!Subscribed \/ S!FileChange \/ S!Disconnect
           \/ S!StopLoop \/ S!Return \/ S!ClosePort \/ S!Cancel
  BY <1>6, <1>t DEF S!SetupFails, S!RegisterHandler, S!Subscribed, S!FileChange, S!Disconnect,
                    S!StopLoop, S!Return, S!ClosePort, S!Cancel
<1>7. CASE S!StartFails
  <2>1. hand' = <<S!New("errors")>> /\ batch' = batch /\ UNCHANGED <<mid, held, dst, got>>
    BY <1>7 DEF S!StartFails, S!New
  <2>2. batch = <<>> /\ hand = <<>>
    BY <1>7 DEF S!StartFails, Stages
  <2> QED BY <1>1, <1>n, <2>1, <2>2
<1>8. ASSUME NEW d \in S!Chans, S!PollTick(d) \/ S!ScanLine(d) \/ S!Message(d) \/ S!SseEvent(d)
      PROVE  Moved(R, f, g)
  <2>1. S!Produce(d) /\ kind # "watch" /\ kind \in S!Direct \cup S!Pumped
    BY <1>8 DEF S!PollTick, S!ScanLine, S!Message, S!SseEvent, S!Direct, S!Pumped
  <2>2. hand' = <<S!New(d)>> /\ batch' = batch /\ UNCHANGED <<mid, held, dst, got>>
    BY <2>1 DEF S!Produce
  <2>3. batch = <<>> /\ hand = <<>>
    BY <2>1 DEF S!Produce, S!Looping, Stages
  <2> QED BY <1>n, <2>1, <2>2, <2>3
<1>9. CASE S!Connect
  <2>1. CASE hand' = hand
    BY <1>9, <1>t, <2>1 DEF S!Connect
  <2>2. CASE hand' # hand
    <3>1. hand' = <<S!New("errors")>> /\ batch' = batch /\ UNCHANGED <<mid, held, dst, got>>
      BY <1>9, <2>2 DEF S!Connect
    <3>2. batch = <<>> /\ hand = <<>>
      BY <1>9 DEF S!Connect, S!Looping, Stages
    <3> QED BY <1>1, <1>n, <3>1, <3>2
  <2> QED BY <2>1, <2>2
<1>10. CASE S!NextRow
  <2>1. hand = <<>> /\ batch # <<>> /\ hand' = <<Head(batch)>> /\ batch' = Tail(batch)
        /\ UNCHANGED <<mid, held, dst, got>>
    BY <1>10 DEF S!NextRow
  <2>2. <<Head(batch)>> = Append(<<>>, Head(batch))
    OBVIOUS
  <2>3. Shifted(f, g, 5, 6)
    <3>1. 5 < 6 /\ \A a \in Places : ~(5 < a /\ a < 6)
      BY SixPlaces, Order
    <3>2. /\ f[6] # <<>> /\ g[5] = Append(f[5], Head(f[6])) /\ g[6] = Tail(f[6])
          /\ \A a \in Places : a # 5 /\ a # 6 => g[a] = f[a]
      BY <1>3, <1>4, <2>1, <2>2, SixPlaces
    <3> QED BY <3>1, <3>2 DEF Shifted
  <2> QED BY <1>s, <2>3, SixPlaces
<1>11. CASE S!GiveUpHand \/ S!DropError \/ S!StopForward
  BY <1>11, <1>t DEF S!GiveUpHand, S!DropError, S!StopForward
<1>12. ASSUME NEW d \in S!Chans, S!Receive(d) PROVE Moved(R, f, g)
  <2>1. /\ dst[d] # <<>> /\ got' = [got EXCEPT ![d] = Append(@, Head(dst[d]))]
        /\ dst' = [dst EXCEPT ![d] = Tail(@)]
        /\ UNCHANGED <<batch, hand, mid, held>> /\ DOMAIN got = S!Chans /\ DOMAIN dst = S!Chans
    BY <1>12 DEF S!Receive, PlaceType, Holds
  <2>2. CASE c = d
    <3>1. Shifted(f, g, 1, 2)
      <4>1. 1 < 2 /\ \A a \in Places : ~(1 < a /\ a < 2)
        BY SixPlaces, Order
      <4>2. /\ f[2] # <<>> /\ g[1] = Append(f[1], Head(f[2])) /\ g[2] = Tail(f[2])
            /\ \A a \in Places : a # 1 /\ a # 2 => g[a] = f[a]
        BY <1>3, <1>4, <2>1, <2>2, SixPlaces
      <4> QED BY <4>1, <4>2 DEF Shifted
    <3> QED BY <1>s, <3>1, SixPlaces
  <2>3. CASE c # d
    <3>1. got'[c] = got[c] /\ dst'[c] = dst[c]
      BY <2>1, <2>3
    <3>2. Thinned(f, g)
      BY <1>3, <1>4, <2>1, <3>1, SixPlaces DEF Thinned
    <3> QED BY <3>2 DEF Moved
  <2> QED BY <2>2, <2>3
<1>13. ASSUME NEW d \in S!Chans, S!Take(d) PROVE Moved(R, f, g)
  <2>1. /\ mid[d] # <<>> /\ held = <<>> /\ held' = <<Head(mid[d])>> /\ mid' = [mid EXCEPT ![d] = Tail(@)]
        /\ UNCHANGED <<batch, hand, dst, got>> /\ DOMAIN mid = S!Chans
    BY <1>13 DEF S!Take, PlaceType, Holds
  <2>2. held' = Append(held, Head(mid[d]))
    BY <2>1
  <2>3. CASE c = d
    <3>1. Shifted(f, g, 3, 4)
      <4>1. 3 < 4 /\ \A a \in Places : ~(3 < a /\ a < 4)
        BY SixPlaces, Order
      <4>2. /\ f[4] # <<>> /\ g[3] = Append(f[3], Head(f[4])) /\ g[4] = Tail(f[4])
            /\ \A a \in Places : a # 3 /\ a # 4 => g[a] = f[a]
        BY <1>3, <1>4, <2>1, <2>2, <2>3, SixPlaces
      <4> QED BY <4>1, <4>2 DEF Shifted
    <3> QED BY <1>s, <3>1, SixPlaces
  <2>4. CASE c # d
    <3>1. Head(mid[d]) \in Item /\ Head(mid[d]).to # c
      <4>1. Head(mid[d]) \in For(d, Offered)
        BY <2>1 DEF PlaceType, Holds
      <4> QED BY <1>1, <2>4, <4>1 DEF For
    <3>2. mid'[c] = mid[c]
      BY <2>1, <2>4
    <3>3. g[3] = Append(f[3], Head(mid[d])) /\ \A a \in Places : a # 3 => g[a] = f[a]
      BY <1>3, <1>4, <2>1, <2>2, <3>2, SixPlaces
    <3> QED BY <1>1, <1>2, <1>3, <3>1, <3>3, OtherEnters, SixPlaces
  <2> QED BY <2>3, <2>4
<1>14. ASSUME NEW x \in Item, S!ToPort(x), UNCHANGED <<mid, batch>>,
              \/ /\ hand # <<>> /\ x = hand[1] /\ hand' = <<>> /\ held' = held
                 /\ held = <<>> /\ mid[c] = <<>>
              \/ held # <<>> /\ x = held[1] /\ held' = <<>> /\ hand' = hand
       PROVE  Moved(R, f, g)
  <2>0. x.to \in S!Chans
    BY DEF Item
  <2>1. PICK q \in {3, 5} : /\ f[q] # <<>> /\ Head(f[q]) = x /\ g[q] = Tail(f[q]) /\ g[q] = <<>>
                            /\ q = 5 => f[3] = <<>> /\ f[4] = <<>>
                            /\ \A a \in {3, 4, 5, 6} : a # q => g[a] = f[a]
    BY <1>3, <1>4, <1>14, <1>o
  <2>2. CASE got'[c] = got[c] /\ dst'[c] = dst[c]
    <3>1. Thinned(f, g)
      BY <1>3, <1>4, <2>1, <2>2, SixPlaces DEF Thinned
    <3> QED BY <3>1 DEF Moved
  <2>3. CASE got'[c] = got[c] /\ dst'[c] = Append(dst[c], x)
    <3>1. Shifted(f, g, 2, q)
      <4>1. 2 < q /\ \A a \in Places : 2 < a /\ a < q => a \in {3, 4} /\ (q = 3 => FALSE)
        BY SixPlaces, Order
      <4>2. \A a \in Places : 2 < a /\ a < q => f[a] = <<>>
        BY <1>3, <2>1, <2>3, <4>1
      <4>3. /\ g[2] = Append(f[2], Head(f[q])) /\ \A a \in Places : a # 2 /\ a # q => g[a] = f[a]
        BY <1>3, <1>4, <2>1, <2>3, SixPlaces
      <4> QED BY <2>1, <4>1, <4>2, <4>3 DEF Shifted
    <3> QED BY <1>s, <3>1, SixPlaces
  <2>4. CASE dst[c] = <<>> /\ dst'[c] = dst[c] /\ got'[c] = Append(got[c], x)
    <3>1. Shifted(f, g, 1, q)
      <4>1. 1 < q /\ \A a \in Places : 1 < a /\ a < q => a \in {2, 3, 4} /\ (q = 3 => a = 2)
        BY SixPlaces, Order
      <4>2. \A a \in Places : 1 < a /\ a < q => f[a] = <<>>
        BY <1>3, <2>1, <2>4, <4>1
      <4>3. /\ g[1] = Append(f[1], Head(f[q])) /\ \A a \in Places : a # 1 /\ a # q => g[a] = f[a]
        BY <1>3, <1>4, <2>1, <2>4, SixPlaces
      <4> QED BY <2>1, <4>1, <4>2, <4>3 DEF Shifted
    <3> QED BY <1>s, <3>1, SixPlaces
  <2> QED BY <1>14, <2>0, <2>2, <2>3, <2>4, ToPortMoves
<1>15. CASE S!Forward
  <2>1. held # <<>> /\ held' = <<>> /\ UNCHANGED <<batch, hand, mid>> /\ S!ToPort(held[1])
    BY <1>15 DEF S!Forward
  <2> QED BY <1>14, <1>o, <2>1
<1>16. CASE S!Report
  <2>1. /\ hand # <<>> /\ hand' = <<>> /\ UNCHANGED <<batch, mid, held>> /\ held = <<>> /\ mid[c] = <<>>
        /\ S!ToPort(hand[1]) \/ UNCHANGED <<dst, got>>
    BY <1>16 DEF S!Report, Stages
  <2> QED BY <1>14, <1>t, <1>o, <2>1
<1>17. CASE S!SendHand
  <2>1. hand # <<>> /\ hand' = <<>> /\ batch' = batch
    BY <1>17 DEF S!SendHand
  <2>2. CASE kind \in S!Direct /\ S!ToPort(hand[1]) /\ UNCHANGED <<mid, held>>
    <3>1. held = <<>> /\ mid[c] = <<>>
      BY <2>2 DEF Stages
    <3> QED BY <1>14, <1>o, <2>1, <2>2, <3>1
  <2>3. CASE S!ToMid(hand[1]) /\ UNCHANGED <<dst, got>>
    <3>1. hand[1].to \in S!Chans
      BY <1>o, <2>1 DEF Item
    <3>2. CASE held' = held /\ mid'[c] = mid[c]
      <4>1. Thinned(f, g)
        BY <1>3, <1>4, <2>1, <2>3, <3>2, SixPlaces DEF Thinned
      <4> QED BY <4>1 DEF Moved
    <3>3. CASE held' = held /\ mid'[c] = Append(mid[c], hand[1])
      <4>1. Shifted(f, g, 4, 5)
        <5>1. 4 < 5 /\ \A a \in Places : ~(4 < a /\ a < 5)
          BY SixPlaces, Order
        <5>2. /\ f[5] # <<>> /\ g[4] = Append(f[4], Head(f[5])) /\ g[5] = Tail(f[5])
              /\ \A a \in Places : a # 4 /\ a # 5 => g[a] = f[a]
          BY <1>3, <1>4, <1>o, <2>1, <2>3, <3>3, SixPlaces
        <5> QED BY <5>1, <5>2 DEF Shifted
      <4> QED BY <1>s, <4>1, SixPlaces
    <3>4. CASE mid[c] = <<>> /\ mid'[c] = mid[c] /\ held' = Append(held, hand[1])
      <4>0. \A a \in Places : 3 < a /\ a < 5 => a = 4
        BY SixPlaces, Order
      <4>1. Shifted(f, g, 3, 5)
        <5>1. 3 < 5 /\ \A a \in Places : 3 < a /\ a < 5 => f[a] = <<>>
          BY <1>3, <3>4, <4>0, SixPlaces, Order
        <5>2. /\ f[5] # <<>> /\ g[3] = Append(f[3], Head(f[5])) /\ g[5] = Tail(f[5])
              /\ \A a \in Places : a # 3 /\ a # 5 => g[a] = f[a]
          BY <1>3, <1>4, <1>o, <2>1, <2>3, <3>4, SixPlaces
        <5> QED BY <5>1, <5>2 DEF Shifted
      <4> QED BY <1>s, <4>1, SixPlaces
    <3> QED BY <2>3, <3>1, <3>2, <3>3, <3>4, ToMidMoves
  <2> QED BY <1>17, <2>2, <2>3 DEF S!SendHand
<1>18. CASE S!Ingest
  <2>1. /\ kind = "ingest" /\ S!ToMid(S!New("values")) /\ UNCHANGED <<batch, hand, dst, got>>
    BY <1>18 DEF S!Ingest
  <2>2. batch = <<>> /\ hand = <<>>
    BY <2>1 DEF Stages, S!Direct, S!Pumped, S!Callbacks
  <2>3. S!New("values").to = "values"
    BY DEF S!New
  <2>4. CASE held' = held /\ mid'[c] = mid[c]
    <3>1. Thinned(f, g)
      BY <1>3, <1>4, <2>1, <2>4, SixPlaces DEF Thinned
    <3> QED BY <3>1 DEF Moved
  <2>5. CASE \/ held' = held /\ mid'[c] = Append(mid[c], S!New("values"))
             \/ mid[c] = <<>> /\ mid'[c] = mid[c] /\ held' = Append(held, S!New("values"))
    <3>1. PICK p \in {3, 4} : /\ g[p] = Append(f[p], S!New("values"))
                              /\ \A a \in Places : a # p => g[a] = f[a]
                              /\ p = 3 => f[4] = <<>>
      <4>1. CASE held' = held /\ mid'[c] = Append(mid[c], S!New("values"))
        <5>1. g[4] = Append(f[4], S!New("values")) /\ \A a \in Places : a # 4 => g[a] = f[a]
          BY <1>3, <1>4, <2>1, <4>1, SixPlaces
        <5> QED BY <5>1
      <4>2. CASE mid[c] = <<>> /\ mid'[c] = mid[c] /\ held' = Append(held, S!New("values"))
        <5>1. g[3] = Append(f[3], S!New("values")) /\ \A a \in Places : a # 3 => g[a] = f[a]
          BY <1>3, <1>4, <2>1, <4>2, SixPlaces
        <5> QED BY <1>3, <4>2, <5>1
      <4> QED BY <2>5, <4>1, <4>2
    <3>a. \A a \in Places : p < a => a \in {5, 6} \/ (p = 3 /\ a = 4)
      BY SixPlaces, Order
    <3>b. \A a \in Places : p < a => f[a] = <<>>
      BY <1>3, <2>2, <3>1, <3>a
    <3>2. kind # "watch"
      BY <2>1
    <3>3. \A a \in Places : p < a => \A i \in DOMAIN f[a] : f[a][i].to # c
      BY <3>b
    <3>4. p \in Places /\ f \in [Places -> Seq(Offered)]
      BY <1>3, SixPlaces
    <3>5. Moved(Ahead(c), f, g)
      BY <1>1, <3>1, <3>2, <3>3, <3>4, NewEnters
    <3> QED BY <1>2, <3>5
  <2> QED BY <1>1, <2>1, <2>3, <2>4, <2>5, ToMidMoves
<1>19. ASSUME NEW d \in S!Chans, S!MqttMessage(d) \/ S!Mqtt5Message(d)
       PROVE  Moved(R, f, g)
  <2>1. /\ kind \in S!Callbacks /\ kind # "watch" /\ UNCHANGED <<batch, hand, mid, held>>
        /\ S!ToPort(S!New(d)) \/ UNCHANGED <<dst, got>>
    BY <1>19 DEF S!MqttMessage, S!Mqtt5Message, S!Callback, S!Callbacks
  <2>2. /\ batch = <<>> /\ held = <<>> /\ mid[c] = <<>>
        /\ hand = <<>> \/ (hand # <<>> /\ hand[1].to = "errors")
    BY <2>1 DEF Stages, S!Direct, S!Pumped, S!Callbacks
  <2>3. S!New(d).to = d
    BY DEF S!New
  <2>4. CASE got'[c] = got[c] /\ dst'[c] = dst[c]
    <3>1. Thinned(f, g)
      BY <1>3, <1>4, <2>1, <2>4, SixPlaces DEF Thinned
    <3> QED BY <3>1 DEF Moved
  <2>5. CASE \/ got'[c] = got[c] /\ dst'[c] = Append(dst[c], S!New(d))
             \/ dst[c] = <<>> /\ dst'[c] = dst[c] /\ got'[c] = Append(got[c], S!New(d))
    <3>1. PICK p \in {1, 2} : /\ g[p] = Append(f[p], S!New(d))
                              /\ \A a \in Places : a # p => g[a] = f[a]
                              /\ p = 1 => f[2] = <<>>
      <4>1. CASE got'[c] = got[c] /\ dst'[c] = Append(dst[c], S!New(d))
        <5>1. g[2] = Append(f[2], S!New(d)) /\ \A a \in Places : a # 2 => g[a] = f[a]
          BY <1>3, <1>4, <2>1, <4>1, SixPlaces
        <5> QED BY <5>1
      <4>2. CASE dst[c] = <<>> /\ dst'[c] = dst[c] /\ got'[c] = Append(got[c], S!New(d))
        <5>1. g[1] = Append(f[1], S!New(d)) /\ \A a \in Places : a # 1 => g[a] = f[a]
          BY <1>3, <1>4, <2>1, <4>2, SixPlaces
        <5> QED BY <1>3, <4>2, <5>1
      <4> QED BY <2>5, <4>1, <4>2
    <3>a. \A a \in Places : p < a => a \in {3, 4, 5, 6} \/ (p = 1 /\ a = 2)
      BY SixPlaces, Order
    <3>b. \A a \in Places : p < a => a = 5 \/ f[a] = <<>>
      BY <1>3, <2>2, <3>1, <3>a
    <3>2. c = "errors" \/ \A i \in DOMAIN f[5] : f[5][i].to # c
      <4>1. \A i \in DOMAIN hand : i = 1
        BY DEF PlaceType, Holds
      <4>2. c = "errors" \/ c = "values"
        BY DEF S!Chans
      <4> QED BY <1>3, <2>2, <4>1, <4>2
    <3>3. c = "errors" \/ \A a \in Places : p < a => \A i \in DOMAIN f[a] : f[a][i].to # c
      BY <3>2, <3>b
    <3>4. p \in Places /\ f \in [Places -> Seq(Offered)]
      BY <1>3, SixPlaces
    <3>5. Moved(Ahead(c), f, g)
      BY <1>1, <2>1, <3>1, <3>3, <3>4, NewEnters
    <3> QED BY <1>2, <3>5
  <2> QED BY <1>1, <2>1, <2>3, <2>4, <2>5, ToPortMoves
<1>20. ASSUME batch = <<>>, UNCHANGED <<hand, mid, held, dst, got>>, batch' \in Seq(Item),
              \A k, m \in DOMAIN batch' : k < m => <<batch'[k], batch'[m]>> \in R,
              \A k \in DOMAIN batch' : \A y \in Offered : <<y, batch'[k]>> \in R
       PROVE  Moved(R, f, g)
  <2>1. \A a \in Places : \A i \in DOMAIN f[a] : f[a][i] \in Offered
    BY <1>3
  <2>2. Filled(R, f, g)
    BY <1>3, <1>4, <1>20, <2>1, SixPlaces DEF Filled
  <2> QED BY <2>2 DEF Moved
<1>21. CASE S!Query
  <2>1. PICK rows \in UNION {[1..k -> S!Chans] : k \in 0..2} :
          batch' = [i \in DOMAIN rows |-> [n |-> made + i, to |-> rows[i]]]
    BY <1>21 DEF S!Query
  <2>2. PICK k \in 0..2 : rows \in [1..k -> S!Chans]
    OBVIOUS
  <2>3. made \in Nat /\ DOMAIN batch' = 1..k /\ kind = "query" /\ batch = <<>>
        /\ UNCHANGED <<hand, mid, held, dst, got>>
    BY <1>1, <1>21, <2>1, <2>2 DEF S!Query, S!Looping, Stages, WorldType
  <2>4. \A i \in 1..k : batch'[i] \in Item /\ batch'[i].n = made + i
    BY <2>1, <2>2, <2>3 DEF Item
  <2>5. \A i, j \in 1..k : i < j => <<batch'[i], batch'[j]>> \in R
    BY <1>2, <2>3, <2>4 DEF Ahead
  <2>6. ASSUME NEW i \in 1..k, NEW y \in Offered PROVE <<y, batch'[i]>> \in R
    <3>1. y.n <= made /\ y \in Item /\ y.n \in Nat
      BY <2>3 DEF Offered, Item
    <3>2. y.n < made + i
      BY <2>3, <3>1
    <3> QED BY <1>2, <2>3, <2>4, <3>1, <3>2 DEF Ahead
  <2>7. batch' \in Seq(Item)
    <3>1. batch' \in [1..k -> Item] /\ k \in Nat
      BY <2>1, <2>2, <2>3, <2>4
    <3> QED BY <3>1
  <2> QED BY <1>20, <2>3, <2>5, <2>6, <2>7
<1>22. CASE S!List
  <2>1. UNCHANGED <<hand, mid, held, dst, got>> /\ kind = "watch" /\ batch = <<>> /\ hand = <<>>
    BY <1>22 DEF S!List, S!Looping, Stages
  <2>2. CASE batch' = <<S!New("errors")>>
    BY <1>1, <1>n, <2>1, <2>2
  <2>3. ASSUME NEW q, q = S!SetToSeq(dir \ known),
               batch' = [i \in DOMAIN q |-> [n |-> q[i], to |-> "values"]]
        PROVE  Moved(R, f, g)
    <3>1. q \in Seq(dir \ known) /\ \A i, j \in DOMAIN q : i < j => q[i] # q[j]
      <4>1. IsFiniteSet(1..MaxItems)
        BY FS_Interval, SourcesAssumption
      <4>2. IsFiniteSet(dir \ known)
        BY <1>1, <4>1, FS_Subset DEF WorldType
      <4> QED BY <2>3, <4>2, Listed
    <3>2. DOMAIN batch' = DOMAIN q /\ \A i \in DOMAIN q : batch'[i] = [n |-> q[i], to |-> "values"]
      BY <2>3
    <3>3. \A i \in DOMAIN q : q[i] \in Nat /\ q[i] \notin known
      <4>1. dir \subseteq Nat
        BY <1>1, SourcesAssumption DEF WorldType
      <4>2. \A i \in DOMAIN q : q[i] \in dir \ known
        BY <3>1
      <4> QED BY <4>1, <4>2
    <3>4. \A i \in DOMAIN q : batch'[i] \in Item /\ batch'[i].n = q[i] /\ batch'[i].to = "values"
      BY <1>1, <3>2, <3>3 DEF Item
    <3>5. \A i, j \in DOMAIN q : i < j => <<batch'[i], batch'[j]>> \in R
      BY <1>2, <2>1, <3>1, <3>4 DEF Ahead
    <3>6. ASSUME NEW i \in DOMAIN q, NEW y \in Offered PROVE <<y, batch'[i]>> \in R
      <4>1. y \in Item /\ (y.to = "values" => y.n \in known)
        BY <2>1 DEF Offered
      <4>2. y.to = "values" => y.n # q[i]
        BY <3>3, <4>1
      <4> QED BY <1>2, <2>1, <3>4, <4>1, <4>2 DEF Ahead
    <3>7. batch' \in Seq(Item)
      <4>1. Len(q) \in Nat /\ DOMAIN q = 1..Len(q)
        BY <3>1
      <4>2. batch' \in [1..Len(q) -> Item]
        BY <2>3, <3>4, <4>1
      <4> QED BY <4>1, <4>2
    <3> QED BY <1>20, <2>1, <3>2, <3>5, <3>6, <3>7
  <2> QED BY <1>22, <2>2, <2>3 DEF S!List
<1> QED
  BY <1>5, <1>6, <1>7, <1>8, <1>9, <1>10, <1>11, <1>12, <1>13, <1>15, <1>16, <1>17, <1>18,
     <1>19, <1>21, <1>22 DEF S!Next

LEMMA SourceInit == MCInit => SourceInv
<1> SUFFICES ASSUME MCInit PROVE SourceInv
  OBVIOUS
<1>1. /\ batch = <<>> /\ hand = <<>> /\ held = <<>> /\ buffer \in Nat /\ made = 0 /\ dir = {} /\ known = {}
      /\ mid = S!Empty /\ dst = S!Empty /\ got = S!Empty
  <2>0. buffer = 0 \/ buffer \in Buffers
    BY DEF MCInit, Nothing, S!Init
  <2>1. buffer \in Nat
    <3>1. CASE buffer = 0 BY <3>1
    <3>2. CASE buffer \in Buffers BY <3>2, SourcesAssumption
    <3> QED BY <2>0, <3>1, <3>2
  <2> QED BY <2>1 DEF MCInit, Nothing, S!Init
<1>2. DOMAIN S!Empty = S!Chans /\ \A c \in S!Chans : S!Empty[c] = <<>>
  BY DEF S!Empty
<1>3. PlaceType
  <2>1. WorldType
    BY <1>1 DEF WorldType
  <2>2. Holds(Offered)
    <3>1. \A T : <<>> \in Seq(T) /\ Len(<<>>) = 0
      OBVIOUS
    <3>2. batch \in Seq(Offered) /\ hand \in Seq(Offered) /\ held \in Seq(Offered)
      BY <1>1, <3>1
    <3>3. Len(hand) <= 1 /\ Len(held) <= 1
      BY <1>1
    <3>4. \A c \in S!Chans : mid[c] = <<>> /\ dst[c] = <<>> /\ got[c] = <<>>
      BY <1>1, <1>2
    <3> QED BY <1>1, <1>2, <3>1, <3>2, <3>3, <3>4 DEF Holds
  <2> QED BY <2>1, <2>2 DEF PlaceType
<1>4. Stages
  BY <1>1, <1>2 DEF MCInit, Nothing, S!Init, Stages, S!Direct, S!Pumped, S!Callbacks
<1>5. ASSUME NEW c \in S!Chans PROVE InLine(Ahead(c), Line(c))
  <2>1. \A a \in Places : Line(c)[a] = <<>>
    BY <1>1, <1>2, LineIs, SixPlaces DEF LineFields
  <2> QED BY <2>1 DEF InLine
<1> QED BY <1>3, <1>4, <1>5 DEF SourceInv

LEMMA SourceStep == SourceInv /\ [MCNext]_<<vars, others>> => SourceInv'
<1> SUFFICES ASSUME SourceInv, [MCNext]_<<vars, others>> PROVE SourceInv'
  OBVIOUS
<1>1. CASE S!Next
  <2>1. PlaceType' /\ Stages'
    BY <1>1, HoldsStep, StagesStep DEF SourceInv
  <2>2. ASSUME NEW c \in S!Chans PROVE InLine(Ahead(c), Line(c))'
    BY <1>1, LineStep DEF SourceInv
  <2> QED BY <2>1, <2>2 DEF SourceInv
<1>2. CASE UNCHANGED others
  <2>1. PlaceType'
    BY <1>2 DEF others, SourceInv, PlaceType, WorldType, Holds, For, Offered
  <2>2. Stages'
    BY <1>2 DEF others, SourceInv, Stages
  <2>3. ASSUME NEW c \in S!Chans PROVE InLine(Ahead(c), Line(c))'
    <3>1. Line(c)' = Line(c) /\ Ahead(c)' = Ahead(c)
      BY <1>2 DEF others, Line, Ahead
    <3> QED BY <3>1 DEF InLine, SourceInv
  <2> QED BY <2>1, <2>2, <2>3 DEF SourceInv
<1> QED BY <1>1, <1>2 DEF MCNext

\* Nothing is sent to the port once it has closed its channels, but for a
\* callback that nobody unregisters; what arrives does so once, and in the order
\* it was offered in.
THEOREM SendsInTimeHolds == MCSpec => []SendsInTime
<1>1. ASSUME SourceInv PROVE SendsInTime
  <2>1. panicked => kind \in S!Callbacks
    BY <1>1 DEF SourceInv, Stages
  <2>2. ASSUME NEW c \in S!Chans, NEW i \in DOMAIN got[c], NEW j \in DOMAIN got[c], i < j
        PROVE  IF kind = "watch" \/ c = "errors" THEN got[c][i].n # got[c][j].n
                                                 ELSE got[c][i].n < got[c][j].n
    <3>1. <<got[c][i], got[c][j]>> \in Ahead(c)
      <4>1. Line(c)[1] = got[c] /\ 1 \in Places
        BY LineIs, SixPlaces DEF LineFields
      <4> QED BY <1>1, <2>2, <4>1 DEF SourceInv, InLine
    <3>2. got[c][i].to = c /\ got[c][j].to = c
      <4>1. got[c] \in Seq(For(c, Offered))
        BY <1>1 DEF SourceInv, PlaceType, Holds
      <4>2. got[c][i] \in For(c, Offered) /\ got[c][j] \in For(c, Offered)
        BY <4>1
      <4> QED BY <4>2 DEF For
    <3> QED BY <3>1, <3>2 DEF Ahead
  <2> QED BY <2>1, <2>2 DEF SendsInTime, S!SendsInTime, S!Once, S!Increasing
<1> QED BY <1>1, SourceInit, SourceStep, PTL DEF MCSpec

-----------------------------------------------------------------------------
(* The way of an item of one channel: the port's channel, the forwarder's   *)
(* hand, the adapter's channel and the hand of the producing loop, and what *)
(* becomes of the whole when one item enters, passes on, leaves or is lost. *)
Way(p, q, r, u) == p \o q \o r \o u

LEMMA CatType == \A a, b \in Seq(Item) : a \o b \in Seq(Item) /\ Len(a \o b) = Len(a) + Len(b)
OBVIOUS

LEMMA CatEmpty == <<>> \in Seq(Item) /\ \A a \in Seq(Item) : a \o <<>> = a /\ <<>> \o a = a
BY ConcatEmptySeq

Assoc(a, b, c) == (a \o b) \o c = a \o (b \o c)
LEMMA CatAssoc == \A a, b, c \in Seq(Item) : Assoc(a, b, c)
<1> SUFFICES ASSUME NEW a \in Seq(Item), NEW b \in Seq(Item), NEW c \in Seq(Item)
             PROVE  (a \o b) \o c = a \o (b \o c)
  BY DEF Assoc
<1> QED BY ConcatAssociative

LEMMA CatOne == \A a \in Seq(Item), x \in Item : Append(a, x) = a \o <<x>> /\ <<x>> \in Seq(Item)
<1> SUFFICES ASSUME NEW a \in Seq(Item), NEW x \in Item PROVE Append(a, x) = a \o <<x>> /\ <<x>> \in Seq(Item)
  OBVIOUS
<1> QED BY AppendIsConcat

LEMMA WayLength ==
  ASSUME NEW p \in Seq(Item), NEW q \in Seq(Item), NEW r \in Seq(Item), NEW u \in Seq(Item)
  PROVE  /\ Way(p, q, r, u) \in Seq(Item)
         /\ Len(Way(p, q, r, u)) = Len(p) + Len(q) + Len(r) + Len(u)
BY DEF Way

\* An item enters at the end.
Enters(w, x, v) == v = Append(w, x)

LEMMA WayEntered ==
  ASSUME NEW p \in Seq(Item), NEW q \in Seq(Item), NEW r \in Seq(Item), NEW x \in Item
  PROVE  /\ Enters(Way(p, q, r, <<>>), x, Way(p, q, r, <<x>>))
         /\ Enters(Way(p, q, r, <<>>), x, Way(p, q, Append(r, x), <<>>))
<1>1. <<x>> \in Seq(Item) /\ p \o q \in Seq(Item) /\ (p \o q) \o r \in Seq(Item)
  BY CatType, CatOne
<1>2. Append(r, x) = r \o <<x>> /\ r \o <<x>> \in Seq(Item)
  BY <1>1, CatType, CatOne
<1>3. (p \o q) \o (r \o <<x>>) \in Seq(Item)
  BY <1>1, <1>2, CatType
<1>4. /\ ((p \o q) \o r) \o <<>> = (p \o q) \o r
      /\ ((p \o q) \o (r \o <<x>>)) \o <<>> = (p \o q) \o (r \o <<x>>)
  BY <1>1, <1>3, CatEmpty
<1>5. Append((p \o q) \o r, x) = ((p \o q) \o r) \o <<x>>
  BY <1>1, CatOne
<1>6. Assoc(p \o q, r, <<x>>)
  BY <1>1, CatAssoc
<1> QED BY <1>2, <1>4, <1>5, <1>6, Zenon DEF Way, Enters, Assoc

LEMMA WayEnteredHeld ==
  ASSUME NEW p \in Seq(Item), NEW x \in Item
  PROVE  Enters(Way(p, <<>>, <<>>, <<>>), x, Way(p, <<x>>, <<>>, <<>>))
<1>1. p \o <<x>> \in Seq(Item) /\ Append(p, x) = p \o <<x>>
  BY CatType, CatOne
<1>2. (p \o <<x>>) \o <<>> = p \o <<x>> /\ p \o <<>> = p
  BY <1>1, CatEmpty
<1> QED BY <1>1, <1>2, Zenon DEF Way, Enters

\* An item passes from one place to the end of one ahead.
Same(w, v) == w = v

LEMMA WayPassed ==
  ASSUME NEW p \in Seq(Item), NEW q \in Seq(Item), NEW r \in Seq(Item), NEW u \in Seq(Item), NEW x \in Item
  PROVE  /\ Same(Way(p, q, Append(r, x), <<>>), Way(p, q, r, <<x>>))
         /\ Same(Way(p, <<x>>, <<>>, <<>>), Way(p, <<>>, <<>>, <<x>>))
         /\ Same(Way(Append(p, x), <<>>, r, u), Way(p, <<x>>, r, u))
         /\ Same(Way(Append(p, x), <<>>, <<>>, <<>>), Way(p, <<>>, <<>>, <<x>>))
         /\ r # <<>> => Same(Way(p, <<Head(r)>>, Tail(r), u), Way(p, <<>>, r, u))
<1>1. Way(p, q, Append(r, x), <<>>) = Way(p, q, r, <<x>>)
  <2>1. /\ Enters(Way(p, q, r, <<>>), x, Way(p, q, r, <<x>>))
        /\ Enters(Way(p, q, r, <<>>), x, Way(p, q, Append(r, x), <<>>))
    BY WayEntered
  <2> QED BY <2>1, Zenon DEF Enters
<1>2. Way(p, <<x>>, <<>>, <<>>) = Way(p, <<>>, <<>>, <<x>>)
  <2>1. PICK e \in Seq(Item) : e = <<>>
    BY CatEmpty
  <2>2. Enters(Way(p, e, e, <<>>), x, Way(p, e, e, <<x>>))
    BY <2>1, WayEntered
  <2>3. Enters(Way(p, <<>>, <<>>, <<>>), x, Way(p, <<x>>, <<>>, <<>>))
    BY WayEnteredHeld
  <2> QED BY <2>1, <2>2, <2>3, Zenon DEF Enters
<1>3. Append(p, x) = p \o <<x>> /\ p \o <<x>> \in Seq(Item)
  BY CatType, CatEmpty, CatAssoc, CatOne
<1>4. (p \o <<x>>) \o <<>> = p \o <<x>>
  BY <1>3, CatType, CatEmpty, CatAssoc, CatOne
<1>5. /\ Way(Append(p, x), <<>>, r, u) = Way(p, <<x>>, r, u)
      /\ Way(Append(p, x), <<>>, <<>>, <<>>) = Way(p, <<x>>, <<>>, <<>>)
  BY <1>3, <1>4 DEF Way
<1>6. ASSUME r # <<>> PROVE Way(p, <<Head(r)>>, Tail(r), u) = Way(p, <<>>, r, u)
  <2>1. Head(r) \in Item /\ Tail(r) \in Seq(Item) /\ <<Head(r)>> \in Seq(Item)
    BY <1>6
  <2>2. <<Head(r)>> \o Tail(r) = r
    BY <1>6, <2>1
  <2>3. Assoc(p, <<Head(r)>>, Tail(r))
    BY <2>1, CatAssoc
  <2>4. p \o <<>> = p
    BY CatType, CatEmpty, CatAssoc, CatOne
  <2> QED BY <2>2, <2>3, <2>4, Zenon DEF Way, Assoc
<1> QED BY <1>1, <1>2, <1>5, <1>6, Zenon DEF Same

LEMMA CatFirst ==
  ASSUME NEW s \in Seq(Item), NEW t \in Seq(Item), s # <<>>
  PROVE  s \o t # <<>> /\ Head(s \o t) = Head(s) /\ Tail(s \o t) = Tail(s) \o t
<1>1. Head(s) \in Item /\ <<Head(s)>> \in Seq(Item) /\ Tail(s) \in Seq(Item) /\ s = <<Head(s)>> \o Tail(s)
  OBVIOUS
<1>2. Tail(s) \o t \in Seq(Item) /\ s \o t = <<Head(s)>> \o (Tail(s) \o t)
  <2>1. Tail(s) \o t \in Seq(Item) /\ Assoc(<<Head(s)>>, Tail(s), t)
    BY <1>1, CatType, CatAssoc
  <2> QED BY <1>1, <2>1, Zenon DEF Assoc
<1>3. ASSUME NEW h \in Item, NEW z \in Seq(Item)
      PROVE  <<h>> \o z # <<>> /\ Head(<<h>> \o z) = h /\ Tail(<<h>> \o z) = z
  <2>1. <<h>> \o z \in Seq(Item) /\ Len(<<h>> \o z) = 1 + Len(z) /\ Head(<<h>> \o z) = h
    OBVIOUS
  <2>2. Tail(<<h>> \o z) \in Seq(Item) /\ Len(Tail(<<h>> \o z)) = Len(z)
    BY <2>1
  <2>3. \A i \in 1..Len(z) : Tail(<<h>> \o z)[i] = z[i]
    BY <2>1
  <2> QED BY <2>1, <2>2, <2>3, SeqEqual
<1> QED BY <1>1, <1>2, <1>3

Leaves(w, x, v) == w # <<>> /\ Head(w) = x /\ Tail(w) = v

LEMMA WayFirst ==
  ASSUME NEW s \in Seq(Item), NEW t \in Seq(Item), NEW v \in Seq(Item), NEW w \in Seq(Item), s # <<>>
  PROVE  Leaves(Way(s, t, v, w), Head(s), Way(Tail(s), t, v, w))
<1>1. s \o t \in Seq(Item) /\ s \o t # <<>> /\ Head(s \o t) = Head(s) /\ Tail(s \o t) = Tail(s) \o t
  BY CatType, CatFirst
<1>2. PICK a \in Seq(Item) : a = s \o t
  BY <1>1
<1>3. a \o v \in Seq(Item) /\ a \o v # <<>> /\ Head(a \o v) = Head(a) /\ Tail(a \o v) = Tail(a) \o v
  BY <1>1, <1>2, CatType, CatFirst
<1>4. PICK b \in Seq(Item) : b = a \o v
  BY <1>3
<1>5. b \o w # <<>> /\ Head(b \o w) = Head(b) /\ Tail(b \o w) = Tail(b) \o w
  BY <1>3, <1>4, CatFirst
<1> QED BY <1>1, <1>2, <1>3, <1>4, <1>5 DEF Way, Leaves

\* The first item leaves.
LEMMA WayLeft ==
  ASSUME NEW p \in Seq(Item), NEW q \in Seq(Item), NEW r \in Seq(Item), NEW u \in Seq(Item), NEW x \in Item
  PROVE  /\ p # <<>> => Leaves(Way(p, q, r, u), Head(p), Way(Tail(p), q, r, u))
         /\ Leaves(Way(<<>>, <<x>>, r, u), x, Way(<<>>, <<>>, r, u))
         /\ Leaves(Way(<<>>, <<>>, <<>>, <<x>>), x, Way(<<>>, <<>>, <<>>, <<>>))
<1>1. PICK o \in Seq(Item), e \in Seq(Item) :
        o = <<x>> /\ e = <<>> /\ o # <<>> /\ Head(o) = x /\ Tail(o) = e
  <2>1. <<>> \in Seq(Item) /\ <<x>> \in Seq(Item) /\ <<x>> # <<>> /\ Head(<<x>>) = x /\ Tail(<<x>>) = <<>>
    OBVIOUS
  <2> QED BY <2>1
<1>2. e \o o = o /\ o \o e = o /\ e \o e = e
  BY <1>1, CatEmpty
<1>3. Way(e, o, r, u) = Way(o, e, r, u) /\ Way(e, e, e, o) = Way(o, e, e, e)
  BY ONLY <1>2, Zenon DEF Way
<1>4. /\ Leaves(Way(o, e, r, u), Head(o), Way(Tail(o), e, r, u))
      /\ Leaves(Way(o, e, e, e), Head(o), Way(Tail(o), e, e, e))
  BY <1>1, WayFirst
<1>5. Leaves(Way(e, o, r, u), x, Way(e, e, r, u)) /\ Leaves(Way(e, e, e, o), x, Way(e, e, e, e))
  BY ONLY <1>1, <1>3, <1>4, Zenon
<1>6. p # <<>> => Leaves(Way(p, q, r, u), Head(p), Way(Tail(p), q, r, u))
  BY WayFirst
<1> QED BY <1>1, <1>5, <1>6, Zenon

\* An item is lost.
Without(s, i) == SubSeq(s, 1, i - 1) \o SubSeq(s, i + 1, Len(s))

Loses(w, v) == \E i \in DOMAIN w : v = Without(w, i)

LEMMA CatItems ==
  ASSUME NEW a \in Seq(Item), NEW b \in Seq(Item)
  PROVE  /\ Len(a \o b) = Len(a) + Len(b)
         /\ \A i \in 1..Len(a) : (a \o b)[i] = a[i]
         /\ \A i \in 1..Len(b) : (a \o b)[Len(a) + i] = b[i]
OBVIOUS

LEMMA OneWithout ==
  ASSUME NEW s \in Seq(Item), NEW t \in Seq(Item), NEW x \in Item
  PROVE  Loses(s \o (<<x>> \o t), s \o t)
<1>1. PICK k \in Nat : k = Len(s) + 1 /\ k - 1 = Len(s)
  OBVIOUS
<1>o. PICK o \in Seq(Item) : o = <<x>> /\ Len(o) = 1
  <2>1. <<x>> \in Seq(Item) /\ Len(<<x>>) = 1
    OBVIOUS
  <2> QED BY <2>1
<1>v. PICK v \in Seq(Item) : v = o \o t
  BY <1>o, CatType
<1>2. Len(v) = Len(t) + 1 /\ \A i \in 1..Len(t) : v[i + 1] = t[i]
  <2>1. Len(v) = Len(o) + Len(t) /\ \A i \in 1..Len(t) : v[Len(o) + i] = t[i]
    BY <1>o, <1>v, CatItems
  <2>2. Len(t) \in Nat /\ \A i \in 1..Len(t) : 1 + i = i + 1
    OBVIOUS
  <2> QED BY <1>o, <2>1, <2>2
<1>w. PICK w \in Seq(Item) : w = s \o v
  BY <1>v, CatType
<1>3. /\ Len(w) = Len(s) + Len(v)
      /\ \A i \in 1..Len(s) : w[i] = s[i]
      /\ \A j \in 1..Len(v) : w[Len(s) + j] = v[j]
  BY <1>v, <1>w, CatItems
<1>4. \A i \in 1..Len(t) : i + 1 \in 1..Len(v) /\ Len(s) + (i + 1) = k + i
  BY <1>1, <1>2
<1>5. \A i \in 1..Len(t) : w[k + i] = t[i]
  BY <1>2, <1>3, <1>4
<1>6. SubSeq(w, 1, k - 1) = s
  <2>1. SubSeq(w, 1, k - 1) \in Seq(Item) /\ Len(SubSeq(w, 1, k - 1)) = Len(s)
        /\ \A i \in 1..Len(s) : SubSeq(w, 1, k - 1)[i] = s[i]
    BY <1>1, <1>2, <1>3
  <2> QED BY <2>1, SeqEqual
<1>7. SubSeq(w, k + 1, Len(w)) = t
  <2>1. k + 1 \in 1..Len(w) + 1 /\ Len(w) - (k + 1) + 1 = Len(t) /\ Len(w) \in Nat
    BY <1>1, <1>2, <1>3
  <2>2. SubSeq(w, k + 1, Len(w)) \in Seq(Item) /\ Len(SubSeq(w, k + 1, Len(w))) = Len(t)
    BY <2>1
  <2>3. \A i \in 1..Len(t) : SubSeq(w, k + 1, Len(w))[i] = w[k + i]
    BY <2>1
  <2> QED BY <1>5, <2>2, <2>3, SeqEqual
<1>8. k \in DOMAIN w
  BY <1>1, <1>2, <1>3
<1> QED BY <1>o, <1>v, <1>w, <1>6, <1>7, <1>8 DEF Without, Loses

LEMMA WayLost ==
  ASSUME NEW p \in Seq(Item), NEW q \in Seq(Item), NEW r \in Seq(Item), NEW u \in Seq(Item), NEW x \in Item
  PROVE  /\ Loses(Way(p, q, r, <<x>>), Way(p, q, r, <<>>))
         /\ Loses(Way(p, <<x>>, r, u), Way(p, <<>>, r, u))
<1>1. /\ p \o q \in Seq(Item) /\ (p \o q) \o r \in Seq(Item) /\ r \o u \in Seq(Item)
      /\ <<x>> \in Seq(Item) /\ <<>> \in Seq(Item)
  BY CatType, CatEmpty, CatOne
<1>2. Loses(((p \o q) \o r) \o (<<x>> \o <<>>), ((p \o q) \o r) \o <<>>)
  BY <1>1, OneWithout
<1>3. <<x>> \o <<>> = <<x>> /\ p \o <<>> = p
  BY <1>1, CatEmpty
<1>4. Loses(p \o (<<x>> \o (r \o u)), p \o (r \o u))
  BY <1>1, OneWithout
<1>5. p \o (<<x>> \o (r \o u)) = ((p \o <<x>>) \o r) \o u
  <2>1. Assoc(p, <<x>>, r \o u) /\ Assoc(p \o <<x>>, r, u)
    <3>1. p \o <<x>> \in Seq(Item)
      BY <1>1, CatType
    <3> QED BY <1>1, <3>1, CatAssoc
  <2> QED BY <2>1, Zenon DEF Assoc
<1>6. Assoc(p, r, u)
  BY CatAssoc
<1> QED BY <1>2, <1>3, <1>4, <1>5, <1>6, Zenon DEF Way, Assoc

-----------------------------------------------------------------------------
(* Every step, seen from a channel of the port, is one of a first-in-first- *)
(* out link's.                                                              *)

(* What is offered next is an item of the link, and its places are bounded. *)
Bounded ==
  /\ batch \in Seq(S!Items)
  /\ act = "starting" => made <= MaxItems
  /\ \A c \in S!Chans : Len(dst[c]) <= buffer /\ Len(mid[c]) <= buffer

LEMMA BoundedInit == MCInit => Bounded
<1> SUFFICES ASSUME MCInit PROVE Bounded
  OBVIOUS
<1>1. batch = <<>> /\ made = 0 /\ mid = S!Empty /\ dst = S!Empty /\ buffer \in Nat
  <2>1. buffer = 0 \/ buffer \in Buffers
    BY DEF MCInit, Nothing, S!Init
  <2>2. buffer \in Nat
    <3>1. CASE buffer = 0 BY <3>1
    <3>2. CASE buffer \in Buffers BY <3>2, SourcesAssumption
    <3> QED BY <2>1, <3>1, <3>2
  <2> QED BY <2>2 DEF MCInit, Nothing, S!Init
<1>2. \A c \in S!Chans : mid[c] = <<>> /\ dst[c] = <<>>
  BY <1>1 DEF S!Empty
<1> QED BY <1>1, <1>2, SourcesAssumption DEF Bounded

\* A send finds room or somebody who waits.
LEMMA PortBounded ==
  ASSUME PlaceType, NEW x, x.to \in S!Chans, S!ToPort(x), NEW c \in S!Chans, Len(dst[c]) <= buffer
  PROVE  Len(dst'[c]) <= buffer
<1>1. DOMAIN dst = S!Chans /\ dst[c] \in Seq(For(c, Offered)) /\ Len(dst[c]) \in Nat /\ buffer \in Nat
  BY DEF PlaceType, Holds, WorldType
<1>2. CASE S!Fits(x) /\ dst' = [dst EXCEPT ![x.to] = Append(@, x)]
  <2>1. CASE x.to = c
    <3>1. dst'[c] = Append(dst[c], x) /\ Len(dst[c]) < buffer
      BY <1>1, <1>2, <2>1 DEF S!Fits
    <3>2. Len(Append(dst[c], x)) = Len(dst[c]) + 1
      BY <1>1
    <3> QED BY <1>1, <3>1, <3>2
  <2>2. CASE x.to # c
    BY <1>1, <1>2, <2>2
  <2> QED BY <2>1, <2>2
<1>3. CASE dst' = dst
  BY <1>3
<1> QED BY <1>2, <1>3 DEF S!ToPort

LEMMA MidBounded ==
  ASSUME PlaceType, NEW x, x.to \in S!Chans, S!ToMid(x), NEW c \in S!Chans, Len(mid[c]) <= buffer
  PROVE  Len(mid'[c]) <= buffer
<1>1. DOMAIN mid = S!Chans /\ mid[c] \in Seq(For(c, Offered)) /\ Len(mid[c]) \in Nat /\ buffer \in Nat
  BY DEF PlaceType, Holds, WorldType
<1>2. CASE Len(mid[x.to]) < buffer /\ mid' = [mid EXCEPT ![x.to] = Append(@, x)]
  <2>1. CASE x.to = c
    <3>1. mid'[c] = Append(mid[c], x) /\ Len(mid[c]) < buffer
      BY <1>1, <1>2, <2>1
    <3>2. Len(Append(mid[c], x)) = Len(mid[c]) + 1
      BY <1>1
    <3> QED BY <1>1, <3>1, <3>2
  <2>2. CASE x.to # c
    BY <1>1, <1>2, <2>2
  <2> QED BY <2>1, <2>2
<1>3. CASE mid' = mid
  BY <1>3
<1> QED BY <1>2, <1>3 DEF S!ToMid

LEMMA PlacesBounded ==
  ASSUME PlaceType, Stages, Bounded, S!Next, NEW c \in S!Chans
  PROVE  Len(dst'[c]) <= buffer' /\ Len(mid'[c]) <= buffer'
<1>1. /\ Len(dst[c]) <= buffer /\ Len(mid[c]) <= buffer /\ buffer' = buffer /\ buffer \in Nat
      /\ "values" \in S!Chans
  BY WorldMoves DEF Bounded, Moves, PlaceType, WorldType, S!Chans
<1>h. /\ hand # <<>> => hand[1].to \in S!Chans
      /\ held # <<>> => held[1].to \in S!Chans
  <2>1. hand \in Seq(Offered) /\ held \in Seq(Offered)
    BY DEF PlaceType, Holds
  <2>2. (hand # <<>> => hand[1] \in Offered) /\ (held # <<>> => held[1] \in Offered)
    BY <2>1
  <2> QED BY <2>2 DEF Offered, Item
<1>2. CASE UNCHANGED <<dst, mid>>
  BY <1>1, <1>2
<1> USE DEF S!fixed, S!flow, S!world
<1>3. CASE S!OpenFile \/ S!RegisterRoute \/ S!BeginLoop
  BY <1>2, <1>3 DEF S!OpenFile, S!RegisterRoute, S!BeginLoop, S!Serve
<1>4. CASE S!SetupFails \/ S!RegisterHandler \/ S!Subscribed \/ S!StartFails \/ S!FileChange
           \/ S!Disconnect \/ S!StopLoop \/ S!Return \/ S!ClosePort \/ S!Cancel
  BY <1>2, <1>4 DEF S!SetupFails, S!RegisterHandler, S!Subscribed, S!StartFails, S!FileChange,
                    S!Disconnect, S!StopLoop, S!Return, S!ClosePort, S!Cancel
<1>5. CASE S!Query \/ S!List \/ S!Connect \/ S!NextRow \/ S!GiveUpHand \/ S!DropError \/ S!StopForward
  BY <1>2, <1>5 DEF S!Query, S!List, S!Connect, S!NextRow, S!GiveUpHand, S!DropError, S!StopForward
<1>6. ASSUME NEW d \in S!Chans, S!PollTick(d) \/ S!ScanLine(d) \/ S!Message(d) \/ S!SseEvent(d)
      PROVE  Len(dst'[c]) <= buffer' /\ Len(mid'[c]) <= buffer'
  BY <1>2, <1>6 DEF S!PollTick, S!ScanLine, S!Message, S!SseEvent, S!Produce
<1>7. CASE S!SendHand
  <2>1. CASE S!ToPort(hand[1]) /\ UNCHANGED mid
    BY <1>1, <1>7, <1>h, <2>1, PortBounded DEF S!SendHand
  <2>2. CASE S!ToMid(hand[1]) /\ UNCHANGED dst
    BY <1>1, <1>7, <1>h, <2>2, MidBounded DEF S!SendHand
  <2> QED BY <1>7, <2>1, <2>2 DEF S!SendHand
<1>8. CASE S!Report
  <2>1. hand # <<>> /\ UNCHANGED mid /\ (S!ToPort(hand[1]) \/ UNCHANGED dst)
    BY <1>8 DEF S!Report, Stages
  <2> QED BY <1>1, <1>h, <2>1, PortBounded
<1>9. CASE S!Forward
  BY <1>1, <1>9, <1>h, PortBounded DEF S!Forward
<1>10. CASE S!Ingest
  <2>1. S!ToMid(S!New("values")) /\ S!New("values").to \in S!Chans /\ UNCHANGED dst
    BY <1>1, <1>10 DEF S!Ingest, S!New
  <2> QED BY <1>1, <2>1, MidBounded
<1>11. ASSUME NEW d \in S!Chans, S!MqttMessage(d) \/ S!Mqtt5Message(d)
       PROVE  Len(dst'[c]) <= buffer' /\ Len(mid'[c]) <= buffer'
  <2>1. (S!ToPort(S!New(d)) \/ UNCHANGED dst) /\ S!New(d).to \in S!Chans /\ UNCHANGED mid
    BY <1>11 DEF S!MqttMessage, S!Mqtt5Message, S!Callback, S!New
  <2> QED BY <1>1, <2>1, PortBounded
<1>12. ASSUME NEW d \in S!Chans, S!Take(d)
       PROVE  Len(dst'[c]) <= buffer' /\ Len(mid'[c]) <= buffer'
  <2>1. DOMAIN mid = S!Chans /\ mid[d] \in Seq(For(d, Offered))
    BY DEF PlaceType, Holds
  <2>2. mid[d] # <<>> /\ mid' = [mid EXCEPT ![d] = Tail(@)] /\ UNCHANGED dst
    BY <1>12 DEF S!Take
  <2>3. Len(Tail(mid[d])) = Len(mid[d]) - 1 /\ Len(mid[d]) \in Nat
    BY <2>1, <2>2
  <2> QED BY <1>1, <2>1, <2>2, <2>3
<1>13. ASSUME NEW d \in S!Chans, S!Receive(d)
       PROVE  Len(dst'[c]) <= buffer' /\ Len(mid'[c]) <= buffer'
  <2>1. DOMAIN dst = S!Chans /\ dst[d] \in Seq(For(d, Offered))
    BY DEF PlaceType, Holds
  <2>2. dst[d] # <<>> /\ dst' = [dst EXCEPT ![d] = Tail(@)] /\ UNCHANGED mid
    BY <1>13 DEF S!Receive
  <2>3. Len(Tail(dst[d])) = Len(dst[d]) - 1 /\ Len(dst[d]) \in Nat
    BY <2>1, <2>2
  <2> QED BY <1>1, <2>1, <2>2, <2>3
<1> QED
  BY <1>3, <1>4, <1>5, <1>6, <1>7, <1>8, <1>9, <1>10, <1>11, <1>12, <1>13 DEF S!Next

LEMMA ItemsOffered ==
  ASSUME PlaceType, NEW c \in S!Chans, made < MaxItems \/ made = MaxItems
  PROVE  S!New(c) \in S!Items
BY SourcesAssumption DEF PlaceType, WorldType, S!New, S!Items

LEMMA BatchStep ==
  ASSUME PlaceType, Stages, Bounded, S!Next
  PROVE  batch' \in Seq(S!Items) /\ (act' = "starting" => made' <= MaxItems)
<1> DEFINE Goal == batch' \in Seq(S!Items) /\ (act' = "starting" => made' <= MaxItems)
<1>1. /\ batch \in Seq(S!Items) /\ (act = "starting" => made <= MaxItems) /\ MaxItems \in Nat
      /\ made \in Nat /\ dir \subseteq 1..MaxItems /\ "errors" \in S!Chans
  BY SourcesAssumption DEF Bounded, PlaceType, WorldType, S!Chans
<1> DEFINE Plain == /\ batch' = batch \/ batch' = <<>>
                    /\ made' = made \/ (made < MaxItems /\ made' = made + 1)
                    /\ act' = act \/ act' # "starting"
<1>2. ASSUME Plain PROVE Goal
  <2>1. batch' \in Seq(S!Items)
    <3>1. CASE batch' = batch BY <1>1, <3>1
    <3>2. CASE batch' = <<>> BY <3>2
    <3> QED BY <1>2, <3>1, <3>2
  <2>2. act' = "starting" => made' <= MaxItems
    BY <1>1, <1>2
  <2> QED BY <2>1, <2>2
<1> USE DEF S!fixed, S!flow, S!world
<1>3. CASE S!OpenFile \/ S!RegisterRoute \/ S!BeginLoop
  <2>1. Plain
    BY <1>3 DEF S!OpenFile, S!RegisterRoute, S!BeginLoop, S!Serve
  <2> QED BY <1>2, <2>1
<1>4. CASE S!SetupFails \/ S!RegisterHandler \/ S!Subscribed \/ S!Report \/ S!FileChange
           \/ S!Disconnect \/ S!StopLoop \/ S!Return \/ S!ClosePort \/ S!Cancel
  <2>1. Plain
    BY <1>4 DEF S!SetupFails, S!RegisterHandler, S!Subscribed, S!Report, S!FileChange,
                    S!Disconnect, S!StopLoop, S!Return, S!ClosePort, S!Cancel, S!Looping, S!Returns
  <2> QED BY <1>2, <2>1
<1>5. CASE S!StartFails
  BY <1>1, <1>5 DEF S!StartFails
<1>6. ASSUME NEW d \in S!Chans, S!PollTick(d) \/ S!ScanLine(d) \/ S!Message(d) \/ S!SseEvent(d)
      PROVE  Goal
  <2>1. Plain
    BY <1>6 DEF S!PollTick, S!ScanLine, S!Message, S!SseEvent, S!Produce
  <2> QED BY <1>2, <2>1
<1>7. ASSUME NEW d \in S!Chans, S!MqttMessage(d) \/ S!Mqtt5Message(d)
      PROVE  Goal
  <2>1. Plain
    BY <1>7 DEF S!MqttMessage, S!Mqtt5Message, S!Callback
  <2> QED BY <1>2, <2>1
<1>8. ASSUME NEW d \in S!Chans, S!Take(d) \/ S!Receive(d)
      PROVE  Goal
  <2>1. Plain
    BY <1>8 DEF S!Take, S!Receive
  <2> QED BY <1>2, <2>1
<1>9. CASE S!SendHand \/ S!GiveUpHand \/ S!DropError \/ S!Ingest \/ S!Forward \/ S!StopForward \/ S!Connect
  <2>1. Plain
    BY <1>9 DEF S!SendHand, S!GiveUpHand, S!DropError, S!Ingest, S!Forward, S!StopForward, S!Connect, S!Returns
  <2> QED BY <1>2, <2>1
<1>10. CASE S!Query
  <2>1. PICK rows \in UNION {[1..k -> S!Chans] : k \in 0..2} :
          /\ made + Len(rows) <= MaxItems
          /\ batch' = [i \in DOMAIN rows |-> [n |-> made + i, to |-> rows[i]]]
    BY <1>10 DEF S!Query
  <2>2. PICK k \in 0..2 : rows \in [1..k -> S!Chans]
    OBVIOUS
  <2>3. Len(rows) = k /\ DOMAIN rows = 1..k /\ k \in Nat
    BY <2>2
  <2>4. ASSUME NEW i \in 1..k PROVE [n |-> made + i, to |-> rows[i]] \in S!Items
    <3>1. made + i \in 1..MaxItems + 1 /\ rows[i] \in S!Chans
      BY <1>1, <2>1, <2>2, <2>3
    <3> QED BY <3>1 DEF S!Items
  <2>5. batch' \in [1..k -> S!Items]
    BY <2>1, <2>3, <2>4
  <2>6. batch' \in Seq(S!Items)
    BY <2>3, <2>5
  <2> QED BY <1>10, <2>6 DEF S!Query, S!Looping
<1>11. CASE S!List
  <2>1. act # "starting" /\ act' = act
    BY <1>11 DEF S!List, S!Looping
  <2>2. CASE batch' = <<S!New("errors")>> /\ made < MaxItems
    <3>1. S!New("errors") \in S!Items
      BY <1>1, <2>2, ItemsOffered
    <3> QED BY <2>1, <2>2, <3>1
  <2>3. ASSUME NEW q, q = S!SetToSeq(dir \ known),
               batch' = [i \in DOMAIN q |-> [n |-> q[i], to |-> "values"]]
        PROVE  Goal
    <3>1. q \in Seq(dir \ known)
      <4>1. IsFiniteSet(1..MaxItems)
        BY FS_Interval, SourcesAssumption
      <4>2. IsFiniteSet(dir \ known)
        BY <1>1, <4>1, FS_Subset
      <4> QED BY <2>3, <4>2, Listed
    <3>2. ASSUME NEW i \in DOMAIN q PROVE [n |-> q[i], to |-> "values"] \in S!Items
      <4>1. q[i] \in 1..MaxItems
        <5>1. q[i] \in dir \ known
          BY <3>1
        <5> QED BY <1>1, <5>1
      <4>2. q[i] \in 1..MaxItems + 1 /\ "values" \in S!Chans
        BY <1>1, <4>1 DEF S!Chans
      <4> QED BY <4>2 DEF S!Items
    <3>3. batch' \in Seq(S!Items)
      <4>1. Len(q) \in Nat /\ DOMAIN q = 1..Len(q)
        BY <3>1
      <4>2. batch' \in [1..Len(q) -> S!Items]
        BY <2>3, <3>2, <4>1
      <4> QED BY <4>1, <4>2
    <3> QED BY <2>1, <3>3
  <2> QED BY <1>11, <2>2, <2>3 DEF S!List
<1>12. CASE S!NextRow
  <2>1. batch' = Tail(batch) /\ batch # <<>> /\ act' = act /\ made' = made
    BY <1>12 DEF S!NextRow
  <2>2. Tail(batch) \in Seq(S!Items)
    BY <1>1, <2>1
  <2> QED BY <1>1, <2>1, <2>2
<1> QED
  BY <1>3, <1>4, <1>5, <1>6, <1>7, <1>8, <1>9, <1>10, <1>11, <1>12 DEF S!Next

LEMMA BoundedStep == SourceInv /\ Bounded /\ S!Next => Bounded'
<1> SUFFICES ASSUME SourceInv, Bounded, S!Next PROVE Bounded'
  OBVIOUS
<1>1. PlaceType /\ Stages
  BY DEF SourceInv
<1>2. batch' \in Seq(S!Items) /\ (act' = "starting" => made' <= MaxItems)
  BY <1>1, BatchStep
<1>3. \A c \in S!Chans : Len(dst'[c]) <= buffer' /\ Len(mid'[c]) <= buffer'
  BY <1>1, PlacesBounded
<1> QED BY <1>2, <1>3 DEF Bounded

-----------------------------------------------------------------------------
WayOf(c) == Way(dst[c], S!Of(c, held), mid[c], S!Of(c, hand))

LEMMA OnItsWayIs == \A c : S!OnItsWay(c) = WayOf(c)
BY DEF S!OnItsWay, WayOf, Way

(* What a link may do in a step: nothing, take an item in, hand one out, or *)
(* lose one when the context has ended.                                     *)
TakesIn(w, v) == Len(w) < 2 * buffer + 2 /\ \E x \in S!Items : Enters(w, x, v)
HandsOut(w, v, g, h) == \E x \in Item : Leaves(w, x, v) /\ h = Append(g, x)
Seen(w, v, g, h) ==
  \/ v = w /\ h = g
  \/ TakesIn(w, v) /\ h = g
  \/ HandsOut(w, v, g, h)
  \/ cancelled /\ Loses(w, v) /\ h = g

\* The part of a hand that belongs to a channel.
LEMMA OfNone == \A c : S!Of(c, <<>>) = <<>>
BY DEF S!Of

LEMMA OfOne == \A c, x : S!Of(c, <<x>>) = IF x.to = c THEN <<x>> ELSE <<>>
BY DEF S!Of

LEMMA OneHeld ==
  ASSUME NEW s \in Seq(Item), Len(s) <= 1, s # <<>>
  PROVE  s = <<s[1]>> /\ s[1] \in Item
<1>1. Len(s) = 1 /\ s[1] \in Item
  <2>1. s[1] \in Item
    BY OneItem
  <2>2. Len(s) \in Nat \ {0}
    BY EmptySeq
  <2>3. \A k \in Nat \ {0} : k <= 1 => k = 1
    OBVIOUS
  <2> QED BY <2>1, <2>2, <2>3
<1>2. <<s[1]>> \in Seq(Item) /\ Len(<<s[1]>>) = 1 /\ <<s[1]>>[1] = s[1]
  BY <1>1
<1>3. \A i \in 1..1 : s[i] = <<s[1]>>[i]
  BY <1>2
<1> QED BY <1>1, <1>2, <1>3, SeqEqual

\* There is room for one more behind an empty hand.
LEMMA WayRoom ==
  ASSUME NEW p \in Seq(Item), NEW q \in Seq(Item), NEW r \in Seq(Item), NEW b \in Nat,
         Len(p) <= b, Len(q) <= 1, Len(r) <= b
  PROVE  Len(Way(p, q, r, <<>>)) < 2 * b + 2
<1>1. p \o q \in Seq(Item) /\ Len(p \o q) = Len(p) + Len(q)
  OBVIOUS
<1>2. PICK s \in Seq(Item) : s = p \o q
  BY <1>1
<1>3. s \o r \in Seq(Item) /\ Len(s \o r) = Len(s) + Len(r)
  OBVIOUS
<1>4. (s \o r) \o <<>> = s \o r
  BY <1>3, CatEmpty
<1>5. Way(p, q, r, <<>>) = s \o r
  BY ONLY <1>2, <1>4, Zenon DEF Way
<1>6. Len(p) \in Nat /\ Len(q) \in Nat /\ Len(r) \in Nat
  OBVIOUS
<1>7. Len(s \o r) < 2 * b + 2
  BY <1>1, <1>2, <1>3, <1>6
<1> QED BY <1>5, <1>7

\* A send to the open port, seen from a channel.
LEMMA PortTakes ==
  ASSUME PlaceType, NEW x, x.to \in S!Chans, S!ToPort(x), ~closed, NEW c \in S!Chans
  PROVE  \/ x.to # c /\ got'[c] = got[c] /\ dst'[c] = dst[c]
         \/ x.to = c /\ got'[c] = got[c] /\ dst'[c] = Append(dst[c], x)
         \/ x.to = c /\ dst[c] = <<>> /\ dst'[c] = dst[c] /\ got'[c] = Append(got[c], x)
BY DEF PlaceType, Holds, S!ToPort

LEMMA MidTakes ==
  ASSUME PlaceType, NEW x, x.to \in S!Chans, S!ToMid(x), NEW c \in S!Chans
  PROVE  \/ x.to # c /\ held' = held /\ mid'[c] = mid[c]
         \/ x.to = c /\ held' = held /\ mid'[c] = Append(mid[c], x)
         \/ mid[c] = <<>> /\ mid'[c] = mid[c] /\ held = <<>> /\ held' = Append(held, x)
BY ToMidMoves

LEMMA WayStep ==
  ASSUME SourceInv, Bounded, S!Next, NEW c \in S!Chans, ~S!Tried(c)
  PROVE  Seen(WayOf(c), WayOf(c)', got[c], got'[c])
<1>1. PlaceType /\ Stages /\ buffer \in Nat /\ "values" \in S!Chans /\ "errors" \in S!Chans
  BY DEF SourceInv, PlaceType, WorldType, S!Chans
<1>2. /\ hand \in Seq(Item) /\ held \in Seq(Item) /\ Len(hand) <= 1 /\ Len(held) <= 1
      /\ dst[c] \in Seq(Item) /\ mid[c] \in Seq(Item)
  <2>1. /\ hand \in Seq(Offered) /\ held \in Seq(Offered) /\ Len(hand) <= 1 /\ Len(held) <= 1
        /\ dst[c] \in Seq(For(c, Offered)) /\ mid[c] \in Seq(For(c, Offered))
    BY <1>1 DEF PlaceType, Holds
  <2>2. For(c, Offered) \subseteq Item /\ Offered \subseteq Item
    BY OfferedItems DEF For
  <2> QED BY <2>1, <2>2, SeqGrows
<1>3. /\ hand # <<>> => hand = <<hand[1]>> /\ hand[1] \in Item
      /\ held # <<>> => held = <<held[1]>> /\ held[1] \in Item
  BY <1>2, OneHeld
<1>4. PICK p, q, r, u : p = dst[c] /\ q = S!Of(c, held) /\ r = mid[c] /\ u = S!Of(c, hand)
  OBVIOUS
<1>5. /\ p \in Seq(Item) /\ q \in Seq(Item) /\ r \in Seq(Item) /\ u \in Seq(Item)
      /\ Len(p) <= buffer /\ Len(q) <= 1 /\ Len(r) <= buffer
  <2>1. Len(p) <= buffer /\ Len(r) <= buffer /\ p \in Seq(Item) /\ r \in Seq(Item)
    BY <1>2, <1>4 DEF Bounded
  <2>2. <<>> \in Seq(Item) /\ Len(<<>>) <= 1
    OBVIOUS
  <2>3. q = held \/ q = <<>>
    BY <1>4 DEF S!Of
  <2>4. u = hand \/ u = <<>>
    BY <1>4 DEF S!Of
  <2>5. q \in Seq(Item) /\ Len(q) <= 1
    <3>1. CASE q = held BY <1>2, <3>1
    <3>2. CASE q = <<>> BY <2>2, <3>2
    <3> QED BY <2>3, <3>1, <3>2
  <2>6. u \in Seq(Item)
    <3>1. CASE u = hand BY <1>2, <3>1
    <3>2. CASE u = <<>> BY <2>2, <3>2
    <3> QED BY <2>4, <3>1, <3>2
  <2> QED BY <2>1, <2>5, <2>6
<1>6. PICK w, v : w = WayOf(c) /\ v = WayOf(c)'
  OBVIOUS
<1>7. w = Way(p, q, r, u) /\ v = Way(dst'[c], S!Of(c, held'), mid'[c], S!Of(c, hand'))
  BY <1>4, <1>6 DEF WayOf, S!Of
<1> SUFFICES Seen(w, v, got[c], got'[c])
  BY <1>6
<1>8. ASSUME dst'[c] = p, S!Of(c, held') = q, mid'[c] = r, S!Of(c, hand') = u, got'[c] = got[c]
      PROVE  Seen(w, v, got[c], got'[c])
  BY <1>7, <1>8 DEF Seen
<1>9. CASE UNCHANGED S!flow
  <2>1. UNCHANGED <<dst, held, mid, hand, got>>
    BY <1>9 DEF S!flow
  <2> QED BY <1>4, <1>8, <2>1
<1>10. ASSUME NEW x \in S!Items, hand = <<>>, hand' = <<x>>, UNCHANGED <<mid, held, dst, got>>
       PROVE  Seen(w, v, got[c], got'[c])
  <2>1. u = <<>>
    BY <1>4, <1>10, OfNone
  <2>2. CASE x.to # c
    <3>1. S!Of(c, hand') = <<>>
      BY <1>10, <2>2, OfOne
    <3> QED BY <1>4, <1>8, <1>10, <2>1, <3>1
  <2>3. CASE x.to = c
    <3>1. S!Of(c, hand') = <<x>> /\ x \in Item
      BY <1>10, <2>3, OfOne, SourcesAssumption DEF S!Items, Item
    <3>2. w = Way(p, q, r, <<>>) /\ v = Way(p, q, r, <<x>>)
      BY <1>4, <1>7, <1>10, <2>1, <3>1
    <3>3. Enters(Way(p, q, r, <<>>), x, Way(p, q, r, <<x>>))
      BY <1>5, <3>1, WayEntered
    <3>4. Len(Way(p, q, r, <<>>)) < 2 * buffer + 2
      BY <1>1, <1>5, WayRoom
    <3> QED BY <1>10, <3>2, <3>3, <3>4 DEF Seen, TakesIn
  <2> QED BY <2>2, <2>3
<1>11. ASSUME cancelled, hand # <<>>, hand' = <<>>, UNCHANGED <<mid, held, dst, got>>
       PROVE  Seen(w, v, got[c], got'[c])
  <2>1. S!Of(c, hand') = <<>> /\ hand = <<hand[1]>> /\ hand[1] \in Item
    BY <1>3, <1>11, OfNone
  <2>2. CASE u = <<>>
    BY <1>4, <1>8, <1>11, <2>1, <2>2
  <2>3. CASE u = <<hand[1]>>
    <3>1. Loses(Way(p, q, r, <<hand[1]>>), Way(p, q, r, <<>>))
      BY <1>5, <2>1, WayLost
    <3>2. w = Way(p, q, r, <<hand[1]>>) /\ v = Way(p, q, r, <<>>) /\ got'[c] = got[c]
      BY <1>4, <1>7, <1>11, <2>1, <2>3
    <3> QED BY <1>11, <3>1, <3>2 DEF Seen
  <2> QED BY <1>4, <2>1, <2>2, <2>3, OfOne
<1>12. ASSUME hand # <<>>, hand' = <<>>, S!ToPort(hand[1]), ~closed, UNCHANGED <<mid, held>>,
              q = <<>>, r = <<>>
       PROVE  Seen(w, v, got[c], got'[c])
  <2>1. S!Of(c, hand') = <<>> /\ hand = <<hand[1]>> /\ hand[1] \in Item /\ hand[1].to \in S!Chans
    BY <1>3, <1>12, OfNone DEF Item
  <2>2. CASE hand[1].to # c /\ got'[c] = got[c] /\ dst'[c] = dst[c]
    <3>1. u = <<>>
      BY <1>4, <2>1, <2>2, OfOne
    <3> QED BY <1>4, <1>8, <1>12, <2>1, <2>2, <3>1
  <2>3. CASE hand[1].to = c /\ got'[c] = got[c] /\ dst'[c] = Append(dst[c], hand[1])
    <3>1. u = <<hand[1]>>
      BY <1>4, <2>1, <2>3, OfOne
    <3>2. Same(Way(Append(p, hand[1]), <<>>, <<>>, <<>>), Way(p, <<>>, <<>>, <<hand[1]>>))
      BY <1>5, <2>1, WayPassed
    <3>3. w = Way(p, <<>>, <<>>, <<hand[1]>>) /\ v = Way(Append(p, hand[1]), <<>>, <<>>, <<>>)
      BY <1>4, <1>7, <1>12, <2>1, <2>3, <3>1
    <3> QED BY <2>3, <3>2, <3>3 DEF Seen, Same
  <2>4. CASE hand[1].to = c /\ dst[c] = <<>> /\ dst'[c] = dst[c] /\ got'[c] = Append(got[c], hand[1])
    <3>1. u = <<hand[1]>>
      BY <1>4, <2>1, <2>4, OfOne
    <3>2. Leaves(Way(<<>>, <<>>, <<>>, <<hand[1]>>), hand[1], Way(<<>>, <<>>, <<>>, <<>>))
      BY <1>5, <2>1, WayLeft
    <3>3. w = Way(<<>>, <<>>, <<>>, <<hand[1]>>) /\ v = Way(<<>>, <<>>, <<>>, <<>>)
      BY <1>4, <1>7, <1>12, <2>1, <2>4, <3>1
    <3> QED BY <2>1, <2>4, <3>2, <3>3 DEF Seen, HandsOut
  <2> QED BY <1>1, <1>12, <2>1, <2>2, <2>3, <2>4, PortTakes
<1> USE DEF S!fixed, S!world
<1>13. CASE S!OpenFile \/ S!RegisterRoute \/ S!BeginLoop
  BY <1>9, <1>13 DEF S!OpenFile, S!RegisterRoute, S!BeginLoop, S!Serve
<1>14. CASE S!SetupFails \/ S!RegisterHandler \/ S!Subscribed \/ S!Query \/ S!List \/ S!FileChange
            \/ S!Disconnect \/ S!StopLoop \/ S!Return \/ S!ClosePort \/ S!Cancel
  BY <1>9, <1>14 DEF S!SetupFails, S!RegisterHandler, S!Subscribed, S!Query, S!List, S!FileChange,
                     S!Disconnect, S!StopLoop, S!Return, S!ClosePort, S!Cancel
<1>15. CASE S!StartFails
  <2>1. act = "starting" /\ hand' = <<S!New("errors")>> /\ UNCHANGED <<mid, held, dst, got>>
    BY <1>15 DEF S!StartFails, S!New
  <2>2. hand = <<>>
    BY <1>1, <2>1 DEF Stages
  <2>3. S!New("errors") \in S!Items
    <3>1. made <= MaxItems /\ made \in Nat
      BY <1>1, <2>1 DEF Bounded, PlaceType, WorldType
    <3> QED BY <1>1, <3>1, ItemsOffered, SourcesAssumption
  <2> QED BY <1>10, <2>1, <2>2, <2>3
<1>16. ASSUME NEW d \in S!Chans, S!PollTick(d) \/ S!ScanLine(d) \/ S!Message(d) \/ S!SseEvent(d)
       PROVE  Seen(w, v, got[c], got'[c])
  <2>1. /\ S!Looping /\ made < MaxItems /\ hand' = <<S!New(d)>>
        /\ UNCHANGED <<mid, held, dst, got>>
    BY <1>16 DEF S!PollTick, S!ScanLine, S!Message, S!SseEvent, S!Produce
  <2>2. act # "starting" /\ prod = "idle"
    BY <2>1 DEF S!Looping
  <2>3. hand = <<>>
    BY <1>1, <2>2 DEF Stages
  <2>4. S!New(d) \in S!Items
    BY <1>1, <2>1, ItemsOffered
  <2> QED BY <1>10, <2>1, <2>3, <2>4
<1>17. CASE S!Connect
  <2>1. CASE hand' = hand
    <3>1. UNCHANGED S!flow
      BY <1>17, <2>1 DEF S!Connect, S!flow
    <3> QED BY <1>9, <3>1
  <2>2. CASE hand' # hand
    <3>1. /\ S!Looping /\ made < MaxItems /\ hand' = <<S!New("errors")>>
          /\ UNCHANGED <<mid, held, dst, got>>
      BY <1>17, <2>2 DEF S!Connect
    <3>2. act # "starting" /\ prod = "idle"
      BY <3>1 DEF S!Looping
    <3>3. hand = <<>>
      BY <1>1, <3>2 DEF Stages
    <3>4. S!New("errors") \in S!Items
      BY <1>1, <3>1, ItemsOffered
    <3> QED BY <1>10, <3>1, <3>3, <3>4
  <2> QED BY <2>1, <2>2
<1>18. CASE S!NextRow
  <2>1. /\ hand = <<>> /\ hand' = <<Head(batch)>> /\ batch # <<>>
        /\ UNCHANGED <<mid, held, dst, got>>
    BY <1>18 DEF S!NextRow
  <2>2. Head(batch) \in S!Items
    BY <2>1 DEF Bounded
  <2> QED BY <1>10, <2>1, <2>2
<1>19. CASE S!SendHand
  <2>1. hand # <<>> /\ hand' = <<>> /\ prod = "batch"
    BY <1>19 DEF S!SendHand
  <2>2. CASE kind \in S!Direct /\ S!ToPort(hand[1]) /\ UNCHANGED <<mid, held>>
    <3>1. ~closed /\ held = <<>> /\ mid[c] = <<>>
      BY <1>1, <2>1, <2>2 DEF Stages
    <3>2. q = <<>> /\ r = <<>>
      BY <1>4, <3>1, OfNone
    <3> QED BY <1>12, <2>1, <2>2, <3>1, <3>2
  <2>3. CASE S!ToMid(hand[1]) /\ UNCHANGED <<dst, got>>
    <3>1. S!Of(c, hand') = <<>> /\ hand = <<hand[1]>> /\ hand[1] \in Item /\ hand[1].to \in S!Chans
      BY <1>3, <2>1, OfNone DEF Item
    <3>2. CASE hand[1].to # c /\ held' = held /\ mid'[c] = mid[c]
      <4>1. u = <<>>
        BY <1>4, <3>1, <3>2, OfOne
      <4> QED BY <1>4, <1>8, <2>3, <3>1, <3>2, <4>1
    <3>3. CASE hand[1].to = c /\ held' = held /\ mid'[c] = Append(mid[c], hand[1])
      <4>1. u = <<hand[1]>>
        BY <1>4, <3>1, <3>3, OfOne
      <4>2. Same(Way(p, q, Append(r, hand[1]), <<>>), Way(p, q, r, <<hand[1]>>))
        BY <1>5, <3>1, WayPassed
      <4>3. w = Way(p, q, r, <<hand[1]>>) /\ v = Way(p, q, Append(r, hand[1]), <<>>)
        BY <1>4, <1>7, <2>3, <3>1, <3>3, <4>1
      <4> QED BY <2>3, <4>2, <4>3 DEF Seen, Same
    <3>4. CASE mid[c] = <<>> /\ mid'[c] = mid[c] /\ held = <<>> /\ held' = Append(held, hand[1])
      <4>1. held' = <<hand[1]>> /\ q = <<>>
        <5>1. Append(<<>>, hand[1]) = <<hand[1]>>
          OBVIOUS
        <5> QED BY <1>4, <3>4, <5>1, OfNone
      <4>2. CASE hand[1].to # c
        <5>1. u = <<>> /\ S!Of(c, held') = <<>>
          BY <1>4, <3>1, <4>1, <4>2, OfOne
        <5> QED BY <1>4, <1>8, <2>3, <3>1, <3>4, <4>1, <5>1
      <4>3. CASE hand[1].to = c
        <5>1. u = <<hand[1]>> /\ S!Of(c, held') = <<hand[1]>>
          BY <1>4, <3>1, <4>1, <4>3, OfOne
        <5>2. Same(Way(p, <<hand[1]>>, <<>>, <<>>), Way(p, <<>>, <<>>, <<hand[1]>>))
          BY <1>5, <3>1, WayPassed
        <5>3. w = Way(p, <<>>, <<>>, <<hand[1]>>) /\ v = Way(p, <<hand[1]>>, <<>>, <<>>)
          BY <1>4, <1>7, <2>3, <3>1, <3>4, <4>1, <5>1
        <5> QED BY <2>3, <5>2, <5>3 DEF Seen, Same
      <4> QED BY <4>2, <4>3
    <3> QED BY <1>1, <2>3, <3>1, <3>2, <3>3, <3>4, MidTakes
  <2> QED BY <1>19, <2>2, <2>3 DEF S!SendHand
<1>20. CASE S!Report
  <2>1. act = "reporting" /\ hand' = <<>> /\ UNCHANGED <<mid, held>>
        /\ (S!ToPort(hand[1]) \/ (cancelled /\ UNCHANGED <<dst, got>>))
    BY <1>20 DEF S!Report
  <2>2. hand # <<>> /\ ~closed /\ held = <<>> /\ mid[c] = <<>>
    BY <1>1, <2>1 DEF Stages
  <2>3. q = <<>> /\ r = <<>>
    BY <1>4, <2>2, OfNone
  <2> QED BY <1>11, <1>12, <2>1, <2>2, <2>3
<1>21. CASE S!GiveUpHand
  BY <1>11, <1>21 DEF S!GiveUpHand
<1>22. CASE S!DropError
  <2>1. /\ kind = "sse" /\ hand # <<>> /\ hand[1].to = "errors" /\ hand' = <<>>
        /\ UNCHANGED <<mid, held, dst, got>>
    BY <1>22 DEF S!DropError
  <2>2. c # "errors"
    BY <2>1 DEF S!Tried
  <2>3. u = <<>> /\ S!Of(c, hand') = <<>>
    BY <1>3, <1>4, <2>1, <2>2, OfOne, OfNone
  <2> QED BY <1>4, <1>8, <2>1, <2>3
<1>23. CASE S!Ingest
  <2>1. /\ kind = "ingest" /\ made < MaxItems /\ S!ToMid(S!New("values"))
        /\ UNCHANGED <<hand, dst, got>>
    BY <1>23 DEF S!Ingest
  <2>2. hand = <<>>
    BY <1>1, <2>1 DEF Stages, S!Direct, S!Pumped, S!Callbacks
  <2>3. u = <<>> /\ S!Of(c, hand') = <<>>
    BY <1>4, <2>1, <2>2, OfNone
  <2>x. PICK x : x = S!New("values")
    OBVIOUS
  <2>4. x \in S!Items /\ x \in Item /\ x.to = "values" /\ x.to \in S!Chans
    <3>1. x \in S!Items
      BY <1>1, <2>1, <2>x, ItemsOffered
    <3> QED BY <1>1, <2>x, <3>1, SourcesAssumption DEF S!Items, Item, S!New
  <2>5. CASE x.to # c /\ held' = held /\ mid'[c] = mid[c]
    BY <1>4, <1>8, <2>1, <2>3, <2>5
  <2>6. CASE x.to = c /\ held' = held /\ mid'[c] = Append(mid[c], x)
    <3>1. Enters(Way(p, q, r, <<>>), x, Way(p, q, Append(r, x), <<>>))
      BY <1>5, <2>4, WayEntered
    <3>2. w = Way(p, q, r, <<>>) /\ v = Way(p, q, Append(r, x), <<>>)
      BY <1>4, <1>7, <2>1, <2>3, <2>6
    <3>3. Len(Way(p, q, r, <<>>)) < 2 * buffer + 2
      BY <1>1, <1>5, WayRoom
    <3> QED BY <2>1, <2>4, <3>1, <3>2, <3>3 DEF Seen, TakesIn
  <2>7. CASE mid[c] = <<>> /\ mid'[c] = mid[c] /\ held = <<>> /\ held' = Append(held, x)
    <3>1. held' = <<x>> /\ q = <<>> /\ r = <<>>
      <4>1. Append(<<>>, x) = <<x>>
        OBVIOUS
      <4> QED BY <1>4, <2>7, <4>1, OfNone
    <3>2. CASE x.to # c
      <4>1. S!Of(c, held') = <<>>
        BY <3>1, <3>2, OfOne
      <4> QED BY <1>4, <1>8, <2>1, <2>3, <2>7, <3>1, <4>1
    <3>3. CASE x.to = c
      <4>1. S!Of(c, held') = <<x>>
        BY <3>1, <3>3, OfOne
      <4>2. Enters(Way(p, <<>>, <<>>, <<>>), x, Way(p, <<x>>, <<>>, <<>>))
        BY <1>5, <2>4, WayEnteredHeld
      <4>3. w = Way(p, <<>>, <<>>, <<>>) /\ v = Way(p, <<x>>, <<>>, <<>>)
        BY <1>4, <1>7, <2>1, <2>3, <2>7, <3>1, <4>1
      <4>4. Len(Way(p, q, r, <<>>)) < 2 * buffer + 2
        BY <1>1, <1>5, WayRoom
      <4>5. Len(w) < 2 * buffer + 2
        BY <3>1, <4>3, <4>4
      <4> QED BY <2>1, <2>4, <4>2, <4>3, <4>5 DEF Seen, TakesIn
    <3> QED BY <3>2, <3>3
  <2> QED BY <1>1, <2>1, <2>x, <2>4, <2>5, <2>6, <2>7, MidTakes
<1>24. ASSUME NEW d \in S!Chans, S!MqttMessage(d) \/ S!Mqtt5Message(d)
       PROVE  Seen(w, v, got[c], got'[c])
  BY <1>24 DEF S!MqttMessage, S!Mqtt5Message, S!Tried, S!Callbacks
<1>25. ASSUME NEW d \in S!Chans, S!Take(d)
       PROVE  Seen(w, v, got[c], got'[c])
  <2>1. /\ held = <<>> /\ mid[d] # <<>> /\ held' = <<Head(mid[d])>> /\ mid' = [mid EXCEPT ![d] = Tail(@)]
        /\ UNCHANGED <<hand, dst, got>>
    BY <1>25 DEF S!Take
  <2>2. /\ DOMAIN mid = S!Chans /\ Head(mid[d]).to = d
        /\ q = <<>>
    <3>1. DOMAIN mid = S!Chans /\ mid[d] \in Seq(For(d, Offered))
      BY <1>1 DEF PlaceType, Holds
    <3>2. Head(mid[d]) \in For(d, Offered)
      BY <2>1, <3>1
    <3> QED BY <1>4, <2>1, <3>1, <3>2, OfNone DEF For
  <2>3. CASE d # c
    <3>1. S!Of(c, held') = <<>> /\ mid'[c] = r
      BY <1>4, <2>1, <2>2, <2>3, OfOne
    <3> QED BY <1>4, <1>8, <2>1, <2>2, <3>1
  <2>4. CASE d = c
    <3>1. S!Of(c, held') = <<Head(r)>> /\ mid'[c] = Tail(r) /\ r # <<>>
      BY <1>4, <2>1, <2>2, <2>4, OfOne
    <3>2. Same(Way(p, <<Head(r)>>, Tail(r), u), Way(p, <<>>, r, u))
      <4>1. Head(r) \in Item
        BY <1>5, <3>1
      <4> QED BY <1>5, <3>1, <4>1, WayPassed
    <3>3. w = Way(p, <<>>, r, u) /\ v = Way(p, <<Head(r)>>, Tail(r), u)
      BY <1>4, <1>7, <2>1, <2>2, <3>1
    <3> QED BY <2>1, <3>2, <3>3 DEF Seen, Same
  <2> QED BY <2>3, <2>4
<1>26. CASE S!Forward
  <2>1. /\ fwd = "running" /\ held # <<>> /\ S!ToPort(held[1]) /\ held' = <<>>
        /\ UNCHANGED <<mid, hand>>
    BY <1>26 DEF S!Forward, S!Forwarding
  <2>2. ~closed
    BY <1>1, <2>1 DEF Stages
  <2>3. S!Of(c, held') = <<>> /\ held = <<held[1]>> /\ held[1] \in Item /\ held[1].to \in S!Chans
    BY <1>3, <2>1, OfNone DEF Item
  <2>4. CASE held[1].to # c /\ got'[c] = got[c] /\ dst'[c] = dst[c]
    <3>1. q = <<>>
      BY <1>4, <2>3, <2>4, OfOne
    <3> QED BY <1>4, <1>8, <2>1, <2>3, <2>4, <3>1
  <2>5. CASE held[1].to = c /\ got'[c] = got[c] /\ dst'[c] = Append(dst[c], held[1])
    <3>1. q = <<held[1]>>
      BY <1>4, <2>3, <2>5, OfOne
    <3>2. Same(Way(Append(p, held[1]), <<>>, r, u), Way(p, <<held[1]>>, r, u))
      BY <1>5, <2>3, WayPassed
    <3>3. w = Way(p, <<held[1]>>, r, u) /\ v = Way(Append(p, held[1]), <<>>, r, u)
      BY <1>4, <1>7, <2>1, <2>3, <2>5, <3>1
    <3> QED BY <2>5, <3>2, <3>3 DEF Seen, Same
  <2>6. CASE held[1].to = c /\ dst[c] = <<>> /\ dst'[c] = dst[c] /\ got'[c] = Append(got[c], held[1])
    <3>1. q = <<held[1]>> /\ p = <<>>
      BY <1>4, <2>3, <2>6, OfOne
    <3>2. Leaves(Way(<<>>, <<held[1]>>, r, u), held[1], Way(<<>>, <<>>, r, u))
      BY <1>5, <2>3, WayLeft
    <3>3. w = Way(<<>>, <<held[1]>>, r, u) /\ v = Way(<<>>, <<>>, r, u)
      BY <1>4, <1>7, <2>1, <2>3, <2>6, <3>1
    <3> QED BY <2>3, <2>6, <3>2, <3>3 DEF Seen, HandsOut
  <2> QED BY <1>1, <2>1, <2>2, <2>3, <2>4, <2>5, <2>6, PortTakes
<1>27. CASE S!StopForward
  <2>1. /\ held' = <<>> /\ (cancelled \/ held = <<>>) /\ UNCHANGED <<hand, mid, dst, got>>
    BY <1>27 DEF S!StopForward, S!Drained
  <2>2. S!Of(c, held') = <<>> /\ (q # <<>> => held # <<>> /\ q = <<held[1]>>)
    BY <1>3, <1>4, <2>1, OfNone, OfOne
  <2>3. CASE q = <<>>
    BY <1>4, <1>8, <2>1, <2>2, <2>3
  <2>4. CASE q # <<>>
    <3>1. cancelled /\ held[1] \in Item /\ q = <<held[1]>>
      BY <1>3, <2>1, <2>2, <2>4
    <3>2. Loses(Way(p, <<held[1]>>, r, u), Way(p, <<>>, r, u))
      BY <1>5, <3>1, WayLost
    <3>3. w = Way(p, <<held[1]>>, r, u) /\ v = Way(p, <<>>, r, u)
      BY <1>4, <1>7, <2>1, <2>2, <3>1
    <3> QED BY <2>1, <3>1, <3>2, <3>3 DEF Seen
  <2> QED BY <2>3, <2>4
<1>28. ASSUME NEW d \in S!Chans, S!Receive(d)
       PROVE  Seen(w, v, got[c], got'[c])
  <2>1. /\ dst[d] # <<>> /\ got' = [got EXCEPT ![d] = Append(@, Head(dst[d]))]
        /\ dst' = [dst EXCEPT ![d] = Tail(@)] /\ UNCHANGED <<hand, mid, held>>
    BY <1>28 DEF S!Receive
  <2>2. DOMAIN dst = S!Chans /\ DOMAIN got = S!Chans
    BY <1>1 DEF PlaceType, Holds
  <2>3. CASE d # c
    <3>1. got'[c] = got[c] /\ dst'[c] = p
      BY <1>4, <2>1, <2>2, <2>3
    <3> QED BY <1>4, <1>8, <2>1, <3>1
  <2>4. CASE d = c
    <3>1. p # <<>> /\ dst'[c] = Tail(p) /\ got'[c] = Append(got[c], Head(p))
      BY <1>4, <2>1, <2>2, <2>4
    <3>2. Head(p) \in Item
      BY <1>5, <3>1
    <3>3. Leaves(Way(p, q, r, u), Head(p), Way(Tail(p), q, r, u))
      BY <1>5, <3>1, <3>2, WayLeft
    <3>4. v = Way(Tail(p), q, r, u)
      BY <1>4, <1>7, <2>1, <3>1
    <3> QED BY <1>7, <3>1, <3>2, <3>3, <3>4 DEF Seen, HandsOut
  <2> QED BY <2>3, <2>4
<1> QED
  BY <1>13, <1>14, <1>15, <1>16, <1>17, <1>18, <1>19, <1>20, <1>21, <1>22, <1>23, <1>24, <1>25,
     <1>26, <1>27, <1>28 DEF S!Next

\* Only the end of the context changes what the links know of it.
LEMMA ContextMoves == S!Next => cancelled' = cancelled \/ S!Cancel
<1> SUFFICES ASSUME S!Next, ~S!Cancel PROVE cancelled' = cancelled
  OBVIOUS
<1>1. CASE S!OpenFile \/ S!RegisterRoute \/ S!BeginLoop
  BY <1>1 DEF S!OpenFile, S!RegisterRoute, S!BeginLoop, S!Serve
<1>2. CASE S!SetupFails \/ S!RegisterHandler \/ S!Subscribed \/ S!StartFails \/ S!Report
           \/ S!FileChange \/ S!Disconnect \/ S!StopLoop \/ S!Return \/ S!ClosePort
  BY <1>2 DEF S!SetupFails, S!RegisterHandler, S!Subscribed, S!StartFails, S!Report, S!FileChange,
              S!Disconnect, S!StopLoop, S!Return, S!ClosePort
<1>3. CASE S!Query \/ S!List \/ S!Connect \/ S!NextRow \/ S!SendHand \/ S!GiveUpHand \/ S!DropError
  BY <1>3 DEF S!Query, S!List, S!Connect, S!NextRow, S!SendHand, S!GiveUpHand, S!DropError
<1>4. CASE S!Ingest \/ S!Forward \/ S!StopForward
  BY <1>4 DEF S!Ingest, S!Forward, S!StopForward
<1>5. ASSUME NEW d \in S!Chans, S!PollTick(d) \/ S!ScanLine(d) \/ S!Message(d) \/ S!SseEvent(d)
      PROVE  cancelled' = cancelled
  BY <1>5 DEF S!PollTick, S!ScanLine, S!Message, S!SseEvent, S!Produce
<1>6. ASSUME NEW d \in S!Chans, S!MqttMessage(d) \/ S!Mqtt5Message(d) \/ S!Take(d) \/ S!Receive(d)
      PROVE  cancelled' = cancelled
  BY <1>6 DEF S!MqttMessage, S!Mqtt5Message, S!Callback, S!Take, S!Receive
<1> QED BY <1>1, <1>2, <1>3, <1>4, <1>5, <1>6 DEF S!Next

\* What a step does to the link of a channel.
LinkMoves(c) ==
  \/ cancelled' = cancelled /\ Seen(S!Waiting(c), S!Waiting(c)', S!Received(c), S!Received(c)')
  \/ cancelled' = TRUE /\ UNCHANGED <<S!Waiting(c), S!Received(c)>>

LEMMA LinkMoved ==
  ASSUME SourceInv /\ Bounded, [MCNext]_<<vars, others>>, NEW c \in S!Chans
  PROVE  LinkMoves(c)
<1>1. CASE UNCHANGED others
  BY <1>1 DEF others, LinkMoves, Seen, S!Waiting, S!Received, S!OnItsWay, S!Of, S!Tried
<1>2. CASE S!Next
  <2>1. kind' = kind
    BY <1>2, WorldMoves DEF Moves
  <2>2. CASE S!Tried(c)
    <3>1. /\ S!Waiting(c) = <<>> /\ S!Waiting(c)' = <<>>
          /\ S!Received(c) = <<>> /\ S!Received(c)' = <<>>
      BY <2>1, <2>2 DEF S!Waiting, S!Received, S!Tried
    <3>2. cancelled' = cancelled \/ cancelled' = TRUE
      BY <1>2, ContextMoves DEF S!Cancel
    <3> QED BY <3>1, <3>2, Zenon DEF LinkMoves, Seen
  <2>3. CASE ~S!Tried(c)
    <3>1. Seen(WayOf(c), WayOf(c)', got[c], got'[c])
      BY <1>2, <2>3, WayStep
    <3>2. WayOf(c) = S!OnItsWay(c) /\ WayOf(c)' = S!OnItsWay(c)'
      BY Zenon DEF WayOf, Way, S!OnItsWay
    <3>3. /\ S!Waiting(c) = S!OnItsWay(c) /\ S!Waiting(c)' = S!OnItsWay(c)'
          /\ S!Received(c) = got[c] /\ S!Received(c)' = got'[c]
      BY <2>1, <2>3 DEF S!Waiting, S!Received, S!Tried
    <3>4. Seen(S!Waiting(c), S!Waiting(c)', S!Received(c), S!Received(c)')
      BY <3>1, <3>2, <3>3, Zenon
    <3>5. CASE S!Cancel
      <4>1. UNCHANGED <<dst, held, mid, hand, got>> /\ cancelled' = TRUE
        BY <3>5 DEF S!Cancel, S!flow
      <4>2. S!OnItsWay(c)' = S!OnItsWay(c) /\ got'[c] = got[c]
        BY <4>1 DEF S!OnItsWay, S!Of
      <4> QED BY <3>3, <4>1, <4>2, Zenon DEF LinkMoves
    <3> QED BY <1>2, <3>4, <3>5, ContextMoves DEF LinkMoves
  <2> QED BY <2>2, <2>3
<1> QED BY <1>1, <1>2 DEF MCNext

LEMMA ValuesStep ==
  SourceInv /\ Bounded /\ [MCNext]_<<vars, others>> => [S!Values!Next]_(S!Values!linkVars)
<1> SUFFICES ASSUME SourceInv /\ Bounded, [MCNext]_<<vars, others>>
             PROVE  [S!Values!Next]_(S!Values!linkVars)
  OBVIOUS
<1>1. LinkMoves("values")
  BY LinkMoved DEF S!Chans
<1> DEFINE w == S!Waiting("values")
           g == S!Received("values")
<1>2. CASE cancelled' = cancelled /\ w' = w /\ g' = g
  BY <1>2 DEF S!Values!linkVars
<1>3. CASE cancelled' = TRUE /\ w' = w /\ g' = g
  BY <1>3 DEF S!Values!Next, S!Values!Break
<1>4. CASE cancelled' = cancelled /\ TakesIn(w, w') /\ g' = g
  BY <1>4 DEF TakesIn, Enters, S!Values!Next, S!Values!Put
<1>5. CASE cancelled' = cancelled /\ HandsOut(w, w', g, g')
  BY <1>5 DEF HandsOut, Leaves, S!Values!Next, S!Values!Get
<1>6. CASE cancelled' = cancelled /\ cancelled /\ Loses(w, w') /\ g' = g
  BY <1>6 DEF Loses, Without, S!Values!Next, S!Values!Lose, S!Values!RemoveAt
<1> QED BY <1>1, <1>2, <1>3, <1>4, <1>5, <1>6 DEF LinkMoves, Seen

LEMMA ErrorsStep ==
  SourceInv /\ Bounded /\ [MCNext]_<<vars, others>> => [S!Errors!Next]_(S!Errors!linkVars)
<1> SUFFICES ASSUME SourceInv /\ Bounded, [MCNext]_<<vars, others>>
             PROVE  [S!Errors!Next]_(S!Errors!linkVars)
  OBVIOUS
<1>1. LinkMoves("errors")
  BY LinkMoved DEF S!Chans
<1> DEFINE w == S!Waiting("errors")
           g == S!Received("errors")
<1>2. CASE cancelled' = cancelled /\ w' = w /\ g' = g
  BY <1>2 DEF S!Errors!linkVars
<1>3. CASE cancelled' = TRUE /\ w' = w /\ g' = g
  BY <1>3 DEF S!Errors!Next, S!Errors!Break
<1>4. CASE cancelled' = cancelled /\ TakesIn(w, w') /\ g' = g
  BY <1>4 DEF TakesIn, Enters, S!Errors!Next, S!Errors!Put
<1>5. CASE cancelled' = cancelled /\ HandsOut(w, w', g, g')
  BY <1>5 DEF HandsOut, Leaves, S!Errors!Next, S!Errors!Get
<1>6. CASE cancelled' = cancelled /\ cancelled /\ Loses(w, w') /\ g' = g
  BY <1>6 DEF Loses, Without, S!Errors!Next, S!Errors!Lose, S!Errors!RemoveAt
<1> QED BY <1>1, <1>2, <1>3, <1>4, <1>5, <1>6 DEF LinkMoves, Seen

LEMMA LinksStart == MCInit => S!Values!Init /\ S!Errors!Init
<1> SUFFICES ASSUME MCInit PROVE S!Values!Init /\ S!Errors!Init
  OBVIOUS
<1>1. /\ hand = <<>> /\ held = <<>> /\ cancelled = FALSE
      /\ mid = S!Empty /\ dst = S!Empty /\ got = S!Empty
  BY DEF MCInit, Nothing, S!Init
<1>2. ASSUME NEW c \in S!Chans PROVE S!Waiting(c) = <<>> /\ S!Received(c) = <<>>
  <2>1. dst[c] = <<>> /\ mid[c] = <<>> /\ got[c] = <<>>
    BY <1>1 DEF S!Empty
  <2>2. S!OnItsWay(c) = ((<<>> \o <<>>) \o <<>>) \o <<>>
    BY <1>1, <2>1 DEF S!OnItsWay, S!Of
  <2>3. S!OnItsWay(c) = <<>>
    BY <2>2, CatEmpty
  <2> QED BY <2>1, <2>3 DEF S!Waiting, S!Received
<1> QED BY <1>1, <1>2 DEF S!Values!Init, S!Errors!Init, S!Chans

LEMMA BoundedKept == SourceInv /\ Bounded /\ [MCNext]_<<vars, others>> => Bounded'
<1>1. SourceInv /\ Bounded /\ S!Next => Bounded'
  BY BoundedStep
<1>2. Bounded /\ UNCHANGED others => Bounded'
  BY DEF Bounded, others
<1> QED BY <1>1, <1>2 DEF MCNext

\* What an adapter has read, or has accepted from a client, reaches the port's
\* stream: each of the port's channels is a first-in-first-out link from the
\* adapter's hand to the consumer that loses nothing while the context lives.
THEOREM AcceptedArrivesHolds == MCSpec => AcceptedArrives
<1>1. MCInit => SourceInv /\ Bounded
  BY SourceInit, BoundedInit
<1>2. SourceInv /\ Bounded /\ [MCNext]_<<vars, others>> => (SourceInv /\ Bounded)'
  BY SourceStep, BoundedKept
<1>3. MCSpec => S!Values!Spec
  BY <1>1, <1>2, LinksStart, ValuesStep, PTL DEF MCSpec, S!Values!Spec
<1>4. MCSpec => S!Errors!Spec
  BY <1>1, <1>2, LinksStart, ErrorsStep, PTL DEF MCSpec, S!Errors!Spec
<1> QED BY <1>3, <1>4 DEF AcceptedArrives, S!AcceptedArrives
=============================================================================
