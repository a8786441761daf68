--------------------------- MODULE DispatchProofs ---------------------------
(***************************************************************************)
(* Proofs of the properties of Dispatch, for any number of messages.       *)
(***************************************************************************)
EXTENDS Dispatch, FiniteSetTheorems, TLAPS

Markers == {<<"queued">>, <<"settling">>, <<"done">>}

\* The names of the steps of a server, and the one that is its last.
StepNames(k) ==
  {"negotiate", "read", "params", "decode", "properties", "topic", "merge", "credentials",
   "security", "middleware", "scopes", "handler", "encodeOut", "accept", "encode", "validate"}
    \cup (IF k \in Subscribers THEN {"match"} ELSE {})
    \cup (IF k \in Repliers THEN {"publish"} ELSE {})
    \cup (IF k = "rest" THEN {"write"} ELSE {})
Last(k) == IF k = "rest" THEN "write" ELSE IF k \in Repliers THEN "publish" ELSE "handler"

\* What is left of the steps of a server ends with its last one.
Ways(k) == {q \in Seq(StepNames(k)) : q # <<>> /\ q[Len(q)] = Last(k)}

OutletNames == Answers \cup Reports
Results == {"sent", "refused", "unwritten"}
Outcomes == {"open", "handled", "forwarded", "failed", "denied", "ignored"}

TypeOK ==
  /\ kind \in Kinds /\ route \in Routes /\ replyTo \subseteq Messages
  /\ at \in [Messages -> Markers \cup Ways(kind)]
  /\ todo \in [Messages -> Seq(OutletNames)]
  /\ outcome \in [Messages -> Outcomes]
  /\ log \in [Messages -> Seq(OutletNames \X Results)]
  /\ box \in [Messages \cup {Nobody} -> Messages \cup {Nobody}]
  /\ seen \in [Messages -> Messages \cup {Nobody, Unread}]
  /\ near \in [Messages -> SUBSET Messages]

\* What is being settled has an outlet left.
Pending == \A m \in Messages : at[m] = <<"settling">> => todo[m] # <<>>

\* Messages that are under way at the same time know of each other.
Met == \A m, d \in Active : m # d => Concurrent(kind) /\ m \in near[d]

\* Whose field a handler of m may read.
Own(m, v) == v = m \/ (kind = "zmqRouter" /\ v \in near[m])
\* The middleware is yet to come before the handler.
Ahead(q) == \A i \in DOMAIN q : q[i] = "handler" => \E j \in 1 .. (i - 1) : q[j] = "middleware"
Without(q, s) == \A i \in DOMAIN q : q[i] # s

FieldOf(m) ==
  IF route.middleware
  THEN /\ at[m] = <<"queued">> => seen[m] = Unread
       /\ Working(m) => Ahead(at[m]) \/ Own(m, box[BoxOf(kind, m)])
       /\ seen[m] = Unread \/ Own(m, seen[m])
  ELSE /\ Working(m) => Without(at[m], "middleware")
       /\ seen[m] \in {Unread, Nobody}
Fields ==
  /\ \A m \in Messages : FieldOf(m)
  /\ ~route.middleware => \A b \in Messages \cup {Nobody} : box[b] = Nobody

FieldInv == TypeOK /\ Pending /\ Met /\ Fields

\* The outlets that a message uses in the end, by what became of it.
ReplierPlans(o, named) ==
  CASE o = "handled" -> {If(named, "reply")}
    [] o = "forwarded" -> {If(named, "forward") \o <<"onError">>}
    [] o = "failed" -> {If(named, x) \o If(route.deadLetter, "deadLetter") \o <<"onError">> :
                          x \in {"reply", "errorReply"}}
    [] OTHER -> {}
RestPlans(o) ==
  CASE o = "handled" -> {<<"response">>}
    [] o = "forwarded" -> {<<"redirect">>}
    [] o = "failed" -> {<<"error">>, <<"pattern">>, <<"pattern", "error">>, <<"response", "error">>}
    [] OTHER -> {}
SubscriberPlans(o) ==
  CASE o \in {"handled", "ignored"} -> {<<>>}
    [] o = "denied" -> {<<"onError">>}
    [] o = "failed" -> {<<x>> : x \in Reports}
    [] OTHER -> {}
Plans(o, named) ==
  IF kind \in Repliers THEN ReplierPlans(o, named)
  ELSE IF kind = "rest" THEN RestPlans(o) ELSE SubscriberPlans(o)

Names(l) == [i \in DOMAIN l |-> l[i][1]]
\* What can have become of an attempt, if there are n attempts in the end.
Entry(e, n) ==
  /\ e[2] \in {"sent", "refused", "unwritten"}
  /\ e[1] = "onError" => e[2] = "sent"
  /\ e[2] = "unwritten" => e[1] \in {"pattern", "response"}
  /\ e[1] = "pattern" => (e[2] = "sent" <=> n = 1)
  /\ e[1] = "response" => (e[2] = "unwritten" <=> n = 2)

\* An error pattern is the first that is tried, and a response is never in the queue.
Queue(t, o, l) ==
  \/ t = <<"pattern">> /\ l = <<>> /\ kind = "rest" /\ o = "failed"
  \/ \A i \in DOMAIN t : t[i] \notin {"pattern", "response"}
\* q, t, o, l: the steps left, the outlets left, the outcome and the log.
Record(named, q, t, o, l) ==
  IF q \notin {<<"settling">>, <<"done">>}
  THEN o = "open" /\ t = <<>> /\ l = <<>>
  ELSE /\ (q = <<"done">>) <=> (t = <<>>)
       /\ Queue(t, o, l)
       /\ Names(l) \o t \in Plans(o, named)
       /\ \A i \in DOMAIN l : Entry(l[i], Len(l) + Len(t))

Records == \A m \in Messages : Record(m \in replyTo, at[m], todo[m], outcome[m], log[m])
LogInv == TypeOK /\ Pending /\ Records

-----------------------------------------------------------------------------
(***************************************************************************)
(* The steps of a server.                                                  *)
(***************************************************************************)
AllKinds == {"rest"} \cup Repliers \cup Subscribers
Has(q, s) == \E i \in DOMAIN q : q[i] = s

\* What a concatenation is made of.
LEMMA Joined ==
  ASSUME NEW S, NEW p \in Seq(S), NEW q \in Seq(S)
  PROVE  /\ p \o q \in Seq(S)
         /\ Len(p \o q) = Len(p) + Len(q)
         /\ \A i \in 1 .. Len(p) : (p \o q)[i] = p[i]
         /\ \A i \in 1 .. Len(q) : (p \o q)[Len(p) + i] = q[i]
         /\ \A s : Has(p \o q, s) <=> Has(p, s) \/ Has(q, s)
<1>1. /\ p \o q \in Seq(S) /\ Len(p) \in Nat /\ Len(q) \in Nat
      /\ Len(p \o q) = Len(p) + Len(q)
      /\ \A i \in 1 .. Len(p) : (p \o q)[i] = p[i]
      /\ \A i \in 1 .. Len(q) : (p \o q)[Len(p) + i] = q[i]
  OBVIOUS
<1>2. ASSUME NEW s PROVE Has(p \o q, s) <=> Has(p, s) \/ Has(q, s)
  <2>1. ASSUME NEW i \in DOMAIN (p \o q), (p \o q)[i] = s PROVE Has(p, s) \/ Has(q, s)
    <3>1. CASE i <= Len(p) BY <1>1, <2>1, <3>1 DEF Has
    <3>2. CASE i > Len(p)
      <4>1. i - Len(p) \in 1 .. Len(q) /\ Len(p) + (i - Len(p)) = i BY <1>1, <2>1, <3>2
      <4> QED BY <1>1, <2>1, <4>1 DEF Has
    <3> QED BY <1>1, <2>1, <3>1, <3>2
  <2>2. ASSUME NEW i \in DOMAIN p, p[i] = s PROVE Has(p \o q, s)
    <3>1. i \in DOMAIN (p \o q) /\ (p \o q)[i] = s BY <1>1, <2>2
    <3> QED BY <3>1 DEF Has
  <2>3. ASSUME NEW i \in DOMAIN q, q[i] = s PROVE Has(p \o q, s)
    <3>1. Len(p) + i \in DOMAIN (p \o q) /\ (p \o q)[Len(p) + i] = s BY <1>1, <2>3
    <3> QED BY <3>1 DEF Has
  <2> QED BY <2>1, <2>2, <2>3 DEF Has
<1> QED BY <1>1, <1>2

\* A step that a route may have no use for.
LEMMA IfStep ==
  ASSUME NEW b \in BOOLEAN, NEW S, NEW s \in S
  PROVE  If(b, s) \in Seq(S) /\ \A x : Has(If(b, s), x) <=> (b /\ x = s)
BY DEF If, Has

\* Before the handler: nothing calls it, and the middleware runs if there is one.
LEMMA BeforeHandler ==
  ASSUME NEW k \in AllKinds, NEW r \in Routes
  PROVE  /\ Request(k) \o Checks(k, r) \in Seq(StepNames(k) \ {"handler"})
         /\ Has(Request(k) \o Checks(k, r), "middleware") <=> r.middleware
<1> DEFINE S == StepNames(k) \ {"handler"}
<1>1. r.secured \in BOOLEAN /\ r.implements \in BOOLEAN /\ r.middleware \in BOOLEAN
      /\ r.satisfies \in BOOLEAN
  BY DEF Routes
<1>2. Request(k) \in Seq(S) /\ ~Has(Request(k), "middleware")
  <2>1. CASE k = "rest"
    BY <2>1 DEF Request, RestRequest, StepNames, Has
  <2>2. CASE k = "mqtt5Reply"
    BY <2>2 DEF Request, Mqtt5Request, StepNames, Has
  <2>3. CASE k \in {"zmqRep", "zmqRouter"}
    <3>1. Request(k) = <<"decode", "merge">> BY <2>3 DEF Request, ZmqRequest
    <3>2. {"decode", "merge"} \subseteq S BY DEF StepNames
    <3> HIDE DEF S
    <3> QED BY <3>1, <3>2 DEF Has
  <2>4. CASE k = "mqtt5Subscribe"
    BY <2>4 DEF Request, Mqtt5Message, StepNames, Has, Subscribers
  <2>5. CASE k = "mqttSubscribe"
    BY <2>5 DEF Request, MqttMessage, StepNames, Has, Subscribers
  <2>6. CASE k = "zmqSubscribe"
    BY <2>6 DEF Request, ZmqMessage, StepNames, Has, Subscribers
  <2> QED BY <2>1, <2>2, <2>3, <2>4, <2>5, <2>6 DEF AllKinds, Repliers, Subscribers
<1>3. {"security", "middleware", "scopes", "credentials"} \subseteq S
  BY DEF StepNames
<1> HIDE DEF S
<1>4. Granting(r) \in Seq(S) /\ (Has(Granting(r), "middleware") <=> r.middleware)
  <2>1. /\ If(r.implements, "security") \in Seq(S)
        /\ ~Has(If(r.implements, "security"), "middleware")
    BY <1>1, <1>3, IfStep
  <2>2. /\ If(r.middleware, "middleware") \in Seq(S)
        /\ Has(If(r.middleware, "middleware"), "middleware") <=> r.middleware
    BY <1>1, <1>3, IfStep
  <2> QED BY <2>1, <2>2, Joined DEF Granting
<1>5. ASSUME NEW b \in BOOLEAN
      PROVE  /\ Granting(r) \o If(b, "scopes") \in Seq(S)
             /\ Has(Granting(r) \o If(b, "scopes"), "middleware") <=> r.middleware
  <2>1. If(b, "scopes") \in Seq(S) /\ ~Has(If(b, "scopes"), "middleware")
    BY <1>3, IfStep
  <2> QED BY <1>4, <2>1, Joined
<1>6. MqttChecks(r) \in Seq(S) /\ (Has(MqttChecks(r), "middleware") <=> r.middleware)
  BY <1>1, <1>5 DEF MqttChecks
<1>7. ZmqChecks(r) \in Seq(S) /\ (Has(ZmqChecks(r), "middleware") <=> r.middleware)
  <2>1. (r.secured /\ r.satisfies) \in BOOLEAN OBVIOUS
  <2> QED BY <1>5, <2>1 DEF ZmqChecks
<1>8. Mqtt5Checks(r) \in Seq(S) /\ (Has(Mqtt5Checks(r), "middleware") <=> r.middleware)
  <2>1. If(r.secured, "credentials") \in Seq(S) /\ ~Has(If(r.secured, "credentials"), "middleware")
    BY <1>1, <1>3, IfStep
  <2> QED BY <1>6, <2>1, Joined DEF Mqtt5Checks
<1>9. Checks(k, r) \in Seq(S) /\ (Has(Checks(k, r), "middleware") <=> r.middleware)
  BY <1>6, <1>7, <1>8 DEF Checks
<1>10. /\ Request(k) \o Checks(k, r) \in Seq(S)
       /\ Has(Request(k) \o Checks(k, r), "middleware") <=> r.middleware
  BY <1>2, <1>9, Joined
<1> QED BY <1>10 DEF S

\* After the handler: a server that answers ends by doing so.
LEMMA AfterHandler ==
  ASSUME NEW k \in AllKinds, NEW r \in Routes
  PROVE  /\ Response(k, r) \in Seq(StepNames(k))
         /\ ~Has(Response(k, r), "middleware")
         /\ IF k \in Subscribers THEN Response(k, r) = <<>>
            ELSE /\ Response(k, r) # <<>>
                 /\ Response(k, r)[Len(Response(k, r))] = Last(k)
<1>1. CASE k = "rest"
  <2> DEFINE S == StepNames("rest") \ {"middleware"}
             a == <<"merge">>  b == If(r.middleware, "encodeOut")
             c == <<"accept", "encode", "validate", "write">>
  <2>1. r.middleware \in BOOLEAN BY DEF Routes
  <2>2. a \in Seq(S) /\ "encodeOut" \in S /\ c \in Seq(S) /\ Len(c) = 4 /\ c[4] = "write"
    BY DEF StepNames
  <2>3. b \in Seq(S) BY <2>1, <2>2, IfStep
  <2> HIDE DEF S, a, b, c
  <2> DEFINE d == a \o b
  <2>4. d \in Seq(S) BY <2>2, <2>3, Joined
  <2>13. RestResponse(r) = d \o c BY DEF RestResponse, a, b, c
  <2> HIDE DEF d
  <2>5. d \o c \in Seq(S) /\ Len(d \o c) = Len(d) + 4 /\ (d \o c)[Len(d) + 4] = "write"
    <3>4. d \in Seq(S) /\ c \in Seq(S) BY <2>2, <2>4
    <3>1. /\ d \o c \in Seq(S) /\ Len(d \o c) = Len(d) + Len(c)
          /\ \A i \in 1 .. Len(c) : (d \o c)[Len(d) + i] = c[i]
      BY ONLY <3>4
    <3>2. 4 \in 1 .. Len(c) BY <2>2
    <3>3. (d \o c)[Len(d) + 4] = c[4] BY <3>1, <3>2
    <3> QED BY <2>2, <3>1, <3>3
  <2>6. Response(k, r) = d \o c BY <1>1, <2>13 DEF Response, Repliers
  <2>7. Len(d) \in Nat BY <2>4
  <2>8. Response(k, r) \in Seq(S) /\ Response(k, r) # <<>>
        /\ Response(k, r)[Len(Response(k, r))] = "write"
    BY <2>5, <2>6, <2>7
  <2>9. k \notin Subscribers /\ Last(k) = "write" BY <1>1 DEF Subscribers, Last
  <2> HIDE DEF Response
  <2> DEFINE q == Response(k, r)
  <2> HIDE DEF q
  <2>10. q \in Seq(S) BY <2>8 DEF q
  <2>11. q \in Seq(StepNames("rest")) /\ ~Has(q, "middleware") BY <2>10 DEF S, Has
  <2> QED BY <1>1, <2>8, <2>9, <2>11 DEF q
<1>2. CASE k \in Repliers
  <2>1. Response(k, r) = <<"encode", "publish">> BY <1>2 DEF Response, Repliers
  <2>2. Last(k) = "publish" /\ k \notin Subscribers BY <1>2 DEF Last, Repliers, Subscribers
  <2>3. {"encode", "publish"} \subseteq StepNames(k) BY <1>2 DEF StepNames
  <2> QED BY <2>1, <2>2, <2>3 DEF Has
<1>3. CASE k \in Subscribers
  <2>1. Response(k, r) = <<>> BY <1>3 DEF Response, Repliers, Subscribers
  <2> QED BY <1>3, <2>1 DEF Has
<1> QED BY <1>1, <1>2, <1>3 DEF AllKinds

\* The steps of a server end with its last, and the middleware precedes the handler.
LEMMA StepsWay ==
  ASSUME NEW k \in AllKinds, NEW r \in Routes
  PROVE  /\ StepsOf(k, r) \in Ways(k)
         /\ r.middleware => Ahead(StepsOf(k, r))
         /\ ~r.middleware => Without(StepsOf(k, r), "middleware")
<1> DEFINE S == StepNames(k)
           f == Request(k) \o Checks(k, r)
           h == <<"handler">>
           g == Response(k, r)
           q == (f \o h) \o g
<1>1. q = StepsOf(k, r) BY DEF StepsOf
<1>2. "handler" \in S BY DEF StepNames
<1>3. f \in Seq(S \ {"handler"}) /\ (Has(f, "middleware") <=> r.middleware)
  BY BeforeHandler
<1>4. g \in Seq(S) /\ ~Has(g, "middleware") /\ IF k \in Subscribers THEN g = <<>> ELSE g # <<>> /\ g[Len(g)] = Last(k)
  BY AfterHandler
<1>5. h \in Seq(S) /\ Len(h) = 1 /\ h[1] = "handler" /\ ~Has(h, "middleware")
  BY <1>2 DEF Has
<1> HIDE DEF f, g, h, q, S
<1>6. f \in Seq(S) /\ Len(f) \in Nat /\ \A i \in 1 .. Len(f) : f[i] # "handler" BY <1>3
<1>7. /\ f \o h \in Seq(S) /\ Len(f \o h) = Len(f) + 1
      /\ \A i \in 1 .. Len(f) : (f \o h)[i] = f[i]
      /\ (f \o h)[Len(f) + 1] = "handler"
      /\ Has(f \o h, "middleware") <=> r.middleware
  BY <1>3, <1>5, <1>6, Joined
<1> DEFINE e == f \o h
<1>13. q = e \o g BY DEF q
<1> HIDE DEF e
<1>8. /\ q \in Seq(S) /\ Len(q) = Len(f) + 1 + Len(g) /\ Len(g) \in Nat
      /\ \A i \in 1 .. (Len(f) + 1) : q[i] = (f \o h)[i]
      /\ \A i \in 1 .. Len(g) : q[Len(f) + 1 + i] = g[i]
      /\ Has(q, "middleware") <=> r.middleware
  <2>1. /\ e \in Seq(S) /\ Len(e) = Len(f) + 1 /\ e = f \o h
        /\ Has(e, "middleware") <=> r.middleware
    BY <1>7 DEF e
  <2>2. /\ e \o g \in Seq(S) /\ Len(e \o g) = Len(e) + Len(g)
        /\ \A i \in 1 .. Len(e) : (e \o g)[i] = e[i]
        /\ \A i \in 1 .. Len(g) : (e \o g)[Len(e) + i] = g[i]
        /\ Has(e \o g, "middleware") <=> Has(e, "middleware") \/ Has(g, "middleware")
    <3>1. e \in Seq(S) /\ g \in Seq(S) BY <1>4, <2>1
    <3>2. Has(e \o g, "middleware") <=> Has(e, "middleware") \/ Has(g, "middleware")
      BY ONLY <3>1, Joined
    <3>3. /\ e \o g \in Seq(S) /\ Len(e \o g) = Len(e) + Len(g)
          /\ \A i \in 1 .. Len(e) : (e \o g)[i] = e[i]
          /\ \A i \in 1 .. Len(g) : (e \o g)[Len(e) + i] = g[i]
      BY ONLY <3>1
    <3> QED BY <3>2, <3>3
  <2> QED BY <1>4, <1>13, <2>1, <2>2
<1>9. q # <<>> /\ q[Len(q)] = Last(k)
  <2>1. CASE k \in Subscribers
    <3>1. Len(g) = 0 BY <1>4, <2>1
    <3>2. Last(k) = "handler" BY <2>1 DEF Last, Subscribers, Repliers
    <3> QED BY <1>6, <1>7, <1>8, <3>1, <3>2
  <2>2. CASE k \notin Subscribers
    <3>1. Len(g) \in 1 .. Len(g) BY <1>4, <1>8, <2>2
    <3> QED BY <1>4, <1>6, <1>8, <2>2, <3>1
  <2> QED BY <2>1, <2>2
<1>10. q \in Ways(k) BY <1>8, <1>9 DEF Ways, S
<1>11. ASSUME r.middleware PROVE Ahead(q)
  <2>1. PICK j \in 1 .. Len(f) : f[j] = "middleware"
    <3>1. DOMAIN f = 1 .. Len(f) BY <1>6
    <3> QED BY <1>3, <1>11, <3>1 DEF Has
  <2>4. ASSUME NEW i \in 1 .. Len(f) PROVE q[i] = f[i]
    <3>1. i \in 1 .. (Len(f) + 1) BY <1>6
    <3> QED BY <1>7, <1>8, <3>1
  <2>2. q[j] = "middleware" BY <2>1, <2>4
  <2>3. ASSUME NEW i \in DOMAIN q, q[i] = "handler" PROVE j \in 1 .. (i - 1)
    <3>2. i \in 1 .. Len(q) BY <1>8
    <3>1. ~(i <= Len(f))
      <4>1. SUFFICES ASSUME i \in 1 .. Len(f) PROVE FALSE BY <1>6, <3>2
      <4> QED BY <1>6, <2>3, <2>4, <4>1
    <3> QED BY <1>6, <1>8, <2>1, <2>3, <3>1
  <2> QED BY <2>2, <2>3 DEF Ahead
<1>12. ASSUME ~r.middleware PROVE Without(q, "middleware")
  BY <1>8, <1>12 DEF Has, Without
<1> QED BY <1>1, <1>10, <1>11, <1>12

\* What is left of a way is a way, until its last step.
LEMMA Rest ==
  ASSUME NEW k, NEW q \in Ways(k)
  PROVE  /\ q \notin Markers
         /\ Head(q) = q[1] /\ Head(q) \in StepNames(k)
         /\ Head(q) # Last(k) => Tail(q) \in Ways(k)
         /\ \A s : Without(q, s) => Head(q) # s /\ Without(Tail(q), s)
         /\ Ahead(q) => /\ Head(q) # "handler"
                        /\ Head(q) # "middleware" => Ahead(Tail(q))
<1>1. q \in Seq(StepNames(k)) /\ q # <<>> /\ q[Len(q)] = Last(k) BY DEF Ways
<1>2. Len(q) \in Nat \ {0} /\ 1 \in DOMAIN q /\ Head(q) = q[1] /\ q[1] \in StepNames(k) BY <1>1
<1>10. Len(q) \in Nat /\ Len(q) >= 1 BY <1>1
<1>3. /\ Tail(q) \in Seq(StepNames(k)) /\ Len(Tail(q)) = Len(q) - 1
      /\ \A i \in 1 .. (Len(q) - 1) : Tail(q)[i] = q[i + 1]
  BY <1>1, <1>2
<1>4. q \notin Markers BY <1>1 DEF Markers, Last
<1>5. ASSUME Head(q) # Last(k) PROVE Tail(q) \in Ways(k)
  <2>1. Len(q) # 1 BY <1>1, <1>2, <1>5
  <2>6. \A n \in Nat : n >= 1 /\ n # 1 => n >= 2 OBVIOUS
  <2>5. Len(q) \in Nat /\ Len(q) >= 2 BY <1>10, <2>1, <2>6
  <2>2. Len(q) - 1 \in 1 .. (Len(q) - 1) BY <2>5
  <2>3. Tail(q)[Len(q) - 1] = q[Len(q)] BY <1>2, <1>3, <2>2
  <2>4. Tail(q) # <<>> BY <1>2, <1>3, <2>1
  <2> QED BY <1>1, <1>3, <2>3, <2>4 DEF Ways
<1>6. ASSUME NEW s, Without(q, s) PROVE Head(q) # s /\ Without(Tail(q), s)
  BY <1>1, <1>2, <1>3, <1>6 DEF Without
<1>7. ASSUME Ahead(q) PROVE Head(q) # "handler"
  BY <1>2, <1>7 DEF Ahead
<1>8. ASSUME Ahead(q), Head(q) # "middleware" PROVE Ahead(Tail(q))
  <2>1. ASSUME NEW i \in DOMAIN Tail(q), Tail(q)[i] = "handler"
        PROVE  \E j \in 1 .. (i - 1) : Tail(q)[j] = "middleware"
    <3>1. i \in 1 .. (Len(q) - 1) BY <1>2, <1>3, <2>1
    <3>2. i + 1 \in DOMAIN q /\ q[i + 1] = "handler" BY <1>1, <1>3, <2>1, <3>1
    <3>3. PICK j \in 1 .. i : q[j] = "middleware" BY <1>8, <3>1, <3>2 DEF Ahead
    <3>4. j # 1 BY <1>2, <1>8, <3>3
    <3>5. j - 1 \in 1 .. (i - 1) /\ Tail(q)[j - 1] = q[j]
      <4>1. j - 1 \in 1 .. (i - 1) /\ j - 1 \in 1 .. (Len(q) - 1) /\ (j - 1) + 1 = j
        BY <1>2, <3>1, <3>3, <3>4
      <4> QED BY <1>3, <4>1
    <3> QED BY <3>3, <3>5
  <2> QED BY <2>1 DEF Ahead
<1> QED BY <1>2, <1>4, <1>5, <1>6, <1>7, <1>8

-----------------------------------------------------------------------------
(***************************************************************************)
(* Types.                                                                  *)
(***************************************************************************)
\* What is reported to is an outlet.
LEMMA OutletsType ==
  ASSUME NEW k, NEW r \in Routes, NEW named \in BOOLEAN, NEW s, NEW match
  PROVE  Outlets(k, r, named, s, match) \in Seq(OutletNames) /\ ForwardOutlets(k, named) \in Seq(OutletNames)
<1>1. RestOutlets(s, match) \in Seq(OutletNames) BY DEF RestOutlets, OutletNames, Answers
<1>2. SubscribeOutlets(r, s, match) \in Seq(OutletNames)
  <2>1. {"onError", "errorChannel", "deadLetter"} \subseteq OutletNames BY DEF OutletNames, Reports
  <2>2. /\ <<>> \in Seq(OutletNames) /\ <<"onError">> \in Seq(OutletNames)
        /\ <<"errorChannel">> \in Seq(OutletNames) /\ <<"deadLetter">> \in Seq(OutletNames)
    BY <2>1
  <2> QED BY <2>2, Zenon DEF SubscribeOutlets
<1>3. ReplyOutlets(r, named, s) \in Seq(OutletNames)
  <2>2. {"errorReply", "deadLetter", "onError"} \subseteq OutletNames
    BY DEF OutletNames, Answers, Reports
  <2>3. r.deadLetter \in BOOLEAN /\ (named /\ s # "publish") \in BOOLEAN BY DEF Routes
  <2>1. /\ If(named /\ s # "publish", "errorReply") \in Seq(OutletNames)
        /\ If(r.deadLetter, "deadLetter") \in Seq(OutletNames)
        /\ <<"onError">> \in Seq(OutletNames)
    <3>1. If(named /\ s # "publish", "errorReply") \in Seq(OutletNames) BY <2>2, <2>3, IfStep
    <3>2. If(r.deadLetter, "deadLetter") \in Seq(OutletNames) BY <2>2, <2>3, IfStep
    <3> QED BY <2>2, <3>1, <3>2
  <2> QED BY <2>1 DEF ReplyOutlets
<1>4. ForwardOutlets(k, named) \in Seq(OutletNames)
  <2>2. {"forward", "redirect", "onError"} \subseteq OutletNames
    BY DEF OutletNames, Answers, Reports
  <2>1. If(named, "forward") \in Seq(OutletNames) /\ <<"onError">> \in Seq(OutletNames) BY <2>2, IfStep
  <2> QED BY <2>1, <2>2 DEF ForwardOutlets
<1> QED BY <1>1, <1>2, <1>3, <1>4 DEF Outlets

LEMMA Server == TypeOK => kind \in AllKinds
BY DispatchAssumption DEF TypeOK, AllKinds

\* A message that is being worked on has steps left.
LEMMA WorkingWay ==
  ASSUME TypeOK, NEW m \in Messages, Working(m)
  PROVE  /\ at[m] \in Ways(kind) /\ Step(m) \in StepNames(kind)
         /\ Step(m) # Last(kind) => Tail(at[m]) \in Ways(kind)
<1>1. at[m] \in Ways(kind) BY DEF TypeOK, Working, Markers
<1> QED BY <1>1, Rest DEF Step

\* What a report keeps of the types.
LEMMA ReportType ==
  ASSUME TypeOK, NEW m \in Messages, NEW t \in Seq(OutletNames), ReportTo(m, t)
  PROVE  /\ at' \in [Messages -> Markers \cup Ways(kind)]
         /\ todo' \in [Messages -> Seq(OutletNames)]
BY DEF TypeOK, ReportTo, Markers

\* What an attempt keeps of the types.
LEMMA AttemptType ==
  ASSUME TypeOK, NEW m \in Messages, NEW x \in OutletNames, NEW y \in Results, Attempt(m, x, y)
  PROVE  log' \in [Messages -> Seq(OutletNames \X Results)]
<1>1. <<x, y>> \in OutletNames \X Results OBVIOUS
<1>2. Append(log[m], <<x, y>>) \in Seq(OutletNames \X Results) BY <1>1 DEF TypeOK
<1> QED BY <1>2 DEF TypeOK, Attempt

LEMMA TypeStep == TypeOK /\ Pending /\ [Next]_vars => TypeOK'
<1> SUFFICES ASSUME TypeOK, Pending, [Next]_vars PROVE TypeOK' OBVIOUS
<1> USE DEF setup
<1>1. /\ kind \in AllKinds /\ kind \in Kinds /\ route \in Routes /\ replyTo \subseteq Messages
      /\ at \in [Messages -> Markers \cup Ways(kind)] /\ todo \in [Messages -> Seq(OutletNames)]
      /\ outcome \in [Messages -> Outcomes] /\ log \in [Messages -> Seq(OutletNames \X Results)]
      /\ box \in [Messages \cup {Nobody} -> Messages \cup {Nobody}]
      /\ seen \in [Messages -> Messages \cup {Nobody, Unread}]
      /\ near \in [Messages -> SUBSET Messages]
  BY Server DEF TypeOK
<1>18. \A m : (m \in replyTo) \in BOOLEAN OBVIOUS
<1>2. ASSUME NEW m \in Messages, Take(m) PROVE TypeOK'
  <2>1. Steps \in Ways(kind) BY <1>1, StepsWay DEF Steps
  <2>2. at' \in [Messages -> Markers \cup Ways(kind)] BY <1>1, <1>2, <2>1 DEF Take
  <2>3. near' \in [Messages -> SUBSET Messages]
    <3>1. Active \subseteq Messages BY DEF Active
    <3> QED BY <1>1, <1>2, <3>1 DEF Take
  <2> QED BY <1>1, <1>2, <2>2, <2>3 DEF Take, TypeOK
<1>3. ASSUME NEW m \in Messages PROVE SetField(m) \in [Messages \cup {Nobody} -> Messages \cup {Nobody}]
  BY <1>1 DEF SetField
<1>4. ASSUME NEW m \in Messages, Pass(m) PROVE TypeOK'
  <2>1. Step(m) # Last(kind) BY <1>4 DEF Pass, Last
  <2>2. Tail(at[m]) \in Ways(kind) BY <1>4, <2>1, WorkingWay DEF Pass
  <2>3. at' \in [Messages -> Markers \cup Ways(kind)] BY <1>1, <1>4, <2>2 DEF Pass
  <2>4. box' \in [Messages \cup {Nobody} -> Messages \cup {Nobody}] BY <1>1, <1>3, <1>4 DEF Pass
  <2> QED BY <1>1, <1>4, <2>3, <2>4 DEF Pass, TypeOK
<1>5. ASSUME NEW m \in Messages, Handled(m) PROVE seen' \in [Messages -> Messages \cup {Nobody, Unread}]
  <2>1. BoxOf(kind, m) \in Messages \cup {Nobody} BY DEF BoxOf
  <2> QED BY <1>1, <1>5, <2>1 DEF Handled
<1>6. ASSUME NEW m \in Messages, HandlerReturns(m) PROVE TypeOK'
  <2>1. CASE kind \in Subscribers
    <3>1. at' \in [Messages -> Markers \cup Ways(kind)] BY <1>1, <1>6, <2>1 DEF HandlerReturns, Markers
    <3>2. outcome' \in [Messages -> Outcomes] BY <1>1, <1>6, <2>1 DEF HandlerReturns, Outcomes
    <3>3. seen' \in [Messages -> Messages \cup {Nobody, Unread}] BY <1>5, <1>6 DEF HandlerReturns
    <3> QED BY <1>1, <1>6, <3>1, <3>2, <3>3 DEF HandlerReturns, Handled, TypeOK
  <2>2. CASE kind \notin Subscribers
    <3>4. Step(m) # Last(kind)
      BY <1>1, <1>6, <2>2 DEF HandlerReturns, Handled, Last, AllKinds
    <3>5. Tail(at[m]) \in Ways(kind) BY <1>6, <3>4, WorkingWay DEF HandlerReturns, Handled
    <3>1. at' \in [Messages -> Markers \cup Ways(kind)] BY <1>1, <1>6, <2>2, <3>5 DEF HandlerReturns
    <3>2. outcome' \in [Messages -> Outcomes] BY <1>1, <1>6, <2>2 DEF HandlerReturns, Outcomes
    <3>3. seen' \in [Messages -> Messages \cup {Nobody, Unread}] BY <1>5, <1>6 DEF HandlerReturns
    <3> QED BY <1>1, <1>6, <3>1, <3>2, <3>3 DEF HandlerReturns, Handled, TypeOK
  <2> QED BY <2>1, <2>2
<1>7. ASSUME NEW m \in Messages, HandlerFails(m) PROVE TypeOK'
  <2>1. PICK match \in Matches(route) :
          ReportTo(m, Outlets(kind, route, m \in replyTo, "handler", match))
    BY <1>7 DEF HandlerFails
  <2>2. at' \in [Messages -> Markers \cup Ways(kind)] /\ todo' \in [Messages -> Seq(OutletNames)]
    <3>1. Outlets(kind, route, m \in replyTo, "handler", match) \in Seq(OutletNames)
      BY <1>1, <1>18, OutletsType
    <3> QED BY <2>1, <3>1, ReportType
  <2>3. seen' \in [Messages -> Messages \cup {Nobody, Unread}] BY <1>5, <1>7 DEF HandlerFails
  <2> QED BY <1>1, <1>7, <2>2, <2>3 DEF HandlerFails, Handled, Outcomes, TypeOK
<1>8. ASSUME NEW m \in Messages, HandlerForwards(m) PROVE TypeOK'
  <2>2. at' \in [Messages -> Markers \cup Ways(kind)] /\ todo' \in [Messages -> Seq(OutletNames)]
    <3>1. ForwardOutlets(kind, m \in replyTo) \in Seq(OutletNames) BY <1>1, <1>18, OutletsType
    <3>2. ReportTo(m, ForwardOutlets(kind, m \in replyTo)) BY <1>8 DEF HandlerForwards
    <3> QED BY <3>1, <3>2, ReportType
  <2>3. seen' \in [Messages -> Messages \cup {Nobody, Unread}] BY <1>5, <1>8 DEF HandlerForwards
  <2> QED BY <1>1, <1>8, <2>2, <2>3 DEF HandlerForwards, Handled, Outcomes, TypeOK
<1>9. ASSUME NEW m \in Messages, Fail(m) PROVE TypeOK'
  <2>1. PICK match \in Matches(route) :
          ReportTo(m, Outlets(kind, route, m \in replyTo, Step(m), match))
    BY <1>9 DEF Fail
  <2>2. at' \in [Messages -> Markers \cup Ways(kind)] /\ todo' \in [Messages -> Seq(OutletNames)]
    <3>1. Outlets(kind, route, m \in replyTo, Step(m), match) \in Seq(OutletNames)
      BY <1>1, <1>18, OutletsType
    <3> QED BY <2>1, <3>1, ReportType
  <2>3. box' \in [Messages \cup {Nobody} -> Messages \cup {Nobody}] BY <1>1, <1>3, <1>9 DEF Fail
  <2>4. outcome' \in [Messages -> Outcomes] BY <1>1, <1>9 DEF Fail, Failing, Outcomes
  <2> QED BY <1>1, <1>9, <2>2, <2>3, <2>4 DEF Fail, TypeOK
<1>10. ASSUME NEW m \in Messages, Settled(m) PROVE at' \in [Messages -> Markers \cup Ways(kind)]
  BY <1>1, <1>10 DEF Settled, Markers
<1>11. ASSUME NEW m \in Messages, Publish(m) PROVE TypeOK'
  <2>1. log' \in [Messages -> Seq(OutletNames \X Results)] BY <1>1, <1>11, AttemptType DEF Publish, OutletNames, Answers, Results
  <2>2. at' \in [Messages -> Markers \cup Ways(kind)] BY <1>10, <1>11 DEF Publish
  <2> QED BY <1>1, <1>11, <2>1, <2>2 DEF Publish, Outcomes, TypeOK
<1>12. ASSUME NEW m \in Messages, PublishRefused(m) PROVE TypeOK'
  <2>1. log' \in [Messages -> Seq(OutletNames \X Results)] BY <1>12, AttemptType DEF PublishRefused, OutletNames, Answers, Results
  <2>2. at' \in [Messages -> Markers \cup Ways(kind)] /\ todo' \in [Messages -> Seq(OutletNames)]
    <3>1. Outlets(kind, route, TRUE, "publish", "none") \in Seq(OutletNames) BY <1>1, OutletsType
    <3>2. ReportTo(m, Outlets(kind, route, TRUE, "publish", "none")) BY <1>12 DEF PublishRefused
    <3> QED BY <3>1, <3>2, ReportType
  <2> QED BY <1>1, <1>12, <2>1, <2>2 DEF PublishRefused, Outcomes, TypeOK
<1>13. ASSUME NEW m \in Messages, Write(m) PROVE TypeOK'
  <2>1. log' \in [Messages -> Seq(OutletNames \X Results)] BY <1>13, AttemptType DEF Write, OutletNames, Answers, Results
  <2>2. at' \in [Messages -> Markers \cup Ways(kind)] BY <1>10, <1>13 DEF Write
  <2> QED BY <1>1, <1>13, <2>1, <2>2 DEF Write, Outcomes, TypeOK
<1>14. ASSUME NEW m \in Messages, WriteCookieFails(m) PROVE TypeOK'
  <2>1. log' \in [Messages -> Seq(OutletNames \X Results)] BY <1>14, AttemptType DEF WriteCookieFails, OutletNames, Answers, Results
  <2>2. at' \in [Messages -> Markers \cup Ways(kind)] /\ todo' \in [Messages -> Seq(OutletNames)]
    <3>1. <<"error">> \in Seq(OutletNames) BY DEF OutletNames, Answers
    <3>2. ReportTo(m, <<"error">>) BY <1>14 DEF WriteCookieFails
    <3> QED BY <3>1, <3>2, ReportType
  <2> QED BY <1>1, <1>14, <2>1, <2>2 DEF WriteCookieFails, Outcomes, TypeOK
<1>15. ASSUME NEW m \in Messages, WritePattern(m) PROVE TypeOK'
  <2>1. log' \in [Messages -> Seq(OutletNames \X Results)] BY <1>15, AttemptType DEF WritePattern, OutletNames, Answers, Results
  <2>2. at' \in [Messages -> Markers \cup Ways(kind)] /\ todo' \in [Messages -> Seq(OutletNames)]
    <3>1. <<"error">> \in Seq(OutletNames) /\ <<>> \in Seq(OutletNames) BY DEF OutletNames, Answers
    <3>2. ReportTo(m, <<>>) \/ ReportTo(m, <<"error">>) BY <1>15 DEF WritePattern
    <3> QED BY <3>1, <3>2, ReportType
  <2> QED BY <1>1, <1>15, <2>1, <2>2 DEF WritePattern, TypeOK
<1>16. ASSUME NEW m \in Messages, Report(m) PROVE TypeOK'
  <2>4. todo[m] # <<>> BY <1>16 DEF Report, Pending
  <2>3. Head(todo[m]) \in OutletNames /\ Tail(todo[m]) \in Seq(OutletNames) BY <1>1, <2>4
  <2>1. log' \in [Messages -> Seq(OutletNames \X Results)] BY <1>16, <2>3, AttemptType DEF Report, OutletNames, Answers, Results
  <2>2. at' \in [Messages -> Markers \cup Ways(kind)] /\ todo' \in [Messages -> Seq(OutletNames)]
    BY <1>16, <2>3, ReportType DEF Report
  <2> QED BY <1>1, <1>16, <2>1, <2>2 DEF Report, TypeOK
<1>17. CASE UNCHANGED vars BY <1>17 DEF vars, TypeOK
<1> QED
  BY <1>2, <1>4, <1>6, <1>7, <1>8, <1>9, <1>11, <1>12, <1>13, <1>14, <1>15, <1>16, <1>17 DEF Next

\* A message is settling only while something is queued.
LEMMA PendingStep == TypeOK /\ Pending /\ [Next]_vars => Pending'
<1> SUFFICES ASSUME TypeOK, Pending, [Next]_vars PROVE Pending' OBVIOUS
<1>1. ASSUME NEW m \in Messages, NEW t \in Seq(OutletNames), ReportTo(m, t) PROVE Pending'
  BY <1>1 DEF Pending, TypeOK, ReportTo
<1>2. ASSUME NEW m \in Messages, Settled(m), UNCHANGED todo PROVE Pending'
  BY <1>2 DEF Pending, TypeOK, Settled
<1>3. ASSUME NEW m \in Messages, NEW q, q \notin Markers, at' = [at EXCEPT ![m] = q], UNCHANGED todo
      PROVE  Pending'
  BY <1>3 DEF Pending, TypeOK, Markers
<1>4. kind \in AllKinds /\ route \in Routes /\ \A m : (m \in replyTo) \in BOOLEAN
  BY Server DEF TypeOK
<1>5. ASSUME NEW m \in Messages, Take(m) PROVE Pending'
  <2>1. Steps \notin Markers BY <1>4, StepsWay, Rest DEF Steps
  <2> QED BY <1>3, <1>5, <2>1 DEF Take
<1>6. ASSUME NEW m \in Messages, Working(m), Step(m) # Last(kind) PROVE Tail(at[m]) \notin Markers
  BY <1>6, WorkingWay, Rest
<1>7. ASSUME NEW m \in Messages, Pass(m) PROVE Pending'
  <2>1. Step(m) # Last(kind) BY <1>7 DEF Pass, Last
  <2> QED BY <1>3, <1>6, <1>7, <2>1 DEF Pass
<1>8. ASSUME NEW m \in Messages, HandlerReturns(m) PROVE Pending'
  <2>1. CASE kind \in Subscribers
    <3>1. Settled(m) BY <1>8, <2>1 DEF HandlerReturns, Settled
    <3> QED BY <1>2, <1>8, <3>1 DEF HandlerReturns
  <2>2. CASE kind \notin Subscribers
    <3>1. Step(m) # Last(kind) BY <1>4, <1>8, <2>2 DEF HandlerReturns, Handled, Last, AllKinds
    <3>2. Tail(at[m]) \notin Markers BY <1>6, <1>8, <3>1 DEF HandlerReturns, Handled
    <3>3. at' = [at EXCEPT ![m] = Tail(at[m])] BY <1>8, <2>2 DEF HandlerReturns
    <3> QED BY <1>3, <1>8, <3>2, <3>3 DEF HandlerReturns
  <2> QED BY <2>1, <2>2
<1>9. ASSUME NEW m \in Messages, HandlerFails(m) \/ Fail(m) PROVE Pending'
  <2>1. PICK s, match : ReportTo(m, Outlets(kind, route, m \in replyTo, s, match))
    BY <1>9 DEF HandlerFails, Fail
  <2>2. Outlets(kind, route, m \in replyTo, s, match) \in Seq(OutletNames) BY <1>4, OutletsType
  <2> QED BY <1>1, <2>1, <2>2
<1>10. ASSUME NEW m \in Messages, HandlerForwards(m) PROVE Pending'
  <2>1. ForwardOutlets(kind, m \in replyTo) \in Seq(OutletNames) BY <1>4, OutletsType
  <2> QED BY <1>1, <1>10, <2>1 DEF HandlerForwards
<1>11. ASSUME NEW m \in Messages, Publish(m) \/ Write(m) PROVE Pending'
  BY <1>2, <1>11 DEF Publish, Write
<1>12. ASSUME NEW m \in Messages, PublishRefused(m) PROVE Pending'
  <2>1. Outlets(kind, route, TRUE, "publish", "none") \in Seq(OutletNames) BY <1>4, OutletsType
  <2> QED BY <1>1, <1>12, <2>1 DEF PublishRefused
<1>13. ASSUME NEW m \in Messages, WriteCookieFails(m) \/ WritePattern(m) PROVE Pending'
  <2>1. <<"error">> \in Seq(OutletNames) /\ <<>> \in Seq(OutletNames) BY DEF OutletNames, Answers
  <2>2. ReportTo(m, <<>>) \/ ReportTo(m, <<"error">>) BY <1>13 DEF WriteCookieFails, WritePattern
  <2> QED BY <1>1, <2>1, <2>2
<1>14. ASSUME NEW m \in Messages, Report(m) PROVE Pending'
  <2>1. todo[m] # <<>> BY <1>14 DEF Report, Pending
  <2>2. Tail(todo[m]) \in Seq(OutletNames) BY <2>1 DEF TypeOK
  <2> QED BY <1>1, <1>14, <2>2 DEF Report
<1>15. CASE UNCHANGED vars BY <1>15 DEF vars, Pending
<1> QED
  BY <1>5, <1>7, <1>8, <1>9, <1>10, <1>11, <1>12, <1>13, <1>14, <1>15 DEF Next

LEMMA TypeInit == Init => TypeOK /\ Pending
<1> SUFFICES ASSUME Init PROVE TypeOK /\ Pending OBVIOUS
<1>1. replyTo \subseteq Messages BY DEF Init
<1>2. at \in [Messages -> Markers \cup Ways(kind)] BY DEF Init, Markers
<1>3. todo \in [Messages -> Seq(OutletNames)] /\ log \in [Messages -> Seq(OutletNames \X Results)]
  BY DEF Init
<1>4. outcome \in [Messages -> Outcomes] /\ near \in [Messages -> SUBSET Messages] BY DEF Init, Outcomes
<1>5. Pending BY DEF Init, Pending
<1> QED BY <1>1, <1>2, <1>3, <1>4, <1>5 DEF Init, TypeOK

-----------------------------------------------------------------------------
(***************************************************************************)
(* Context fields.                                                         *)
(***************************************************************************)

\* A step of m that is not Take keeps the others where they are.
Moves(m) ==
  /\ m \in Active
  /\ UNCHANGED <<setup, near>>
  /\ \A d \in Messages \ {m} : at'[d] = at[d]

LEMMA MovesOrTakes ==
  ASSUME TypeOK, NEW m \in Messages,
         \/ Pass(m) \/ Fail(m)
         \/ HandlerReturns(m) \/ HandlerFails(m) \/ HandlerForwards(m)
         \/ Publish(m) \/ PublishRefused(m)
         \/ Write(m) \/ WriteCookieFails(m) \/ WritePattern(m)
         \/ Report(m)
  PROVE  Moves(m)
<1> USE DEF setup
<1>1. ASSUME NEW q, at' = [at EXCEPT ![m] = q] PROVE \A d \in Messages \ {m} : at'[d] = at[d]
  BY <1>1 DEF TypeOK
<1>2. Working(m) \/ at[m] = <<"settling">> => m \in Active BY DEF Working, Active
<1>3. ASSUME NEW t, ReportTo(m, t) PROVE \A d \in Messages \ {m} : at'[d] = at[d]
  BY <1>1, <1>3 DEF ReportTo
<1>4. CASE Pass(m) BY <1>1, <1>2, <1>4 DEF Pass, Moves
<1>5. CASE Fail(m) BY <1>2, <1>3, <1>5 DEF Fail, Moves
<1>6. CASE HandlerReturns(m) BY <1>1, <1>2, <1>6 DEF HandlerReturns, Handled, Moves
<1>7. CASE HandlerFails(m) BY <1>2, <1>3, <1>7 DEF HandlerFails, Handled, Moves
<1>8. CASE HandlerForwards(m) BY <1>2, <1>3, <1>8 DEF HandlerForwards, Handled, Moves
<1>9. CASE Publish(m) BY <1>1, <1>2, <1>9 DEF Publish, Settled, Moves
<1>10. CASE PublishRefused(m) BY <1>2, <1>3, <1>10 DEF PublishRefused, Moves
<1>11. CASE Write(m) BY <1>1, <1>2, <1>11 DEF Write, Settled, Moves
<1>12. CASE WriteCookieFails(m) BY <1>2, <1>3, <1>12 DEF WriteCookieFails, Moves
<1>13. CASE WritePattern(m) BY <1>2, <1>3, <1>13 DEF WritePattern, Moves
<1>14. CASE Report(m) BY <1>2, <1>3, <1>14 DEF Report, Moves
<1> QED BY <1>4, <1>5, <1>6, <1>7, <1>8, <1>9, <1>10, <1>11, <1>12, <1>13, <1>14

\* A message that is taken joins those under way.
LEMMA MetStep == TypeOK /\ Met /\ [Next]_vars => Met'
<1> SUFFICES ASSUME TypeOK, Met, [Next]_vars PROVE Met' OBVIOUS
<1>1. ASSUME NEW m \in Messages, Moves(m) PROVE Met'
  <2>1. Active' \subseteq Active BY <1>1 DEF Moves, Active
  <2>2. kind' = kind /\ near' = near BY <1>1 DEF Moves, setup
  <2> QED BY <2>1, <2>2 DEF Met
<1>2. ASSUME NEW m \in Messages, Take(m) PROVE Met'
  <2>1. Active' \subseteq Active \cup {m} BY <1>2 DEF Take, Active, TypeOK
  <2>2. kind' = kind BY <1>2 DEF Take, setup
  <2>3. m \notin Active BY <1>2 DEF Take, Active
  <2>4. ASSUME NEW a \in Active', NEW d \in Active', a # d PROVE Concurrent(kind)' /\ (a \in near[d])'
    <3>1. a \in Messages /\ d \in Messages BY DEF Active
    <3>2. Concurrent(kind)
      <4>1. Active # {} BY <2>1, <2>4
      <4> QED BY <1>2, <4>1 DEF Take
    <3>3. a \in near'[d]
      <4>1. CASE d = m BY <1>2, <2>1, <2>4, <3>1, <4>1 DEF Take
      <4>2. CASE d # m /\ a = m BY <1>2, <2>1, <2>4, <3>1, <4>2 DEF Take
      <4>3. CASE d # m /\ a # m
        <5>1. a \in near[d] BY <2>1, <2>4, <4>3 DEF Met
        <5>2. d \in Active BY <2>1, <2>4, <4>3
        <5> QED BY <1>2, <3>1, <4>3, <5>1, <5>2 DEF Take
      <4> QED BY <4>1, <4>2, <4>3
    <3> QED BY <2>2, <3>2, <3>3
  <2> QED BY <2>4 DEF Met
<1>3. CASE UNCHANGED vars BY <1>3 DEF vars, Met, Active
<1> QED BY <1>1, <1>2, <1>3, MovesOrTakes DEF Next

\* What m does to the field of another message.
LEMMA OthersField ==
  ASSUME TypeOK, Met, Fields, NEW m \in Messages, Moves(m), seen' = [seen EXCEPT ![m] = seen'[m]],
         box' = box \/ (route.middleware /\ box' = SetField(m)),
         NEW d \in Messages, d # m
  PROVE  FieldOf(d)'
<1>1. kind' = kind /\ route' = route /\ near' = near BY DEF Moves, setup
<1>2. at'[d] = at[d] BY DEF Moves
<1>3. seen'[d] = seen[d] BY DEF TypeOK
<1>4. FieldOf(d) BY DEF Fields
<1>5. BoxOf(kind, d) \in Messages \cup {Nobody} BY DEF BoxOf
<1>6. CASE box' = box
  BY <1>1, <1>2, <1>3, <1>4, <1>6 DEF FieldOf, Working, Own
<1>7. CASE route.middleware /\ box' = SetField(m)
  <2>1. ASSUME Working(d) PROVE box'[BoxOf(kind, d)] = box[BoxOf(kind, d)] \/ Own(d, box'[BoxOf(kind, d)])
    <3>1. CASE BoxOf(kind, d) # BoxOf(kind, m)
      BY <1>5, <1>7, <3>1 DEF SetField, TypeOK
    <3>2. CASE BoxOf(kind, d) = BoxOf(kind, m)
      <4>1. kind \in Repliers BY <3>2 DEF BoxOf
      <4>2. d \in Active BY <2>1 DEF Working, Active
      <4>3. Concurrent(kind) /\ m \in near[d] BY <4>2 DEF Met, Moves
      <4>4. kind = "zmqRouter" BY <4>1, <4>3 DEF Concurrent, Repliers
      <4>5. box'[BoxOf(kind, d)] = m BY <1>5, <1>7, <3>2 DEF SetField, TypeOK
      <4> QED BY <4>3, <4>4, <4>5 DEF Own
    <3> QED BY <3>1, <3>2
  <2>2. Working(d)' <=> Working(d) BY <1>2 DEF Working
  <2>3. ASSUME Working(d) PROVE Ahead(at'[d]) \/ Own(d, box'[BoxOf(kind, d)])
    <3>1. Ahead(at[d]) \/ Own(d, box[BoxOf(kind, d)]) BY <1>4, <1>7, <2>3 DEF FieldOf
    <3> QED BY <1>2, <2>1, <2>3, <3>1
  <2>4. at'[d] = <<"queued">> => seen'[d] = Unread BY <1>2, <1>3, <1>4, <1>7 DEF FieldOf
  <2>5. seen'[d] = Unread \/ Own(d, seen'[d]) BY <1>3, <1>4, <1>7 DEF FieldOf
  <2> QED BY <1>1, <1>7, <2>2, <2>3, <2>4, <2>5 DEF FieldOf, Own
<1> QED BY <1>6, <1>7

\* A step of m that is the last of its work, or that sets and reads no field.
LEMMA OwnFieldKept ==
  ASSUME TypeOK, Fields, NEW m \in Messages, Moves(m), at'[m] # <<"queued">>,
         IF Working(m)' THEN /\ Working(m)
                             /\ Ahead(at[m]) => Ahead(at'[m])
                             /\ Without(at[m], "middleware") => Without(at'[m], "middleware")
                             /\ box' = box
                        ELSE TRUE,
         seen'[m] = seen[m]
  PROVE  FieldOf(m)'
<1>1. kind' = kind /\ route' = route /\ near' = near BY DEF Moves, setup
<1>2. FieldOf(m) BY DEF Fields
<1> QED BY <1>1, <1>2 DEF FieldOf, Own

\* Each step keeps the box a field that its message may read, or the middleware ahead.
LEMMA FieldsStep == TypeOK /\ Pending /\ Met /\ Fields /\ [Next]_vars => Fields'
<1> SUFFICES ASSUME TypeOK, Met, Fields, [Next]_vars PROVE Fields' OBVIOUS
<1>1. kind \in AllKinds /\ route \in Routes BY Server DEF TypeOK
<1>2. \A m \in Messages : FieldOf(m) BY DEF Fields
<1>3. ASSUME NEW m \in Messages, Moves(m), UNCHANGED <<box, seen>>, ~Working(m)', at'[m] # <<"queued">>
      PROVE  Fields'
  <2>1. seen' = [seen EXCEPT ![m] = seen'[m]] /\ seen'[m] = seen[m] BY <1>3 DEF TypeOK
  <2>2. FieldOf(m)' BY <1>3, <2>1, OwnFieldKept
  <2>3. \A d \in Messages : d # m => FieldOf(d)' BY <1>3, <2>1, OthersField
  <2>4. route' = route BY <1>3 DEF Moves, setup
  <2> QED BY <1>3, <2>2, <2>3, <2>4 DEF Fields
<1>4. ASSUME NEW m \in Messages, NEW t, ReportTo(m, t) PROVE ~Working(m)' /\ at'[m] # <<"queued">>
  BY <1>4 DEF ReportTo, Working, TypeOK
<1>5. ASSUME NEW m \in Messages, Settled(m) PROVE ~Working(m)' /\ at'[m] # <<"queued">>
  BY <1>5 DEF Settled, Working, TypeOK
<1>6. ASSUME NEW m \in Messages, Take(m) PROVE Fields'
  <2>1. kind' = kind /\ route' = route /\ UNCHANGED <<box, seen>> BY <1>6 DEF Take, setup
  <2>2. ASSUME NEW d \in Messages, d # m PROVE FieldOf(d)'
    <3>1. at'[d] = at[d] BY <1>6, <2>2 DEF Take, TypeOK
    <3>2. near[d] \subseteq near'[d] BY <1>6, <2>2 DEF Take, TypeOK
    <3>3. \A v : Own(d, v) => Own(d, v)' BY <2>1, <3>2 DEF Own
    <3> QED BY <1>2, <2>1, <3>1, <3>3 DEF FieldOf, Working
  <2>3. at'[m] = Steps /\ (seen[m] = Unread \/ ~route.middleware)
    BY <1>2, <1>6 DEF Take, FieldOf, TypeOK
  <2>4. at'[m] = StepsOf(kind, route) BY <1>6 DEF Take, TypeOK, Steps
  <2>5. /\ at'[m] \notin Markers
        /\ route.middleware => Ahead(at'[m])
        /\ ~route.middleware => Without(at'[m], "middleware")
    BY <1>1, <2>4, StepsWay, Rest
  <2>6. FieldOf(m)'
    <3>1. CASE route.middleware BY <2>1, <2>3, <2>5, <3>1 DEF FieldOf, Markers
    <3>2. CASE ~route.middleware BY <1>2, <2>1, <2>5, <3>2 DEF FieldOf
    <3> QED BY <3>1, <3>2
  <2> QED BY <2>1, <2>2, <2>6 DEF Fields
<1>7. ASSUME NEW m \in Messages, Pass(m) PROVE Fields'
  <2>1. Working(m) /\ Step(m) \notin {"handler", "publish", "write"} /\ at'[m] = Tail(at[m]) /\ seen' = seen
    BY <1>7 DEF Pass, TypeOK
  <2>2. Step(m) # Last(kind) BY <2>1 DEF Last
  <2>3. /\ at[m] \in Ways(kind) /\ at'[m] \notin Markers
        /\ Without(at[m], "middleware") => Step(m) # "middleware" /\ Without(at'[m], "middleware")
        /\ Ahead(at[m]) /\ Step(m) # "middleware" => Ahead(at'[m])
    <3>1. at[m] \in Ways(kind) /\ Tail(at[m]) \in Ways(kind) BY <2>1, <2>2, WorkingWay
    <3>2. /\ Without(at[m], "middleware") => Head(at[m]) # "middleware" /\ Without(Tail(at[m]), "middleware")
          /\ Ahead(at[m]) /\ Head(at[m]) # "middleware" => Ahead(Tail(at[m]))
      BY <3>1, Rest
    <3>3. Tail(at[m]) \notin Markers BY <3>1, Rest
    <3> QED BY <2>1, <3>1, <3>2, <3>3 DEF Step
  <2>4. Working(m)' /\ at'[m] # <<"queued">> BY <2>3 DEF Working, Markers
  <2>5. Moves(m) BY <1>7, MovesOrTakes
  <2>6. seen' = [seen EXCEPT ![m] = seen'[m]] /\ seen'[m] = seen[m] BY <2>1 DEF TypeOK
  <2>7. kind' = kind /\ route' = route /\ near' = near BY <2>5 DEF Moves, setup
  <2>8. CASE Step(m) # "middleware"
    <3>1. box' = box BY <1>7, <2>8 DEF Pass
    <3>2. FieldOf(m)' BY <2>1, <2>3, <2>4, <2>5, <2>6, <2>8, <3>1, OwnFieldKept
    <3>3. \A d \in Messages : d # m => FieldOf(d)' BY <2>5, <2>6, <3>1, OthersField
    <3> QED BY <2>7, <3>1, <3>2, <3>3 DEF Fields
  <2>9. CASE Step(m) = "middleware"
    <3>1. box' = SetField(m) BY <1>7, <2>9 DEF Pass
    <3>2. route.middleware BY <1>1, <1>2, <2>1, <2>3, <2>9 DEF FieldOf
    <3>3. \A d \in Messages : d # m => FieldOf(d)' BY <2>5, <2>6, <3>1, <3>2, OthersField
    <3>4. BoxOf(kind, m) \in Messages \cup {Nobody} BY DEF BoxOf
    <3>5. box'[BoxOf(kind, m)] = m BY <3>1, <3>4 DEF SetField, TypeOK
    <3>6. FieldOf(m)' BY <1>2, <2>4, <2>6, <2>7, <3>2, <3>5 DEF FieldOf, Own
    <3> QED BY <2>7, <3>2, <3>3, <3>6 DEF Fields
  <2> QED BY <2>8, <2>9
<1>8. ASSUME NEW m \in Messages, Fail(m) PROVE Fields'
  <2>1. Moves(m) BY <1>8, MovesOrTakes
  <2>2. ~Working(m)' /\ at'[m] # <<"queued">> BY <1>4, <1>8 DEF Fail
  <2>3. seen' = [seen EXCEPT ![m] = seen'[m]] /\ seen'[m] = seen[m] BY <1>8 DEF TypeOK, Fail
  <2>4. FieldOf(m)' BY <2>1, <2>2, <2>3, OwnFieldKept
  <2>5. box' = box \/ (route.middleware /\ box' = SetField(m))
    <3>1. CASE Step(m) # "middleware" BY <1>8, <3>1 DEF Fail
    <3>2. CASE Step(m) = "middleware"
      <4>1. Working(m) /\ at[m] \in Ways(kind) BY <1>8, WorkingWay DEF Fail
      <4>2. ~Without(at[m], "middleware") BY <3>2, <4>1, Rest DEF Step
      <4>3. route.middleware BY <1>2, <4>1, <4>2 DEF FieldOf
      <4> QED BY <1>8, <4>3 DEF Fail
    <3> QED BY <3>1, <3>2
  <2>6. \A d \in Messages : d # m => FieldOf(d)' BY <2>1, <2>3, <2>5, OthersField
  <2>7. route' = route BY <2>1 DEF Moves, setup
  <2> QED BY <2>4, <2>5, <2>6, <2>7 DEF Fields
<1>9. ASSUME NEW m \in Messages, HandlerReturns(m) \/ HandlerFails(m) \/ HandlerForwards(m)
      PROVE  Fields'
  <2>1. Handled(m) BY <1>9 DEF HandlerReturns, HandlerFails, HandlerForwards
  <2>2. Moves(m) BY <1>9, MovesOrTakes
  <2>3. BoxOf(kind, m) \in Messages \cup {Nobody} BY DEF BoxOf
  <2>4. seen'[m] = box[BoxOf(kind, m)] /\ box' = box /\ seen' = [seen EXCEPT ![m] = seen'[m]]
    BY <2>1 DEF Handled, TypeOK
  <2>5. Working(m) /\ at[m] \in Ways(kind) /\ Step(m) = "handler" BY <2>1, WorkingWay DEF Handled
  <2>6. ~Ahead(at[m]) BY <2>5, Rest DEF Step
  <2>7. kind' = kind /\ route' = route /\ near' = near BY <2>2 DEF Moves, setup
  <2>8. /\ at'[m] # <<"queued">>
        /\ Working(m)' /\ Without(at[m], "middleware") => Without(at'[m], "middleware")
    <3>1. CASE HandlerFails(m) BY <1>4, <3>1 DEF HandlerFails
    <3>2. CASE HandlerForwards(m) BY <1>4, <3>2 DEF HandlerForwards
    <3>3. CASE HandlerReturns(m) /\ kind \in Subscribers
      BY <3>3 DEF HandlerReturns, TypeOK, Working
    <3>4. CASE HandlerReturns(m) /\ kind \notin Subscribers
      <4>1. at'[m] = Tail(at[m]) BY <3>4 DEF HandlerReturns, TypeOK
      <4>2. Step(m) # Last(kind) BY <1>1, <2>5, <3>4 DEF Last, AllKinds
      <4>3. Tail(at[m]) \in Ways(kind) BY <2>5, <4>2, WorkingWay
      <4>4. Tail(at[m]) \notin Markers BY <4>3, Rest
      <4>5. Without(at[m], "middleware") => Without(Tail(at[m]), "middleware") BY <2>5, Rest
      <4> QED BY <4>1, <4>4, <4>5 DEF Markers
    <3> QED BY <1>9, <3>1, <3>2, <3>3, <3>4
  <2>9. FieldOf(m)'
    <3>1. CASE route.middleware
      <4>1. Own(m, box[BoxOf(kind, m)]) BY <1>2, <2>5, <2>6, <3>1 DEF FieldOf
      <4>2. Own(m, seen'[m]) /\ Own(m, box'[BoxOf(kind, m)]) BY <2>4, <4>1
      <4> QED BY <2>7, <2>8, <3>1, <4>2 DEF FieldOf, Own
    <3>2. CASE ~route.middleware
      <4>1. Without(at[m], "middleware") BY <1>2, <2>5, <3>2 DEF FieldOf
      <4>2. seen'[m] = Nobody BY <2>3, <2>4, <3>2 DEF Fields
      <4> QED BY <2>7, <2>8, <3>2, <4>1, <4>2 DEF FieldOf
    <3> QED BY <3>1, <3>2
  <2>10. \A d \in Messages : d # m => FieldOf(d)' BY <2>2, <2>4, OthersField
  <2> QED BY <2>4, <2>7, <2>9, <2>10 DEF Fields
<1>10. ASSUME NEW m \in Messages,
              Publish(m) \/ PublishRefused(m) \/ Write(m) \/ WriteCookieFails(m) \/ WritePattern(m) \/ Report(m)
       PROVE  Fields'
  <2>1. Moves(m) BY <1>10, MovesOrTakes
  <2>2. UNCHANGED <<box, seen>>
    BY <1>10 DEF Publish, PublishRefused, Write, WriteCookieFails, WritePattern, Report
  <2>3. ~Working(m)' /\ at'[m] # <<"queued">>
    <3>1. CASE Publish(m) \/ Write(m) BY <1>5, <3>1 DEF Publish, Write
    <3>2. CASE PublishRefused(m) \/ WriteCookieFails(m) BY <1>4, <3>2 DEF PublishRefused, WriteCookieFails
    <3>3. CASE WritePattern(m) \/ Report(m) BY <1>4, <3>3 DEF WritePattern, Report
    <3> QED BY <1>10, <3>1, <3>2, <3>3
  <2> QED BY <1>3, <2>1, <2>2, <2>3
<1>11. CASE UNCHANGED vars BY <1>11 DEF vars, Fields, FieldOf, Working, Own
<1> QED BY <1>6, <1>7, <1>8, <1>9, <1>10, <1>11 DEF Next

LEMMA FieldInit == Init => Met /\ Fields
<1> SUFFICES ASSUME Init PROVE Met /\ Fields OBVIOUS
<1>1. \A m \in Messages : at[m] = <<"queued">> /\ seen[m] = Unread BY DEF Init
<1>2. \A b \in Messages \cup {Nobody} : box[b] = Nobody BY DEF Init
<1>3. Met BY <1>1 DEF Met, Active
<1>4. \A m \in Messages : FieldOf(m) BY <1>1 DEF FieldOf, Working
<1> QED BY <1>2, <1>3, <1>4 DEF Fields

\* What a handler reads is its own message's field, but for the ROUTER server,
\* where it may be that of a request dispatched at the same time.
THEOREM OwnFieldHolds == Spec => []OwnField
<1>1. Init => FieldInv BY TypeInit, FieldInit DEF FieldInv
<1>2. FieldInv /\ [Next]_vars => FieldInv'
  BY TypeStep, PendingStep, MetStep, FieldsStep DEF FieldInv
<1>3. FieldInv => OwnField
  <2> SUFFICES ASSUME FieldInv, NEW m \in Messages, seen[m] # Unread
               PROVE  IF ~route.middleware THEN seen[m] = Nobody
                      ELSE seen[m] = m \/ (kind = "zmqRouter" /\ seen[m] \in near[m])
    BY DEF OwnField
  <2>1. FieldOf(m) BY DEF FieldInv, Fields
  <2> QED BY <2>1 DEF FieldOf, Own
<1> QED BY <1>1, <1>2, <1>3, PTL DEF Spec

-----------------------------------------------------------------------------
(***************************************************************************)
(* Answers and reports.                                                    *)
(***************************************************************************)
\* The names of a log, place by place.
LEMMA NamesOf ==
  ASSUME NEW l \in Seq(OutletNames \X Results)
  PROVE  /\ Names(l) \in Seq(OutletNames) /\ Len(Names(l)) = Len(l) /\ DOMAIN Names(l) = DOMAIN l
         /\ \A i \in DOMAIN l : Names(l)[i] = l[i][1]
<1>1. DOMAIN l = 1 .. Len(l) /\ Len(l) \in Nat OBVIOUS
<1>2. \A i \in 1 .. Len(l) : l[i][1] \in OutletNames OBVIOUS
<1>3. Names(l) = [i \in 1 .. Len(l) |-> l[i][1]] BY <1>1 DEF Names
<1> QED BY <1>1, <1>2, <1>3

\* An attempt adds its name at the end.
LEMMA OneMore ==
  ASSUME NEW l \in Seq(OutletNames \X Results), NEW x \in OutletNames, NEW y \in Results
  PROVE  Names(Append(l, <<x, y>>)) = Append(Names(l), x)
<1> DEFINE e == <<x, y>>
<1>1. e \in OutletNames \X Results /\ e[1] = x OBVIOUS
<1> HIDE DEF e
<1>2. Append(l, e) \in Seq(OutletNames \X Results) /\ Len(Append(l, e)) = Len(l) + 1
      /\ \A i \in 1 .. Len(l) : Append(l, e)[i] = l[i]
      /\ Append(l, e)[Len(l) + 1] = e
  BY <1>1
<1>3. /\ Names(Append(l, e)) \in Seq(OutletNames) /\ Len(Names(Append(l, e))) = Len(l) + 1
      /\ \A i \in 1 .. (Len(l) + 1) : Names(Append(l, e))[i] = Append(l, e)[i][1]
  <2> DEFINE k == Append(l, e)
  <2>1. k \in Seq(OutletNames \X Results) /\ Len(k) = Len(l) + 1 /\ DOMAIN k = 1 .. (Len(l) + 1)
    BY <1>2
  <2> HIDE DEF k
  <2>2. /\ Names(k) \in Seq(OutletNames) /\ Len(Names(k)) = Len(l) + 1
        /\ \A i \in 1 .. (Len(l) + 1) : Names(k)[i] = k[i][1]
    BY <2>1, NamesOf
  <2> QED BY <2>2 DEF k
<1>4. Names(l) \in Seq(OutletNames) /\ Len(Names(l)) = Len(l) /\ Len(l) \in Nat
      /\ \A i \in 1 .. Len(l) : Names(l)[i] = l[i][1]
  BY NamesOf
<1>5. /\ Append(Names(l), x) \in Seq(OutletNames) /\ Len(Append(Names(l), x)) = Len(l) + 1
      /\ \A i \in 1 .. Len(l) : Append(Names(l), x)[i] = Names(l)[i]
      /\ Append(Names(l), x)[Len(l) + 1] = x
  BY <1>4
<1>6. ASSUME NEW i \in 1 .. (Len(l) + 1) PROVE Names(Append(l, e))[i] = Append(Names(l), x)[i]
  <2>1. CASE i \in 1 .. Len(l) BY <1>2, <1>3, <1>4, <1>5, <2>1
  <2>2. CASE i = Len(l) + 1 BY <1>1, <1>2, <1>3, <1>5, <2>2
  <2> QED BY <1>4, <2>1, <2>2
<1>7. Names(Append(l, e)) = Append(Names(l), x) BY <1>3, <1>5, <1>6
<1> QED BY <1>7 DEF e

\* To move an outlet from the queue to the log changes nothing of the two together.
LEMMA OneAcross ==
  ASSUME NEW S, NEW u \in Seq(S), NEW t \in Seq(S), t # <<>>
  PROVE  Append(u, Head(t)) \o Tail(t) = u \o t
OBVIOUS

\* What the tail of a queue is made of.
LEMMA TailIn ==
  ASSUME NEW S, NEW t \in Seq(S), t # <<>>
  PROVE  /\ Head(t) \in S /\ Tail(t) \in Seq(S) /\ Len(Tail(t)) + 1 = Len(t)
         /\ Head(t) = t[1] /\ 1 \in DOMAIN t
         /\ \A i \in DOMAIN Tail(t) : i + 1 \in DOMAIN t /\ Tail(t)[i] = t[i + 1]
OBVIOUS

\* An attempt of what is first in the queue.
LEMMA AttemptKept ==
  ASSUME NEW named, NEW t \in Seq(OutletNames), NEW o, NEW l \in Seq(OutletNames \X Results),
         NEW r \in {"sent", "refused"},
         Record(named, <<"settling">>, t, o, l), t # <<>>, t # <<"pattern">>,
         Head(t) = "onError" => r = "sent"
  PROVE  Record(named, IF Tail(t) = <<>> THEN <<"done">> ELSE <<"settling">>, Tail(t), o,
                Append(l, <<Head(t), r>>))
<1> DEFINE k == Append(l, <<Head(t), r>>)
           q == IF Tail(t) = <<>> THEN <<"done">> ELSE <<"settling">>
<1>1. /\ Names(l) \o t \in Plans(o, named)
      /\ \A i \in DOMAIN t : t[i] \notin {"pattern", "response"}
      /\ \A i \in DOMAIN l : Entry(l[i], Len(l) + Len(t))
  BY DEF Record, Queue
<1>2. /\ Head(t) \in OutletNames /\ Tail(t) \in Seq(OutletNames) /\ Len(Tail(t)) + 1 = Len(t)
      /\ Head(t) = t[1] /\ 1 \in DOMAIN t
      /\ \A i \in DOMAIN Tail(t) : i + 1 \in DOMAIN t /\ Tail(t)[i] = t[i + 1]
  BY TailIn
<1>3. Names(k) = Append(Names(l), Head(t)) BY <1>2, OneMore DEF Results
<1>4. Names(k) \o Tail(t) = Names(l) \o t
  <2>1. Names(l) \in Seq(OutletNames) BY NamesOf
  <2> QED BY <1>3, <2>1, OneAcross
<1>5. Queue(Tail(t), o, k) BY <1>1, <1>2 DEF Queue
<1>6. Entry(<<Head(t), r>>, Len(l) + Len(t))
  <2>1. Head(t) \notin {"pattern", "response"} BY <1>1, <1>2
  <2> QED BY <2>1 DEF Entry
<1>7. \A i \in DOMAIN k : Entry(k[i], Len(k) + Len(Tail(t)))
  <2>1. <<Head(t), r>> \in OutletNames \X Results BY <1>2 DEF Results
  <2>2. /\ Len(k) = Len(l) + 1 /\ DOMAIN k = 1 .. (Len(l) + 1) /\ DOMAIN l = 1 .. Len(l)
        /\ Len(l) \in Nat /\ k[Len(l) + 1] = <<Head(t), r>>
        /\ \A i \in 1 .. Len(l) : k[i] = l[i]
    BY <2>1
  <2>3. Len(k) + Len(Tail(t)) = Len(l) + Len(t) BY <1>2, <2>2
  <2> HIDE DEF k
  <2>4. ASSUME NEW i \in DOMAIN k PROVE Entry(k[i], Len(l) + Len(t))
    <3>1. CASE i \in 1 .. Len(l) BY <1>1, <2>2, <3>1
    <3>2. CASE i = Len(l) + 1 BY <1>6, <2>2, <3>2
    <3> QED BY <2>2, <3>1, <3>2
  <2> QED BY <2>3, <2>4
<1>8. (q = <<"done">>) <=> (Tail(t) = <<>>) OBVIOUS
<1>9. q \in {<<"settling">>, <<"done">>} OBVIOUS
<1> HIDE DEF k, q
<1>10. Record(named, q, Tail(t), o, k) BY <1>1, <1>4, <1>5, <1>7, <1>8, <1>9 DEF Record
<1> QED BY <1>10 DEF k, q

\* Tuples joined, element by element.
LEMMA Two == ASSUME NEW a, NEW b PROVE <<a>> \o <<b>> = <<a, b>>
<1> DEFINE S == {a, b}  x == <<a>>  y == <<b>>  z == x \o y  w == <<a, b>>
<1>1. x \in Seq(S) /\ y \in Seq(S) /\ Len(x) = 1 /\ Len(y) = 1 /\ x[1] = a /\ y[1] = b OBVIOUS
<1>2. w \in Seq(S) /\ Len(w) = 2 /\ w[1] = a /\ w[2] = b OBVIOUS
<1> HIDE DEF S, x, y
<1>3. x \in Seq(S) /\ y \in Seq(S) BY <1>1
<1>4. /\ x \o y \in Seq(S) /\ Len(x \o y) = Len(x) + Len(y)
      /\ \A i \in 1 .. Len(x) : (x \o y)[i] = x[i]
      /\ \A i \in 1 .. Len(y) : (x \o y)[Len(x) + i] = y[i]
  BY ONLY <1>3
<1> HIDE DEF z, w
<1>5. /\ z \in Seq(S) /\ Len(z) = Len(x) + Len(y)
      /\ \A i \in 1 .. Len(x) : z[i] = x[i]
      /\ \A i \in 1 .. Len(y) : z[Len(x) + i] = y[i]
  BY <1>4 DEF z
<1>6. Len(z) = 2 /\ z[1] = a BY <1>1, <1>5
<1>7. z[2] = b
  <2>1. 1 \in 1 .. Len(y) /\ Len(x) + 1 = 2 BY <1>1
  <2>2. z[Len(x) + 1] = y[1] BY <1>5, <2>1
  <2> QED BY <1>1, <2>1, <2>2
<1>8. \A i \in 1 .. 2 : z[i] = w[i]
  <2>1. \A i \in 1 .. 2 : i = 1 \/ i = 2 OBVIOUS
  <2> QED BY <1>2, <1>6, <1>7, <2>1
<1>9. z = w
  <2>1. z \in Seq(S) /\ w \in Seq(S) /\ Len(z) = Len(w) /\ \A i \in 1 .. Len(z) : z[i] = w[i]
    BY <1>2, <1>5, <1>6, <1>8
  <2> QED BY ONLY <2>1
<1> QED BY <1>9 DEF x, y, z, w

LEMMA Three == ASSUME NEW a, NEW b, NEW c PROVE <<a>> \o <<b>> \o <<c>> = <<a, b, c>>
<1> DEFINE S == {a, b, c}  x == <<a, b>>  y == <<c>>  z == x \o y  w == <<a, b, c>>
<1>1. x \in Seq(S) /\ y \in Seq(S) /\ Len(x) = 2 /\ Len(y) = 1 /\ x[1] = a /\ x[2] = b /\ y[1] = c OBVIOUS
<1>2. w \in Seq(S) /\ Len(w) = 3 /\ w[1] = a /\ w[2] = b /\ w[3] = c OBVIOUS
<1> HIDE DEF S, x, y
<1>3. x \in Seq(S) /\ y \in Seq(S) BY <1>1
<1>4. /\ x \o y \in Seq(S) /\ Len(x \o y) = Len(x) + Len(y)
      /\ \A i \in 1 .. Len(x) : (x \o y)[i] = x[i]
      /\ \A i \in 1 .. Len(y) : (x \o y)[Len(x) + i] = y[i]
  BY ONLY <1>3
<1> HIDE DEF z, w
<1>5. /\ z \in Seq(S) /\ Len(z) = Len(x) + Len(y)
      /\ \A i \in 1 .. Len(x) : z[i] = x[i]
      /\ \A i \in 1 .. Len(y) : z[Len(x) + i] = y[i]
  BY <1>4 DEF z
<1>6. Len(z) = 3 /\ z[1] = a /\ z[2] = b BY <1>1, <1>5
<1>7. z[3] = c
  <2>1. 1 \in 1 .. Len(y) /\ Len(x) + 1 = 3 BY <1>1
  <2>2. z[Len(x) + 1] = y[1] BY <1>5, <2>1
  <2> QED BY <1>1, <2>1, <2>2
<1>8. \A i \in 1 .. 3 : z[i] = w[i]
  <2>1. \A i \in 1 .. 3 : i = 1 \/ i = 2 \/ i = 3 OBVIOUS
  <2> QED BY <1>2, <1>6, <1>7, <2>1
<1>9. z = w
  <2>1. z \in Seq(S) /\ w \in Seq(S) /\ Len(z) = Len(w) /\ \A i \in 1 .. Len(z) : z[i] = w[i]
    BY <1>2, <1>5, <1>6, <1>8
  <2> QED BY ONLY <2>1
<1>10. x \o y = w BY <1>9 DEF z
<1>11. x = <<a>> \o <<b>> BY Two DEF x
<1> QED BY <1>10, <1>11 DEF y, w

\* The outlets of a failure are a plan for it.
LEMMA ReplyPlan ==
  ASSUME NEW r \in Routes, NEW named \in BOOLEAN, NEW s, s # "publish"
  PROVE  /\ ReplyOutlets(r, named, s)
              = If(named, "errorReply") \o If(r.deadLetter, "deadLetter") \o <<"onError">>
         /\ \A i \in DOMAIN ReplyOutlets(r, named, s) :
              ReplyOutlets(r, named, s)[i] \in {"errorReply", "deadLetter", "onError"}
<1> DEFINE S == {"errorReply", "deadLetter", "onError"}
           a == If(named, "errorReply")  b == If(r.deadLetter, "deadLetter")
<1>1. ReplyOutlets(r, named, s) = a \o b \o <<"onError">> BY DEF ReplyOutlets, If
<1>2. r.deadLetter \in BOOLEAN BY DEF Routes
<1>3. a \in Seq(S) BY IfStep
<1>4. b \in Seq(S) BY <1>2, IfStep
<1>5. <<"onError">> \in Seq(S) OBVIOUS
<1> HIDE DEF S, a, b
<1>6. a \o b \o <<"onError">> \in Seq(S) BY <1>3, <1>4, <1>5
<1>7. \A i \in DOMAIN (a \o b \o <<"onError">>) : (a \o b \o <<"onError">>)[i] \in S BY <1>6
<1> QED BY <1>1, <1>7 DEF S, a, b

\* Before the first attempt the plan is the queue.
LEMMA FirstAttempt == ASSUME NEW t \in Seq(OutletNames) PROVE Names(<<>>) \o t = t
<1>1. Names(<<>>) = <<>> BY DEF Names
<1> QED BY <1>1

\* A message whose plan is queued in whole.
LEMMA Reported ==
  ASSUME NEW named, NEW t \in Seq(OutletNames), NEW o,
         t \in Plans(o, named), Queue(t, o, <<>>)
  PROVE  Record(named, IF t = <<>> THEN <<"done">> ELSE <<"settling">>, t, o, <<>>)
<1> DEFINE q == IF t = <<>> THEN <<"done">> ELSE <<"settling">>
<1>1. (q = <<"done">>) <=> (t = <<>>) OBVIOUS
<1>2. q \in {<<"settling">>, <<"done">>} OBVIOUS
<1> HIDE DEF q
<1>3. Names(<<>>) \o t \in Plans(o, named) BY FirstAttempt
<1>4. Record(named, q, t, o, <<>>) BY <1>1, <1>2, <1>3 DEF Record
<1> QED BY <1>4 DEF q

\* A step that fails queues a plan of the failure.
LEMMA FailPlan ==
  ASSUME kind \in AllKinds, route \in Routes, NEW m \in Messages, NEW s \in StepNames(kind),
         NEW match, s \notin {"publish", "write"}
  PROVE  LET t == Outlets(kind, route, m \in replyTo, s, match)
         IN  t \in Plans(Failing(m, s), m \in replyTo) /\ Queue(t, Failing(m, s), <<>>)
<1> DEFINE t == Outlets(kind, route, m \in replyTo, s, match)
<1>1. CASE kind = "rest"
  <2>1. Failing(m, s) = "failed" /\ kind \notin Repliers
    BY <1>1 DEF Failing, StepNames, Subscribers, Repliers
  <2>2. t = <<"pattern">> \/ t = <<"error">> BY <1>1 DEF Outlets, RestOutlets, Repliers
  <2>3. t \in Plans("failed", m \in replyTo) BY <1>1, <2>1, <2>2 DEF Plans, RestPlans
  <2>4. Queue(t, "failed", <<>>) BY <1>1, <2>2 DEF Queue
  <2> QED BY <2>1, <2>3, <2>4
<1>2. CASE kind \in Repliers
  <2>1. kind # "rest" /\ s # "match" /\ kind # "mqtt5Subscribe"
    BY <1>2 DEF StepNames, Subscribers, Repliers
  <2>2. Failing(m, s) = "failed" BY <2>1 DEF Failing
  <2>3. t = ReplyOutlets(route, m \in replyTo, s) BY <1>2, <2>1 DEF Outlets
  <2>5. (m \in replyTo) \in BOOLEAN OBVIOUS
  <2>4. /\ t = If(m \in replyTo, "errorReply") \o If(route.deadLetter, "deadLetter") \o <<"onError">>
        /\ \A i \in DOMAIN t : t[i] \in {"errorReply", "deadLetter", "onError"}
    BY <2>3, <2>5, ReplyPlan
  <2> HIDE DEF t
  <2>6. t \in Plans("failed", m \in replyTo) BY <1>2, <2>4 DEF Plans, ReplierPlans
  <2>7. Queue(t, "failed", <<>>) BY <2>4 DEF Queue
  <2> QED BY <2>2, <2>6, <2>7 DEF t
<1>3. CASE kind \in Subscribers
  <2>1. kind # "rest" /\ kind \notin Repliers BY <1>3 DEF Subscribers, Repliers
  <2>2. t = SubscribeOutlets(route, s, match) BY <2>1 DEF Outlets
  <2>3. CASE s = "match"
    <3>1. t = <<>> /\ Failing(m, s) = "ignored" BY <2>2, <2>3 DEF SubscribeOutlets, Failing
    <3> HIDE DEF t
    <3> QED BY <2>1, <3>1 DEF Plans, SubscriberPlans, Queue, t
  <2>4. CASE s # "match"
    <3>1. t \in {<<"onError">>, <<"errorChannel">>, <<"deadLetter">>}
      BY <2>2, <2>4 DEF SubscribeOutlets
    <3>2. s = "credentials" => t = <<"onError">> BY <2>2 DEF SubscribeOutlets
    <3>3. Failing(m, s) = "failed" \/ (Failing(m, s) = "denied" /\ s = "credentials")
      BY <2>4 DEF Failing
    <3> HIDE DEF t
    <3>4. t \in SubscriberPlans(Failing(m, s)) BY <3>1, <3>2, <3>3 DEF SubscriberPlans, Reports
    <3>5. Queue(t, Failing(m, s), <<>>) BY <3>1 DEF Queue
    <3> QED BY <2>1, <3>4, <3>5 DEF Plans, t
  <2> QED BY <2>3, <2>4
<1> QED BY <1>1, <1>2, <1>3 DEF AllKinds

\* So does a handler that forwards.
LEMMA ForwardPlan ==
  ASSUME kind \in AllKinds, kind \notin Subscribers, NEW named \in BOOLEAN
  PROVE  LET t == ForwardOutlets(kind, named)
         IN  t \in Plans("forwarded", named) /\ Queue(t, "forwarded", <<>>)
<1>1. CASE kind = "rest"
  BY <1>1 DEF ForwardOutlets, Plans, RestPlans, Queue, Repliers
<1>2. CASE kind \in Repliers
  <2>1. ForwardOutlets(kind, named) = If(named, "forward") \o <<"onError">>
    BY <1>2 DEF ForwardOutlets, Repliers
  <2> DEFINE t == ForwardOutlets(kind, named)
  <2>2. t = <<"forward", "onError">> \/ t = <<"onError">>
    <3> HIDE DEF t
    <3>1. t = If(named, "forward") \o <<"onError">> BY <2>1 DEF t
    <3>2. CASE named BY <3>1, <3>2, Two DEF If
    <3>3. CASE ~named BY <3>1, <3>3 DEF If
    <3> QED BY <3>2, <3>3
  <2> HIDE DEF t
  <2>3. Queue(t, "forwarded", <<>>) BY <2>2 DEF Queue
  <2>4. t \in Plans("forwarded", named) BY <1>2, <2>1 DEF Plans, ReplierPlans, t
  <2> QED BY <2>3, <2>4 DEF t
<1> QED BY <1>1, <1>2 DEF AllKinds

\* Each step keeps to the plan.
LEMMA RecordsStep == TypeOK /\ Pending /\ Records /\ [Next]_vars => Records'
<1> SUFFICES ASSUME TypeOK, Pending, Records, [Next]_vars PROVE Records' OBVIOUS
<1> USE DEF setup
<1>1. /\ kind \in AllKinds /\ route \in Routes /\ \A m : (m \in replyTo) \in BOOLEAN
      /\ at \in [Messages -> Markers \cup Ways(kind)]
      /\ todo \in [Messages -> Seq(OutletNames)] /\ outcome \in [Messages -> Outcomes]
      /\ log \in [Messages -> Seq(OutletNames \X Results)]
  BY Server DEF TypeOK
<1>2. ASSUME NEW m \in Messages, NEW q, NEW t, NEW o, NEW l, UNCHANGED setup,
             at' = [at EXCEPT ![m] = q], todo' = [todo EXCEPT ![m] = t],
             outcome' = [outcome EXCEPT ![m] = o], log' = [log EXCEPT ![m] = l],
             Record(m \in replyTo, q, t, o, l)
      PROVE  Records'
  <2>1. ASSUME NEW d \in Messages PROVE Record(d \in replyTo, at[d], todo[d], outcome[d], log[d])'
    <3>1. CASE d = m
      <4>1. at'[d] = q /\ todo'[d] = t /\ outcome'[d] = o /\ log'[d] = l BY <1>1, <1>2, <3>1
      <4> QED BY <1>2, <3>1, <4>1
           DEF Record, Plans, ReplierPlans, RestPlans, SubscriberPlans, Queue
    <3>2. CASE d # m
      <4>1. at'[d] = at[d] /\ todo'[d] = todo[d] /\ outcome'[d] = outcome[d] /\ log'[d] = log[d]
        BY <1>1, <1>2, <3>2
      <4>2. Record(d \in replyTo, at[d], todo[d], outcome[d], log[d]) BY DEF Records
      <4> QED BY <1>2, <4>1, <4>2
           DEF Record, Plans, ReplierPlans, RestPlans, SubscriberPlans, Queue
    <3> QED BY <3>1, <3>2
  <2> QED BY <2>1 DEF Records
<1>3. ASSUME NEW m \in Messages, at[m] \notin {<<"settling">>, <<"done">>}
      PROVE  outcome[m] = "open" /\ todo[m] = <<>> /\ log[m] = <<>>
  BY <1>3 DEF Records, Record
<1>4. ASSUME NEW m \in Messages, NEW q, q \notin Markers, at[m] \notin {<<"settling">>, <<"done">>},
             UNCHANGED setup, at' = [at EXCEPT ![m] = q], UNCHANGED <<todo, outcome, log>>
      PROVE  Records'
  <2> DEFINE t == todo[m]  o == outcome[m]  l == log[m]
  <2>1. todo' = [todo EXCEPT ![m] = t] /\ outcome' = [outcome EXCEPT ![m] = o] /\ log' = [log EXCEPT ![m] = l]
    BY <1>1, <1>4
  <2>2. Record(m \in replyTo, q, t, o, l) BY <1>3, <1>4 DEF Record, Markers
  <2> HIDE DEF t, o, l
  <2> QED BY <1>2, <1>4, <2>1, <2>2
<1>5. ASSUME NEW m \in Messages, NEW t \in Seq(OutletNames), NEW o, UNCHANGED setup, UNCHANGED log,
             at[m] \notin {<<"settling">>, <<"done">>}, ReportTo(m, t),
             outcome' = [outcome EXCEPT ![m] = o],
             t \in Plans(o, m \in replyTo), Queue(t, o, <<>>)
      PROVE  Records'
  <2>1. log' = [log EXCEPT ![m] = <<>>] BY <1>1, <1>3, <1>5
  <2>2. Record(m \in replyTo, IF t = <<>> THEN <<"done">> ELSE <<"settling">>, t, o, <<>>)
    BY <1>5, Reported
  <2> QED BY <1>2, <1>5, <2>1, <2>2 DEF ReportTo
<1>6. ASSUME NEW m \in Messages, Working(m) PROVE at[m] \notin {<<"settling">>, <<"done">>}
  BY <1>6 DEF Working
<1>7. ASSUME NEW m \in Messages, Take(m) PROVE Records'
  <2>1. Steps \notin Markers BY <1>1, StepsWay, Rest DEF Steps
  <2>2. at[m] \notin {<<"settling">>, <<"done">>} BY <1>7 DEF Take
  <2>3. at' = [at EXCEPT ![m] = Steps] /\ UNCHANGED setup /\ UNCHANGED <<todo, outcome, log>>
    BY <1>7 DEF Take
  <2> QED BY <1>4, <2>1, <2>2, <2>3
<1>8. ASSUME NEW m \in Messages, Working(m), Step(m) # Last(kind) PROVE Tail(at[m]) \notin Markers
  BY <1>8, WorkingWay, Rest
<1>9. ASSUME NEW m \in Messages, Pass(m) PROVE Records'
  <2>1. Step(m) # Last(kind) BY <1>9 DEF Pass, Last
  <2> QED BY <1>4, <1>6, <1>8, <1>9, <2>1 DEF Pass
<1>10. ASSUME NEW m \in Messages, Fail(m) PROVE Records'
  <2>1. PICK match \in Matches(route) :
          ReportTo(m, Outlets(kind, route, m \in replyTo, Step(m), match))
    BY <1>10 DEF Fail
  <2> DEFINE t == Outlets(kind, route, m \in replyTo, Step(m), match)
  <2>2. t \in Seq(OutletNames) BY <1>1, OutletsType
  <2>3. Step(m) \in StepNames(kind) /\ Step(m) \notin {"publish", "write"} BY <1>10, WorkingWay DEF Fail
  <2>4. t \in Plans(Failing(m, Step(m)), m \in replyTo) /\ Queue(t, Failing(m, Step(m)), <<>>)
    BY <1>1, <2>3, FailPlan
  <2>5. /\ at[m] \notin {<<"settling">>, <<"done">>} /\ ReportTo(m, t) /\ UNCHANGED setup /\ UNCHANGED log
        /\ outcome' = [outcome EXCEPT ![m] = Failing(m, Step(m))]
    BY <1>6, <1>10, <2>1 DEF Fail
  <2> HIDE DEF t
  <2> QED BY <1>5, <2>2, <2>4, <2>5
<1>11. ASSUME NEW m \in Messages, HandlerReturns(m) PROVE Records'
  <2>1. CASE kind \in Subscribers
    <3>1. ReportTo(m, <<>>)
      <4>1. todo[m] = <<>> BY <1>3, <1>6, <1>11 DEF HandlerReturns, Handled
      <4> QED BY <1>1, <1>11, <2>1, <4>1 DEF HandlerReturns, ReportTo
    <3>2. <<>> \in Plans("handled", m \in replyTo)
      BY <2>1 DEF Plans, SubscriberPlans, Subscribers, Repliers
    <3>3. Queue(<<>>, "handled", <<>>) /\ <<>> \in Seq(OutletNames) BY DEF Queue
    <3>4. outcome' = [outcome EXCEPT ![m] = "handled"] BY <1>11, <2>1 DEF HandlerReturns
    <3> QED BY <1>5, <1>6, <1>11, <3>1, <3>2, <3>3, <3>4 DEF HandlerReturns, Handled
  <2>2. CASE kind \notin Subscribers
    <3>1. Step(m) # Last(kind) BY <1>1, <1>11, <2>2 DEF HandlerReturns, Handled, Last, AllKinds
    <3>2. Tail(at[m]) \notin Markers BY <1>8, <1>11, <3>1 DEF HandlerReturns, Handled
    <3>3. at' = [at EXCEPT ![m] = Tail(at[m])] BY <1>11, <2>2 DEF HandlerReturns
    <3>4. outcome' = outcome BY <1>1, <1>11, <2>2 DEF HandlerReturns
    <3> QED BY <1>4, <1>6, <1>11, <3>2, <3>3, <3>4 DEF HandlerReturns, Handled
  <2> QED BY <2>1, <2>2
<1>12. ASSUME NEW m \in Messages, HandlerFails(m) PROVE Records'
  <2>1. PICK match \in Matches(route) :
          ReportTo(m, Outlets(kind, route, m \in replyTo, "handler", match))
    BY <1>12 DEF HandlerFails
  <2> DEFINE t == Outlets(kind, route, m \in replyTo, "handler", match)
  <2>2. t \in Seq(OutletNames) BY <1>1, OutletsType
  <2>3. "handler" \in StepNames(kind) /\ Failing(m, "handler") = "failed" BY DEF StepNames, Failing
  <2>6. t \in Plans(Failing(m, "handler"), m \in replyTo) /\ Queue(t, Failing(m, "handler"), <<>>)
    BY <1>1, <2>3, FailPlan
  <2>4. t \in Plans("failed", m \in replyTo) /\ Queue(t, "failed", <<>>) BY <2>3, <2>6
  <2>5. /\ at[m] \notin {<<"settling">>, <<"done">>} /\ ReportTo(m, t) /\ UNCHANGED setup /\ UNCHANGED log
        /\ outcome' = [outcome EXCEPT ![m] = "failed"]
    BY <1>6, <1>12, <2>1 DEF HandlerFails, Handled
  <2> HIDE DEF t
  <2> QED BY <1>5, <2>2, <2>4, <2>5
<1>13. ASSUME NEW m \in Messages, HandlerForwards(m) PROVE Records'
  <2> DEFINE t == ForwardOutlets(kind, m \in replyTo)
  <2>2. t \in Seq(OutletNames) BY <1>1, OutletsType
  <2>4. t \in Plans("forwarded", m \in replyTo) /\ Queue(t, "forwarded", <<>>)
    BY <1>1, <1>13, ForwardPlan DEF HandlerForwards
  <2>5. /\ at[m] \notin {<<"settling">>, <<"done">>} /\ ReportTo(m, t) /\ UNCHANGED setup /\ UNCHANGED log
        /\ outcome' = [outcome EXCEPT ![m] = "forwarded"]
    BY <1>6, <1>13 DEF HandlerForwards, Handled
  <2> HIDE DEF t
  <2> QED BY <1>5, <2>2, <2>4, <2>5
<1>14. ASSUME NEW m \in Messages, NEW x \in OutletNames, NEW y \in Results, Working(m), Attempt(m, x, y)
       PROVE  log' = [log EXCEPT ![m] = <<<<x, y>>>>]
  <2>1. log[m] = <<>> BY <1>3, <1>6, <1>14
  <2> QED BY <1>14, <2>1 DEF Attempt
<1>15. ASSUME NEW x, NEW y PROVE Names(<<<<x, y>>>>) = <<x>>
  BY DEF Names
<1>16. ASSUME NEW m \in Messages, Publish(m) PROVE Records'
  <2>1. kind \in Repliers BY <1>16, WorkingWay DEF Publish, StepNames
  <2>2. todo' = [todo EXCEPT ![m] = <<>>] BY <1>1, <1>3, <1>6, <1>16 DEF Publish
  <2>3. CASE m \in replyTo
    <3> DEFINE l == <<<<"reply", "sent">>>>
    <3>1. log' = [log EXCEPT ![m] = l]
      BY <1>14, <1>16, <2>3 DEF Publish, OutletNames, Answers, Results
    <3>2. Names(l) \o <<>> = <<"reply">> BY <1>15
    <3>3. <<"reply">> \in Plans("handled", m \in replyTo) BY <2>1, <2>3 DEF Plans, ReplierPlans, If
    <3>4. \A i \in DOMAIN l : l[i] = <<"reply", "sent">> OBVIOUS
    <3>5. Entry(<<"reply", "sent">>, Len(l) + Len(<<>>)) BY DEF Entry
    <3> HIDE DEF l
    <3>6. Record(m \in replyTo, <<"done">>, <<>>, "handled", l)
      BY <3>2, <3>3, <3>4, <3>5 DEF Record, Queue
    <3> QED BY <1>2, <1>16, <2>2, <3>1, <3>6 DEF Publish, Settled
  <2>4. CASE m \notin replyTo
    <3>1. log' = [log EXCEPT ![m] = <<>>] BY <1>1, <1>3, <1>6, <1>16, <2>4 DEF Publish
    <3>4. <<>> \in Seq(OutletNames) OBVIOUS
    <3>2. Names(<<>>) \o <<>> = <<>> BY <3>4, FirstAttempt
    <3>3. <<>> \in Plans("handled", m \in replyTo) BY <2>1, <2>4 DEF Plans, ReplierPlans, If
    <3>6. Record(m \in replyTo, <<"done">>, <<>>, "handled", <<>>)
      BY <3>2, <3>3 DEF Record, Queue
    <3> QED BY <1>2, <1>16, <2>2, <3>1, <3>6 DEF Publish, Settled
  <2> QED BY <2>3, <2>4
<1>17. ASSUME NEW m \in Messages, PublishRefused(m) PROVE Records'
  <2>1. kind \in Repliers BY <1>17, WorkingWay DEF PublishRefused, StepNames
  <2> DEFINE l == <<<<"reply", "refused">>>>
             t == If(route.deadLetter, "deadLetter") \o <<"onError">>
             q == IF t = <<>> THEN <<"done">> ELSE <<"settling">>
  <2>2. log' = [log EXCEPT ![m] = l]
    BY <1>14, <1>17 DEF PublishRefused, OutletNames, Answers, Results
  <2>3. t = <<"deadLetter", "onError">> \/ t = <<"onError">>
    <3>1. CASE route.deadLetter BY <3>1, Two DEF If
    <3>2. CASE ~route.deadLetter BY <3>2 DEF If
    <3> QED BY <3>1, <3>2
  <2>4. Outlets(kind, route, TRUE, "publish", "none") = t
    <3>1. Outlets(kind, route, TRUE, "publish", "none") = ReplyOutlets(route, TRUE, "publish")
      BY <2>1 DEF Outlets, Repliers
    <3> DEFINE d == If(route.deadLetter, "deadLetter")
    <3>2. ReplyOutlets(route, TRUE, "publish") = <<>> \o d \o <<"onError">>
      BY DEF ReplyOutlets, If
    <3>3. route.deadLetter \in BOOLEAN BY <1>1 DEF Routes
    <3>4. d \in Seq(OutletNames) BY <3>3, IfStep DEF OutletNames, Reports
    <3>5. t = d \o <<"onError">> OBVIOUS
    <3> HIDE DEF d, t
    <3>6. <<>> \o d = d BY <3>4
    <3> QED BY <3>1, <3>2, <3>5, <3>6
  <2>5. at' = [at EXCEPT ![m] = q] /\ todo' = [todo EXCEPT ![m] = t]
    BY <1>17, <2>4 DEF PublishRefused, ReportTo
  <2>6. Names(l) = <<"reply">> BY <1>15
  <2>7. <<"reply">> \o t \in Plans("failed", m \in replyTo)
    <3>1. m \in replyTo BY <1>17 DEF PublishRefused
    <3>2. <<"reply">> \o t = If(m \in replyTo, "reply") \o If(route.deadLetter, "deadLetter") \o <<"onError">>
      <4>1. CASE route.deadLetter BY <3>1, <4>1 DEF If
      <4>2. CASE ~route.deadLetter BY <3>1, <4>2 DEF If
      <4> QED BY <4>1, <4>2
    <3> HIDE DEF t
    <3> QED BY <2>1, <3>2 DEF Plans, ReplierPlans
  <2>8. Queue(t, "failed", l)
    <3> HIDE DEF t
    <3> QED BY <2>3 DEF Queue
  <2>9. \A i \in DOMAIN l : l[i] = <<"reply", "refused">> OBVIOUS
  <2>10. \A n : Entry(<<"reply", "refused">>, n) BY DEF Entry
  <2>11. q = <<"settling">> /\ t # <<>>
    <3>1. t # <<>>
      <4> HIDE DEF t
      <4> QED BY <2>3
    <3> HIDE DEF t
    <3> QED BY <3>1
  <2> HIDE DEF t, l, q
  <2>12. Record(m \in replyTo, q, t, "failed", l)
    BY <2>6, <2>7, <2>8, <2>9, <2>10, <2>11 DEF Record
  <2>13. outcome' = [outcome EXCEPT ![m] = "failed"] /\ UNCHANGED setup BY <1>17 DEF PublishRefused
  <2> QED BY <1>2, <2>2, <2>5, <2>12, <2>13
<1>18. ASSUME NEW m \in Messages, Write(m) PROVE Records'
  <2>1. kind = "rest" /\ kind \notin Repliers BY <1>18, WorkingWay DEF Write, StepNames, Repliers
  <2>2. todo' = [todo EXCEPT ![m] = <<>>] BY <1>1, <1>3, <1>6, <1>18 DEF Write
  <2>3. PICK y \in {"sent", "refused"} : Attempt(m, "response", y) BY <1>18 DEF Write
  <2> DEFINE l == <<<<"response", y>>>>
  <2>4. log' = [log EXCEPT ![m] = l]
    BY <1>14, <1>18, <2>3 DEF Write, OutletNames, Answers, Results
  <2>5. Names(l) \o <<>> = <<"response">> BY <1>15
  <2>6. <<"response">> \in Plans("handled", m \in replyTo) BY <2>1 DEF Plans, RestPlans
  <2>7. \A i \in DOMAIN l : l[i] = <<"response", y>> OBVIOUS
  <2>8. Len(l) + Len(<<>>) = 1 OBVIOUS
  <2>9. Entry(<<"response", y>>, 1) BY DEF Entry
  <2> HIDE DEF l
  <2>10. Record(m \in replyTo, <<"done">>, <<>>, "handled", l)
    BY <2>5, <2>6, <2>7, <2>8, <2>9 DEF Record, Queue
  <2> QED BY <1>2, <1>18, <2>2, <2>4, <2>10 DEF Write, Settled
<1>19. ASSUME NEW m \in Messages, WriteCookieFails(m) PROVE Records'
  <2>1. kind = "rest" /\ kind \notin Repliers
    BY <1>19, WorkingWay DEF WriteCookieFails, StepNames, Repliers
  <2> DEFINE l == <<<<"response", "unwritten">>>>
  <2>4. log' = [log EXCEPT ![m] = l]
    BY <1>14, <1>19 DEF WriteCookieFails, OutletNames, Answers, Results
  <2>2. todo' = [todo EXCEPT ![m] = <<"error">>] /\ at' = [at EXCEPT ![m] = <<"settling">>]
    BY <1>19 DEF WriteCookieFails, ReportTo
  <2>5. Names(l) \o <<"error">> = <<"response", "error">>
    <3>1. Names(l) = <<"response">> BY <1>15
    <3> HIDE DEF l
    <3> QED BY <3>1, Two
  <2>6. <<"response", "error">> \in Plans("failed", m \in replyTo) BY <2>1 DEF Plans, RestPlans
  <2>7. \A i \in DOMAIN l : l[i] = <<"response", "unwritten">> OBVIOUS
  <2>8. Len(l) + Len(<<"error">>) = 2 OBVIOUS
  <2>9. Entry(<<"response", "unwritten">>, 2) BY DEF Entry
  <2> HIDE DEF l
  <2>11. Queue(<<"error">>, "failed", l) BY DEF Queue
  <2>12. <<"settling">> # <<"done">> /\ <<"error">> # <<>> OBVIOUS
  <2>10. Record(m \in replyTo, <<"settling">>, <<"error">>, "failed", l)
    BY <2>5, <2>6, <2>7, <2>8, <2>9, <2>11, <2>12 DEF Record
  <2> QED BY <1>2, <1>19, <2>2, <2>4, <2>10 DEF WriteCookieFails
<1>20. ASSUME NEW m \in Messages, WritePattern(m) PROVE Records'
  <2>1. at[m] = <<"settling">> /\ todo[m] = <<"pattern">> /\ UNCHANGED setup /\ outcome' = outcome
    BY <1>20 DEF WritePattern
  <2>2. Record(m \in replyTo, at[m], todo[m], outcome[m], log[m]) BY DEF Records
  <2>3. kind = "rest" /\ outcome[m] = "failed" /\ log[m] = <<>> BY <2>1, <2>2 DEF Record, Queue
  <2>4. PICK y \in Results : /\ Attempt(m, "pattern", y)
                             /\ ReportTo(m, IF y = "sent" THEN <<>> ELSE <<"error">>)
    BY <1>20 DEF WritePattern, Results
  <2> DEFINE l == <<<<"pattern", y>>>>
  <2>5. log' = [log EXCEPT ![m] = l] BY <2>3, <2>4 DEF Attempt
  <2>6. Names(l) = <<"pattern">> BY <1>15
  <2>7. \A i \in DOMAIN l : l[i] = <<"pattern", y>> OBVIOUS
  <2>8. Len(l) + Len(<<"error">>) = 2 /\ Len(l) + Len(<<>>) = 1 OBVIOUS
  <2>9. y = "sent" => Entry(<<"pattern", y>>, 1) BY DEF Entry
  <2>10. y # "sent" => Entry(<<"pattern", y>>, 2) BY DEF Entry, Results
  <2>11. kind \notin Repliers BY <2>3 DEF Repliers
  <2>12. outcome' = [outcome EXCEPT ![m] = "failed"] BY <1>1, <2>1, <2>3
  <2> HIDE DEF l
  <2>13. CASE y = "sent"
    <3>1. todo' = [todo EXCEPT ![m] = <<>>] /\ at' = [at EXCEPT ![m] = <<"done">>]
      BY <2>4, <2>13 DEF ReportTo
    <3>2. Names(l) \o <<>> = <<"pattern">> BY <2>6
    <3>3. <<"pattern">> \in Plans("failed", m \in replyTo) BY <2>3, <2>11 DEF Plans, RestPlans
    <3>4. Record(m \in replyTo, <<"done">>, <<>>, "failed", l)
      BY <2>7, <2>8, <2>9, <2>13, <3>2, <3>3 DEF Record, Queue
    <3> QED BY <1>2, <2>1, <2>5, <2>12, <3>1, <3>4
  <2>14. CASE y # "sent"
    <3>1. todo' = [todo EXCEPT ![m] = <<"error">>] /\ at' = [at EXCEPT ![m] = <<"settling">>]
      BY <2>4, <2>14 DEF ReportTo
    <3>2. Names(l) \o <<"error">> = <<"pattern", "error">> BY <2>6, Two
    <3>3. <<"pattern", "error">> \in Plans("failed", m \in replyTo) BY <2>3, <2>11 DEF Plans, RestPlans
    <3>4. Record(m \in replyTo, <<"settling">>, <<"error">>, "failed", l)
      <4>1. Queue(<<"error">>, "failed", l) BY DEF Queue
      <4>2. <<"settling">> # <<"done">> /\ <<"error">> # <<>> OBVIOUS
      <4> QED BY <2>7, <2>8, <2>10, <2>14, <3>2, <3>3, <4>1, <4>2 DEF Record
    <3> QED BY <1>2, <2>1, <2>5, <2>12, <3>1, <3>4
  <2> QED BY <2>13, <2>14
<1>21. ASSUME NEW m \in Messages, Report(m) PROVE Records'
  <2>1. /\ at[m] = <<"settling">> /\ todo[m] # <<"pattern">> /\ UNCHANGED setup /\ outcome' = outcome
        /\ ReportTo(m, Tail(todo[m]))
    BY <1>21 DEF Report
  <2>2. todo[m] # <<>> BY <2>1 DEF Pending
  <2>3. PICK r \in {"sent", "refused"} : /\ Attempt(m, Head(todo[m]), r)
                                         /\ Head(todo[m]) = "onError" => r = "sent"
    BY <1>21 DEF Report
  <2>4. Record(m \in replyTo, <<"settling">>, todo[m], outcome[m], log[m]) BY <2>1 DEF Records
  <2> DEFINE q == IF Tail(todo[m]) = <<>> THEN <<"done">> ELSE <<"settling">>
             l == Append(log[m], <<Head(todo[m]), r>>)
  <2>5. todo[m] \in Seq(OutletNames) /\ log[m] \in Seq(OutletNames \X Results) BY <1>1
  <2>6. Record(m \in replyTo, q, Tail(todo[m]), outcome[m], l)
    BY <2>1, <2>2, <2>3, <2>4, <2>5, AttemptKept
  <2>7. /\ at' = [at EXCEPT ![m] = q] /\ todo' = [todo EXCEPT ![m] = Tail(todo[m])]
        /\ log' = [log EXCEPT ![m] = l]
    BY <2>1, <2>3 DEF ReportTo, Attempt
  <2>8. outcome' = [outcome EXCEPT ![m] = outcome[m]] BY <1>1, <2>1
  <2> HIDE DEF q, l
  <2> QED BY <1>2, <2>1, <2>6, <2>7, <2>8
<1>22. CASE UNCHANGED vars
  BY <1>22 DEF vars, Records, Record, Plans, ReplierPlans, RestPlans, SubscriberPlans, Queue
<1> QED
  BY <1>7, <1>9, <1>10, <1>11, <1>12, <1>13, <1>16, <1>17, <1>18, <1>19, <1>20, <1>21, <1>22 DEF Next

LEMMA RecordsInit == Init => Records
<1> SUFFICES ASSUME Init, NEW m \in Messages
             PROVE  Record(m \in replyTo, at[m], todo[m], outcome[m], log[m])
  BY DEF Records
<1>1. at[m] = <<"queued">> /\ todo[m] = <<>> /\ outcome[m] = "open" /\ log[m] = <<>> BY DEF Init
<1>2. <<"queued">> \notin {<<"settling">>, <<"done">>} OBVIOUS
<1> QED BY <1>1, <1>2 DEF Record

LEMMA LogHolds == Spec => []LogInv
<1>1. Init => LogInv BY TypeInit, RecordsInit DEF LogInv
<1>2. LogInv /\ [Next]_vars => LogInv' BY TypeStep, PendingStep, RecordsStep DEF LogInv
<1> QED BY <1>1, <1>2, PTL DEF Spec

-----------------------------------------------------------------------------
\* What was attempted for a message that is done.
Final(m) ==
  /\ log[m] \in Seq(OutletNames \X Results)
  /\ Names(log[m]) \in Plans(outcome[m], m \in replyTo)
  /\ \A i \in DOMAIN log[m] : Entry(log[m][i], Len(log[m]))
Begun(m) == {i \in At(m, Answers) : log[m][i][2] # "unwritten"}

\* A message that is done has followed its plan to the end.
LEMMA Finished == ASSUME LogInv, NEW m \in Messages, Done(m) PROVE Final(m)
<1>1. Record(m \in replyTo, <<"done">>, todo[m], outcome[m], log[m]) BY DEF LogInv, Records, Done
<1>2. log[m] \in Seq(OutletNames \X Results) BY DEF LogInv, TypeOK
<1>3. todo[m] = <<>> BY <1>1 DEF Record
<1>4. Names(log[m]) \o <<>> \in Plans(outcome[m], m \in replyTo) BY <1>1, <1>3 DEF Record
<1>5. Names(log[m]) \o <<>> = Names(log[m]) BY <1>2, NamesOf
<1>6. Len(log[m]) \in Nat BY <1>2
<1>7. \A i \in DOMAIN log[m] : Entry(log[m][i], Len(log[m]) + 0) BY <1>1, <1>3 DEF Record
<1> QED BY <1>2, <1>4, <1>5, <1>6, <1>7 DEF Final

\* The places of a log, by its names.
LEMMA Nothing ==
  ASSUME NEW m, log[m] \in Seq(OutletNames \X Results), Names(log[m]) = <<>>
  PROVE  Len(log[m]) = 0 /\ DOMAIN log[m] = {}
BY NamesOf

LEMMA Single ==
  ASSUME NEW m, log[m] \in Seq(OutletNames \X Results), NEW x, Names(log[m]) = <<x>>
  PROVE  Len(log[m]) = 1 /\ DOMAIN log[m] = {1} /\ log[m][1][1] = x
BY NamesOf

LEMMA Pair ==
  ASSUME NEW m, log[m] \in Seq(OutletNames \X Results), NEW x, NEW y, Names(log[m]) = <<x, y>>
  PROVE  Len(log[m]) = 2 /\ DOMAIN log[m] = {1, 2} /\ log[m][1][1] = x /\ log[m][2][1] = y
BY NamesOf

LEMMA Triple ==
  ASSUME NEW m, log[m] \in Seq(OutletNames \X Results), NEW x, NEW y, NEW z,
         Names(log[m]) = <<x, y, z>>
  PROVE  /\ Len(log[m]) = 3 /\ DOMAIN log[m] = {1, 2, 3}
         /\ log[m][1][1] = x /\ log[m][2][1] = y /\ log[m][3][1] = z
BY NamesOf

\* What a request-reply server leaves behind.
LEMMA ReplierShape ==
  ASSUME kind \in Repliers, route \in Routes, NEW named \in BOOLEAN, NEW o, NEW p,
         p \in Plans(o, named)
  PROVE  \E x \in {"reply", "errorReply", "forward"} :
           \/ o = "handled" /\ named /\ p = <<x>>
           \/ o = "handled" /\ ~named /\ p = <<>>
           \/ o = "forwarded" /\ named /\ p = <<x, "onError">>
           \/ o = "forwarded" /\ ~named /\ p = <<"onError">>
           \/ o = "failed" /\ route.deadLetter /\ named /\ p = <<x, "deadLetter", "onError">>
           \/ o = "failed" /\ route.deadLetter /\ ~named /\ p = <<"deadLetter", "onError">>
           \/ o = "failed" /\ ~route.deadLetter /\ named /\ p = <<x, "onError">>
           \/ o = "failed" /\ ~route.deadLetter /\ ~named /\ p = <<"onError">>
<1>1. p \in ReplierPlans(o, named) BY DEF Plans
<1>2. CASE o = "handled"
  <2>1. p = If(named, "reply") BY <1>1, <1>2 DEF ReplierPlans
  <2>2. CASE named BY <1>2, <2>1, <2>2 DEF If
  <2>3. CASE ~named BY <1>2, <2>1, <2>3 DEF If
  <2> QED BY <2>2, <2>3
<1>3. CASE o = "forwarded"
  <2>1. p = If(named, "forward") \o <<"onError">> BY <1>1, <1>3 DEF ReplierPlans
  <2>2. CASE named
    <3>1. p = <<"forward">> \o <<"onError">> BY <2>1, <2>2 DEF If
    <3>2. p = <<"forward", "onError">> BY <3>1, Two
    <3> QED BY <1>3, <2>2, <3>2
  <2>3. CASE ~named
    <3>1. p = <<>> \o <<"onError">> BY <2>1, <2>3 DEF If
    <3>2. p = <<"onError">> BY <3>1
    <3> QED BY <1>3, <2>3, <3>2
  <2> QED BY <2>2, <2>3
<1>4. CASE o = "failed"
  <2>1. PICK x \in {"reply", "errorReply"} :
          p = If(named, x) \o If(route.deadLetter, "deadLetter") \o <<"onError">>
    BY <1>1, <1>4 DEF ReplierPlans
  <2>2. CASE route.deadLetter /\ named
    <3>1. p = <<x>> \o <<"deadLetter">> \o <<"onError">> BY <2>1, <2>2 DEF If
    <3>2. p = <<x, "deadLetter", "onError">> BY <3>1, Three
    <3> QED BY <1>4, <2>2, <3>2
  <2>3. CASE route.deadLetter /\ ~named
    <3>1. p = <<>> \o <<"deadLetter">> \o <<"onError">> BY <2>1, <2>3 DEF If
    <3>3. <<>> \o <<"deadLetter">> = <<"deadLetter">> OBVIOUS
    <3>2. p = <<"deadLetter", "onError">> BY <3>1, <3>3, Two
    <3> QED BY <1>4, <2>3, <3>2
  <2>4. CASE ~route.deadLetter /\ named
    <3>1. p = <<x>> \o <<>> \o <<"onError">> BY <2>1, <2>4 DEF If
    <3>3. <<x>> \o <<>> = <<x>> OBVIOUS
    <3>2. p = <<x, "onError">> BY <3>1, <3>3, Two
    <3> QED BY <1>4, <2>4, <3>2
  <2>5. CASE ~route.deadLetter /\ ~named
    <3>1. p = <<>> \o <<>> \o <<"onError">> BY <2>1, <2>5 DEF If
    <3>2. p = <<"onError">> BY <3>1
    <3> QED BY <1>4, <2>5, <3>2
  <2> QED BY <2>2, <2>3, <2>4, <2>5
<1> QED BY <1>1, <1>2, <1>3, <1>4 DEF ReplierPlans

LEMMA ReplierEnd ==
  ASSUME LogInv, kind \in Repliers, NEW m \in Messages, Final(m)
  PROVE  /\ Begun(m) = IF m \in replyTo THEN {1} ELSE {}
         /\ \/ outcome[m] = "handled" /\ At(m, Reports) = {}
            \/ outcome[m] = "forwarded" /\ OnErrorLast(m, {})
            \/ /\ outcome[m] = "failed" /\ OnErrorLast(m, {"deadLetter"})
               /\ At(m, {"deadLetter"}) = IF route.deadLetter THEN {Len(log[m]) - 1} ELSE {}
<1>1. /\ route \in Routes /\ (m \in replyTo) \in BOOLEAN
      /\ log[m] \in Seq(OutletNames \X Results)
      /\ \A i \in DOMAIN log[m] : Entry(log[m][i], Len(log[m]))
      /\ Names(log[m]) \in Plans(outcome[m], m \in replyTo)
  BY DEF LogInv, TypeOK, Final
<1> DEFINE p == Names(log[m])  o == outcome[m]  named == m \in replyTo
<1>2. PICK x \in {"reply", "errorReply", "forward"} :
           \/ o = "handled" /\ named /\ p = <<x>>
           \/ o = "handled" /\ ~named /\ p = <<>>
           \/ o = "forwarded" /\ named /\ p = <<x, "onError">>
           \/ o = "forwarded" /\ ~named /\ p = <<"onError">>
           \/ o = "failed" /\ route.deadLetter /\ named /\ p = <<x, "deadLetter", "onError">>
           \/ o = "failed" /\ route.deadLetter /\ ~named /\ p = <<"deadLetter", "onError">>
           \/ o = "failed" /\ ~route.deadLetter /\ named /\ p = <<x, "onError">>
           \/ o = "failed" /\ ~route.deadLetter /\ ~named /\ p = <<"onError">>
  BY <1>1, ReplierShape
<1>3. ASSUME p = <<x>> PROVE Begun(m) = {1} /\ At(m, Reports) = {}
  <2>1. DOMAIN log[m] = {1} /\ log[m][1][1] = x BY <1>1, <1>3, Single
  <2> QED BY <1>1, <2>1 DEF Begun, At, Answers, Reports, Entry
<1>4. ASSUME p = <<>> PROVE Begun(m) = {} /\ At(m, Reports) = {}
  <2>1. DOMAIN log[m] = {} BY <1>1, <1>4, Nothing
  <2> QED BY <2>1 DEF Begun, At
<1>5. ASSUME p = <<x, "onError">>
      PROVE  /\ Begun(m) = {1} /\ At(m, {"deadLetter"}) = {}
             /\ \A s : OnErrorLast(m, s)
  <2>1. Len(log[m]) = 2 /\ DOMAIN log[m] = {1, 2} /\ log[m][1][1] = x /\ log[m][2][1] = "onError"
    BY <1>1, <1>5, Pair
  <2>2. Begun(m) = {1} BY <1>1, <2>1 DEF Begun, At, Answers, Entry
  <2>3. At(m, {"onError"}) = {2} /\ At(m, {"deadLetter"}) = {} /\ log[m][2][2] = "sent"
    BY <1>1, <2>1 DEF At, Entry
  <2>4. \A s : At(m, Reports \ (s \cup {"onError"})) = {} BY <2>1 DEF At, Reports
  <2> QED BY <2>1, <2>2, <2>3, <2>4 DEF OnErrorLast
<1>6. ASSUME p = <<"onError">>
      PROVE  /\ Begun(m) = {} /\ At(m, {"deadLetter"}) = {}
             /\ \A s : OnErrorLast(m, s)
  <2>1. Len(log[m]) = 1 /\ DOMAIN log[m] = {1} /\ log[m][1][1] = "onError"
    BY <1>1, <1>6, Single
  <2>2. Begun(m) = {} BY <2>1 DEF Begun, At, Answers
  <2>3. At(m, {"onError"}) = {1} /\ At(m, {"deadLetter"}) = {} /\ log[m][1][2] = "sent"
    BY <1>1, <2>1 DEF At, Entry
  <2>4. \A s : At(m, Reports \ (s \cup {"onError"})) = {} BY <2>1 DEF At, Reports
  <2> QED BY <2>1, <2>2, <2>3, <2>4 DEF OnErrorLast
<1>7. ASSUME p = <<x, "deadLetter", "onError">>
      PROVE  Begun(m) = {1} /\ At(m, {"deadLetter"}) = {Len(log[m]) - 1} /\ OnErrorLast(m, {"deadLetter"})
  <2>1. /\ Len(log[m]) = 3 /\ DOMAIN log[m] = {1, 2, 3} /\ log[m][1][1] = x
        /\ log[m][2][1] = "deadLetter" /\ log[m][3][1] = "onError"
    BY <1>1, <1>7, Triple
  <2>2. Begun(m) = {1} BY <1>1, <2>1 DEF Begun, At, Answers, Entry
  <2>3. At(m, {"onError"}) = {3} /\ At(m, {"deadLetter"}) = {2} /\ log[m][3][2] = "sent"
    BY <1>1, <2>1 DEF At, Entry
  <2>4. At(m, Reports \ ({"deadLetter"} \cup {"onError"})) = {} BY <2>1 DEF At, Reports
  <2>5. OnErrorLast(m, {"deadLetter"}) BY <2>1, <2>3, <2>4 DEF OnErrorLast
  <2>6. At(m, {"deadLetter"}) = {Len(log[m]) - 1}
    <3>1. Len(log[m]) - 1 = 2 BY <2>1
    <3> QED BY <2>3, <3>1
  <2> QED BY <2>2, <2>5, <2>6
<1>8. ASSUME p = <<"deadLetter", "onError">>
      PROVE  Begun(m) = {} /\ At(m, {"deadLetter"}) = {Len(log[m]) - 1} /\ OnErrorLast(m, {"deadLetter"})
  <2>1. /\ Len(log[m]) = 2 /\ DOMAIN log[m] = {1, 2}
        /\ log[m][1][1] = "deadLetter" /\ log[m][2][1] = "onError"
    BY <1>1, <1>8, Pair
  <2>2. Begun(m) = {} BY <2>1 DEF Begun, At, Answers
  <2>3. At(m, {"onError"}) = {2} /\ At(m, {"deadLetter"}) = {1} /\ log[m][2][2] = "sent"
    BY <1>1, <2>1 DEF At, Entry
  <2>4. At(m, Reports \ ({"deadLetter"} \cup {"onError"})) = {} BY <2>1 DEF At, Reports
  <2>5. OnErrorLast(m, {"deadLetter"}) BY <2>1, <2>3, <2>4 DEF OnErrorLast
  <2>6. At(m, {"deadLetter"}) = {Len(log[m]) - 1}
    <3>1. Len(log[m]) - 1 = 1 BY <2>1
    <3> QED BY <2>3, <3>1
  <2> QED BY <2>2, <2>5, <2>6
<1> HIDE DEF p, o, named
<1>9. /\ Begun(m) = IF named THEN {1} ELSE {}
      /\ \/ o = "handled" /\ At(m, Reports) = {}
         \/ o = "forwarded" /\ OnErrorLast(m, {})
         \/ /\ o = "failed" /\ OnErrorLast(m, {"deadLetter"})
            /\ At(m, {"deadLetter"}) = IF route.deadLetter THEN {Len(log[m]) - 1} ELSE {}
  <2>1. CASE o = "handled" BY <1>2, <1>3, <1>4, <2>1
  <2>2. CASE o = "forwarded" BY <1>2, <1>5, <1>6, <2>2
  <2>3. CASE o = "failed" BY <1>2, <1>5, <1>6, <1>7, <1>8, <2>3
  <2> QED BY <1>2, <2>1, <2>2, <2>3
<1> QED BY <1>9 DEF o, named

\* What an HTTP server leaves behind.
LEMMA RestEnd ==
  ASSUME LogInv, kind = "rest", NEW m \in Messages, Final(m)
  PROVE  /\ Begun(m) \in {{1}, {2}} \/ (Begun(m) = {1, 2} /\ Refused(m))
         /\ \/ outcome[m] \in {"handled", "forwarded"} /\ At(m, Reports) = {}
            \/ /\ outcome[m] = "failed" /\ Len(log[m]) > 0
               /\ log[m][Len(log[m])][1] \in {"pattern", "error"}
<1>1. /\ log[m] \in Seq(OutletNames \X Results)
      /\ \A i \in DOMAIN log[m] : Entry(log[m][i], Len(log[m]))
      /\ Names(log[m]) \in RestPlans(outcome[m])
  BY DEF LogInv, Final, Plans, Repliers
<1> DEFINE p == Names(log[m])  o == outcome[m]
<1>2. \/ o = "handled" /\ p = <<"response">>
      \/ o = "forwarded" /\ p = <<"redirect">>
      \/ o = "failed" /\ p = <<"error">>
      \/ o = "failed" /\ p = <<"pattern">>
      \/ o = "failed" /\ p = <<"pattern", "error">>
      \/ o = "failed" /\ p = <<"response", "error">>
  <2> HIDE DEF p, o
  <2>1. p \in RestPlans(o) BY <1>1 DEF p, o
  <2>2. CASE o = "handled" BY <2>1, <2>2 DEF RestPlans
  <2>3. CASE o = "forwarded" BY <2>1, <2>3 DEF RestPlans
  <2>4. CASE o = "failed" BY <2>1, <2>4 DEF RestPlans
  <2> QED BY <2>1, <2>2, <2>3, <2>4 DEF RestPlans
<1>3. ASSUME NEW x \in {"response", "redirect", "error", "pattern"}, p = <<x>>
      PROVE  /\ Begun(m) = {1} /\ At(m, Reports) = {}
             /\ Len(log[m]) > 0 /\ log[m][Len(log[m])][1] = x
  <2>1. Len(log[m]) = 1 /\ DOMAIN log[m] = {1} /\ log[m][1][1] = x BY <1>1, <1>3, Single
  <2>2. Entry(log[m][1], 1) BY <1>1, <2>1
  <2>3. log[m][1][2] # "unwritten" BY <2>1, <2>2 DEF Entry
  <2> QED BY <2>1, <2>3 DEF Begun, At, Answers, Reports
<1>4. ASSUME p = <<"pattern", "error">>
      PROVE  /\ Begun(m) = {2} \/ (Begun(m) = {1, 2} /\ Refused(m))
             /\ Len(log[m]) > 0 /\ log[m][Len(log[m])][1] = "error"
  <2>1. /\ Len(log[m]) = 2 /\ DOMAIN log[m] = {1, 2}
        /\ log[m][1][1] = "pattern" /\ log[m][2][1] = "error"
    BY <1>1, <1>4, Pair
  <2>2. Entry(log[m][1], 2) /\ Entry(log[m][2], 2) BY <1>1, <2>1
  <2>3. log[m][1][2] \in {"refused", "unwritten"} /\ log[m][2][2] # "unwritten"
    BY <2>1, <2>2 DEF Entry
  <2>4. CASE log[m][1][2] = "unwritten" BY <2>1, <2>3, <2>4 DEF Begun, At, Answers
  <2>5. CASE log[m][1][2] = "refused"
    <3>1. Begun(m) = {1, 2} BY <2>1, <2>3, <2>5 DEF Begun, At, Answers
    <3> QED BY <2>1, <2>5, <3>1 DEF Refused
  <2> QED BY <2>1, <2>3, <2>4, <2>5
<1>5. ASSUME p = <<"response", "error">>
      PROVE  /\ Begun(m) = {2}
             /\ Len(log[m]) > 0 /\ log[m][Len(log[m])][1] = "error"
  <2>1. /\ Len(log[m]) = 2 /\ DOMAIN log[m] = {1, 2}
        /\ log[m][1][1] = "response" /\ log[m][2][1] = "error"
    BY <1>1, <1>5, Pair
  <2>2. Entry(log[m][1], 2) /\ Entry(log[m][2], 2) BY <1>1, <2>1
  <2>3. log[m][1][2] = "unwritten" /\ log[m][2][2] # "unwritten"
    BY <2>1, <2>2 DEF Entry
  <2> QED BY <2>1, <2>3 DEF Begun, At, Answers
<1> HIDE DEF p
<1> QED BY <1>2, <1>3, <1>4, <1>5

\* What a subscriber leaves behind.
LEMMA SubscriberEnd ==
  ASSUME LogInv, kind \in Subscribers, NEW m \in Messages, Final(m)
  PROVE  /\ Begun(m) = {}
         /\ \/ outcome[m] \in {"handled", "ignored"} /\ At(m, Reports) = {}
            \/ outcome[m] = "denied" /\ Len(log[m]) = 1 /\ OnErrorLast(m, {})
            \/ /\ outcome[m] = "failed" /\ Len(log[m]) = 1 /\ At(m, Reports) = {1}
               /\ Refused(m) \/ log[m][1][2] = "sent"
<1>1. /\ log[m] \in Seq(OutletNames \X Results)
      /\ \A i \in DOMAIN log[m] : Entry(log[m][i], Len(log[m]))
      /\ Names(log[m]) \in SubscriberPlans(outcome[m])
  BY DEF LogInv, Final, Plans, Repliers, Subscribers
<1> DEFINE p == Names(log[m])  o == outcome[m]
<1>2. \/ o \in {"handled", "ignored"} /\ p = <<>>
      \/ o = "denied" /\ p = <<"onError">>
      \/ o = "failed" /\ \E x \in Reports : p = <<x>>
  <2> HIDE DEF p, o
  <2>1. p \in SubscriberPlans(o) BY <1>1 DEF p, o
  <2>2. CASE o \in {"handled", "ignored"} BY <2>1, <2>2 DEF SubscriberPlans
  <2>3. CASE o = "denied" BY <2>1, <2>3 DEF SubscriberPlans
  <2>4. CASE o = "failed" BY <2>1, <2>4 DEF SubscriberPlans
  <2> QED BY <2>1, <2>2, <2>3, <2>4 DEF SubscriberPlans
<1>3. ASSUME p = <<>> PROVE Begun(m) = {} /\ At(m, Reports) = {}
  <2>1. DOMAIN log[m] = {} BY <1>1, <1>3, Nothing
  <2> QED BY <2>1 DEF Begun, At
<1>4. ASSUME NEW x \in Reports, p = <<x>>
      PROVE  /\ Begun(m) = {} /\ Len(log[m]) = 1 /\ At(m, Reports) = {1}
             /\ Refused(m) \/ log[m][1][2] = "sent"
             /\ x = "onError" => OnErrorLast(m, {})
  <2>1. Len(log[m]) = 1 /\ DOMAIN log[m] = {1} /\ log[m][1][1] = x BY <1>1, <1>4, Single
  <2>2. Entry(log[m][1], 1) BY <1>1, <2>1
  <2>3. log[m][1][2] \in {"sent", "refused"} BY <1>4, <2>1, <2>2 DEF Entry, Reports
  <2>4. Refused(m) \/ log[m][1][2] = "sent" BY <2>1, <2>3 DEF Refused
  <2>5. Begun(m) = {} /\ At(m, Reports) = {1} BY <1>4, <2>1 DEF Begun, At, Answers, Reports
  <2>6. ASSUME x = "onError" PROVE OnErrorLast(m, {})
    <3>1. At(m, {"onError"}) = {1} /\ At(m, Reports \ ({} \cup {"onError"})) = {}
      BY <2>1, <2>6 DEF At
    <3>2. log[m][1][2] = "sent" BY <2>1, <2>2, <2>6 DEF Entry
    <3> QED BY <2>1, <3>1, <3>2 DEF OnErrorLast
  <2> QED BY <2>1, <2>4, <2>5, <2>6
<1> HIDE DEF p
<1>5. "onError" \in Reports BY DEF Reports
<1> QED BY <1>2, <1>3, <1>4, <1>5

\* How many places are in the sets below.
LEMMA Sizes ==
  /\ \A x : Cardinality({x}) = 1
  /\ Cardinality({}) = 0
  /\ Cardinality({1, 2}) = 2
<1>1. Cardinality({1}) = 1 /\ IsFiniteSet({1}) BY FS_Singleton
<1>2. Cardinality({1} \cup {2}) = 2 BY <1>1, FS_AddElement
<1>3. {1, 2} = {1} \cup {2} OBVIOUS
<1> QED BY <1>2, <1>3, FS_Singleton, FS_EmptySet

\* On every path a request is answered once: a request-reply server attempts one
\* reply, or none if no response topic is named, and an HTTP response is begun
\* once, or twice if the connection failed under the first.
THEOREM AnsweredOnceHolds == Spec => []AnsweredOnce
<1>1. LogInv => AnsweredOnce
  <2> SUFFICES ASSUME LogInv, NEW m \in Messages, Done(m)
               PROVE  IF kind \in Repliers THEN Cardinality(Begun(m)) = (IF m \in replyTo THEN 1 ELSE 0)
                      ELSE IF kind = "rest"
                      THEN Cardinality(Begun(m)) = 1 \/ (Cardinality(Begun(m)) = 2 /\ Refused(m))
                      ELSE Begun(m) = {}
    BY DEF AnsweredOnce, Begun
  <2>1. Final(m) /\ kind \in AllKinds BY Finished, Server DEF LogInv
  <2>2. CASE kind \in Repliers BY <2>1, <2>2, ReplierEnd, Sizes
  <2>3. CASE kind = "rest"
    <3>1. kind \notin Repliers BY <2>3 DEF Repliers
    <3>2. Begun(m) = {1} \/ Begun(m) = {2} \/ (Begun(m) = {1, 2} /\ Refused(m))
      BY <2>1, <2>3, RestEnd
    <3>3. Cardinality(Begun(m)) = 1 \/ (Cardinality(Begun(m)) = 2 /\ Refused(m))
      BY <3>2, Sizes
    <3> QED BY <2>3, <3>1, <3>3
  <2>4. CASE kind \in Subscribers
    <3>1. kind \notin Repliers /\ kind # "rest" BY <2>4 DEF Subscribers, Repliers
    <3> QED BY <2>1, <2>4, <3>1, SubscriberEnd
  <2> QED BY <2>1, <2>2, <2>3, <2>4 DEF AllKinds
<1> QED BY <1>1, LogHolds, PTL

\* No failure is lost and none is reported twice: onError is told once and last
\* by a request-reply server, a subscriber uses exactly one outlet, an HTTP
\* failure ends in an error response, and a forwarded request is no failure.
THEOREM FailuresSurfaceHolds == Spec => []FailuresSurface
<1>1. LogInv => FailuresSurface
  <2> SUFFICES ASSUME LogInv, NEW m \in Messages, Done(m)
               PROVE
                 /\ outcome[m] \in {"handled", "ignored"} => At(m, Reports) = {}
                 /\ outcome[m] = "denied" => Len(log[m]) = 1 /\ OnErrorLast(m, {})
                 /\ outcome[m] = "forwarded" =>
                      IF kind = "rest" THEN At(m, Reports) = {} ELSE OnErrorLast(m, {})
                 /\ outcome[m] = "failed" => FailureTold(m)
    BY DEF FailuresSurface
  <2>1. Final(m) /\ kind \in AllKinds BY Finished, Server DEF LogInv
  <2>2. CASE kind \in Repliers
    <3>1. kind # "rest" /\ kind \notin Subscribers BY <2>2 DEF Repliers, Subscribers
    <3>2. \/ outcome[m] = "handled" /\ At(m, Reports) = {}
          \/ outcome[m] = "forwarded" /\ OnErrorLast(m, {})
          \/ /\ outcome[m] = "failed" /\ OnErrorLast(m, {"deadLetter"})
             /\ Cardinality(At(m, {"deadLetter"})) = IF route.deadLetter THEN 1 ELSE 0
      BY <2>1, <2>2, ReplierEnd, Sizes
    <3>3. outcome[m] = "failed" => FailureTold(m) BY <2>2, <3>1, <3>2 DEF FailureTold
    <3> QED BY <3>1, <3>2, <3>3
  <2>3. CASE kind = "rest"
    <3>1. kind \notin Repliers /\ kind \notin Subscribers BY <2>3 DEF Repliers, Subscribers
    <3>2. \/ outcome[m] \in {"handled", "forwarded"} /\ At(m, Reports) = {}
          \/ /\ outcome[m] = "failed" /\ Len(log[m]) > 0
             /\ log[m][Len(log[m])][1] \in {"pattern", "error"}
      BY <2>1, <2>3, RestEnd
    <3>3. outcome[m] = "failed" => FailureTold(m) BY <2>3, <3>1, <3>2 DEF FailureTold
    <3> QED BY <2>3, <3>2, <3>3
  <2>4. CASE kind \in Subscribers
    <3>1. kind \notin Repliers /\ kind # "rest" BY <2>4 DEF Subscribers, Repliers
    <3>2. \/ outcome[m] \in {"handled", "ignored"} /\ At(m, Reports) = {}
          \/ outcome[m] = "denied" /\ Len(log[m]) = 1 /\ OnErrorLast(m, {})
          \/ /\ outcome[m] = "failed" /\ Len(log[m]) = 1 /\ At(m, Reports) = {1}
             /\ Refused(m) \/ log[m][1][2] = "sent"
      BY <2>1, <2>4, SubscriberEnd
    <3>3. outcome[m] = "failed" => FailureTold(m) BY <2>4, <3>1, <3>2 DEF FailureTold
    <3> QED BY <3>1, <3>2, <3>3
  <2> QED BY <2>1, <2>2, <2>3, <2>4 DEF AllKinds
<1> QED BY <1>1, LogHolds, PTL
=============================================================================
