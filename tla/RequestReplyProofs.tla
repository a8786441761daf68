------------------------- MODULE RequestReplyProofs -------------------------
(***************************************************************************)
(* The safety of the two request-reply clients, for any number of calls.   *)
(* Over MQTT 5 the router's handlers and the broker's subscriptions are    *)
(* those of the exchanges that are open, and each answer a call holds is   *)
(* that of a handler that ran for it.  Over ZeroMQ a call's name is in one *)
(* place at a time: a request on the wire, a running handler, a reply on   *)
(* the wire, a refused reply, or a call's result.                          *)
(***************************************************************************)
EXTENDS MCRequestReply, Sequences, TLAPS

-----------------------------------------------------------------------------
(* The client over MQTT 5.                                                   *)

Pcs == {"idle", "open", "subscribe", "publish", "await", "unregister", "unsubscribe", "return", "done"}
Exchanges == Calls \X (0 .. MaxForwards)
Topics == {<<>>} \cup UNION {ReplyTopic(e) : e \in Exchanges}
Outcomes == {None, "value", "error", "zero", "failed"} \cup Services
CallRecord ==
  [pc : Pcs, route : Routes \cup {NoRoute}, replay : BOOLEAN, service : Services \cup {None},
   remaining : 0 .. MaxForwards, tries : Nat, topic : Topics, replyCh : Outcomes,
   outcome : Outcomes]

RpcType ==
  /\ registry \in [Services -> Routes \cup {NoRoute}]
  /\ poisoned \subseteq Services
  /\ call \in [Calls -> CallRecord]
  /\ ctxDone \subseteq Calls
  /\ \A c \in Calls : call[c].pc \notin {"idle", "done"} => call[c].service \in Services
  /\ requests \subseteq [of : Exchanges, service : Services, to : Topics]
  /\ replies \subseteq [of : Exchanges, service : Services, to : Topics,
                        answer : {"value", "error"} \cup Services]

\* A call that has asked for its reply has a topic that was built for it.
HasTopic ==
  \A c \in Calls : call[c].pc \in {"subscribe", "publish", "await", "unregister", "unsubscribe"} =>
    call[c].topic \in ReplyTopic(Exchange(c))

\* A handler in the router is that of a call which has not cleaned up, under its topic.
HandlersOpen ==
  \A h \in handlers : \E c \in Calls :
    /\ h = <<call[c].topic, Exchange(c)>>
    /\ call[c].pc \in {"subscribe", "publish", "await", "unregister"}

\* From its registration on the handler is there, and the subscription from the
\* SUBSCRIBE on, or the topic is another exchange's too.
HasHandler ==
  \A c \in Calls : call[c].pc \in {"subscribe", "publish", "await"} =>
    <<call[c].topic, Exchange(c)>> \in handlers \/ SharesTopic(c)

SubsOpen ==
  \A t \in subs : \/ \E c \in Calls : call[c].topic = t /\ call[c].pc \in
                       {"publish", "await", "unregister", "unsubscribe"}
                  \/ \E c \in ctxDone, n \in 0..MaxForwards : t \in ReplyTopic(<<c, n>>)

Listening == HasTopic /\ HandlersOpen /\ HasHandler /\ ListensWhileAwaiting /\ SubsOpen

LEMMA RpcInit == Init => RpcType /\ Listening
<1> SUFFICES ASSUME Init PROVE RpcType /\ Listening
  OBVIOUS
<1>1. Unasked \in CallRecord
  BY RpcAssumption DEF Unasked, CallRecord, Pcs, Topics, Outcomes, None
<1>2. RpcType BY <1>1 DEF Init, RpcType, Unasked
<1> QED BY <1>2 DEF Init, Listening, HasTopic, HandlersOpen, HasHandler, ListensWhileAwaiting, SubsOpen, Unasked

LEMMA GoesType ==
  ASSUME RpcType, NEW c \in Calls, NEW k \in CallRecord, Goes(c, k),
         k.pc \notin {"idle", "done"} => k.service \in Services
  PROVE  /\ call' \in [Calls -> CallRecord]
         /\ \A d \in Calls : call'[d].pc \notin {"idle", "done"} => call'[d].service \in Services
BY DEF RpcType, Goes

LEMMA AttemptType ==
  ASSUME RpcType, NEW c \in Calls, NEW o \in Outcomes, NEW ch \in Outcomes, AttemptEnds(c, o, ch),
         call[c].pc \notin {"idle", "done"}
  PROVE  /\ call' \in [Calls -> CallRecord]
         /\ \A d \in Calls : call'[d].pc \notin {"idle", "done"} => call'[d].service \in Services
<1> DEFINE k == call[c]
           u == [k EXCEPT !.pc = "unregister", !.outcome = o, !.replyCh = ch]
           v == [k EXCEPT !.pc = "publish", !.tries = @ + 1, !.replyCh = ch]
<1>1. k \in CallRecord /\ k.service \in Services BY DEF RpcType
<1>2. /\ u \in CallRecord /\ u.service = k.service
      /\ v \in CallRecord /\ v.service = k.service
  <2>1. u \in CallRecord /\ u.service = k.service BY <1>1 DEF CallRecord, Pcs
  <2>2. k.tries + 1 \in Nat BY <1>1 DEF CallRecord
  <2>3. v \in CallRecord /\ v.service = k.service BY <1>1, <2>2 DEF CallRecord, Pcs
  <2> QED BY <2>1, <2>3
<1>3. Goes(c, u) \/ Goes(c, v) BY DEF AttemptEnds
<1> HIDE DEF k, u, v
<1> QED BY <1>1, <1>2, <1>3, GoesType

LEMMA StepType == ASSUME RpcType, NEW c \in Calls, Steps(c) PROVE RpcType'
<1> DEFINE k == call[c]
<1>1. k \in CallRecord /\ k.service \in Services \cup {None} BY DEF RpcType, CallRecord
<1>2. "failed" \in Outcomes /\ None \in Outcomes /\ k.replyCh \in Outcomes
  BY <1>1 DEF Outcomes, CallRecord
<1>3. k.pc \notin {"idle", "done"} => k.service \in Services BY DEF RpcType
<1>4. Exchange(c) \in Exchanges BY <1>1 DEF Exchange, Exchanges, CallRecord
<1>5. SUFFICES /\ call' \in [Calls -> CallRecord]
               /\ \A d \in Calls : call'[d].pc \notin {"idle", "done"} => call'[d].service \in Services
  <2>1. UNCHANGED <<routing, ctxDone, replies>>
    BY DEF Steps, Unbuilt, RegisterHandler, Subscribe, SubscribeFails, Publish, PublishFails, GiveUp,
           TakeReply, Unregister, Unsubscribe, Return, followForward, wire
  <2>2. CASE UNCHANGED requests BY <1>5, <2>1, <2>2 DEF RpcType, routing
  <2>3. CASE Publish(c)
    <3>1. k.service \in Services /\ k.topic \in Topics BY <1>1, <1>3, <2>3 DEF Publish, CallRecord
    <3>2. requests' \subseteq [of : Exchanges, service : Services, to : Topics]
      BY <1>4, <2>3, <3>1 DEF Publish, RpcType
    <3> QED BY <1>5, <2>1, <3>2 DEF RpcType, routing
  <2>4. UNCHANGED requests \/ Publish(c)
    BY DEF Steps, Unbuilt, RegisterHandler, Subscribe, SubscribeFails, PublishFails, GiveUp,
           TakeReply, Unregister, Unsubscribe, Return, followForward
  <2> QED BY <2>2, <2>3, <2>4
<1>6. ASSUME NEW p \in Pcs \ {"idle", "done"}, Goes(c, [k EXCEPT !.pc = p]), k.pc \notin {"idle", "done"}
      PROVE  /\ call' \in [Calls -> CallRecord]
             /\ \A d \in Calls : call'[d].pc \notin {"idle", "done"} => call'[d].service \in Services
  <2>1. [k EXCEPT !.pc = p] \in CallRecord /\ [k EXCEPT !.pc = p].service = k.service
    BY <1>1 DEF CallRecord
  <2> QED BY <1>3, <1>6, <2>1, GoesType
<1>7. ASSUME NEW o \in Outcomes, Goes(c, [k EXCEPT !.pc = "return", !.outcome = o]), k.pc \notin {"idle", "done"}
      PROVE  /\ call' \in [Calls -> CallRecord]
             /\ \A d \in Calls : call'[d].pc \notin {"idle", "done"} => call'[d].service \in Services
  <2> DEFINE u == [k EXCEPT !.pc = "return", !.outcome = o]
  <2>1. u \in CallRecord /\ u.service = k.service BY <1>1 DEF CallRecord, Pcs
  <2> HIDE DEF u
  <2> QED BY <1>3, <1>7, <2>1, GoesType DEF u
<1>8. ASSUME NEW o \in Outcomes, Goes(c, Returned(o))
      PROVE  /\ call' \in [Calls -> CallRecord]
             /\ \A d \in Calls : call'[d].pc \notin {"idle", "done"} => call'[d].service \in Services
  <2>1. Unasked \in CallRecord
    BY RpcAssumption DEF Unasked, CallRecord, Pcs, Topics, Outcomes, None
  <2>2. Returned(o) \in CallRecord /\ Returned(o).pc = "done"
    BY <2>1 DEF Returned, CallRecord, Pcs
  <2> QED BY <1>8, <2>2, GoesType
<1>9. CASE Unbuilt(c) \/ SubscribeFails(c) BY <1>2, <1>7, <1>9 DEF Unbuilt, SubscribeFails
<1>10. CASE RegisterHandler(c)
  <2>1. PICK t \in ReplyTopic(Exchange(c)) : Goes(c, [k EXCEPT !.pc = "subscribe", !.topic = t])
    BY <1>10 DEF RegisterHandler
  <2> DEFINE u == [k EXCEPT !.pc = "subscribe", !.topic = t]
  <2>2. t \in Topics BY <1>4 DEF Topics
  <2>3. u \in CallRecord /\ u.service = k.service BY <1>1, <2>2 DEF CallRecord, Pcs
  <2>4. k.service \in Services BY <1>3, <1>10 DEF RegisterHandler
  <2> HIDE DEF u
  <2> QED BY <2>1, <2>3, <2>4, GoesType DEF u
<1>11. CASE Subscribe(c) \/ Publish(c) \/ Unregister(c) \/ Unsubscribe(c)
  BY <1>6, <1>11 DEF Subscribe, Publish, Unregister, Unsubscribe, Pcs
<1>12. CASE PublishFails(c) \/ GiveUp(c) \/ TakeReply(c)
  <2>1. PICK o \in Outcomes, ch \in Outcomes : AttemptEnds(c, o, ch)
    BY <1>2, <1>12 DEF PublishFails, GiveUp, TakeReply
  <2>2. k.pc \notin {"idle", "done"} BY <1>12 DEF PublishFails, GiveUp, TakeReply
  <2> QED BY <2>1, <2>2, AttemptType
<1>13. CASE Return(c)
  <2>1. Asserted(c) \in Outcomes BY <1>1 DEF Asserted, Outcomes, CallRecord
  <2>2. Goes(c, Returned(Asserted(c))) BY <1>13 DEF Return
  <2> QED BY <1>8, <2>1, <2>2
<1>14. CASE followForward(c)
  <2> DEFINE u == [k EXCEPT !.pc = "open", !.service = k.outcome, !.remaining = @ - 1,
                            !.tries = 0, !.replyCh = None, !.outcome = None]
  <2>1. Goes(c, Returned("failed")) \/ (k.remaining > 0 /\ Goes(c, u))
    BY <1>14 DEF followForward
  <2>2. CASE k.remaining > 0 /\ Goes(c, u)
    <3>1. k.outcome \in Services /\ k.remaining - 1 \in 0 .. MaxForwards
      BY <1>1, <1>14, <2>2, RpcAssumption DEF followForward, CallRecord
    <3>2. u \in CallRecord /\ u.service = k.outcome BY <1>1, <1>2, <3>1 DEF CallRecord, Pcs
    <3> HIDE DEF u
    <3> QED BY <2>2, <3>1, <3>2, GoesType
  <2> QED BY <1>2, <1>8, <2>1, <2>2
<1> QED BY <1>9, <1>10, <1>11, <1>12, <1>13, <1>14 DEF Steps

LEMMA TypeStep == RpcType /\ Next => RpcType'
<1> SUFFICES ASSUME RpcType, Next PROVE RpcType'
  OBVIOUS
<1>1. ASSUME NEW r \in Warm, RegisterRoute(r) PROVE RpcType'
  BY <1>1, RpcAssumption DEF RegisterRoute, RpcType
<1>2. ASSUME NEW c \in Calls, NEW r \in Asks(c), Call(c, r) PROVE RpcType'
  <2> DEFINE k == [call[c] EXCEPT !.pc = "open", !.route = r, !.service = Service(r)]
  <2>1. r \in Routes /\ Service(r) \in Services BY RpcAssumption
  <2>2. registry' \in [Services -> Routes \cup {NoRoute}] /\ poisoned' \subseteq Services
    BY <1>2, <2>1 DEF Call, registerAutoFromCall, RpcType
  <2>3. k \in CallRecord /\ k.service \in Services BY <2>1 DEF RpcType, CallRecord, Pcs
  <2>4. Goes(c, k) BY <1>2 DEF Call
  <2> HIDE DEF k
  <2> QED BY <1>2, <2>2, <2>3, <2>4, GoesType DEF Call, RpcType
<1>3. ASSUME NEW c \in Calls, NEW s \in Replays(c), ReplayDeadLetter(c, s) PROVE RpcType'
  <2>1. PICK p \in {"return", "open"}, o \in {"failed", None} :
          Goes(c, [call[c] EXCEPT !.replay = TRUE, !.service = s, !.route = registry[s],
                                  !.pc = p, !.outcome = o])
    BY <1>3 DEF ReplayDeadLetter
  <2> DEFINE k == [call[c] EXCEPT !.replay = TRUE, !.service = s, !.route = registry[s],
                                  !.pc = p, !.outcome = o]
  <2>2. s \in Services /\ registry[s] \in Routes \cup {NoRoute} BY RpcAssumption DEF RpcType
  <2>5. p \in Pcs /\ o \in Outcomes BY DEF Pcs, Outcomes
  <2>6. call[c] \in CallRecord BY DEF RpcType
  <2>3. k \in CallRecord /\ k.service \in Services BY <2>2, <2>5, <2>6 DEF CallRecord
  <2>4. Goes(c, k) BY <2>1
  <2> HIDE DEF k
  <2> QED BY <1>3, <2>3, <2>4, GoesType DEF ReplayDeadLetter, RpcType, routing
<1>4. ASSUME NEW c \in Calls, Cancel(c) PROVE RpcType'
  BY <1>4 DEF Cancel, RpcType, routing
<1>5. ASSUME NEW m \in requests, NEW a \in Answers(m.service), Serve(m, a) PROVE RpcType'
  <2>1. m \in [of : Exchanges, service : Services, to : Topics] BY DEF RpcType
  <2>2. a \in {"value", "error"} \cup Services BY <2>1, RpcAssumption
  <2>3. [of |-> m.of, service |-> m.service, to |-> m.to, answer |-> a] \in
          [of : Exchanges, service : Services, to : Topics, answer : {"value", "error"} \cup Services]
    BY <2>1, <2>2
  <2> QED BY <1>5, <2>3 DEF Serve, RpcType, routing
<1>6. ASSUME NEW m \in replies, NEW c \in Calls, Deliver(m, c) PROVE RpcType'
  <2> DEFINE k == [call[c] EXCEPT !.replyCh = m.answer]
  <2>1. m.answer \in Outcomes BY DEF Outcomes, RpcType
  <2>2. k \in CallRecord /\ k.service = call[c].service /\ k.pc = call[c].pc
    BY <2>1 DEF RpcType, CallRecord
  <2>3. Goes(c, k) BY <1>6 DEF Deliver
  <2> HIDE DEF k
  <2>4. k.pc \notin {"idle", "done"} => k.service \in Services BY <2>2 DEF RpcType
  <2> QED BY <1>6, <2>2, <2>3, <2>4, GoesType DEF Deliver, RpcType, routing
<1> QED BY <1>1, <1>2, <1>3, <1>4, <1>5, <1>6, StepType DEF Next

-----------------------------------------------------------------------------
(* Listening.                                                                *)
Asking(k) == k.pc \in {"subscribe", "publish", "await", "unregister", "unsubscribe"}
SameExchange(k, u) == u.topic = k.topic /\ u.remaining = k.remaining

\* A step that leaves router and subscriptions alone leaves the call in the part
\* of its exchange it is in.
LEMMA QuietStep ==
  ASSUME RpcType, Listening, NEW c \in Calls, NEW u \in CallRecord, Goes(c, u),
         UNCHANGED <<handlers, subs, ctxDone>>,
         Asking(call[c]) \/ Asking(u) => SameExchange(call[c], u),
         call[c].pc \in {"publish", "await"} => u.pc \in {"publish", "await", "unregister"},
         call[c].pc \in {"subscribe", "unregister", "unsubscribe"} => u.pc = call[c].pc,
         call[c].pc \notin {"publish", "await"} =>
           u.pc = call[c].pc \/ ~(Asking(u) \/ Asking(call[c]))
  PROVE  Listening'
<1>1. /\ \A d \in Calls \ {c} : call'[d] = call[d]
      /\ call'[c] = u /\ call[c] \in CallRecord
  BY DEF Goes, RpcType
<1>2. \A d \in Calls \ {c} : Exchange(d)' = Exchange(d)
  BY <1>1 DEF Exchange
<1>3. Exchange(c)' = <<c, u.remaining>> /\ Exchange(c) = <<c, call[c].remaining>>
  BY <1>1 DEF Exchange
<1>4. \A d \in Calls \ {c} : SharesTopic(d)' = SharesTopic(d)
  BY <1>1, <1>2 DEF SharesTopic
<1>5. SameExchange(call[c], u) => SharesTopic(c)' = SharesTopic(c)
  BY <1>1, <1>3 DEF SharesTopic, SameExchange
<1> USE DEF Listening, Asking, SameExchange
<1>6. HasTopic' BY <1>1, <1>2, <1>3 DEF HasTopic
<1>7. HandlersOpen' BY <1>1, <1>2, <1>3 DEF HandlersOpen
<1>8. HasHandler' BY <1>1, <1>2, <1>3, <1>4, <1>5 DEF HasHandler
<1>9. ListensWhileAwaiting'
  BY <1>1, <1>2, <1>3, <1>4, <1>5 DEF ListensWhileAwaiting, Reachable
<1>10. SubsOpen' BY <1>1 DEF SubsOpen
<1> QED BY <1>6, <1>7, <1>8, <1>9, <1>10

\* Another call's handler and subscription are taken away only if it shares the topic.
LEMMA SharesWith ==
  ASSUME RpcType, HasTopic, NEW c \in Calls, NEW d \in Calls, c # d, Asking(call[c]),
         call[c].topic = call[d].topic
  PROVE  SharesTopic(d)
<1>1. call[c].remaining \in 0 .. MaxForwards BY DEF RpcType, CallRecord
<1>2. <<c, call[c].remaining>> # Exchange(d) BY DEF Exchange
<1>3. call[d].topic \in ReplyTopic(<<c, call[c].remaining>>) BY DEF HasTopic, Asking, Exchange
<1> QED BY <1>1, <1>2, <1>3 DEF SharesTopic

LEMMA HandlerSteps ==
  ASSUME RpcType, Listening, NEW c \in Calls,
         RegisterHandler(c) \/ Subscribe(c) \/ SubscribeFails(c) \/ Unregister(c) \/ Unsubscribe(c)
  PROVE  Listening'
<1>1. PICK u : Goes(c, u)
  BY DEF RegisterHandler, Subscribe, SubscribeFails, Unregister, Unsubscribe
<1>2. /\ \A d \in Calls \ {c} : call'[d] = call[d]
      /\ call'[c] = u /\ call[c] \in CallRecord
  BY <1>1 DEF Goes, RpcType
<1>3. \A d \in Calls \ {c} : Exchange(d)' = Exchange(d)
  BY <1>2 DEF Exchange
<1>4. Exchange(c)' = <<c, u.remaining>> /\ Exchange(c) = <<c, call[c].remaining>>
  BY <1>2 DEF Exchange
<1>5. \A d \in Calls \ {c} : SharesTopic(d)' = SharesTopic(d)
  BY <1>2, <1>3 DEF SharesTopic
<1>6. SameExchange(call[c], u) => SharesTopic(c)' = SharesTopic(c)
  BY <1>2, <1>4 DEF SharesTopic, SameExchange
<1>7. ctxDone' = ctxDone
  BY DEF RegisterHandler, Subscribe, SubscribeFails, Unregister, Unsubscribe
<1> USE DEF Listening
<1>8. CASE RegisterHandler(c)
  <2>1. PICK t \in ReplyTopic(Exchange(c)) :
          /\ handlers' = handlers \cup {<<t, Exchange(c)>>}
          /\ Goes(c, [call[c] EXCEPT !.pc = "subscribe", !.topic = t])
    BY <1>8 DEF RegisterHandler
  <2>2. /\ call[c].pc = "open" /\ u.pc = "subscribe" /\ u.topic = t
        /\ u.remaining = call[c].remaining /\ subs' = subs
    BY <1>2, <1>8, <2>1 DEF RegisterHandler, Goes, RpcType, CallRecord
  <2>3. HasTopic' BY <1>2, <1>3, <1>4, <2>2 DEF HasTopic
  <2>4. HandlersOpen' BY <1>2, <1>3, <1>4, <2>1, <2>2 DEF HandlersOpen
  <2>5. HasHandler' BY <1>2, <1>3, <1>4, <1>5, <2>1, <2>2 DEF HasHandler
  <2>6. ListensWhileAwaiting'
    BY <1>2, <1>3, <1>5, <2>1, <2>2 DEF ListensWhileAwaiting, Reachable
  <2>7. SubsOpen' BY <1>2, <1>7, <2>2 DEF SubsOpen
  <2> QED BY <2>3, <2>4, <2>5, <2>6, <2>7
<1>9. CASE Subscribe(c)
  <2>1. /\ call[c].pc = "subscribe" /\ u.pc = "publish" /\ SameExchange(call[c], u)
        /\ handlers' = handlers /\ subs' = subs \cup {call[c].topic}
    BY <1>2, <1>9 DEF Subscribe, Goes, RpcType, CallRecord, SameExchange
  <2> USE DEF SameExchange
  <2>3. HasTopic' BY <1>2, <1>3, <1>4, <2>1 DEF HasTopic
  <2>4. HandlersOpen' BY <1>2, <1>3, <1>4, <2>1 DEF HandlersOpen
  <2>5. HasHandler' BY <1>2, <1>3, <1>4, <1>5, <1>6, <2>1 DEF HasHandler
  <2>6. ListensWhileAwaiting'
    BY <1>2, <1>3, <1>4, <1>5, <1>6, <2>1 DEF ListensWhileAwaiting, Reachable, HasHandler
  <2>7. SubsOpen' BY <1>2, <1>7, <2>1 DEF SubsOpen
  <2> QED BY <2>3, <2>4, <2>5, <2>6, <2>7
<1>10. CASE SubscribeFails(c) \/ Unregister(c)
  <2>1. /\ call[c].pc \in {"subscribe", "unregister"} /\ SameExchange(call[c], u)
        /\ u.pc = IF call[c].pc = "subscribe" THEN "return" ELSE "unsubscribe"
        /\ handlers' = {h \in handlers : h[1] # call[c].topic} /\ subs' = subs
    <3>1. CASE SubscribeFails(c)
      BY <1>2, <3>1 DEF SubscribeFails, Unregistered, Goes, RpcType, CallRecord, SameExchange
    <3>2. CASE Unregister(c)
      BY <1>2, <3>2 DEF Unregister, Unregistered, Goes, RpcType, CallRecord, SameExchange
    <3> QED BY <1>10, <3>1, <3>2
  <2> USE DEF SameExchange
  <2>2. \A d \in Calls \ {c} : call[c].topic = call[d].topic => SharesTopic(d)
    BY <2>1, SharesWith DEF Asking
  <2>3. HasTopic' BY <1>2, <1>3, <1>4, <2>1 DEF HasTopic
  <2>4. HandlersOpen' BY <1>2, <1>3, <1>4, <2>1 DEF HandlersOpen
  <2>5. HasHandler' BY <1>2, <1>3, <1>5, <2>1, <2>2 DEF HasHandler
  <2>6. ListensWhileAwaiting'
    BY <1>2, <1>3, <1>5, <2>1, <2>2 DEF ListensWhileAwaiting, Reachable
  <2>7. SubsOpen' BY <1>2, <1>7, <2>1 DEF SubsOpen
  <2> QED BY <2>3, <2>4, <2>5, <2>6, <2>7
<1>11. CASE Unsubscribe(c)
  <2>1. /\ call[c].pc = "unsubscribe" /\ SameExchange(call[c], u) /\ u.pc = "return"
        /\ handlers' = handlers
        /\ subs' = IF c \in ctxDone THEN subs ELSE subs \ {call[c].topic}
    BY <1>2, <1>11 DEF Unsubscribe, Goes, RpcType, CallRecord, SameExchange
  <2> USE DEF SameExchange
  <2>2. \A d \in Calls \ {c} : call[c].topic = call[d].topic => SharesTopic(d)
    BY <2>1, SharesWith DEF Asking
  <2>3. HasTopic' BY <1>2, <1>3, <1>4, <2>1 DEF HasTopic
  <2>4. HandlersOpen' BY <1>2, <1>3, <1>4, <2>1 DEF HandlersOpen
  <2>5. HasHandler' BY <1>2, <1>3, <1>5, <2>1 DEF HasHandler
  <2>6. ListensWhileAwaiting'
    BY <1>2, <1>3, <1>5, <2>1, <2>2 DEF ListensWhileAwaiting, Reachable
  <2>7. SubsOpen'
    <3>1. call[c].topic \in ReplyTopic(<<c, call[c].remaining>>) /\ call[c].remaining \in 0 .. MaxForwards
      BY <1>2, <1>4, <2>1 DEF HasTopic, CallRecord
    <3> QED BY <1>2, <1>7, <2>1, <3>1 DEF SubsOpen
  <2> QED BY <2>3, <2>4, <2>5, <2>6, <2>7
<1> QED BY <1>8, <1>9, <1>10, <1>11

\* The other steps.
LEMMA ListenStep == RpcType /\ Listening /\ Next => Listening'
<1> SUFFICES ASSUME RpcType, Listening, Next PROVE Listening'
  OBVIOUS
<1>1. RpcType' BY TypeStep
<1>2. ASSUME NEW c \in Calls, NEW u, Goes(c, u),
             UNCHANGED <<handlers, subs, ctxDone>>,
             Asking(call[c]) \/ Asking(u) => SameExchange(call[c], u),
             call[c].pc \in {"publish", "await"} => u.pc \in {"publish", "await", "unregister"},
             call[c].pc \in {"subscribe", "unregister", "unsubscribe"} => u.pc = call[c].pc,
             call[c].pc \notin {"publish", "await"} =>
               u.pc = call[c].pc \/ ~(Asking(u) \/ Asking(call[c]))
      PROVE  Listening'
  <2>1. u \in CallRecord BY <1>1, <1>2 DEF RpcType, Goes
  <2> QED BY <1>2, <2>1, QuietStep
<1>3. ASSUME UNCHANGED <<call, handlers, subs>>, ctxDone \subseteq ctxDone'
      PROVE  Listening'
  <2>1. \A d \in Calls : Exchange(d)' = Exchange(d) BY <1>3 DEF Exchange
  <2>2. \A d \in Calls : SharesTopic(d)' = SharesTopic(d) BY <1>3, <2>1 DEF SharesTopic
  <2> QED BY <1>3, <2>1, <2>2 DEF Listening, HasTopic, HandlersOpen, HasHandler,
                                  ListensWhileAwaiting, Reachable, SubsOpen
<1>4. ASSUME NEW r \in Warm, RegisterRoute(r) PROVE Listening'
  BY <1>3, <1>4 DEF RegisterRoute
<1>5. ASSUME NEW c \in Calls, Cancel(c) PROVE Listening'
  BY <1>3, <1>5 DEF Cancel
<1>6. ASSUME NEW m \in requests, NEW a \in Answers(m.service), Serve(m, a) PROVE Listening'
  BY <1>3, <1>6 DEF Serve
<1> USE DEF Asking, SameExchange
<1>7. ASSUME NEW c \in Calls, NEW r \in Asks(c), Call(c, r) PROVE Listening'
  <2> DEFINE u == [call[c] EXCEPT !.pc = "open", !.route = r, !.service = Service(r)]
  <2>1. call[c].pc = "idle" /\ u.pc = "open" BY <1>7 DEF Call, RpcType, CallRecord
  <2>2. Goes(c, u) /\ UNCHANGED <<handlers, subs, ctxDone>> BY <1>7 DEF Call
  <2> HIDE DEF u
  <2> QED BY <1>2, <2>1, <2>2
<1>8. ASSUME NEW c \in Calls, NEW s \in Replays(c), ReplayDeadLetter(c, s) PROVE Listening'
  <2>1. PICK p \in {"return", "open"}, o \in {"failed", None} :
          Goes(c, [call[c] EXCEPT !.replay = TRUE, !.service = s, !.route = registry[s],
                                  !.pc = p, !.outcome = o])
    BY <1>8 DEF ReplayDeadLetter
  <2> DEFINE u == [call[c] EXCEPT !.replay = TRUE, !.service = s, !.route = registry[s],
                                  !.pc = p, !.outcome = o]
  <2>2. call[c].pc = "idle" /\ u.pc \in {"open", "return"}
    BY <1>8 DEF ReplayDeadLetter, RpcType, CallRecord
  <2>3. Goes(c, u) /\ UNCHANGED <<handlers, subs, ctxDone>> BY <1>8, <2>1 DEF ReplayDeadLetter
  <2> HIDE DEF u
  <2> QED BY <1>2, <2>2, <2>3
<1>9. ASSUME NEW m \in replies, NEW c \in Calls, Deliver(m, c) PROVE Listening'
  <2> DEFINE u == [call[c] EXCEPT !.replyCh = m.answer]
  <2>1. u.pc = call[c].pc /\ SameExchange(call[c], u) BY DEF RpcType, CallRecord
  <2>2. Goes(c, u) /\ UNCHANGED <<handlers, subs, ctxDone>> BY <1>9 DEF Deliver
  <2> HIDE DEF u
  <2> QED BY <1>2, <2>1, <2>2
<1>10. ASSUME NEW c \in Calls, Steps(c) PROVE Listening'
  <2> DEFINE k == call[c]
  <2>1. k \in CallRecord BY DEF RpcType
  <2>2. CASE RegisterHandler(c) \/ Subscribe(c) \/ SubscribeFails(c) \/ Unregister(c) \/ Unsubscribe(c)
    BY <2>2, HandlerSteps
  <2>3. CASE Unbuilt(c)
    <3> DEFINE u == [k EXCEPT !.pc = "return", !.outcome = "failed"]
    <3>1. k.pc = "open" /\ u.pc = "return" BY <2>1, <2>3 DEF Unbuilt, CallRecord
    <3>2. Goes(c, u) /\ UNCHANGED <<handlers, subs, ctxDone>> BY <2>3 DEF Unbuilt
    <3> HIDE DEF u
    <3> QED BY <1>2, <3>1, <3>2
  <2>4. CASE Publish(c)
    <3> DEFINE u == [k EXCEPT !.pc = "await"]
    <3>1. k.pc = "publish" /\ u.pc = "await" /\ SameExchange(k, u) BY <2>1, <2>4 DEF Publish, CallRecord
    <3>2. Goes(c, u) /\ UNCHANGED <<handlers, subs, ctxDone>> BY <2>4 DEF Publish
    <3> HIDE DEF u
    <3> QED BY <1>2, <3>1, <3>2
  <2>5. CASE PublishFails(c) \/ GiveUp(c) \/ TakeReply(c)
    <3>1. PICK o, ch : AttemptEnds(c, o, ch)
      BY <2>5 DEF PublishFails, GiveUp, TakeReply
    <3>2. k.pc \in {"publish", "await"} /\ UNCHANGED <<handlers, subs, ctxDone>>
      BY <2>5 DEF PublishFails, GiveUp, TakeReply
    <3> DEFINE u == [k EXCEPT !.pc = "unregister", !.outcome = o, !.replyCh = ch]
               v == [k EXCEPT !.pc = "publish", !.tries = @ + 1, !.replyCh = ch]
    <3>3. Goes(c, u) \/ Goes(c, v) BY <3>1 DEF AttemptEnds
    <3>4. u.pc = "unregister" /\ v.pc = "publish" /\ SameExchange(k, u) /\ SameExchange(k, v)
      BY <2>1 DEF CallRecord
    <3> HIDE DEF u, v
    <3> QED BY <1>2, <3>2, <3>3, <3>4
  <2>6. CASE Return(c) \/ followForward(c)
    <3>1. PICK u : Goes(c, u) /\ u.pc \in {"done", "open"}
      <4>1. \A o : Returned(o).pc = "done" BY DEF Returned, Unasked
      <4>2. CASE Return(c) BY <4>1, <4>2 DEF Return
      <4>3. CASE followForward(c)
        <5> DEFINE u == [k EXCEPT !.pc = "open", !.service = k.outcome, !.remaining = @ - 1,
                                  !.tries = 0, !.replyCh = None, !.outcome = None]
        <5>1. u.pc = "open" BY <2>1 DEF CallRecord
        <5>2. Goes(c, u) \/ Goes(c, Returned("failed")) BY <4>3 DEF followForward
        <5> HIDE DEF u
        <5> QED BY <4>1, <5>1, <5>2
      <4> QED BY <2>6, <4>2, <4>3
    <3>2. k.pc = "return" /\ UNCHANGED <<handlers, subs, ctxDone>> BY <2>6 DEF Return, followForward
    <3> QED BY <1>2, <3>1, <3>2
  <2> QED BY <1>10, <2>2, <2>3, <2>4, <2>5, <2>6 DEF Steps
<1> QED BY <1>4, <1>5, <1>6, <1>7, <1>8, <1>9, <1>10 DEF Next

LEMMA ListenHolds == Spec => [](RpcType /\ Listening)
<1>1. RpcType /\ Listening /\ [Next]_vars => (RpcType /\ Listening)'
  <2>1. CASE Next BY <2>1, TypeStep, ListenStep
  <2>2. ASSUME RpcType, Listening, UNCHANGED vars PROVE (RpcType /\ Listening)'
    <3>1. UNCHANGED <<registry, poisoned, call, ctxDone, handlers, subs, requests, replies>>
      BY <2>2 DEF vars
    <3>2. \A d \in Calls : Exchange(d)' = Exchange(d) BY <3>1 DEF Exchange
    <3>3. \A d \in Calls : SharesTopic(d)' = SharesTopic(d) BY <3>1, <3>2 DEF SharesTopic
    <3> QED BY <2>2, <3>1, <3>2, <3>3 DEF RpcType, Listening, HasTopic, HandlersOpen, HasHandler,
                                          ListensWhileAwaiting, Reachable, SubsOpen
  <2> QED BY <2>1, <2>2
<1> QED BY <1>1, RpcInit, PTL DEF Spec

\* An exchange listens exactly as long as it is open, however many calls share
\* the router, the broker and their topics.
THEOREM ListensWhileOpenHolds == Spec => []ListensWhileOpen
<1>1. RpcType /\ Listening => ListensWhileOpen
  <2> SUFFICES ASSUME RpcType, Listening PROVE NothingLeftBehind
    BY DEF ListensWhileOpen, Listening
  <2>1. ASSUME NEW h \in handlers PROVE Open(h[2])
    <3>1. PICK c \in Calls :
            /\ h = <<call[c].topic, Exchange(c)>>
            /\ call[c].pc \in {"subscribe", "publish", "await", "unregister"}
      BY DEF Listening, HandlersOpen
    <3>2. h[2] = Exchange(c) /\ Exchange(c)[1] = c BY <3>1 DEF Exchange
    <3> QED BY <3>1, <3>2 DEF Open
  <2> QED BY <2>1 DEF NothingLeftBehind, Listening, SubsOpen
<1> QED BY <1>1, ListenHolds, PTL

-----------------------------------------------------------------------------
(* Every answer a call holds was given to a request of its own, and a call   *)
(* has moved on to another topic only when a handler told it to.             *)
Answered(c, a) == \E m \in replies : m.of[1] = c /\ m.answer = a

Told ==
  /\ \A m \in requests \cup replies : call[m.of[1]].pc # "idle"
  /\ \A c \in Calls :
       /\ call[c].replyCh # None => Answered(c, call[c].replyCh)
       /\ call[c].pc # "done" /\ call[c].outcome \notin {None, "failed"} => Answered(c, call[c].outcome)
       /\ call[c].pc \in {"unregister", "unsubscribe", "return"} => call[c].outcome # None
       /\ call[c].remaining < MaxForwards => \E s \in Services : Answered(c, s)

LEMMA ToldInit == Init => Told
BY RpcAssumption DEF Init, Told, Unasked, None

\* A step of a call that holds no more than it held or was told.
LEMMA ToldGoes ==
  ASSUME RpcType, Told, NEW c \in Calls, NEW u \in CallRecord, Goes(c, u), UNCHANGED replies,
         \A m \in requests' : m \in requests \/ m.of[1] = c,
         u.pc # "idle",
         u.replyCh # None => Answered(c, u.replyCh),
         u.pc # "done" /\ u.outcome \notin {None, "failed"} => Answered(c, u.outcome),
         u.pc \in {"unregister", "unsubscribe", "return"} => u.outcome # None,
         u.remaining < MaxForwards => \E s \in Services : Answered(c, s)
  PROVE  Told'
<1>1. /\ \A d \in Calls \ {c} : call'[d] = call[d]
      /\ call'[c] = u
  BY DEF Goes, RpcType
<1>2. \A d, a : Answered(d, a)' <=> Answered(d, a) BY DEF Answered
<1>3. \A m \in requests \cup replies : m.of[1] \in Calls BY DEF RpcType, Exchanges
<1>4. \A m \in requests' \cup replies' : call'[m.of[1]].pc # "idle"
  BY <1>1, <1>3 DEF Told
<1> HIDE DEF Answered
<1> QED BY <1>1, <1>2, <1>4 DEF Told

LEMMA ToldStep == RpcType /\ Told /\ Next => Told'
<1> SUFFICES ASSUME RpcType, Told, Next PROVE Told'
  OBVIOUS
<1>0. RpcType' BY TypeStep
<1>1. \A c \in Calls : call[c] \in CallRecord BY DEF RpcType
<1>2. ASSUME NEW c \in Calls, NEW u, Goes(c, u), UNCHANGED replies,
             \A m \in requests' : m \in requests \/ m.of[1] = c,
             u.pc # "idle",
             u.replyCh # None => Answered(c, u.replyCh),
             u.pc # "done" /\ u.outcome \notin {None, "failed"} => Answered(c, u.outcome),
             u.pc \in {"unregister", "unsubscribe", "return"} => u.outcome # None,
             u.remaining < MaxForwards => \E s \in Services : Answered(c, s)
      PROVE  Told'
  <2>1. u \in CallRecord BY <1>0, <1>2 DEF RpcType, Goes
  <2> HIDE DEF Answered
  <2> QED BY <1>2, <2>1, ToldGoes
<1>3. ASSUME UNCHANGED <<call, requests, replies>> PROVE Told'
  BY <1>3 DEF Told, Answered
<1>4. ASSUME NEW r \in Warm, RegisterRoute(r) PROVE Told'
  BY <1>3, <1>4 DEF RegisterRoute
<1>5. ASSUME NEW c \in Calls, Cancel(c) PROVE Told'
  BY <1>3, <1>5 DEF Cancel, wire
<1>6. ASSUME NEW m \in requests, NEW a \in Answers(m.service), Serve(m, a) PROVE Told'
  <2> DEFINE n == [of |-> m.of, service |-> m.service, to |-> m.to, answer |-> a]
  <2>1. UNCHANGED <<call, requests>> /\ replies' = replies \cup {n} /\ n.of = m.of
    BY <1>6 DEF Serve
  <2> HIDE DEF n
  <2>2. \A d, b : Answered(d, b) => Answered(d, b)' BY <2>1 DEF Answered
  <2> QED BY <2>1, <2>2 DEF Told
<1>7. ASSUME NEW c \in Calls, NEW r \in Asks(c), Call(c, r) PROVE Told'
  <2> DEFINE k == call[c]
             u == [k EXCEPT !.pc = "open", !.route = r, !.service = Service(r)]
  <2>1. /\ k.pc = "idle" /\ u.pc = "open" /\ u.replyCh = k.replyCh /\ u.outcome = k.outcome
        /\ u.remaining = k.remaining
    BY <1>1, <1>7 DEF Call, CallRecord
  <2>2. Goes(c, u) /\ UNCHANGED <<requests, replies>> BY <1>7 DEF Call
  <2> HIDE DEF u
  <2> QED BY <1>2, <2>1, <2>2 DEF Told
<1>8. ASSUME NEW c \in Calls, NEW s \in Replays(c), ReplayDeadLetter(c, s) PROVE Told'
  <2>1. PICK p \in {"return", "open"}, o \in {"failed", None} :
          /\ Goes(c, [call[c] EXCEPT !.replay = TRUE, !.service = s, !.route = registry[s],
                                     !.pc = p, !.outcome = o])
          /\ p = "return" => o = "failed"
    BY <1>8 DEF ReplayDeadLetter
  <2> DEFINE k == call[c]
             u == [k EXCEPT !.replay = TRUE, !.service = s, !.route = registry[s],
                            !.pc = p, !.outcome = o]
  <2>2. /\ k.pc = "idle" /\ u.pc = p /\ u.replyCh = k.replyCh /\ u.outcome = o
        /\ u.remaining = k.remaining
    BY <1>1, <1>8 DEF ReplayDeadLetter, CallRecord
  <2>3. Goes(c, u) /\ UNCHANGED <<requests, replies>> BY <1>8, <2>1 DEF ReplayDeadLetter
  <2> HIDE DEF u
  <2> QED BY <1>2, <2>1, <2>2, <2>3 DEF Told, None
<1>9. ASSUME NEW m \in replies, NEW c \in Calls, Deliver(m, c) PROVE Told'
  <2> DEFINE k == call[c]
             u == [k EXCEPT !.replyCh = m.answer]
  <2>1. /\ u.pc = k.pc /\ u.replyCh = m.answer /\ u.outcome = k.outcome
        /\ u.remaining = k.remaining
    BY <1>1 DEF CallRecord
  <2>2. Goes(c, u) /\ UNCHANGED <<requests, replies>> BY <1>9 DEF Deliver, wire
  <2>3. m.of = Exchange(c) BY <1>9 DEF Deliver, Accepts
  <2>4. m.of[1] = c BY <2>3 DEF Exchange
  <2>5. Answered(c, m.answer) BY <2>4 DEF Answered
  <2>6. k.pc # "idle" BY <2>4 DEF Told
  <2> HIDE DEF u
  <2> QED BY <1>2, <2>1, <2>2, <2>5, <2>6 DEF Told
<1>10. ASSUME NEW c \in Calls, Steps(c) PROVE Told'
  <2> DEFINE k == call[c]
  <2>1. k \in CallRecord BY DEF RpcType
  <2>2. CASE Unbuilt(c) \/ SubscribeFails(c)
    <3> DEFINE u == [k EXCEPT !.pc = "return", !.outcome = "failed"]
    <3>1. /\ u.pc = "return" /\ u.outcome = "failed" /\ u.replyCh = k.replyCh
          /\ u.remaining = k.remaining
      BY <2>1 DEF CallRecord
    <3>2. Goes(c, u) /\ UNCHANGED <<requests, replies>> BY <2>2 DEF Unbuilt, SubscribeFails
    <3> HIDE DEF u
    <3> QED BY <1>2, <3>1, <3>2 DEF Told, None
  <2>3. CASE RegisterHandler(c)
    <3>1. PICK t : Goes(c, [k EXCEPT !.pc = "subscribe", !.topic = t])
      BY <2>3 DEF RegisterHandler
    <3> DEFINE u == [k EXCEPT !.pc = "subscribe", !.topic = t]
    <3>2. /\ u.pc = "subscribe" /\ u.outcome = k.outcome /\ u.replyCh = k.replyCh
          /\ u.remaining = k.remaining /\ k.pc = "open"
      BY <2>1, <2>3 DEF CallRecord, RegisterHandler
    <3>3. Goes(c, u) /\ UNCHANGED <<requests, replies>> BY <2>3, <3>1 DEF RegisterHandler
    <3> HIDE DEF u
    <3> QED BY <1>2, <3>2, <3>3 DEF Told
  <2>4. CASE Subscribe(c) \/ Publish(c) \/ Unregister(c) \/ Unsubscribe(c)
    <3>1. PICK p \in {"publish", "await", "unsubscribe", "return"} :
            /\ Goes(c, [k EXCEPT !.pc = p])
            /\ p \in {"unsubscribe", "return"} => k.pc \in {"unregister", "unsubscribe"}
            /\ k.pc # "done"
      BY <2>4 DEF Subscribe, Publish, Unregister, Unsubscribe
    <3> DEFINE u == [k EXCEPT !.pc = p]
    <3>2. /\ u.pc = p /\ u.outcome = k.outcome /\ u.replyCh = k.replyCh
          /\ u.remaining = k.remaining
      BY <2>1 DEF CallRecord
    <3>3. UNCHANGED replies /\ \A m \in requests' : m \in requests \/ m.of[1] = c
      BY <2>4 DEF Subscribe, Publish, Unregister, Unsubscribe, Exchange
    <3>4. Goes(c, u) BY <3>1
    <3> HIDE DEF u
    <3> QED BY <1>2, <3>1, <3>2, <3>3, <3>4 DEF Told
  <2>5. CASE PublishFails(c) \/ GiveUp(c) \/ TakeReply(c)
    <3>1. PICK o, ch : /\ AttemptEnds(c, o, ch)
                       /\ ch = None \/ ch = k.replyCh
                       /\ o # None
                       /\ o = "failed" \/ (o = k.replyCh)
      BY <2>5 DEF PublishFails, GiveUp, TakeReply, None
    <3>2. k.pc \in {"publish", "await"} /\ UNCHANGED <<requests, replies>>
      BY <2>5 DEF PublishFails, GiveUp, TakeReply
    <3> DEFINE u == [k EXCEPT !.pc = "unregister", !.outcome = o, !.replyCh = ch]
               v == [k EXCEPT !.pc = "publish", !.tries = @ + 1, !.replyCh = ch]
    <3>3. Goes(c, u) \/ Goes(c, v) BY <3>1 DEF AttemptEnds
    <3>4. /\ u.pc = "unregister" /\ u.outcome = o /\ u.replyCh = ch /\ u.remaining = k.remaining
          /\ v.pc = "publish" /\ v.outcome = k.outcome /\ v.replyCh = ch /\ v.remaining = k.remaining
      BY <2>1 DEF CallRecord
    <3>5. o # "failed" => Answered(c, o) BY <3>1 DEF Told
    <3>6. ch # None => Answered(c, ch) BY <3>1 DEF Told
    <3> HIDE DEF u, v
    <3>7. CASE Goes(c, u) BY <1>2, <3>1, <3>2, <3>4, <3>5, <3>6, <3>7 DEF Told
    <3>8. CASE Goes(c, v) BY <1>2, <3>1, <3>2, <3>4, <3>5, <3>6, <3>8 DEF Told
    <3> QED BY <3>3, <3>7, <3>8
  <2>6. ASSUME NEW o, Goes(c, Returned(o)), UNCHANGED <<requests, replies>> PROVE Told'
    <3>1. /\ Returned(o).pc = "done" /\ Returned(o).replyCh = None
          /\ Returned(o).remaining = MaxForwards
      BY DEF Returned, Unasked
    <3>2. ~(MaxForwards < MaxForwards) BY RpcAssumption
    <3> QED BY <1>2, <2>6, <3>1, <3>2
  <2>7. CASE Return(c) BY <2>6, <2>7 DEF Return
  <2>8. CASE followForward(c)
    <3> DEFINE u == [k EXCEPT !.pc = "open", !.service = k.outcome, !.remaining = @ - 1,
                              !.tries = 0, !.replyCh = None, !.outcome = None]
    <3>1. u.pc = "open" /\ u.outcome = None /\ u.replyCh = None BY <2>1 DEF CallRecord
    <3>2. /\ Goes(c, u) \/ Goes(c, Returned("failed"))
          /\ UNCHANGED <<requests, replies>> /\ k.pc = "return" /\ k.outcome \in Services
      BY <2>8 DEF followForward
    <3>3. Answered(c, k.outcome) BY <3>2, RpcAssumption DEF Told
    <3> HIDE DEF u
    <3>4. CASE Goes(c, u) BY <1>2, <3>1, <3>2, <3>3, <3>4
    <3> QED BY <2>6, <3>2, <3>4
  <2> QED BY <1>10, <2>2, <2>3, <2>4, <2>5, <2>7, <2>8 DEF Steps
<1> QED BY <1>4, <1>5, <1>6, <1>7, <1>8, <1>9, <1>10 DEF Next

-----------------------------------------------------------------------------
(* The refinement: a return is an end, an execution an execution, and        *)
(* whatever happens on the wire happens behind the caller's back.            *)
Ended(c) == IF call[c].pc = "done" THEN call[c].outcome ELSE None
Given == {<<m.of[1], m.service, m.answer>> : m \in replies}

LEMMA ClientInit == Init => Client!Init
BY DEF Init, Client!Init, Stage, Unasked, None

LEMMA Behind ==
  ASSUME RpcType, NEW c \in Calls, NEW u, Goes(c, u), UNCHANGED replies,
         call[c].pc \notin {"idle", "done"}, u.pc \notin {"idle", "done"}
  PROVE  UNCHANGED Client!vars
<1>1. \A d \in Calls : Stage(d)' = Stage(d) /\ Ended(d)' = Ended(d)
  BY DEF Goes, RpcType, Stage, Ended
<1>2. Given' = Given BY DEF Given
<1> QED BY <1>1, <1>2 DEF Client!vars, Ended, Given

LEMMA AnsweredExecuted ==
  ASSUME RpcType, NEW c \in Calls, NEW a, Answered(c, a)
  PROVE  Client!Executed(c, a)
<1>1. PICK m \in replies : m.of[1] = c /\ m.answer = a BY DEF Answered
<1>2. m.service \in Services BY DEF RpcType
<1>3. <<c, m.service, a>> \in Given BY <1>1 DEF Given
<1> QED BY <1>2, <1>3 DEF Client!Executed, Given

\* A call that returns ends as RemoteCall lets it.
LEMMA ReturnEnds ==
  ASSUME RpcType, NEW c \in Calls, NEW o, Goes(c, Returned(o)), UNCHANGED replies,
         call[c].pc = "return",
         \/ o = "failed"
         \/ o \in {"value", "error"} /\ Answered(c, o)
         \/ o = "zero" /\ Answered(c, "value") /\ \E s \in Services : Answered(c, s)
  PROVE  Client!Next
<1>1. Returned(o).pc = "done" /\ Returned(o).outcome = o BY DEF Returned, Unasked
<1>2. /\ \A d \in Calls \ {c} : call'[d] = call[d]
      /\ call'[c] = Returned(o)
  BY DEF Goes, RpcType
<1>3. /\ Stage(c) = "asked" /\ Stage(c)' = "ended" /\ Ended(c)' = o
      /\ \A d \in Calls \ {c} : Stage(d)' = Stage(d) /\ Ended(d)' = Ended(d)
  BY <1>1, <1>2 DEF Stage, Ended
<1>4. Given' = Given BY DEF Given
<1>5. \A a : Answered(c, a) => Client!Executed(c, a) BY AnsweredExecuted
<1> DEFINE r == o
<1>6. /\ [d \in Calls |-> Stage(d)]' = [[d \in Calls |-> Stage(d)] EXCEPT ![c] = "ended"]
      /\ [d \in Calls |-> Ended(d)]' = [[d \in Calls |-> Ended(d)] EXCEPT ![c] = o]
  BY <1>3
<1>7. o \in {"failed", "value", "error", "zero"} OBVIOUS
<1>8. Client!End(c, o)
  <2>1. \/ o = "failed"
        \/ o \in {"value", "error"} /\ Client!Executed(c, o)
        \/ /\ o = "zero"
           /\ Client!Executed(c, "value")
           /\ \E s \in Services : Client!Executed(c, s)
    BY <1>5
  <2> QED BY <1>3, <1>4, <1>6, <2>1 DEF Client!End, Ended, Given
<1> QED BY <1>7, <1>8 DEF Client!Next, Client!Ends

LEMMA ClientStep == RpcType /\ RpcType' /\ Told /\ [Next]_vars => [Client!Next]_(Client!vars)
<1> SUFFICES ASSUME RpcType, RpcType', Told, [Next]_vars PROVE [Client!Next]_(Client!vars)
  OBVIOUS
<1>0. \A c \in Calls : call[c] \in CallRecord BY DEF RpcType
<1>1. ASSUME UNCHANGED <<call, replies>> PROVE UNCHANGED Client!vars
  <2>1. \A d \in Calls : Stage(d)' = Stage(d) /\ Ended(d)' = Ended(d)
    BY <1>1 DEF Stage, Ended
  <2>2. Given' = Given BY <1>1 DEF Given
  <2> QED BY <2>1, <2>2 DEF Client!vars, Ended, Given
<1>2. ASSUME NEW r \in Warm, RegisterRoute(r) PROVE UNCHANGED Client!vars
  BY <1>1, <1>2 DEF RegisterRoute
<1>3. ASSUME NEW c \in Calls, Cancel(c) PROVE UNCHANGED Client!vars
  BY <1>1, <1>3 DEF Cancel
<1>4. CASE UNCHANGED vars BY <1>1, <1>4 DEF vars
<1>5. ASSUME NEW c \in Calls, NEW u, Goes(c, u), UNCHANGED replies, call[c].pc = "idle",
             u.pc \notin {"idle", "done"}
      PROVE  Client!Next
  <2>1. /\ \A d \in Calls \ {c} : call'[d] = call[d]
        /\ call'[c] = u
    BY <1>5 DEF Goes, RpcType
  <2>2. /\ Stage(c) = "idle" /\ Stage(c)' = "asked" /\ Ended(c)' = Ended(c)
        /\ \A d \in Calls \ {c} : Stage(d)' = Stage(d) /\ Ended(d)' = Ended(d)
    BY <1>5, <2>1 DEF Stage, Ended
  <2>3. Given' = Given BY <1>5 DEF Given
  <2>4. Client!Ask(c) BY <2>2, <2>3 DEF Client!Ask, Ended, Given
  <2> QED BY <2>4 DEF Client!Next
<1>6. ASSUME NEW c \in Calls, NEW r \in Asks(c), Call(c, r) PROVE Client!Next
  <2> DEFINE u == [call[c] EXCEPT !.pc = "open", !.route = r, !.service = Service(r)]
  <2>1. call[c].pc = "idle" /\ u.pc = "open" BY <1>0, <1>6 DEF Call, CallRecord
  <2>2. Goes(c, u) /\ UNCHANGED replies BY <1>6 DEF Call
  <2> HIDE DEF u
  <2> QED BY <1>5, <2>1, <2>2
<1>7. ASSUME NEW c \in Calls, NEW s \in Replays(c), ReplayDeadLetter(c, s) PROVE Client!Next
  <2>1. PICK p \in {"return", "open"}, o \in {"failed", None} :
          Goes(c, [call[c] EXCEPT !.replay = TRUE, !.service = s, !.route = registry[s],
                                  !.pc = p, !.outcome = o])
    BY <1>7 DEF ReplayDeadLetter
  <2> DEFINE u == [call[c] EXCEPT !.replay = TRUE, !.service = s, !.route = registry[s],
                                  !.pc = p, !.outcome = o]
  <2>2. call[c].pc = "idle" /\ u.pc = p BY <1>0, <1>7 DEF ReplayDeadLetter, CallRecord
  <2>3. Goes(c, u) /\ UNCHANGED replies BY <1>7, <2>1 DEF ReplayDeadLetter
  <2> HIDE DEF u
  <2> QED BY <1>5, <2>1, <2>2, <2>3
<1>8. ASSUME NEW m \in requests, NEW a \in Answers(m.service), Serve(m, a) PROVE Client!Next
  <2>1. m.of[1] \in Calls /\ m.service \in Services BY DEF RpcType, Exchanges
  <2>2. call[m.of[1]].pc # "idle" BY DEF Told
  <2>3. Stage(m.of[1]) # "idle" BY <2>2 DEF Stage
  <2> DEFINE n == [of |-> m.of, service |-> m.service, to |-> m.to, answer |-> a]
  <2>4. call' = call /\ replies' = replies \cup {n} BY <1>8 DEF Serve
  <2>5. Given' = Given \cup {<<m.of[1], m.service, a>>}
    <3>1. n.of = m.of /\ n.service = m.service /\ n.answer = a OBVIOUS
    <3> HIDE DEF n
    <3> QED BY <2>4, <3>1 DEF Given
  <2>6. \A d \in Calls : Stage(d)' = Stage(d) /\ Ended(d)' = Ended(d)
    BY <2>4 DEF Stage, Ended
  <2>7. a \in {"value", "error"} \cup Services BY <2>1, RpcAssumption
  <2>8. Client!Execute(m.of[1], m.service, a)
    BY <2>1, <2>3, <2>5, <2>6 DEF Client!Execute, Ended, Given
  <2> QED BY <2>1, <2>7, <2>8 DEF Client!Next
<1>9. ASSUME NEW m \in replies, NEW c \in Calls, Deliver(m, c) PROVE UNCHANGED Client!vars
  <2> DEFINE u == [call[c] EXCEPT !.replyCh = m.answer]
  <2>1. u.pc = call[c].pc /\ u.outcome = call[c].outcome BY <1>0 DEF CallRecord
  <2>2. Goes(c, u) /\ UNCHANGED replies BY <1>9 DEF Deliver, wire
  <2> HIDE DEF u
  <2>3. \A d \in Calls : Stage(d)' = Stage(d) /\ Ended(d)' = Ended(d)
    BY <2>1, <2>2 DEF Goes, RpcType, Stage, Ended
  <2>4. Given' = Given BY <2>2 DEF Given
  <2> QED BY <2>3, <2>4 DEF Client!vars, Ended, Given
<1>10. ASSUME NEW c \in Calls, Steps(c) PROVE Client!Next \/ UNCHANGED Client!vars
  <2> DEFINE k == call[c]
  <2>1. k \in CallRecord BY <1>0
  <2>2. CASE Return(c)
    <3>1. Goes(c, Returned(Asserted(c))) /\ UNCHANGED replies /\ k.pc = "return" /\ k.outcome \notin Services
      BY <2>2 DEF Return
    <3>2. k.outcome = "failed" \/ (k.outcome \in {"value", "error"} /\ Answered(c, k.outcome))
      <4>1. k.outcome # None /\ (k.outcome # "failed" => Answered(c, k.outcome))
        BY <3>1 DEF Told
      <4>2. k.outcome # "zero"
        <5>1. \A m \in replies : m.answer \in {"value", "error"} \cup Services BY DEF RpcType
        <5> QED BY <4>1, <5>1, RpcAssumption DEF Answered
      <4> QED BY <2>1, <3>1, <4>1, <4>2 DEF CallRecord, Outcomes
    <3>3. \/ Asserted(c) = k.outcome
          \/ /\ Asserted(c) = "zero" /\ k.outcome = "value" /\ k.remaining < MaxForwards
      BY DEF Asserted
    <3>4. k.remaining < MaxForwards => \E s \in Services : Answered(c, s) BY DEF Told
    <3> QED BY <3>1, <3>2, <3>3, <3>4, ReturnEnds
  <2>3. CASE followForward(c)
    <3> DEFINE u == [k EXCEPT !.pc = "open", !.service = k.outcome, !.remaining = @ - 1,
                              !.tries = 0, !.replyCh = None, !.outcome = None]
    <3>1. u.pc = "open" BY <2>1 DEF CallRecord
    <3>2. /\ Goes(c, u) \/ Goes(c, Returned("failed"))
          /\ UNCHANGED replies /\ k.pc = "return"
      BY <2>3 DEF followForward
    <3> HIDE DEF u
    <3>3. CASE Goes(c, u) BY <3>1, <3>2, <3>3, Behind
    <3>4. CASE Goes(c, Returned("failed")) BY <3>2, <3>4, ReturnEnds
    <3> QED BY <3>2, <3>3, <3>4
  <2>4. CASE \/ Unbuilt(c) \/ SubscribeFails(c) \/ RegisterHandler(c) \/ Subscribe(c) \/ Publish(c)
             \/ Unregister(c) \/ Unsubscribe(c) \/ PublishFails(c) \/ GiveUp(c) \/ TakeReply(c)
    <3>1. UNCHANGED replies /\ k.pc \notin {"idle", "done"}
      BY <2>4 DEF Unbuilt, SubscribeFails, RegisterHandler, Subscribe, Publish, Unregister, Unsubscribe,
                  PublishFails, GiveUp, TakeReply
    <3>2. PICK u : Goes(c, u) /\ u.pc \notin {"idle", "done"}
      <4>1. CASE Unbuilt(c) \/ SubscribeFails(c)
        <5>1. [k EXCEPT !.pc = "return", !.outcome = "failed"].pc = "return" BY <2>1 DEF CallRecord
        <5>2. Goes(c, [k EXCEPT !.pc = "return", !.outcome = "failed"])
          BY <4>1 DEF Unbuilt, SubscribeFails
        <5> QED BY <5>1, <5>2
      <4>2. CASE RegisterHandler(c)
        <5>1. PICK t : Goes(c, [k EXCEPT !.pc = "subscribe", !.topic = t]) BY <4>2 DEF RegisterHandler
        <5>2. [k EXCEPT !.pc = "subscribe", !.topic = t].pc = "subscribe" BY <2>1 DEF CallRecord
        <5> QED BY <5>1, <5>2
      <4>3. CASE Subscribe(c) \/ Publish(c) \/ Unregister(c) \/ Unsubscribe(c)
        <5>1. PICK p \in {"publish", "await", "unsubscribe", "return"} : Goes(c, [k EXCEPT !.pc = p])
          BY <4>3 DEF Subscribe, Publish, Unregister, Unsubscribe
        <5>2. [k EXCEPT !.pc = p].pc = p BY <2>1 DEF CallRecord
        <5> QED BY <5>1, <5>2
      <4>4. CASE PublishFails(c) \/ GiveUp(c) \/ TakeReply(c)
        <5>1. PICK o, ch : AttemptEnds(c, o, ch) BY <4>4 DEF PublishFails, GiveUp, TakeReply
        <5> DEFINE u == [k EXCEPT !.pc = "unregister", !.outcome = o, !.replyCh = ch]
                   v == [k EXCEPT !.pc = "publish", !.tries = @ + 1, !.replyCh = ch]
        <5>2. Goes(c, u) \/ Goes(c, v) BY <5>1 DEF AttemptEnds
        <5>3. u.pc = "unregister" /\ v.pc = "publish" BY <2>1 DEF CallRecord
        <5> HIDE DEF u, v
        <5> QED BY <5>2, <5>3
      <4> QED BY <2>4, <4>1, <4>2, <4>3, <4>4
    <3> QED BY <3>1, <3>2, Behind
  <2> QED BY <1>10, <2>2, <2>3, <2>4 DEF Steps
<1>11. CASE Next BY <1>2, <1>3, <1>6, <1>7, <1>8, <1>9, <1>10, <1>11 DEF Next
<1> QED BY <1>4, <1>11

\* Whatever is lost, repeated, retried, forwarded or answered under a shared
\* topic, a call ends once, and in a failure or with what a handler answered
\* that ran for this very call.
THEOREM AnswersOwnHolds == Spec => Client!Init /\ [][Client!Next]_(Client!vars)
<1>1. RpcType /\ Told /\ [Next]_vars => (RpcType /\ Told)'
  <2>1. CASE Next BY <2>1, TypeStep, ToldStep
  <2>2. CASE UNCHANGED vars BY <2>2 DEF vars, RpcType, Told, Answered
  <2> QED BY <2>1, <2>2
<1> QED BY <1>1, RpcInit, ToldInit, ClientInit, ClientStep, PTL DEF Spec

-----------------------------------------------------------------------------
(* The DEALER/ROUTER pair.  Queues without duplicates. *)
Distinct(q) == \A i, j \in 1..Len(q) : q[i] = q[j] => i = j

LEMMA TakeHead ==
  ASSUME NEW S, NEW q \in Seq(S), q # <<>>, Distinct(q)
  PROVE  /\ Head(q) \in S /\ Head(q) \in D!Range(q)
         /\ Tail(q) \in Seq(S) /\ Distinct(Tail(q))
         /\ D!Range(Tail(q)) = D!Range(q) \ {Head(q)}
<1>1. /\ Len(q) \in Nat /\ Len(q) > 0 /\ Head(q) = q[1] /\ DOMAIN q = 1..Len(q)
      /\ Tail(q) \in Seq(S) /\ Len(Tail(q)) = Len(q) - 1
      /\ DOMAIN Tail(q) = 1..(Len(q) - 1)
      /\ \A i \in 1..(Len(q) - 1) : Tail(q)[i] = q[i + 1]
  OBVIOUS
<1>2. Distinct(Tail(q))
  BY <1>1 DEF Distinct
<1>3. D!Range(Tail(q)) \subseteq D!Range(q) \ {Head(q)}
  BY <1>1 DEF Distinct, D!Range
<1>4. ASSUME NEW v \in D!Range(q) \ {Head(q)} PROVE v \in D!Range(Tail(q))
  <2>1. PICK i \in 1..Len(q) : v = q[i]
    BY <1>1 DEF D!Range
  <2>2. i - 1 \in 1..(Len(q) - 1) /\ Tail(q)[i - 1] = v
    BY <1>1, <1>4, <2>1
  <2> QED BY <1>1, <2>2 DEF D!Range
<1>5. D!Range(Tail(q)) = D!Range(q) \ {Head(q)}
  BY <1>3, <1>4
<1>6. Head(q) \in S /\ Head(q) \in D!Range(q)
  BY <1>1 DEF D!Range
<1> QED BY <1>1, <1>2, <1>5, <1>6

LEMMA AppendNew ==
  ASSUME NEW S, NEW q \in Seq(S), NEW v \in S, v \notin D!Range(q), Distinct(q)
  PROVE  /\ Append(q, v) \in Seq(S) /\ Distinct(Append(q, v))
         /\ D!Range(Append(q, v)) = D!Range(q) \cup {v}
<1>1. /\ Len(q) \in Nat /\ DOMAIN q = 1..Len(q)
      /\ Append(q, v) \in Seq(S) /\ Len(Append(q, v)) = Len(q) + 1
      /\ DOMAIN Append(q, v) = 1..(Len(q) + 1)
      /\ Append(q, v)[Len(q) + 1] = v
      /\ \A i \in 1..Len(q) : Append(q, v)[i] = q[i]
  OBVIOUS
<1>2. Distinct(Append(q, v))
  BY <1>1 DEF Distinct, D!Range
<1>3. D!Range(q) \cup {v} \subseteq D!Range(Append(q, v))
  BY <1>1 DEF D!Range
<1>4. D!Range(Append(q, v)) \subseteq D!Range(q) \cup {v}
  BY <1>1 DEF D!Range
<1> QED BY <1>1, <1>2, <1>3, <1>4

LEMMA EmptyQueue ==
  ASSUME NEW S
  PROVE  <<>> \in Seq(S) /\ Distinct(<<>>) /\ D!Range(<<>>) = {}
BY DEF Distinct, D!Range

-----------------------------------------------------------------------------
(* The inductive invariant. *)
LEMMA DealersNamed == D!Nobody \notin Dealers
BY DealersAssumption DEF D!Nobody

CameBack == {c \in Dealers : \E d \in Dealers : got[d] = c}

\* Where a request or its reply is, by the progress of its handler.
Placed(c) ==
  /\ c \in D!Range(toRouter) => c \in D!Sent /\ handler[c] = "none"
  /\ handler[c] # "none" => c \in D!Sent
  /\ c \in D!Sent => c \in D!Range(toRouter) \/ handler[c] # "none"
  /\ c \in D!Range(toDealer) \cup lost \cup CameBack => handler[c] = "done"
  /\ handler[c] = "done" => c \in D!Range(toDealer) \cup lost \cup CameBack
  /\ c \in D!Range(toDealer) => c \notin CameBack

PlaceInv ==
  /\ D!TypeOK
  /\ Distinct(toRouter) /\ Distinct(toDealer)
  /\ \A c \in Dealers : Placed(c)
  /\ \A c, d \in Dealers : got[c] = got[d] /\ c # d => got[c] = D!Nobody
  /\ \A c \in Dealers : dealing[c] # "answered" => got[c] = D!Nobody
  /\ \A c \in Dealers : dealing[c] = "receiving" => D!Unanswered \subseteq nearby[c] \cup {c}
  /\ D!StrayNeedsOverlap
  /\ serve = "returned" => \A c \in Dealers : handler[c] # "running"

LEMMA PlaceInit ==
  ASSUME D!Init PROVE PlaceInv
<1>1. D!TypeOK
  BY EmptyQueue DEF D!Init, D!TypeOK
<1>2. D!Sent = {} /\ CameBack = {}
  BY DealersNamed DEF D!Init, D!Sent, CameBack
<1> QED
  BY <1>1, <1>2, EmptyQueue DEF D!Init, PlaceInv, Placed, D!Unanswered, D!StrayNeedsOverlap

\* What the server's own steps may change without touching the client.
LEMMA ClientUnchanged ==
  ASSUME UNCHANGED D!clientVars
  PROVE  D!Sent' = D!Sent /\ D!Unanswered' = D!Unanswered /\ CameBack' = CameBack
BY DEF D!clientVars, D!Sent, D!Unanswered, CameBack

LEMMA SendStep ==
  ASSUME PlaceInv, NEW c \in Dealers, D!CallSend(c) PROVE PlaceInv'
<1>0. USE DEF D!CallSend, D!serverVars
<1>1. D!Sent' = D!Sent \cup {c} /\ c \notin D!Sent
  BY DEF D!Sent, PlaceInv, D!TypeOK
<1>2. CameBack' = CameBack /\ c \notin CameBack
  BY <1>1 DEF CameBack, PlaceInv, Placed
<1>3. D!Unanswered' = D!Unanswered \cup {c}
  BY <1>1, <1>2 DEF D!Unanswered, CameBack
<1>4. c \notin D!Range(toRouter) /\ handler[c] = "none"
  BY <1>1 DEF PlaceInv, Placed, D!TypeOK
<1>5. /\ toRouter' \in Seq(Dealers) /\ Distinct(toRouter')
      /\ D!Range(toRouter') = D!Range(toRouter) \cup {c}
  BY <1>4, AppendNew DEF PlaceInv, D!TypeOK
<1>6. D!TypeOK'
  BY <1>5 DEF PlaceInv, D!TypeOK, D!Unanswered, D!Sent
<1>7. \A d \in Dealers : Placed(d)'
  BY <1>1, <1>2, <1>4, <1>5 DEF PlaceInv, Placed
<1>8. \A d \in Dealers : dealing'[d] = "receiving" => D!Unanswered' \subseteq nearby'[d] \cup {d}
  BY <1>3 DEF PlaceInv, D!TypeOK
<1>9. D!StrayNeedsOverlap'
  BY DEF PlaceInv, D!TypeOK, D!StrayNeedsOverlap
<1>10. \A d \in Dealers : dealing'[d] # "answered" => got'[d] = D!Nobody
  BY DEF PlaceInv, D!TypeOK
<1> QED BY <1>5, <1>6, <1>7, <1>8, <1>9, <1>10 DEF PlaceInv

LEMMA ReceiveStep ==
  ASSUME PlaceInv, NEW c \in Dealers, D!CallReceive(c) PROVE PlaceInv'
<1>0. USE DEF D!CallReceive, D!serverVars
<1> DEFINE r == Head(toDealer)
<1>1. /\ r \in Dealers /\ r \in D!Range(toDealer)
      /\ toDealer' \in Seq(Dealers) /\ Distinct(toDealer')
      /\ D!Range(toDealer') = D!Range(toDealer) \ {r}
  BY TakeHead DEF PlaceInv, D!TypeOK
<1>2. got[c] = D!Nobody
  BY DEF PlaceInv
<1>3. D!Sent' = D!Sent
  BY DEF D!Sent, PlaceInv, D!TypeOK
<1>4. CameBack' = CameBack \cup {r}
  BY <1>1, <1>2, DealersNamed DEF CameBack, PlaceInv, D!TypeOK
<1>5. r \in D!Unanswered /\ D!Unanswered' \subseteq D!Unanswered
  <2>1. r \in D!Sent /\ r \notin CameBack
    BY <1>1 DEF PlaceInv, Placed
  <2>2. r \in D!Unanswered
    BY <1>1, <2>1 DEF D!Unanswered, CameBack
  <2>3. \A d \in Dealers : got[d] # D!Nobody => got'[d] = got[d]
    BY <1>2 DEF PlaceInv, D!TypeOK
  <2>4. D!Unanswered' \subseteq D!Unanswered
    BY <1>3, <2>3, DealersNamed DEF D!Unanswered, D!Sent
  <2> QED BY <2>2, <2>4
<1>6. D!TypeOK'
  BY <1>1 DEF PlaceInv, D!TypeOK
<1>7. \A d \in Dealers : Placed(d)'
  BY <1>1, <1>3, <1>4 DEF PlaceInv, Placed
<1>8. \A d \in Dealers : dealing'[d] = "receiving" => D!Unanswered' \subseteq nearby'[d] \cup {d}
  BY <1>5 DEF PlaceInv, D!TypeOK
<1>9. D!StrayNeedsOverlap'
  BY <1>5 DEF PlaceInv, D!TypeOK, D!StrayNeedsOverlap
<1>10. \A d, e \in Dealers : got'[d] = got'[e] /\ d # e => got'[d] = D!Nobody
  <2>1. \A d \in Dealers : got[d] # r
    BY <1>1 DEF PlaceInv, Placed, CameBack
  <2> QED BY <2>1 DEF PlaceInv, D!TypeOK
<1>11. \A d \in Dealers : dealing'[d] # "answered" => got'[d] = D!Nobody
  BY DEF PlaceInv, D!TypeOK
<1> QED BY <1>1, <1>6, <1>7, <1>8, <1>9, <1>10, <1>11 DEF PlaceInv

\* A call that ends without a reply leaves what is outstanding as it is.
LEMMA EndStep ==
  ASSUME PlaceInv, NEW c \in Dealers, D!CallSendFails(c) \/ D!CallGiveUp(c) PROVE PlaceInv'
<1>0. USE DEF D!CallSendFails, D!CallGiveUp, D!serverVars
<1>1. D!Sent' = D!Sent
  BY DEF D!Sent, PlaceInv, D!TypeOK
<1>2. CameBack' = CameBack /\ D!Unanswered' = D!Unanswered
  BY <1>1 DEF CameBack, D!Unanswered
<1>3. D!TypeOK'
  BY DEF PlaceInv, D!TypeOK
<1>4. \A d \in Dealers : dealing'[d] \in {"receiving", "answered"} => dealing[d] = dealing'[d]
  BY DEF PlaceInv, D!TypeOK
<1>5. \A d \in Dealers : dealing'[d] # "answered" => got'[d] = D!Nobody
  BY DEF PlaceInv, D!TypeOK
<1> QED BY <1>1, <1>2, <1>3, <1>4, <1>5 DEF PlaceInv, Placed, D!StrayNeedsOverlap

LEMMA TakeRequestStep == PlaceInv /\ D!ServeReceive => PlaceInv'
<1> SUFFICES ASSUME PlaceInv, D!ServeReceive PROVE PlaceInv'
  OBVIOUS
<1>0. USE DEF D!ServeReceive
<1> DEFINE r == Head(toRouter)
<1>1. /\ r \in Dealers /\ r \in D!Range(toRouter)
      /\ toRouter' \in Seq(Dealers) /\ Distinct(toRouter')
      /\ D!Range(toRouter') = D!Range(toRouter) \ {r}
  BY TakeHead DEF PlaceInv, D!TypeOK
<1>2. D!Sent' = D!Sent /\ D!Unanswered' = D!Unanswered /\ CameBack' = CameBack
  BY ClientUnchanged
<1>3. D!TypeOK'
  BY <1>1 DEF PlaceInv, D!TypeOK, D!clientVars
<1>4. \A d \in Dealers : Placed(d)'
  BY <1>1, <1>2 DEF PlaceInv, Placed, D!TypeOK
<1> QED BY <1>1, <1>2, <1>3, <1>4 DEF PlaceInv, D!StrayNeedsOverlap, D!clientVars

LEMMA DispatchStep ==
  ASSUME PlaceInv, NEW c \in Dealers, D!DispatchOne(c) PROVE PlaceInv'
<1>0. USE DEF D!DispatchOne, D!Finish
<1>1. D!Sent' = D!Sent /\ D!Unanswered' = D!Unanswered /\ CameBack' = CameBack
  BY ClientUnchanged
<1>2. c \notin D!Range(toDealer)
  BY DEF PlaceInv, Placed
<1>3. /\ toDealer' \in Seq(Dealers) /\ Distinct(toDealer')
      /\ D!Range(toDealer') \cup lost' = D!Range(toDealer) \cup lost \cup {c}
      /\ D!Range(toDealer') \subseteq D!Range(toDealer) \cup {c}
      /\ lost' \subseteq Dealers
  <2>1. toDealer \in Seq(Dealers) /\ Distinct(toDealer) /\ lost \subseteq Dealers
    BY DEF PlaceInv, D!TypeOK
  <2>2. CASE toDealer' = Append(toDealer, c) /\ UNCHANGED lost
    BY <1>2, <2>1, <2>2, AppendNew
  <2>3. CASE lost' = lost \cup {c} /\ UNCHANGED toDealer
    BY <2>1, <2>3
  <2> QED BY <2>2, <2>3 DEF D!Reply
<1>4. D!TypeOK'
  BY <1>3 DEF PlaceInv, D!TypeOK, D!clientVars
<1>5. c \notin CameBack
  BY DEF PlaceInv, Placed
<1>6. \A d \in Dealers : Placed(d)'
  BY <1>1, <1>3, <1>5 DEF PlaceInv, Placed, D!TypeOK
<1> QED BY <1>1, <1>3, <1>4, <1>6 DEF PlaceInv, D!TypeOK, D!StrayNeedsOverlap, D!clientVars

LEMMA ServeEndStep ==
  ASSUME PlaceInv, D!ServeStop \/ D!ServeReturn \/ D!ServeFail \/ D!Cancel PROVE PlaceInv'
<1>0. USE DEF D!ServeStop, D!ServeReturn, D!ServeFail, D!Cancel
<1>1. D!Sent' = D!Sent /\ D!Unanswered' = D!Unanswered /\ CameBack' = CameBack
  BY ClientUnchanged
<1>2. D!TypeOK'
  BY DEF PlaceInv, D!TypeOK, D!clientVars
<1>3. serve' = "returned" => \A c \in Dealers : handler'[c] # "running"
  BY DEF PlaceInv
<1> QED BY <1>1, <1>2, <1>3 DEF PlaceInv, Placed, D!StrayNeedsOverlap, D!clientVars

LEMMA PlaceStep ==
  ASSUME PlaceInv, [D!Next]_(D!vars) PROVE PlaceInv'
<1>1. ASSUME NEW c \in Dealers, D!CallStep(c) PROVE PlaceInv'
  BY <1>1, SendStep, ReceiveStep, EndStep DEF D!CallStep
<1>2. ASSUME NEW c \in Dealers, D!DispatchOne(c) PROVE PlaceInv'
  BY <1>2, DispatchStep
<1>3. CASE D!ServeStep \/ D!Cancel
  BY <1>3, TakeRequestStep, ServeEndStep DEF D!ServeStep
<1>4. CASE UNCHANGED D!vars
  <2>1. D!Sent' = D!Sent /\ D!Unanswered' = D!Unanswered /\ CameBack' = CameBack
    BY <1>4, ClientUnchanged DEF D!vars, D!clientVars
  <2> QED BY <1>4, <2>1 DEF D!vars, PlaceInv, Placed, D!TypeOK, D!StrayNeedsOverlap
<1> QED BY <1>1, <1>2, <1>3, <1>4 DEF D!Next

LEMMA PlaceHolds == MCSpec => []PlaceInv
<1>1. MCInit => PlaceInv BY PlaceInit DEF MCInit
<1>2. PlaceInv /\ [MCNext]_<<client, vars, dealerVars>> => PlaceInv'
  <2>1. UNCHANGED dealerVars => UNCHANGED D!vars BY DEF dealerVars, D!vars
  <2> QED BY <2>1, PlaceStep DEF MCNext
<1> QED BY <1>1, <1>2, PTL DEF MCSpec

-----------------------------------------------------------------------------
\* A call that returns with a stray reply overlapped with the one it was for.
THEOREM StrayNeedsOverlapHolds == MCSpec => []StrayNeedsOverlap
<1>1. PlaceInv => StrayNeedsOverlap
  BY DEF PlaceInv, StrayNeedsOverlap
<1> QED BY <1>1, PlaceHolds, PTL

\* A reply is used once, and none of a taken request is dropped when Serve
\* returns because its context ended.
THEOREM RepliesKeptHolds == MCSpec => []RepliesKept
<1>1. ASSUME PlaceInv PROVE D!AnsweredOnce
  <2>1. Distinct(toDealer) /\ \A c, d \in Dealers : got[c] = got[d] /\ c # d => got[c] = D!Nobody
    BY <1>1 DEF PlaceInv
  <2>2. /\ toDealer \in Seq(Dealers) /\ got \in [Dealers -> Dealers \cup {D!Nobody}]
        /\ \A c \in Dealers : c \in D!Range(toDealer) => c \notin CameBack
    BY <1>1 DEF PlaceInv, D!TypeOK, Placed
  <2>3. D!Range(toDealer) \subseteq Dealers BY <2>2 DEF D!Range
  <2>4. ASSUME NEW c \in Dealers PROVE got[c] \notin D!Range(toDealer)
    <3>1. CASE got[c] = D!Nobody BY <2>3, <3>1, DealersNamed
    <3>2. CASE got[c] # D!Nobody
      <4>1. got[c] \in Dealers /\ got[c] \in CameBack BY <2>2, <3>2 DEF CameBack
      <4> QED BY <2>2, <4>1
    <3> QED BY <3>1, <3>2
  <2> QED BY <2>1, <2>4 DEF Distinct, D!AnsweredOnce
<1>2. PlaceInv => D!DrainedAtReturn
  BY DEF PlaceInv, Placed, D!DrainedAtReturn, CameBack, D!TypeOK, D!Sent
<1>3. PlaceInv => RepliesKept
  BY <1>1, <1>2 DEF RepliesKept, D!RepliesKept
<1> QED BY <1>3, PlaceHolds, PTL
=============================================================================
