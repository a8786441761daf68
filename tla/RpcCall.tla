------------------------------ MODULE RpcCall -------------------------------
(***************************************************************************)
(* reqreply.Client over the MQTT 5 transport: calls that share one paho    *)
(* router and one broker connection, each waiting on a reply topic for the *)
(* message with its correlation data, retried by a middleware of the route *)
(* or forwarded to another topic by the answer, and dead letters replayed. *)
(*                                                                         *)
(* A request and a reply stay in requests and replies: a message may be    *)
(* executed or delivered again (QoS 1), in any order, or never.            *)
(***************************************************************************)
EXTENDS Naturals

CONSTANTS Calls,
          Routes, Services, \* declared routes, and the topics they are on
          Service(_),       \* a route's topic
          Scheme(_),        \* its security scheme, or NoScheme
          Resp(_),          \* the type of its response
          Answers(_),       \* what the handler at a topic may answer
          MaxForwards,
          Retries(_),       \* bound: retries by the middleware of the call's route
          Warm,             \* the routes the application registers itself
          Asks(_),          \* the routes a caller calls, and
          Replays(_),       \* the topics whose dead letters it replays
          ReplyTopic(_)     \* what the ReplyTopicBuilder may return for the
                            \* exchange <<call, remaining>>

NoRoute == "no route"
NoScheme == "no scheme"
None == "none"
Failures == {"failed", "error"} \cup Services

ASSUME RpcAssumption ==
  /\ \A r \in Routes : Service(r) \in Services
  /\ \A s \in Services : Answers(s) \subseteq {"value", "error"} \cup Services
  /\ Warm \subseteq Routes
  /\ \A c \in Calls : Retries(c) \in Nat /\ Asks(c) \subseteq Routes /\ Replays(c) \subseteq Services
  /\ MaxForwards \in Nat \ {0}
  /\ NoRoute \notin Routes /\ {"value", "error", "zero", "failed"} \cap Services = {}

VARIABLES
  registry,  \* Client.routes: the route indexed under a topic
  poisoned,  \* topics that two routes of different types were indexed under
  call,      \* [Calls -> the call's goroutine]
  ctxDone,   \* calls whose context has ended
  handlers,  \* the router's <<reply topic, exchange>>
  subs,      \* the reply topics the client is subscribed to at the broker
  requests, replies

vars == <<registry, poisoned, call, ctxDone, handlers, subs, requests, replies>>
routing == <<registry, poisoned>>
wire == <<requests, replies>>

Exchange(c) == <<c, call[c].remaining>>

\* The first exchange of Client.Call goes through clientTransport.call and the
\* route's middleware; the others, and those of a replay, through CallRaw.
Raw(c) == call[c].replay \/ call[c].remaining < MaxForwards

-----------------------------------------------------------------------------
(***************************************************************************)
(* reqreply.Client.                                                        *)
(***************************************************************************)
Unasked == [pc |-> "idle", route |-> NoRoute, replay |-> FALSE, service |-> None,
            remaining |-> MaxForwards, tries |-> 0, topic |-> <<>>, replyCh |-> None,
            outcome |-> None]

\* The call's goroutine goes on with the locals k.
Goes(c, k) == call' = [call EXCEPT ![c] = k]

\* The call has returned: its locals are gone.
Returned(o) == [Unasked EXCEPT !.pc = "done", !.outcome = o]

Init == /\ registry = [s \in Services |-> NoRoute]
        /\ poisoned = {}
        /\ call = [c \in Calls |-> Unasked]
        /\ ctxDone = {} /\ handlers = {} /\ subs = {}
        /\ requests = {} /\ replies = {}

RegisterRoute(r) ==
  /\ registry[Service(r)] = NoRoute
  /\ registry' = [registry EXCEPT ![Service(r)] = r]
  /\ UNCHANGED <<poisoned, call, ctxDone, handlers, subs, requests, replies>>

registerAutoFromCall(r) ==
  IF registry[Service(r)] = NoRoute
  THEN registry' = [registry EXCEPT ![Service(r)] = r] /\ UNCHANGED poisoned
  ELSE /\ poisoned' = IF registry[Service(r)] = r THEN poisoned ELSE poisoned \cup {Service(r)}
       /\ UNCHANGED registry

Call(c, r) ==
  /\ call[c].pc = "idle"
  /\ registerAutoFromCall(r)
  /\ Goes(c, [call[c] EXCEPT !.pc = "open", !.route = r, !.service = Service(r)])
  /\ UNCHANGED <<ctxDone, handlers, subs, requests, replies>>

ReplayDeadLetter(c, s) ==
  /\ call[c].pc = "idle"
  /\ Goes(c, [call[c] EXCEPT !.replay = TRUE, !.service = s, !.route = registry[s],
       !.pc = IF registry[s] = NoRoute \/ s \in poisoned THEN "return" ELSE "open",
       !.outcome = IF registry[s] = NoRoute \/ s \in poisoned THEN "failed" ELSE None])
  /\ UNCHANGED <<routing, ctxDone, handlers, subs, requests, replies>>

\* checkForwardSecurityScheme
Trusts(origin, target) == Scheme(target) \in {NoScheme, Scheme(origin)}

Resolves(c, s) == /\ registry[s] # NoRoute /\ s \notin poisoned
                  /\ Trusts(call[c].route, registry[s])

\* A reply of a route with another response type fails the caller's type
\* assertion, whose second result Client.Call ignores.
Asserted(c) ==
  IF call[c].outcome = "value" /\ ~call[c].replay /\ call[c].remaining < MaxForwards
     /\ Resp(registry[call[c].service]) # Resp(call[c].route)
  THEN "zero" ELSE call[c].outcome

Return(c) ==
  /\ call[c].pc = "return"
  /\ call[c].outcome \notin Services
  /\ Goes(c, Returned(Asserted(c)))
  /\ UNCHANGED <<routing, ctxDone, handlers, subs, requests, replies>>

followForward(c) ==
  /\ call[c].pc = "return" /\ call[c].outcome \in Services
  /\ IF call[c].remaining > 0 /\ Resolves(c, call[c].outcome)
     THEN Goes(c, [call[c] EXCEPT !.pc = "open", !.service = call[c].outcome,
                     !.remaining = @ - 1, !.tries = 0, !.replyCh = None, !.outcome = None])
     ELSE Goes(c, Returned("failed"))
  /\ UNCHANGED <<routing, ctxDone, handlers, subs, requests, replies>>

-----------------------------------------------------------------------------
(***************************************************************************)
(* clientTransport.call and CallRaw.                                       *)
(***************************************************************************)
\* The request does not encode, a parameter is invalid, the builder returns
\* no topic: nothing was registered yet.
Unbuilt(c) ==
  /\ call[c].pc = "open"
  /\ Goes(c, [call[c] EXCEPT !.pc = "return", !.outcome = "failed"])
  /\ UNCHANGED <<routing, ctxDone, handlers, subs, requests, replies>>

RegisterHandler(c) ==
  /\ call[c].pc = "open"
  /\ \E t \in ReplyTopic(Exchange(c)) :
       /\ handlers' = handlers \cup {<<t, Exchange(c)>>}
       /\ Goes(c, [call[c] EXCEPT !.pc = "subscribe", !.topic = t])
  /\ UNCHANGED <<routing, ctxDone, subs, requests, replies>>

Subscribe(c) ==
  /\ call[c].pc = "subscribe" /\ c \notin ctxDone
  /\ subs' = subs \cup {call[c].topic}
  /\ Goes(c, [call[c] EXCEPT !.pc = "publish"])
  /\ UNCHANGED <<routing, ctxDone, handlers, requests, replies>>

\* Router.UnregisterHandler removes every handler of the topic.
Unregistered(c) == {h \in handlers : h[1] # call[c].topic}

\* Mutant: the handler is left in the router.
SubscribeFailsKeeping(c) ==
  /\ call[c].pc = "subscribe"
  /\ Goes(c, [call[c] EXCEPT !.pc = "return", !.outcome = "failed"])
  /\ UNCHANGED <<routing, ctxDone, handlers, subs, requests, replies>>

SubscribeFails(c) ==
  /\ call[c].pc = "subscribe"
  /\ handlers' = Unregistered(c)
  /\ Goes(c, [call[c] EXCEPT !.pc = "return", !.outcome = "failed"])
  /\ UNCHANGED <<routing, ctxDone, subs, requests, replies>>

Publish(c) ==
  /\ call[c].pc = "publish" /\ c \notin ctxDone
  /\ requests' = requests \cup {[of |-> Exchange(c), service |-> call[c].service, to |-> call[c].topic]}
  /\ Goes(c, [call[c] EXCEPT !.pc = "await"])
  /\ UNCHANGED <<routing, ctxDone, handlers, subs, replies>>

\* An attempt ends with o.  The middleware around innerCall may call it again,
\* with the same correlation data, reply topic and channel.
AttemptEnds(c, o, ch) ==
  \/ Goes(c, [call[c] EXCEPT !.pc = "unregister", !.outcome = o, !.replyCh = ch])
  \/ /\ o \in Failures /\ ~Raw(c) /\ call[c].tries < Retries(c)
     /\ Goes(c, [call[c] EXCEPT !.pc = "publish", !.tries = @ + 1, !.replyCh = ch])

PublishFails(c) ==
  /\ call[c].pc = "publish"
  /\ AttemptEnds(c, "failed", call[c].replyCh)
  /\ UNCHANGED <<routing, ctxDone, handlers, subs, requests, replies>>

\* Mutant: the attempt, rather than the call, takes its handler away.
GiveUpTidy(c) ==
  /\ call[c].pc = "await"
  /\ AttemptEnds(c, "failed", call[c].replyCh)
  /\ handlers' = Unregistered(c)
  /\ UNCHANGED <<routing, ctxDone, subs, requests, replies>>

\* The timer or the context.
GiveUp(c) ==
  /\ call[c].pc = "await"
  /\ AttemptEnds(c, "failed", call[c].replyCh)
  /\ UNCHANGED <<routing, ctxDone, handlers, subs, requests, replies>>

\* A value may fail to decode, and its properties to validate.
TakeReply(c) ==
  /\ call[c].pc = "await" /\ call[c].replyCh # None
  /\ \/ AttemptEnds(c, call[c].replyCh, None)
     \/ call[c].replyCh = "value" /\ AttemptEnds(c, "failed", None)
  /\ UNCHANGED <<routing, ctxDone, handlers, subs, requests, replies>>

Unregister(c) ==
  /\ call[c].pc = "unregister"
  /\ handlers' = Unregistered(c)
  /\ Goes(c, [call[c] EXCEPT !.pc = "unsubscribe"])
  /\ UNCHANGED <<routing, ctxDone, subs, requests, replies>>

\* Unsubscribe gets the call's context, which may have ended.
Unsubscribe(c) ==
  /\ call[c].pc = "unsubscribe"
  /\ subs' = IF c \in ctxDone THEN subs ELSE subs \ {call[c].topic}
  /\ Goes(c, [call[c] EXCEPT !.pc = "return"])
  /\ UNCHANGED <<routing, ctxDone, handlers, requests, replies>>

-----------------------------------------------------------------------------
(***************************************************************************)
(* The caller, the servers and the broker.                                 *)
(***************************************************************************)
Cancel(c) ==
  /\ call[c].pc \notin {"idle", "done"} /\ c \notin ctxDone
  /\ ctxDone' = ctxDone \cup {c}
  /\ UNCHANGED <<routing, call, handlers, subs, requests, replies>>

Serve(m, a) ==
  /\ a \in Answers(m.service)
  /\ replies' = replies \cup {[of |-> m.of, service |-> m.service, to |-> m.to, answer |-> a]}
  /\ UNCHANGED <<routing, call, ctxDone, handlers, subs, requests>>

\* Mutant: the correlation data is not compared.
AcceptsTopic(h, m) == h[1] = m.to
\* The closure RegisterHandler was given: it drops a message with other
\* correlation data, and one that finds replyCh full.
Accepts(h, m) == h[1] = m.to /\ h[2] = m.of

Deliver(m, c) ==
  /\ m.to \in subs
  /\ \E h \in handlers : h[2] = Exchange(c) /\ Accepts(h, m)
  /\ call[c].replyCh = None
  /\ Goes(c, [call[c] EXCEPT !.replyCh = m.answer])
  /\ UNCHANGED <<routing, ctxDone, handlers, subs, requests, replies>>

-----------------------------------------------------------------------------
Steps(c) == \/ Unbuilt(c) \/ RegisterHandler(c)
            \/ Subscribe(c) \/ SubscribeFails(c) \/ Publish(c) \/ PublishFails(c)
            \/ GiveUp(c) \/ TakeReply(c) \/ Unregister(c) \/ Unsubscribe(c)
            \/ Return(c) \/ followForward(c)

Next == \/ \E r \in Warm : RegisterRoute(r)
        \/ \E c \in Calls : \/ \E r \in Asks(c) : Call(c, r)
                            \/ \E s \in Replays(c) : ReplayDeadLetter(c, s)
                            \/ Steps(c) \/ Cancel(c)
        \/ \E m \in requests : \E a \in Answers(m.service) : Serve(m, a)
        \/ \E m \in replies, c \in Calls : Deliver(m, c)

\* A call's goroutine runs, its timer fires, and Publish, Subscribe and
\* Unsubscribe return.
Spec == Init /\ [][Next]_vars /\ \A c \in Calls : WF_vars(Steps(c))

-----------------------------------------------------------------------------
(***************************************************************************)
(* Properties.                                                             *)
(***************************************************************************)
\* A call between its subscription and its clean-up can be reached by its own
\* reply: its handler is registered and its reply topic subscribed, unless a
\* builder returned that topic for another exchange too, whose clean-up takes
\* both away (UnregisterHandler and Unsubscribe know only the topic).  A retry
\* sends the request again under the topic and handler of the first attempt.
Reachable(c) == /\ <<call[c].topic, Exchange(c)>> \in handlers
                /\ call[c].topic \in subs

SharesTopic(c) == \E d \in Calls, n \in 0..MaxForwards :
                    <<d, n>> # Exchange(c) /\ call[c].topic \in ReplyTopic(<<d, n>>)

ListensWhileAwaiting ==
  \A c \in Calls : call[c].pc \in {"publish", "await"} => Reachable(c) \/ SharesTopic(c)

\* What an exchange leaves behind once the call goes on to another or returns:
\* nothing in the router, whichever step failed, and at the broker only
\* subscriptions of calls whose context had ended, in which Unsubscribe cannot
\* be sent.
Open(e) == Exchange(e[1]) = e /\ call[e[1]].pc \in {"subscribe", "publish", "await", "unregister"}

NothingLeftBehind ==
  /\ \A h \in handlers : Open(h[2])
  /\ \A t \in subs : \/ \E c \in Calls : call[c].topic = t /\ call[c].pc \in
                          {"publish", "await", "unregister", "unsubscribe"}
                     \/ \E c \in ctxDone, n \in 0..MaxForwards : t \in ReplyTopic(<<c, n>>)

\* An exchange listens exactly as long as it is open.
ListensWhileOpen == ListensWhileAwaiting /\ NothingLeftBehind

\* Client.Call and ReplayDeadLetter end, and end with what a handler answered
\* to a request of this call (or a failure of their own), never with the answer
\* to another call that came to the same reply topic, or with a forward that is
\* still to be followed; a cycle of forwards ends at MaxForwards.
Stage(c) == IF call[c].pc = "idle" THEN "idle"
            ELSE IF call[c].pc = "done" THEN "ended" ELSE "asked"

Client == INSTANCE RemoteCall WITH
            Values <- {"value", "error"} \cup Services,
            stage <- [c \in Calls |-> Stage(c)],
            executions <- {<<m.of[1], m.service, m.answer>> : m \in replies},
            result <- [c \in Calls |-> IF call[c].pc = "done" THEN call[c].outcome ELSE None]

KeepsPromise == Client!Spec
=============================================================================
