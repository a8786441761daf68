------------------------------ MODULE Dispatch ------------------------------
(***************************************************************************)
(* What a server does with one incoming message, in every adapter: a fixed *)
(* order of checks, the application's handler, the encoding of its result, *)
(* and, at the first step that fails, the outlets that failure is reported *)
(* to.  Which adapter runs (kind) and what its route declares is chosen in *)
(* the initial state.                                                      *)
(*                                                                         *)
(*   rest            restdispatch.DispatchRoute (nethttp and chi)          *)
(*   mqtt5Reply      mqtt5 reqreplyServerDispatchOne                       *)
(*   zmqRep          zeromq reqreplyServerDispatchOne, REP socket          *)
(*   zmqRouter       the same on a ROUTER socket, a goroutine per request  *)
(*   mqtt5Subscribe, mqttSubscribe, zmqSubscribe                           *)
(*                   subscribeDispatchCore and processMessage              *)
(*                                                                         *)
(* Whether a step fails, a publish is refused or an error pattern matches  *)
(* is up to the message, and so a choice.  A middleware of the route puts  *)
(* a context field in the box of its context for the handler to read.      *)
(***************************************************************************)
EXTENDS Naturals, Sequences, FiniteSets

CONSTANTS Kinds, Messages

Repliers == {"mqtt5Reply", "zmqRep", "zmqRouter"}
Subscribers == {"mqtt5Subscribe", "mqttSubscribe", "zmqSubscribe"}
Nobody == "nobody"
Unread == "unread"

ASSUME DispatchAssumption ==
  /\ Kinds \subseteq {"rest"} \cup Repliers \cup Subscribers
  /\ {Nobody, Unread} \cap Messages = {}

VARIABLES
  kind,      \* the adapter
  route,     \* what the route declares
  replyTo,   \* messages that name a response topic (all, but for MQTT 5)
  at,        \* "queued", the steps still to do, "settling" or "done"
  todo,      \* outlets of a failure still to do
  outcome,   \* "open", "handled", "forwarded", "failed", "denied", "ignored"
  log,       \* answers and reports attempted, and what became of each
  box,       \* whose field each context box holds
  seen,      \* whose field the handler read
  near       \* history: the messages dispatched at the same time as this one

vars == <<kind, route, replyTo, at, todo, outcome, log, box, seen, near>>
setup == <<kind, route, replyTo>>

-----------------------------------------------------------------------------
(***************************************************************************)
(* The order of the steps: of the request, the checks that this route has  *)
(* a use for, the handler, and the response.                               *)
(***************************************************************************)
If(b, step) == IF b THEN <<step>> ELSE <<>>

RestRequest == <<"negotiate", "read", "params", "decode">>
Mqtt5Request == <<"properties", "topic", "decode", "merge">>
ZmqRequest == <<"decode", "merge">>
Mqtt5Message == <<"match", "decode", "merge", "properties">>
MqttMessage == <<"match", "decode">>
ZmqMessage == <<"match", "topic", "decode">>

Request(k) ==
  CASE k = "rest" -> RestRequest
    [] k = "mqtt5Reply" -> Mqtt5Request
    [] k \in {"zmqRep", "zmqRouter"} -> ZmqRequest
    [] k = "mqtt5Subscribe" -> Mqtt5Message
    [] k = "mqttSubscribe" -> MqttMessage
    [] k = "zmqSubscribe" -> ZmqMessage

\* An implementation that is not paired with a scheme runs on open routes too.
Granting(r) == If(r.implements, "security") \o If(r.middleware, "middleware")

MqttChecks(r) == Granting(r) \o If(r.secured, "scopes")
Mqtt5Checks(r) == If(r.secured, "credentials") \o MqttChecks(r)
\* ZeroMQ checks the scopes only if a middleware can grant them.
ZmqChecks(r) == Granting(r) \o If(r.secured /\ r.satisfies, "scopes")

Checks(k, r) ==
  CASE k \in {"rest", "mqtt5Reply", "mqtt5Subscribe"} -> Mqtt5Checks(r)
    [] k = "mqttSubscribe" -> MqttChecks(r)
    [] OTHER -> ZmqChecks(r)

RestResponse(r) ==
  <<"merge">> \o If(r.middleware, "encodeOut") \o <<"accept", "encode", "validate", "write">>

Response(k, r) ==
  CASE k = "rest" -> RestResponse(r)
    [] k \in Repliers -> <<"encode", "publish">>
    [] OTHER -> <<>>

StepsOf(k, r) == Request(k) \o Checks(k, r) \o <<"handler">> \o Response(k, r)

\* CheckCoverage: a secured route has an implementation, paired or in a middleware.
Routes ==
  {r \in [secured : BOOLEAN, implements : BOOLEAN, satisfies : BOOLEAN, middleware : BOOLEAN,
          pattern : BOOLEAN, deadLetter : BOOLEAN] :
     /\ r.secured => (r.implements \/ r.satisfies)
     /\ r.satisfies => r.middleware}

-----------------------------------------------------------------------------
(***************************************************************************)
(* The outlets of a failure: an error pattern that the route declares may  *)
(* match the error and ask for a response, match it and ask for something  *)
(* else, or not match.                                                     *)
(***************************************************************************)
Matches(r) == IF r.pattern THEN {"respond", "other", "none"} ELSE {"none"}

\* These statuses are given by the adapter, whatever the patterns say.
FixedStatus == {"negotiate", "read", "credentials", "accept", "validate"}
RestOutlets(s, match) == IF s \notin FixedStatus /\ match = "respond" THEN <<"pattern">> ELSE <<"error">>

\* Mutant: a failed encoding is answered like a refused reply, not at all.
ReplyOutletsSilent(r, named, s) ==
  If(named /\ s \notin {"publish", "encode"}, "errorReply") \o If(r.deadLetter, "deadLetter")
    \o <<"onError">>

\* An error reply (typed or plain), the dead letter channel, then onError.
ReplyOutlets(r, named, s) ==
  If(named /\ s # "publish", "errorReply") \o If(r.deadLetter, "deadLetter") \o <<"onError">>

\* Mutant: the dead letter channel does not end the report.
SubscribeOutletsBoth(r, s, match) ==
  IF s = "match" THEN <<>>
  ELSE IF match = "respond" THEN <<"errorChannel">>
  ELSE If(match = "none" /\ r.deadLetter, "deadLetter") \o <<"onError">>

\* Exactly one of the error channel, the dead letter channel and onError.
SubscribeOutlets(r, s, match) ==
  CASE s = "match" -> <<>>
    [] s = "credentials" -> <<"onError">>
    [] OTHER -> IF match = "respond" THEN <<"errorChannel">>
                ELSE IF match = "none" /\ r.deadLetter THEN <<"deadLetter">>
                ELSE <<"onError">>

Outlets(k, r, named, s, match) ==
  CASE k = "rest" -> RestOutlets(s, match)
    [] k \in Repliers -> ReplyOutlets(r, named, s)
    [] OTHER -> SubscribeOutlets(r, s, match)

\* A handler that returns a ForwardError or a RedirectError.
ForwardOutlets(k, named) == IF k = "rest" THEN <<"redirect">> ELSE If(named, "forward") \o <<"onError">>

-----------------------------------------------------------------------------
(***************************************************************************)
(* Scheduling and context boxes.                                           *)
(***************************************************************************)
\* net/http and the ROUTER server start a goroutine for each message, and the
\* MQTT client does if it is told that order does not matter.
Concurrent(k) == k \in {"rest", "zmqRouter", "mqttSubscribe"}

\* The request-reply servers make a box when Serve starts, the others for each message.
BoxOf(k, m) == IF k \in Repliers THEN Nobody ELSE m

Active == {m \in Messages : at[m] \notin {<<"queued">>, <<"done">>}}
Steps == StepsOf(kind, route)

Init ==
  /\ kind \in Kinds
  /\ route \in Routes
  /\ kind = "rest" => ~route.deadLetter
  /\ replyTo \in IF kind = "mqtt5Reply" THEN SUBSET Messages ELSE {Messages}
  /\ at = [m \in Messages |-> <<"queued">>]
  /\ todo = [m \in Messages |-> <<>>]
  /\ outcome = [m \in Messages |-> "open"]
  /\ log = [m \in Messages |-> <<>>]
  /\ box = [b \in Messages \cup {Nobody} |-> Nobody]
  /\ seen = [m \in Messages |-> Unread]
  /\ near = [m \in Messages |-> {}]

Take(m) ==
  /\ at[m] = <<"queued">>
  /\ Concurrent(kind) \/ Active = {}
  /\ at' = [at EXCEPT ![m] = Steps]
  /\ near' = [d \in Messages |->
       IF d = m THEN Active ELSE IF d \in Active THEN near[d] \cup {m} ELSE near[d]]
  /\ UNCHANGED <<setup, todo, outcome, log, box, seen>>

\* The steps that neither call the handler nor write an answer; the middleware
\* sets its field before its function runs.
Working(m) == at[m] \notin {<<"queued">>, <<"settling">>, <<"done">>}
Step(m) == Head(at[m])
\* Mutant: only where there is none yet.
SetFieldOnce(m) == IF box[BoxOf(kind, m)] = Nobody THEN [box EXCEPT ![BoxOf(kind, m)] = m] ELSE box
SetField(m) == [box EXCEPT ![BoxOf(kind, m)] = m]

Pass(m) ==
  /\ Working(m) /\ Step(m) \notin {"handler", "publish", "write"}
  /\ at' = [at EXCEPT ![m] = Tail(@)]
  /\ box' = IF Step(m) = "middleware" THEN SetField(m) ELSE box
  /\ UNCHANGED <<setup, todo, outcome, log, seen, near>>

\* What is left to report, if anything.
ReportTo(m, outlets) ==
  /\ todo' = [todo EXCEPT ![m] = outlets]
  /\ at' = [at EXCEPT ![m] = IF outlets = <<>> THEN <<"done">> ELSE <<"settling">>]

\* The handler reads the field and returns; a subscriber is done then.
Handled(m) ==
  /\ Working(m) /\ Step(m) = "handler"
  /\ seen' = [seen EXCEPT ![m] = box[BoxOf(kind, m)]]
  /\ UNCHANGED <<setup, log, box, near>>

HandlerReturns(m) ==
  /\ Handled(m)
  /\ at' = [at EXCEPT ![m] = IF kind \in Subscribers THEN <<"done">> ELSE Tail(@)]
  /\ outcome' = [outcome EXCEPT ![m] = IF kind \in Subscribers THEN "handled" ELSE @]
  /\ UNCHANGED todo

HandlerFails(m) ==
  /\ Handled(m)
  /\ \E match \in Matches(route) :
       ReportTo(m, Outlets(kind, route, m \in replyTo, "handler", match))
  /\ outcome' = [outcome EXCEPT ![m] = "failed"]

HandlerForwards(m) ==
  /\ kind \notin Subscribers
  /\ Handled(m)
  /\ ReportTo(m, ForwardOutlets(kind, m \in replyTo))
  /\ outcome' = [outcome EXCEPT ![m] = "forwarded"]

\* Any other step fails.  A middleware may fail before or after it set its field.
Failing(m, s) ==
  IF s = "match" THEN "ignored"
  ELSE IF kind = "mqtt5Subscribe" /\ s = "credentials" THEN "denied" ELSE "failed"

Fail(m) ==
  /\ Working(m) /\ Step(m) \notin {"handler", "publish", "write"}
  /\ \E match \in Matches(route) :
       ReportTo(m, Outlets(kind, route, m \in replyTo, Step(m), match))
  /\ outcome' = [outcome EXCEPT ![m] = Failing(m, Step(m))]
  /\ box' \in IF Step(m) = "middleware" THEN {box, SetField(m)} ELSE {box}
  /\ UNCHANGED <<setup, log, seen, near>>

-----------------------------------------------------------------------------
(***************************************************************************)
(* Answers and reports.  An attempt is "sent", "refused" (an error that    *)
(* came back from the transport) or "unwritten" (an HTTP response given up *)
(* before its status line).                                                *)
(***************************************************************************)
Attempt(m, outlet, result) == log' = [log EXCEPT ![m] = Append(@, <<outlet, result>>)]
Settled(m) == at' = [at EXCEPT ![m] = <<"done">>]

\* A route without a response topic answers nothing.
Publish(m) ==
  /\ Working(m) /\ Step(m) = "publish"
  /\ IF m \in replyTo THEN Attempt(m, "reply", "sent") ELSE UNCHANGED log
  /\ Settled(m)
  /\ outcome' = [outcome EXCEPT ![m] = "handled"]
  /\ UNCHANGED <<setup, todo, box, seen, near>>

PublishRefused(m) ==
  /\ Working(m) /\ Step(m) = "publish"
  /\ m \in replyTo
  /\ Attempt(m, "reply", "refused")
  /\ ReportTo(m, Outlets(kind, route, TRUE, "publish", "none"))
  /\ outcome' = [outcome EXCEPT ![m] = "failed"]
  /\ UNCHANGED <<setup, box, seen, near>>

\* The status line and the body; what a stream cannot marshal once the status is
\* written, and a connection that is gone, are nobody's concern.
Write(m) ==
  /\ Working(m) /\ Step(m) = "write"
  /\ \E result \in {"sent", "refused"} : Attempt(m, "response", result)
  /\ Settled(m)
  /\ outcome' = [outcome EXCEPT ![m] = "handled"]
  /\ UNCHANGED <<setup, todo, box, seen, near>>

\* A cookie that does not encode, before the status line.
WriteCookieFails(m) ==
  /\ Working(m) /\ Step(m) = "write"
  /\ Attempt(m, "response", "unwritten")
  /\ ReportTo(m, <<"error">>)
  /\ outcome' = [outcome EXCEPT ![m] = "failed"]
  /\ UNCHANGED <<setup, box, seen, near>>

\* WriteErrorResponse: a cookie or the body fails, and the adapter's own error
\* response follows.
WritePattern(m) ==
  /\ at[m] = <<"settling">> /\ todo[m] = <<"pattern">>
  /\ \E result \in {"sent", "refused", "unwritten"} :
       /\ Attempt(m, "pattern", result)
       /\ ReportTo(m, IF result = "sent" THEN <<>> ELSE <<"error">>)
  /\ UNCHANGED <<setup, outcome, box, seen, near>>

\* What is refused is dropped; a callback, which every server is given here,
\* cannot refuse.
Report(m) ==
  /\ at[m] = <<"settling">> /\ todo[m] # <<"pattern">>
  /\ \E result \in IF Head(todo[m]) = "onError" THEN {"sent"} ELSE {"sent", "refused"} :
       Attempt(m, Head(todo[m]), result)
  /\ ReportTo(m, Tail(todo[m]))
  /\ UNCHANGED <<setup, outcome, box, seen, near>>

Next ==
  \E m \in Messages :
    \/ Take(m) \/ Pass(m) \/ Fail(m)
    \/ HandlerReturns(m) \/ HandlerFails(m) \/ HandlerForwards(m)
    \/ Publish(m) \/ PublishRefused(m)
    \/ Write(m) \/ WriteCookieFails(m) \/ WritePattern(m)
    \/ Report(m)

Spec == Init /\ [][Next]_vars
-----------------------------------------------------------------------------
(***************************************************************************)
(* Properties.                                                             *)
(***************************************************************************)
At(m, outlets) == {i \in DOMAIN log[m] : log[m][i][1] \in outlets}
Answers == {"reply", "errorReply", "forward", "response", "pattern", "error", "redirect"}
Reports == {"errorChannel", "deadLetter", "onError"}
Refused(m) == \E i \in DOMAIN log[m] : log[m][i][2] = "refused"
Done(m) == at[m] = <<"done">>

\* A request is answered once on every path through the dispatch: a reply is
\* attempted exactly once (a REP socket that sent none or two could not receive
\* again), also when the attempt is the failure to report, and not at all
\* without a response topic; an HTTP response is begun once, unless the
\* connection failed under the response of an error pattern.
AnsweredOnce ==
  \A m \in Messages : Done(m) =>
    LET begun == {i \in At(m, Answers) : log[m][i][2] # "unwritten"}
    IN  IF kind \in Repliers THEN Cardinality(begun) = (IF m \in replyTo THEN 1 ELSE 0)
        ELSE IF kind = "rest" THEN Cardinality(begun) = 1 \/ (Cardinality(begun) = 2 /\ Refused(m))
        ELSE begun = {}

\* onError was told, once and last, and of the others none but "others" was used.
OnErrorLast(m, others) ==
  /\ At(m, {"onError"}) = {Len(log[m])}
  /\ log[m][Len(log[m])][2] = "sent"
  /\ At(m, Reports \ (others \cup {"onError"})) = {}

FailureTold(m) ==
  CASE kind \in Repliers ->
         /\ OnErrorLast(m, {"deadLetter"})
         /\ Cardinality(At(m, {"deadLetter"})) = IF route.deadLetter THEN 1 ELSE 0
    [] kind \in Subscribers ->
         /\ Len(log[m]) = 1 /\ At(m, Reports) = {1}
         /\ Refused(m) \/ log[m][1][2] = "sent"
    [] kind = "rest" -> Len(log[m]) > 0 /\ log[m][Len(log[m])][1] \in {"pattern", "error"}

\* No failure is lost and none is reported twice: a request-reply server calls
\* onError once for each request it did not answer with a result, after the
\* requester was told; a subscriber uses exactly one of its outlets, so that only
\* a refused publish makes a failed message disappear; an HTTP failure ends in an
\* error response.  A forwarded request is no failure: it is not dead-lettered.
FailuresSurface ==
  \A m \in Messages : Done(m) =>
    /\ outcome[m] \in {"handled", "ignored"} => At(m, Reports) = {}
    /\ outcome[m] = "denied" => Len(log[m]) = 1 /\ OnErrorLast(m, {})
    /\ outcome[m] = "forwarded" =>
         IF kind = "rest" THEN At(m, Reports) = {} ELSE OnErrorLast(m, {})
    /\ outcome[m] = "failed" => FailureTold(m)

\* What a handler reads from the context is the field its own message set.  On a
\* box that outlives a message that is so only because the next message sets the
\* field again before its handler runs, and the goroutines of the ROUTER server
\* break it: a handler there may read the field of a request dispatched at the
\* same time, but never one of a request that is over.
OwnField ==
  \A m \in Messages : seen[m] # Unread =>
    IF ~route.middleware THEN seen[m] = Nobody
    ELSE seen[m] = m \/ (kind = "zmqRouter" /\ seen[m] \in near[m])
=============================================================================
