---------------------------- MODULE DealerRouter ----------------------------
(***************************************************************************)
(* Request-reply over one ZeroMQ DEALER/ROUTER pair: dealerClientTransport *)
(* (several goroutines calling over the one socket) and                    *)
(* routerServerTransport.Serve (a goroutine per request), both in          *)
(* src/adapters/zeromq/reqreply_transport.go, with the dispatch they share *)
(* with REQ/REP.  A request and its reply are named after the call.        *)
(*                                                                         *)
(* The socket is FramedSocket's contract: each direction is first in first *)
(* out, and one SendFrames or RecvFrames happens at a time.                *)
(***************************************************************************)
EXTENDS Naturals, Sequences, SequencesExt

CONSTANT Calls      \* calls of the client, each with its own context

Nobody == "nobody"
ASSUME DealerAssumption == Nobody \notin Calls

VARIABLES
  call,       \* where each call stands
  got,        \* the request whose reply a call returned with
  requests,   \* messages from DEALER to ROUTER
  replies,    \* messages from ROUTER to DEALER
  serve,      \* the server's receive loop
  ctxDone,    \* the context given to Serve is done
  handler,    \* the goroutine of each request
  lost,       \* history: requests whose reply the socket refused
  nearby      \* history: the calls outstanding at some time during a call

vars == <<call, got, requests, replies, serve, ctxDone, handler, lost, nearby>>
clientVars == <<call, got, nearby>>
serverVars == <<serve, ctxDone, handler, lost>>

Init ==
  /\ call = [c \in Calls |-> "idle"]
  /\ got = [c \in Calls |-> Nobody]
  /\ requests = <<>> /\ replies = <<>>
  /\ serve = "receiving" /\ ctxDone = FALSE
  /\ handler = [c \in Calls |-> "none"]
  /\ lost = {}
  /\ nearby = [c \in Calls |-> {}]

-----------------------------------------------------------------------------
(***************************************************************************)
(* The client: encode, send, poll for the next message on the socket.      *)
(***************************************************************************)
\* The requests that a message on the socket may still answer.
Sent == {c \in Calls : call[c] \notin {"idle", "refused"}}
Unanswered == {c \in Sent : \A d \in Calls : got[d] # c}

CallSend(c) ==
  /\ call[c] = "idle"
  /\ call' = [call EXCEPT ![c] = "receiving"]
  /\ requests' = Append(requests, c)
  /\ nearby' = [d \in Calls |->
       IF d = c THEN Unanswered
       ELSE IF call[d] = "receiving" THEN nearby[d] \cup {c} ELSE nearby[d]]
  /\ UNCHANGED <<got, replies, serverVars>>

CallSendFails(c) ==
  /\ call[c] = "idle"
  /\ call' = [call EXCEPT ![c] = "refused"]
  /\ UNCHANGED <<got, requests, replies, nearby, serverVars>>

\* Whatever message comes next is the reply.
CallReceive(c) ==
  /\ call[c] = "receiving"
  /\ replies # <<>>
  /\ got' = [got EXCEPT ![c] = Head(replies)]
  /\ replies' = Tail(replies)
  /\ call' = [call EXCEPT ![c] = "answered"]
  /\ UNCHANGED <<requests, nearby, serverVars>>

\* Its context ends, at whatever moment.
CallGiveUp(c) ==
  /\ call[c] = "receiving"
  /\ call' = [call EXCEPT ![c] = "gaveUp"]
  /\ UNCHANGED <<got, requests, replies, nearby, serverVars>>

-----------------------------------------------------------------------------
(***************************************************************************)
(* The server's loop.                                                      *)
(***************************************************************************)
Cancel ==
  /\ ~ctxDone
  /\ ctxDone' = TRUE
  /\ UNCHANGED <<clientVars, requests, replies, serve, handler, lost>>

\* A poll under way when the context ends may still take a request.
ServeReceive ==
  /\ serve = "receiving"
  /\ requests # <<>>
  /\ requests' = Tail(requests)
  /\ handler' = [handler EXCEPT ![Head(requests)] = "running"]
  /\ UNCHANGED <<clientVars, replies, serve, ctxDone, lost>>

ServeStop ==
  /\ serve = "receiving"
  /\ ctxDone
  /\ serve' = "waiting"
  /\ UNCHANGED <<clientVars, requests, replies, ctxDone, handler, lost>>

\* Mutant: Serve does not wait for its goroutines.
ServeReturnAtOnce ==
  /\ serve = "waiting"
  /\ serve' = "returned"
  /\ UNCHANGED <<clientVars, requests, replies, ctxDone, handler, lost>>

\* wg.Wait
ServeReturn ==
  /\ serve = "waiting"
  /\ \A c \in Calls : handler[c] # "running"
  /\ serve' = "returned"
  /\ UNCHANGED <<clientVars, requests, replies, ctxDone, handler, lost>>

\* RecvFrames fails: Serve returns the error and leaves its goroutines alone.
ServeFail ==
  /\ serve = "receiving"
  /\ ~ctxDone
  /\ serve' = "failed"
  /\ UNCHANGED <<clientVars, requests, replies, ctxDone, handler, lost>>

(***************************************************************************)
(* The goroutine of request c: decode, checks, handler, encode.  Whichever *)
(* of them ends the dispatch sends the one reply (the response, an error   *)
(* or a forward); a refused one is at most dead-lettered on another socket.*)
(***************************************************************************)
Reply(c) ==
  \/ replies' = Append(replies, c) /\ UNCHANGED lost
  \/ lost' = lost \cup {c} /\ UNCHANGED replies

Finish(c) ==
  /\ handler[c] = "running"
  /\ handler' = [handler EXCEPT ![c] = "done"]
  /\ UNCHANGED <<clientVars, requests, serve, ctxDone>>

\* Mutant: the error reply does not end the dispatch.
DispatchOn(c) ==
  /\ Finish(c)
  /\ replies' = replies \o <<c, c>>
  /\ UNCHANGED lost

\* Mutant: a failure ends the dispatch without an error reply.
DispatchQuietly(c) ==
  /\ Finish(c)
  /\ UNCHANGED <<replies, lost>>

DispatchOne(c) == Finish(c) /\ Reply(c)

-----------------------------------------------------------------------------
CallStep(c) == CallSend(c) \/ CallSendFails(c) \/ CallReceive(c) \/ CallGiveUp(c)
ServeStep == ServeReceive \/ ServeStop \/ ServeReturn \/ ServeFail

Next == \/ \E c \in Calls : CallStep(c) \/ DispatchOne(c)
        \/ ServeStep \/ Cancel

(***************************************************************************)
(* Fairness: a poll loop goes on, handlers return, and a call that keeps   *)
(* polling is not starved by the others for ever.                          *)
(***************************************************************************)
Fairness ==
  /\ \A c \in Calls : SF_vars(CallReceive(c)) /\ WF_vars(DispatchOne(c))
  /\ WF_vars(ServeReceive) /\ WF_vars(ServeStop \/ ServeReturn)

Spec == Init /\ [][Next]_vars
FairSpec == Spec /\ Fairness

-----------------------------------------------------------------------------
(***************************************************************************)
(* Properties.                                                             *)
(***************************************************************************)
TypeOK ==
  /\ call \in [Calls -> {"idle", "receiving", "answered", "gaveUp", "refused"}]
  /\ got \in [Calls -> Calls \cup {Nobody}]
  /\ requests \in Seq(Calls) /\ replies \in Seq(Calls)
  /\ serve \in {"receiving", "waiting", "returned", "failed"}
  /\ ctxDone \in BOOLEAN
  /\ handler \in [Calls -> {"none", "running", "done"}]
  /\ lost \subseteq Calls
  /\ nearby \in [Calls -> SUBSET Calls]

(***************************************************************************)
(* There is no correlation on the wire, so a call may return with the      *)
(* reply to another.  It needs an overlap to happen: a call that waits     *)
(* alone, with nothing left over from calls that gave up, gets its own     *)
(* reply.                                                                  *)
(***************************************************************************)
StrayNeedsOverlap ==
  \A c \in Calls : got[c] \in {Nobody, c} \cup nearby[c]

\* A reply is in one place: no two copies of it on the wire, none on the wire
\* once a call has returned with it, and no two calls return with it.
AnsweredOnce ==
  /\ \A i, j \in 1..Len(replies) : replies[i] = replies[j] => i = j
  /\ \A c \in Calls : got[c] \notin Range(replies)
  /\ \A c, d \in Calls : got[c] = got[d] /\ c # d => got[c] = Nobody

\* When Serve has returned because its context ended, every request it took
\* was answered (or the socket refused the answer): wg.Wait lets each one
\* finish, however late.
DrainedAtReturn ==
  serve = "returned" =>
    \A c \in Sent \ Range(requests) :
      c \in Range(replies) \cup lost \/ \E d \in Calls : got[d] = c

\* Both together: no reply is made twice and none is dropped when Serve stops.
RepliesKept == AnsweredOnce /\ DrainedAtReturn

\* As long as the server receives and the socket refuses no reply, every call
\* comes back by itself: although replies go to whoever polls first, there is
\* one for each call that waits.
CallsReturn ==
  \A c \in Calls :
    call[c] = "receiving"
      ~> call[c] # "receiving" \/ serve # "receiving" \/ lost # {}

=============================================================================
