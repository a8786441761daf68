---------------------------- MODULE BroadcastHub ----------------------------
(* stream.BroadcastHub (stream/broadcast.go) with its sessions: the SSE      *)
(* handlers of adapters/nethttp/stream.go (SSEFromHub), each of which        *)
(* subscribes, forwards what it receives and unsubscribes when its client    *)
(* has gone or its stream has ended.  The source sends the values 1, 2, ...  *)
(* The error channels, which the code treats the same way, are left out.     *)
EXTENDS Integers, Sequences, FiniteSets, SequencesExt

CONSTANTS
    Sessions,   \* connecting clients
    Buf,        \* bufPerSubscriber, a natural number
    MaxValues   \* bound: values the source sends

VARIABLES
    sent,       \* values the source has offered: the last is there to be read
    taken,      \* values the hub has read
    srcClosed,  \* the source's channels are closed
    ctxDone,    \* the hub's ctx
    hub,        \* "select", "fan" or "closing" (both under h.mu), "exited"
    todo,       \* the subscribers the loop over h.subs has still to visit
    subs,       \* h.subs
    sess,       \* where each session is
    gone,       \* sessions whose client has disconnected
    ch,         \* what is buffered for each session
    closed,     \* subscriber channels that are closed
    hand,       \* the value a session is writing to its client, or 0
    got,        \* history: values each session has received
    missed,     \* history: values dropped for it
    since       \* history: how many values the hub had read when it subscribed

vars == <<sent, taken, srcClosed, ctxDone, hub, todo, subs, sess, gone, ch,
          closed, hand, got, missed, since>>
source  == <<sent, srcClosed, ctxDone>>
session == <<sess, gone, hand, got, since>>

Values == 1 .. MaxValues

TypeOK ==
    /\ sent \in 0 .. MaxValues /\ taken \in 0 .. sent
    /\ srcClosed \in BOOLEAN /\ ctxDone \in BOOLEAN
    /\ hub \in {"select", "fan", "closing", "exited"}
    /\ todo \subseteq Sessions /\ subs \subseteq Sessions
    /\ sess \in [Sessions -> {"new", "waiting", "writing", "leaving", "ended"}]
    /\ gone \subseteq Sessions
    /\ closed \subseteq Sessions
    /\ hand \in [Sessions -> 0 .. MaxValues]
    /\ \A s \in Sessions :
        /\ ch[s] \in Seq(Values) /\ Len(ch[s]) <= Buf
        /\ got[s] \in Seq(Values)
        /\ missed[s] \subseteq Values
        /\ since[s] \in 0 .. MaxValues

Init ==
    /\ sent = 0 /\ taken = 0
    /\ srcClosed = FALSE /\ ctxDone = FALSE
    /\ hub = "select"
    /\ todo = {} /\ subs = {} /\ gone = {} /\ closed = {}
    /\ sess = [s \in Sessions |-> "new"]
    /\ ch = [s \in Sessions |-> <<>>]
    /\ hand = [s \in Sessions |-> 0]
    /\ got = [s \in Sessions |-> <<>>]
    /\ missed = [s \in Sessions |-> {}]
    /\ since = [s \in Sessions |-> 0]

MutexFree == hub \in {"select", "exited"}
Subscribed(s) == sess[s] # "new"

-----------------------------------------------------------------------------
(* The source and the hub's context.                                         *)

SourceSend ==
    /\ ~srcClosed
    /\ sent = taken /\ sent < MaxValues
    /\ sent' = sent + 1
    /\ UNCHANGED <<taken, srcClosed, ctxDone, hub, todo, subs, ch, closed, missed, session>>

SourceClose ==
    /\ ~srcClosed
    /\ srcClosed' = TRUE
    /\ UNCHANGED <<sent, taken, ctxDone, hub, todo, subs, ch, closed, missed, session>>

Cancel ==
    /\ ~ctxDone
    /\ ctxDone' = TRUE
    /\ UNCHANGED <<sent, taken, srcClosed, hub, todo, subs, ch, closed, missed, session>>

-----------------------------------------------------------------------------
(* run and fanoutValue.                                                      *)

Receive ==
    /\ hub = "select"
    /\ taken < sent
    /\ taken' = taken + 1
    /\ hub' = "fan"
    /\ todo' = subs
    /\ UNCHANGED <<source, subs, ch, closed, missed, session>>

\* A session takes a value: from its buffer, or, when that is empty, from the
\* hub's hand (all that can happen when Buf = 0).
HandOver(s) ==
    /\ hand' = [hand EXCEPT ![s] = taken]
    /\ sess' = [sess EXCEPT ![s] = "writing"]
    /\ got' = [got EXCEPT ![s] = Append(@, taken)]

Deliver(s) ==
    /\ s \in todo
    /\ hub = "fan"
    /\ todo' = todo \ {s}
    /\ \/ /\ Len(ch[s]) < Buf
          /\ ch' = [ch EXCEPT ![s] = Append(@, taken)]
          /\ UNCHANGED <<sess, hand, got>>
       \/ /\ sess[s] = "waiting" /\ ch[s] = <<>>
          /\ HandOver(s)
          /\ UNCHANGED ch
    /\ UNCHANGED <<source, taken, hub, subs, closed, gone, missed, since>>

\* default: drop on full buffer.
Full(s) == Len(ch[s]) = Buf /\ ~(sess[s] = "waiting" /\ ch[s] = <<>>)

\* Mutant: the oldest value makes room for the new one.
DropOldest(s) ==
    /\ s \in todo
    /\ hub = "fan"
    /\ Full(s)
    /\ todo' = todo \ {s}
    /\ ch' = [ch EXCEPT ![s] = IF @ = <<>> THEN @ ELSE Append(Tail(@), taken)]
    /\ UNCHANGED <<source, taken, hub, subs, closed, missed, session>>

Drop(s) ==
    /\ s \in todo
    /\ hub = "fan"
    /\ Full(s)
    /\ todo' = todo \ {s}
    /\ missed' = [missed EXCEPT ![s] = @ \cup {taken}]
    /\ UNCHANGED <<source, taken, hub, subs, ch, closed, session>>

FanDone ==
    /\ hub = "fan" /\ todo = {}
    /\ hub' = "select"
    /\ UNCHANGED <<source, taken, todo, subs, ch, closed, missed, session>>

Stop ==
    /\ hub = "select"
    /\ ctxDone \/ (srcClosed /\ taken = sent)
    /\ hub' = "closing"
    /\ todo' = subs
    /\ UNCHANGED <<source, taken, subs, ch, closed, missed, session>>

\* Mutant: the loop leaves the channels open.
CloseSubForgotten(s) ==
    /\ hub = "closing" /\ s \in todo
    /\ todo' = todo \ {s}
    /\ UNCHANGED <<source, taken, hub, subs, ch, closed, missed, session>>

\* The deferred loop that closes every subscriber's channels.
CloseSub(s) ==
    /\ hub = "closing" /\ s \in todo
    /\ todo' = todo \ {s}
    /\ closed' = closed \cup {s}
    /\ UNCHANGED <<source, taken, hub, subs, ch, missed, session>>

Exit ==
    /\ hub = "closing" /\ todo = {}
    /\ hub' = "exited"
    /\ UNCHANGED <<source, taken, todo, subs, ch, closed, missed, session>>

-----------------------------------------------------------------------------
(* A session.                                                                *)

Subscribe(s) ==
    /\ sess[s] = "new"
    /\ MutexFree
    /\ subs' = subs \cup {s}
    /\ since' = [since EXCEPT ![s] = taken]
    /\ sess' = [sess EXCEPT ![s] = "waiting"]
    /\ UNCHANGED <<source, taken, hub, todo, ch, closed, missed, gone, hand, got>>

Take(s) ==
    /\ sess[s] = "waiting"
    /\ ch[s] # <<>>
    /\ hand' = [hand EXCEPT ![s] = Head(ch[s])]
    /\ got' = [got EXCEPT ![s] = Append(@, Head(ch[s]))]
    /\ ch' = [ch EXCEPT ![s] = Tail(@)]
    /\ sess' = [sess EXCEPT ![s] = "writing"]
    /\ UNCHANGED <<source, taken, hub, todo, subs, closed, missed, gone, since>>

\* The write to the client ends, or fails because the client has gone.
Written(s) ==
    /\ sess[s] = "writing"
    /\ hand' = [hand EXCEPT ![s] = 0]
    /\ \/ sess' = [sess EXCEPT ![s] = "waiting"]
       \/ s \in gone /\ sess' = [sess EXCEPT ![s] = "leaving"]
    /\ UNCHANGED <<source, taken, hub, todo, subs, ch, closed, missed, gone, got, since>>

Disconnect(s) ==
    /\ Subscribed(s) /\ s \notin gone
    /\ gone' = gone \cup {s}
    /\ UNCHANGED <<source, taken, hub, todo, subs, ch, closed, missed, sess, hand, got, since>>

\* The handler returns: its ctx is done, or its stream is drained.
Leave(s) ==
    /\ sess[s] = "waiting"
    /\ s \in gone \/ (s \in closed /\ ch[s] = <<>>)
    /\ sess' = [sess EXCEPT ![s] = "leaving"]
    /\ UNCHANGED <<source, taken, hub, todo, subs, ch, closed, missed, gone, hand, got, since>>

\* Mutant: Unsubscribe closes the channel and does not wait for h.mu.
UnsubscribeUnlocked(s) ==
    /\ sess[s] = "leaving"
    /\ subs' = subs \ {s}
    /\ closed' = closed \cup {s}
    /\ sess' = [sess EXCEPT ![s] = "ended"]
    /\ UNCHANGED <<source, taken, hub, todo, ch, missed, gone, hand, got, since>>

Unsubscribe(s) ==
    /\ sess[s] = "leaving"
    /\ MutexFree
    /\ subs' = subs \ {s}
    /\ sess' = [sess EXCEPT ![s] = "ended"]
    /\ UNCHANGED <<source, taken, hub, todo, ch, closed, missed, gone, hand, got, since>>

HubStep ==
    \/ Receive \/ FanDone \/ Stop \/ Exit
    \/ \E s \in Sessions : Deliver(s) \/ Drop(s) \/ CloseSub(s)

SessionStep(s) == Subscribe(s) \/ Take(s) \/ Leave(s) \/ Unsubscribe(s)

Next ==
    \/ SourceSend \/ SourceClose \/ Cancel \/ HubStep
    \/ \E s \in Sessions : SessionStep(s) \/ Written(s) \/ Disconnect(s)

Spec == Init /\ [][Next]_vars

\* The hub goroutine runs and so does a session's own code; a client may keep
\* a write waiting for as long as it likes.
Fairness ==
    /\ WF_vars(HubStep)
    /\ \A s \in Sessions : WF_vars(Take(s) \/ Leave(s)) /\ SF_vars(Unsubscribe(s))

FairSpec == Spec /\ Fairness

-----------------------------------------------------------------------------
(* Correctness.                                                              *)

\* The hub never sends to a closed channel and closes none twice, whoever
\* subscribes or leaves while it runs: what it has still to visit is open.
NoSendOnClosed == todo \cap closed = {}

\* A session receives the values since it subscribed, in order, except those
\* dropped for it: nothing is lost in another way, repeated or reordered.
\* The value being fanned out counts once the session has been visited.
Visited(s) == IF hub = "fan" /\ s \in todo THEN taken - 1 ELSE taken
Owed(s) == IF s \in subs THEN since[s] + 1 .. Visited(s) ELSE {}
InOrder(q) == \A i, j \in 1 .. Len(q) : i < j => q[i] < q[j]
Accounted ==
    \A s \in Sessions : LET q == got[s] \o ch[s] IN
        /\ InOrder(q)
        /\ ToSet(q) \cap missed[s] = {}
        /\ Owed(s) \subseteq ToSet(q) \cup missed[s]

\* "All subscriber channels are closed when the hub exits": a session that is
\* registered when the hub stops leaves though its client stays connected,
\* unless that client blocks a write for ever.
SessionsEnd ==
    \A s \in Sessions :
        []<>(sess[s] # "writing") =>
            (hub = "closing" /\ s \in subs ~> sess[s] = "ended")
=============================================================================
