-------------------------- MODULE CredentialCache --------------------------
(* NewCachingCredentialFunc (adapters/nethttp/credential_cache.go): a        *)
(* credential kept for TTL, with one shared fetch for all the callers that   *)
(* miss at the same time, and an invalidate that a 401 triggers.             *)
(*                                                                           *)
(* The k-th invocation of inner is fetch k: it stands for the                *)
(* credentialCacheCall the leader creates, and for the credential it yields. *)
(* Time is a counter that may stand still for any number of steps.           *)
EXTENDS Integers, FiniteSets

CONSTANTS
    Callers,     \* goroutines that call fn, again and again
    TTL,         \* opts.TTL, in ticks
    MaxFetches,  \* bound: invocations of inner
    MaxTime      \* bound: ticks of the clock

CacheSizes ==
    /\ TTL \in Nat
    /\ MaxFetches \in Nat \ {0}
    /\ MaxTime \in Nat

VARIABLES
    now,       \* time.Now()
    current,   \* the fetch whose credential is cached, or 0 (nil)
    inflight,  \* the fetch under way, or 0 (nil)
    fetches,   \* how many fetches have been created
    fetch,     \* the fetches: innerStart, time of the store, outcome, done
    pc,        \* where each caller is in fn
    start,     \* start := time.Now() of its latest call
    on,        \* the fetch it leads or has joined, or 0
    got,       \* the credential its latest call returned, or 0
    rejected,  \* credentials a server answered 401 to
    known      \* what was rejected when its latest call began

vars == <<now, current, inflight, fetches, fetch, pc, start, on, got,
          rejected, known>>
caller == <<pc, start, on, got, known>>

Fetch == 1 .. MaxFetches
Time  == 0 .. MaxTime
Locations == {"idle", "begun", "joined", "lead", "inner", "closing"}

\* "spoilt": the cache was emptied, or a fetch failed, since this fetch began
\* and before the next one did. It is history, read by OncePerTTL alone.
NoFetch == [at |-> 0, end |-> 0, ok |-> FALSE, done |-> FALSE, spoilt |-> FALSE]

TypeOK ==
    /\ now \in Time
    /\ current \in 0 .. fetches
    /\ inflight \in 0 .. fetches
    /\ fetches \in 0 .. MaxFetches
    /\ fetch \in [Fetch -> [at : Time, end : Time, ok : BOOLEAN,
                            done : BOOLEAN, spoilt : BOOLEAN]]
    /\ pc \in [Callers -> Locations]
    /\ start \in [Callers -> Time]
    /\ on \in [Callers -> 0 .. fetches]
    /\ got \in [Callers -> 0 .. fetches]
    /\ rejected \subseteq 1 .. fetches
    /\ known \in [Callers -> SUBSET rejected]

Init ==
    /\ now = 0
    /\ current = 0
    /\ inflight = 0
    /\ fetches = 0
    /\ fetch = [k \in Fetch |-> NoFetch]
    /\ pc = [p \in Callers |-> "idle"]
    /\ start = [p \in Callers |-> 0]
    /\ on = [p \in Callers |-> 0]
    /\ got = [p \in Callers |-> 0]
    /\ rejected = {}
    /\ known = [p \in Callers |-> {}]

-----------------------------------------------------------------------------
Tick ==
    /\ now < MaxTime
    /\ now' = now + 1
    /\ UNCHANGED <<current, inflight, fetches, fetch, rejected, caller>>

\* start is read before the lock is taken: the lookup may come much later.
Begin(p) ==
    /\ pc[p] = "idle"
    /\ fetches + Cardinality({q \in Callers : pc[q] = "begun"}) < MaxFetches
    /\ pc' = [pc EXCEPT ![p] = "begun"]
    /\ start' = [start EXCEPT ![p] = now]
    /\ got' = [got EXCEPT ![p] = 0]
    /\ known' = [known EXCEPT ![p] = rejected]
    /\ UNCHANGED <<now, current, inflight, fetches, fetch, rejected, on>>

\* current != nil && start.Before(current.expiresAt)
UsableForEver(p) == current # 0
UsableExpired(p) == current # 0 /\ start[p] > fetch[current].at + TTL
Usable(p) == current # 0 /\ start[p] < fetch[current].at + TTL

Hit(p) ==
    /\ pc[p] = "begun"
    /\ Usable(p)
    /\ got' = [got EXCEPT ![p] = current]
    /\ pc' = [pc EXCEPT ![p] = "idle"]
    /\ UNCHANGED <<now, current, inflight, fetches, fetch, start, on, rejected, known>>

Join(p) ==
    /\ pc[p] = "begun"
    /\ ~Usable(p)
    /\ inflight # 0
    /\ on' = [on EXCEPT ![p] = inflight]
    /\ pc' = [pc EXCEPT ![p] = "joined"]
    /\ UNCHANGED <<now, current, inflight, fetches, fetch, start, got, rejected, known>>

AloneAlways == TRUE
Alone == inflight = 0

LeadUncounted(p) ==
    /\ pc[p] = "begun"
    /\ ~Usable(p)
    /\ Alone
    /\ fetches < MaxFetches
    /\ inflight' = fetches + 1
    /\ on' = [on EXCEPT ![p] = fetches + 1]
    /\ pc' = [pc EXCEPT ![p] = "lead"]
    /\ UNCHANGED <<now, current, fetches, fetch, start, got, rejected, known>>

Lead(p) ==
    /\ pc[p] = "begun"
    /\ ~Usable(p)
    /\ Alone
    /\ fetches < MaxFetches
    /\ fetches' = fetches + 1
    /\ inflight' = fetches + 1
    /\ on' = [on EXCEPT ![p] = fetches + 1]
    /\ pc' = [pc EXCEPT ![p] = "lead"]
    /\ UNCHANGED <<now, current, fetch, start, got, rejected, known>>

CallInner(p) ==
    /\ pc[p] = "lead"
    /\ fetch' = [fetch EXCEPT ![on[p]].at = now]
    /\ pc' = [pc EXCEPT ![p] = "inner"]
    /\ UNCHANGED <<now, current, inflight, fetches, start, on, got, rejected, known>>

\* inner returns, or fails (its context cancelled, the server down), and the
\* leader takes the lock to record it. The call's result is set before done
\* is closed, and inflight is cleared before it too.
Stored(f, ok) ==
    [f EXCEPT !.ok = ok, !.end = now, !.spoilt = f.spoilt \/ ~ok]

Store(p, ok) ==
    /\ pc[p] = "inner"
    /\ current' = IF ok THEN on[p] ELSE 0
    /\ inflight' = 0
    /\ fetch' = [fetch EXCEPT ![on[p]] = Stored(@, ok)]
    /\ pc' = [pc EXCEPT ![p] = "closing"]
    /\ UNCHANGED <<now, fetches, start, on, got, rejected, known>>

Result(k) == IF fetch[k].ok THEN k ELSE 0

Return(p) ==
    /\ got' = [got EXCEPT ![p] = Result(on[p])]
    /\ on' = [on EXCEPT ![p] = 0]
    /\ pc' = [pc EXCEPT ![p] = "idle"]

\* close(call.done), with the leader's own return.
CloseForgotten(p) ==
    /\ pc[p] = "closing"
    /\ Return(p)
    /\ UNCHANGED <<now, current, inflight, fetches, fetch, start, rejected, known>>

Close(p) ==
    /\ pc[p] = "closing"
    /\ fetch' = [fetch EXCEPT ![on[p]].done = TRUE]
    /\ Return(p)
    /\ UNCHANGED <<now, current, inflight, fetches, start, rejected, known>>

\* The joiner waits for done alone: its own context is not looked at.
Joined(p) ==
    /\ pc[p] = "joined"
    /\ fetch[on[p]].done
    /\ Return(p)
    /\ UNCHANGED <<now, current, inflight, fetches, fetch, start, rejected, known>>

\* A request sent with the credential p got is answered 401, and
\* OnCredentialRejected runs invalidate, however late: what it empties need
\* not hold that credential any more.
InvalidateNothing(p) ==
    /\ pc[p] = "idle"
    /\ got[p] # 0
    /\ rejected' = rejected \cup {got[p]}
    /\ got' = [got EXCEPT ![p] = 0]
    /\ fetch' = [fetch EXCEPT ![fetches].spoilt = TRUE]
    /\ UNCHANGED <<now, current, inflight, fetches, pc, start, on, known>>

Invalidate(p) ==
    /\ pc[p] = "idle"
    /\ got[p] # 0
    /\ current' = 0
    /\ rejected' = rejected \cup {got[p]}
    /\ got' = [got EXCEPT ![p] = 0]
    /\ fetch' = [fetch EXCEPT ![fetches].spoilt = TRUE]
    /\ UNCHANGED <<now, inflight, fetches, pc, start, on, known>>

Next ==
    \/ Tick
    \/ \E p \in Callers :
        \/ Begin(p) \/ Hit(p) \/ Join(p) \/ Lead(p) \/ CallInner(p)
        \/ Close(p) \/ Joined(p) \/ Invalidate(p)
        \/ \E ok \in BOOLEAN : Store(p, ok)

Spec == Init /\ [][Next]_vars

\* A goroutine inside fn goes on; inner returns at some time.
Proceed(p) ==
    \/ Hit(p) \/ Join(p) \/ Lead(p) \/ CallInner(p) \/ Close(p) \/ Joined(p)
    \/ \E ok \in BOOLEAN : Store(p, ok)

Fairness == \A p \in Callers : WF_vars(Proceed(p))

FairSpec == Spec /\ Fairness

-----------------------------------------------------------------------------
(* What the cache promises.                                                  *)

\* "concurrent callers during a cache miss sharing the SAME in-flight call":
\* at most one caller is on its way into inner or in it, and it leads the
\* fetch in flight.
Fetching(p) == pc[p] \in {"lead", "inner"}
SingleFlight ==
    \A p, q \in Callers :
        Fetching(p) => on[p] = inflight /\ (Fetching(q) => p = q)

\* "inner is invoked at most once per TTL window": two invocations begin less
\* than TTL apart only when one of them, or one between, failed, or the
\* cache was invalidated in the meantime.
Invoked(k) == k <= fetches /\ ~(\E p \in Callers : pc[p] = "lead" /\ on[p] = k)
OncePerTTL ==
    \A i, j \in Fetch :
        i < j /\ Invoked(j) /\ fetch[j].at < fetch[i].at + TTL =>
            \E k \in i .. j - 1 : fetch[k].spoilt

\* What a call returns was less than TTL old when the call began, or was
\* still being fetched: nobody gets an older credential, whatever happened
\* between reading the clock and taking the lock.
FreshEnough ==
    \A p \in Callers :
        got[p] # 0 => \/ start[p] < fetch[got[p]].at + TTL
                      \/ start[p] <= fetch[got[p]].end

\* A credential is used for its TTL: no shorter, and no longer.
TTLKept == OncePerTTL /\ FreshEnough

\* "a 401 causes the NEXT call to fetch a fresh credential": a credential
\* whose rejection was reported is not given to a call that begins after it,
\* though other fetches are stored and other credentials rejected meanwhile.
RejectedNotReused == \A p \in Callers : got[p] \notin known[p]

\* Every call returns: no joiner waits for a leader that has gone.
CallsReturn == \A p \in Callers : pc[p] = "begun" ~> pc[p] = "idle"
=============================================================================
