------------------------------ MODULE StreamOps ------------------------------
(***************************************************************************)
(* The operators of the stream package (transform.go, route.go, time.go,   *)
(* combine.go, fanout.go, source.go, sink.go) and the adapters with the    *)
(* same loop that call out for each value: goroutines that select between  *)
(* the context, their sources' Values and Errors channels and a timer, and *)
(* in each case send to their output channels while also watching the      *)
(* context (a sink calls out instead).  Which operator runs, what its      *)
(* sources hold, which source channel never closes and which output        *)
(* channel nobody reads is chosen in the initial state; StreamSteps says   *)
(* what a case does.  Channels have no buffer (the default of every Buffer *)
(* option).                                                                *)
(***************************************************************************)
EXTENDS StreamSteps, FiniteSets

CONSTANTS
  Ops,          \* operators to run
  UnaryItems,   \* how many values the source of a one-source operator has (one
                \* more when their class does not matter, one less for SwitchType3)
  JoinItems,    \* how many each source has when there are several
  ErrorItems,   \* how many errors the first source has
  MaxTicks      \* bound on how often Window's ticker fires

Sinks    == {"drain", "publish"}
Adapters == {"call", "queryEach", "get", "set"} \cup Sinks
OpNames ==
  {"from", "fromCodec", "tap", "filter", "ofType", "apply", "map", "mapErr",
   "flatMapSlice", "throttle", "buffer", "debounce", "window", "slidingWindow",
   "combineLatest2", "combineLatest3", "combineLatest4", "zip", "merge", "tee",
   "switch", "switchType2", "switchType3", "splitEither", "groupBy"} \cup Adapters

ASSUME OpsAssumption ==
  /\ Ops \subseteq OpNames
  /\ UnaryItems \in Nat \ {0}
  /\ {JoinItems, ErrorItems, MaxTicks} \subseteq Nat

VARIABLES
  op,        \* the operator
  input,     \* what the sources send: input[s][k] for kind k of channel
  endless,   \* source channels that are never closed
  deaf,      \* output channels nobody receives from
  left,      \* what they have still to send
  open,      \* open[l]: source channels loop l has not set to nil
  pc,        \* "select", "sending", "flushing" (a last batch) or "done"
  todo,      \* todo[l]: sends of the case loop l is in
  mem,       \* the locals of the loop
  got,       \* got[c]: what was received from output channel c
  closed,    \* the output channels have been closed
  ctxDone,
  ticks

inputs == <<op, input, endless, deaf>>
vars == <<inputs, left, open, pc, todo, mem, got, closed, ctxDone, ticks>>

Kinds == {"values", "errors"}
SourcesOf(o) ==
  CASE o \in {"combineLatest2", "zip", "merge"} -> {1, 2}
    [] o = "combineLatest3" -> 1..3
    [] o = "combineLatest4" -> 1..4
    [] OTHER -> {1}

\* Merge starts a goroutine for each source; the others have one loop.
LoopsOf(o) == IF o = "merge" THEN SourcesOf(o) ELSE {1}
Reads(o, l) ==
  IF o = "merge" THEN {l} \X Kinds
  ELSE IF o \in {"from", "fromCodec"} THEN {<<1, "values">>}
  ELSE SourcesOf(o) \X Kinds

OutputsOf(o) ==
  CASE o = "groupBy" -> {"a", "b", "c"}
    [] o \in {"tee", "splitEither"} -> {"a", "b"}
    [] o \in {"switch", "switchType2"} -> {"a", "b", "rest"}
    [] o = "switchType3" -> {"a", "b", "c", "rest"}
    [] o = "publish" -> {"out", "channel"}
    [] OTHER -> {"out"}
ChannelsOf(o) == Kinds \X OutputsOf(o)

\* The class of a value matters only to operators that look at it.
Indifferent ==
  {"from", "tap", "buffer", "debounce", "window", "slidingWindow", "throttle", "zip", "merge",
   "tee", "combineLatest2", "combineLatest3", "combineLatest4", "mapErr"}
Contents(s, k, n, classes) ==
  {[i \in 1..n |-> [kind |-> k, src |-> s, n |-> i, class |-> f[i]]] : f \in [1..n -> classes]}
\* Of three sources the last, of four all but the first have one value.
HowMany(o, s) ==
  IF SourcesOf(o) = {1}
  THEN IF o \in Indifferent THEN UnaryItems + 1 ELSE IF o = "switchType3" THEN UnaryItems - 1 ELSE UnaryItems
  ELSE IF s + Cardinality(SourcesOf(o)) <= 5 THEN JoinItems ELSE 1
ValuesIn(o, s) ==
  Contents(s, "values", HowMany(o, s),
           IF o \in Indifferent THEN {"a"}
           ELSE {"a", "b", "c"} \cup (IF o = "switchType3" THEN {"d"} ELSE {}))
ErrorsIn(o, s) ==
  IF s # 1 \/ o \in {"from", "fromCodec"} THEN {<<>>}
  ELSE Contents(s, "errors", ErrorItems, IF o \in {"mapErr", "publish"} THEN {"a", "b", "c"} ELSE {"a"})
InputsOf(o) ==
  {f \in [SourcesOf(o) -> [values : UNION {ValuesIn(o, s) : s \in SourcesOf(o)},
                           errors : UNION {ErrorsIn(o, s) : s \in SourcesOf(o)}]] :
     \A s \in SourcesOf(o) : f[s].values \in ValuesIn(o, s) /\ f[s].errors \in ErrorsIn(o, s)}

Init ==
  /\ op \in Ops
  /\ input \in InputsOf(op)
  /\ endless \in {{}, {<<1, "values">>}}
  /\ deaf \in {{}} \cup {{c} : c \in ChannelsOf(op)}
  /\ endless = {} \/ deaf = {}
  /\ op \in Sinks => deaf = {}
  /\ left = input
  /\ open = [l \in LoopsOf(op) |-> Reads(op, l)]
  /\ pc = [l \in LoopsOf(op) |-> "select"]
  /\ todo = [l \in LoopsOf(op) |-> <<>>]
  /\ mem = [batch |-> <<>>, timer |-> FALSE, throttled |-> FALSE, count |-> 0,
            held |-> [s \in SourcesOf(op) |-> <<>>], groups |-> {}]
  /\ got = [c \in ChannelsOf(op) |-> <<>>]
  /\ closed = FALSE /\ ctxDone = FALSE /\ ticks = 0

------------------------------------------------------------------------------
(* The cases of the select.                                                 *)

OnValue(m, s, v) ==
  CASE op \in {"from", "tap", "mapErr"} -> Tap(m, v)
    [] op = "filter"         -> Filter(m, v)
    [] op = "ofType"         -> OfType(m, v)
    [] op = "apply"          -> Apply(m, v)
    [] op = "map"            -> Map(m, v)
    [] op = "fromCodec"      -> Decode(m, v)
    [] op = "throttle"       -> Throttle(m, v)
    [] op = "flatMapSlice"   -> FlatMapSlice(m, v)
    [] op = "buffer"         -> Buffer(m, v)
    [] op = "debounce"       -> Debounce(m, v)
    [] op = "window"         -> Collect(m, v)
    [] op = "slidingWindow"  -> SlidingWindow(m, v)
    [] op = "combineLatest2" -> CombineLatest2(m, s, v)
    [] op = "combineLatest3" -> CombineLatest3(m, s, v)
    [] op = "combineLatest4" -> CombineLatest4(m, s, v)
    [] op = "zip"            -> ZipPair(m, s, v)
    [] op = "merge"          -> Merge(m, v)
    [] op = "tee"            -> Tee(m, v)
    [] op = "switch"         -> SwitchBy(m, v)
    [] op = "switchType2"    -> SwitchType2(m, v)
    [] op = "switchType3"    -> SwitchType3(m, v)
    [] op = "splitEither"    -> SplitEither(m, v)
    [] op = "groupBy"        -> GroupBy(m, v)
    [] op = "call"           -> Call(m, v)
    [] op = "queryEach"      -> QueryEach(m, v)
    [] op = "get"            -> Get(m, v)
    [] op = "set"            -> Set(m, v)
    [] OTHER                 -> Write(m, v)   \* a sink

OnError(m, e) ==
  CASE op = "mapErr" -> MapErr(m, e)
    [] op = "tee" -> TeeError(m, e)
    [] op \in {"switch", "switchType2", "switchType3"} -> RestError(m, e)
    [] op = "splitEither" -> SplitError(m, e)
    [] op = "groupBy" -> GroupError(m, e)
    [] op = "drain" -> WriteError(m, e)
    [] op = "publish" -> PublishError(m, e)
    [] OTHER -> Fail(m, "out", e)

\* The goroutine goes on to the sends of the case, or back to the select.
Enter(l, r) ==
  /\ mem' = r.mem
  /\ todo' = [todo EXCEPT ![l] = r.sends]
  /\ pc' = [pc EXCEPT ![l] = IF r.sends = <<>> THEN "select" ELSE "sending"]

Receive(l, s, k) ==
  /\ pc[l] = "select"
  /\ <<s, k>> \in open[l]
  /\ left[s][k] # <<>>
  /\ left' = [left EXCEPT ![s][k] = Tail(@)]
  /\ Enter(l, IF k = "values" THEN OnValue(mem, s, Head(left[s][k]))
                              ELSE OnError(mem, Head(left[s][k])))
  /\ UNCHANGED <<inputs, open, got, closed, ctxDone, ticks>>

\* Mutant: Buffer forgets the batch it holds when its source closes.
SourceClosedForgets(l, s, k) ==
  /\ pc[l] = "select"
  /\ <<s, k>> \in open[l]
  /\ left[s][k] = <<>>
  /\ <<s, k>> \notin endless
  /\ open' = [open EXCEPT ![l] = @ \ {<<s, k>>}]
  /\ UNCHANGED <<inputs, left, pc, todo, mem, got, closed, ctxDone, ticks>>

\* A closed source channel is set to nil; Buffer sends what it holds first.
SourceClosed(l, s, k) ==
  /\ pc[l] = "select"
  /\ <<s, k>> \in open[l]
  /\ left[s][k] = <<>>
  /\ <<s, k>> \notin endless
  /\ open' = [open EXCEPT ![l] = @ \ {<<s, k>>}]
  /\ Enter(l, IF op = "buffer" /\ k = "values" THEN Flush(mem) ELSE Keep(mem))
  /\ UNCHANGED <<inputs, left, got, closed, ctxDone, ticks>>

\* Buffer's maxWait and Debounce's d run out; Window's ticker fires.
TimerFires(l) ==
  /\ pc[l] = "select"
  /\ \/ op = "buffer" /\ mem.timer /\ Enter(l, Flush(mem)) /\ ticks' = ticks
     \/ op = "debounce" /\ mem.timer /\ Enter(l, Silence(mem)) /\ ticks' = ticks
     \/ op = "window" /\ open[l] # {} /\ ticks < MaxTicks /\ Enter(l, Tick(mem)) /\ ticks' = ticks + 1
  /\ UNCHANGED <<inputs, left, open, got, closed, ctxDone>>

\* Throttle's interval has passed since the last value went out.
IntervalPasses ==
  /\ mem.throttled
  /\ mem' = [mem EXCEPT !.throttled = FALSE]
  /\ UNCHANGED <<inputs, left, open, pc, todo, got, closed, ctxDone, ticks>>

\* The loop condition is false; Window sends what its last window holds.
\* Debounce goes on until its pending value is out.
LoopEnds(l) ==
  /\ pc[l] = "select"
  /\ open[l] = {}
  /\ op = "debounce" => mem.batch = <<>>
  /\ LET r == IF op = "window" THEN Remainder(mem) ELSE Keep(mem) IN
     /\ mem' = r.mem
     /\ todo' = [todo EXCEPT ![l] = r.sends]
     /\ pc' = [pc EXCEPT ![l] = IF r.sends = <<>> THEN "done" ELSE "flushing"]
  /\ UNCHANGED <<inputs, left, open, got, closed, ctxDone, ticks>>

Cancelled(l) ==
  /\ pc[l] = "select"
  /\ open[l] # {} \/ (op = "debounce" /\ mem.batch # <<>>)
  /\ ctxDone
  /\ pc' = [pc EXCEPT ![l] = "done"]
  /\ UNCHANGED <<inputs, left, open, todo, mem, got, closed, ctxDone, ticks>>

------------------------------------------------------------------------------
(* The sends of a case.                                                     *)

Sending(l) == pc[l] \in {"sending", "flushing"}

Advance(l) ==
  /\ todo' = [todo EXCEPT ![l] = Tail(@)]
  /\ pc' = [pc EXCEPT ![l] = IF Len(todo[l]) > 1 THEN @
                             ELSE IF @ = "flushing" THEN "done" ELSE "select"]

Send(l) ==
  /\ Sending(l)
  /\ Head(todo[l]).to \notin deaf
  /\ got' = [got EXCEPT ![Head(todo[l]).to] = Append(@, Head(todo[l]).what)]
  /\ Advance(l)
  /\ UNCHANGED <<inputs, left, open, mem, closed, ctxDone, ticks>>

\* The default case of a send that is only tried: the receiver is elsewhere.
Drop(l) ==
  /\ Sending(l)
  /\ ~Head(todo[l]).wait
  /\ Advance(l)
  /\ UNCHANGED <<inputs, left, open, mem, got, closed, ctxDone, ticks>>

\* Mutant: a case sends without watching the context.
GiveUpNot(l) ==
  /\ Sending(l)
  /\ Head(todo[l]).ondone = "continue" /\ Head(todo[l]).wait /\ ctxDone
  /\ Advance(l)
  /\ UNCHANGED <<inputs, left, open, mem, got, closed, ctxDone, ticks>>

GiveUp(l) ==
  /\ Sending(l)
  /\ Head(todo[l]).wait /\ Head(todo[l]).ondone # "finish"
  /\ ctxDone
  /\ IF Head(todo[l]).ondone = "continue" THEN Advance(l)
     ELSE todo' = [todo EXCEPT ![l] = <<>>] /\ pc' = [pc EXCEPT ![l] = "done"]
  /\ UNCHANGED <<inputs, left, open, mem, got, closed, ctxDone, ticks>>

\* Mutant: the first goroutine of Merge to end closes the output.
CloseEarly ==
  /\ \E l \in LoopsOf(op) : pc[l] = "done"
  /\ ~closed
  /\ closed' = TRUE
  /\ UNCHANGED <<inputs, left, open, pc, todo, mem, got, ctxDone, ticks>>

\* The deferred closes, or Merge's last goroutine after its wg.Wait.
CloseOutputs ==
  /\ \A l \in LoopsOf(op) : pc[l] = "done"
  /\ ~closed
  /\ closed' = TRUE
  /\ UNCHANGED <<inputs, left, open, pc, todo, mem, got, ctxDone, ticks>>

Cancel ==
  /\ ~ctxDone
  /\ ctxDone' = TRUE
  /\ UNCHANGED <<inputs, left, open, pc, todo, mem, got, closed, ticks>>

Loop(l) ==
  \/ \E s \in SourcesOf(op), k \in Kinds : Receive(l, s, k) \/ SourceClosed(l, s, k)
  \/ TimerFires(l) \/ LoopEnds(l) \/ Cancelled(l)
  \/ Send(l) \/ Drop(l) \/ GiveUp(l)

Next == (\E l \in LoopsOf(op) : Loop(l)) \/ CloseOutputs \/ Cancel \/ IntervalPasses

\* Every goroutine gets on, and who reads an output channel comes back to it
\* ("Consumers MUST drain both channels concurrently"); nobody has to cancel.
Fairness == WF_vars(CloseOutputs) /\ \A l \in 1..4 : WF_vars(l \in LoopsOf(op) /\ Loop(l))
Spec == Init /\ [][Next]_vars /\ Fairness

------------------------------------------------------------------------------
(* What the operators promise, over the inputs as a whole.                  *)

In(s) == input[s].values
ErrIn(s) == input[s].errors
Out(o) == got[Values(o)]
Ended == closed /\ ~ctxDone

\* What the items of a sequence are turned into, one after the other.
FlatMap(seq, F(_)) == FlattenSeq([i \in DOMAIN seq |-> F(seq[i])])
When(test, x) == IF test THEN <<x>> ELSE <<>>
OfKind(seq, k) == FlatMap(seq, LAMBDA x : When(x.kind = k, x))

\* got is what it should be: a prefix of it on the way, all of it at the end.
Delivers(seq, whole) == IsPrefix(seq, whole) /\ (Ended => seq = whole)

\* Which items of its source an operator passes on to output o, unchanged.
Wanted(o, v) ==
  CASE op \in {"filter", "apply", "map", "fromCodec"} -> v.class # "c"
    [] op \in Sinks -> v.class # "c" /\ o = "out"
    [] op \in {"ofType"} -> v.class = "a"
    [] op \in {"splitEither", "groupBy"} -> v.class = o
    [] op \in {"switch", "switchType2"} -> v.class = o \/ (v.class = "c" /\ o = "rest")
    [] op = "switchType3" -> v.class = o \/ (v.class = "d" /\ o = "rest")
    [] OTHER -> TRUE
Passing ==
  {"from", "fromCodec", "tap", "filter", "ofType", "apply", "map", "mapErr", "merge", "tee",
   "switch", "switchType2", "switchType3", "splitEither", "groupBy", "set"} \cup Sinks
PassesOn ==
  op \in Passing =>
    \A o \in OutputsOf(op), s \in SourcesOf(op) :
      Delivers(FlatMap(Out(o), LAMBDA x : When(x.kind = "values" /\ x.src = s, x)),
               FlatMap(In(s), LAMBDA v : When(Wanted(o, v), v)))

\* Increasing positions: what came out is in the order it went in, once each.
InSourceOrder(seq) == \A i, j \in DOMAIN seq : i < j => seq[i].n < seq[j].n

\* A window ends at each multiple of Step that has Size values before it.
WindowAt(v) == When(v.n % Step = 0 /\ v.n >= Size, SubSeq(In(1), v.n - Size + 1, v.n))

HoldsBack ==
  /\ op = "buffer" =>
       /\ \A i \in DOMAIN Out("out") : Len(Out("out")[i]) \in 1..BufferN
       /\ InSourceOrder(FlattenSeq(Out("out")))
       /\ ~ctxDone => Delivers(FlattenSeq(Out("out")), In(1))
  /\ op = "window" => Delivers(FlattenSeq(Out("out")), In(1))
  /\ op = "debounce" =>
       InSourceOrder(Out("out")) /\ (Ended => Out("out") # <<>> /\ Last(Out("out")) = Last(In(1)))
  /\ op = "throttle" =>
       InSourceOrder(Out("out")) /\ (Ended => Out("out") # <<>>)
         /\ (Out("out") # <<>> => Head(Out("out")) = Head(In(1)))
  /\ op = "slidingWindow" => Delivers(Out("out"), FlatMap(In(1), WindowAt))
  /\ op = "flatMapSlice" => Delivers(Out("out"), FlatMap(In(1), Pieces))

\* Zip pairs the n-th with the n-th.  CombineLatest ends with the last of
\* every source, and each tuple has one newer component than the one before.
Newer(t, u) ==
  \E s \in DOMAIN t : t[s].n < Len(In(s)) /\ u = [t EXCEPT ![s] = In(s)[@.n + 1]]
Joins ==
  /\ op = "zip" =>
       Delivers(Out("out"), [i \in 1..Min({Len(In(1)), Len(In(2))}) |-> <<In(1)[i], In(2)[i]>>])
  /\ op \in {"combineLatest2", "combineLatest3", "combineLatest4"} =>
       /\ ~ctxDone => \A i \in 1..Len(Out("out")) - 1 : Newer(Out("out")[i], Out("out")[i + 1])
       /\ \A i \in 1..Len(Out("out")) - 1, s \in SourcesOf(op) :
            Out("out")[i][s].n <= Out("out")[i + 1][s].n
       /\ Ended /\ (\A s \in SourcesOf(op) : In(s) # <<>>) =>
            Out("out") # <<>> /\ Last(Out("out")) = [s \in SourcesOf(op) |-> Last(In(s))]

\* Each source error comes out once, in order, at the outputs that own errors;
\* SplitEither and GroupBy may leave some out.  A value that fails to map is
\* an error too.
ErrorOwners ==
  CASE op \in {"switch", "switchType2", "switchType3"} -> {"rest"}
    [] op \in {"splitEither", "groupBy", "mapErr", "publish"} -> {}
    [] OTHER -> OutputsOf(op)
Failing(v) == v.class = "c" \/ (op = "queryEach" /\ v.class = "b")
KeepsErrors ==
  /\ \A o \in OutputsOf(op) : InSourceOrder(OfKind(got[Errors(o)], "errors"))
  /\ \A o \in ErrorOwners : Delivers(OfKind(got[Errors(o)], "errors"), ErrIn(1))
  /\ op \in {"apply", "map", "fromCodec"} \cup Adapters =>
       Delivers(OfKind(got[Errors("out")], "failure"),
                FlatMap(In(1), LAMBDA v : When(Failing(v), FailureOf(v))))
  /\ op = "mapErr" =>
       /\ Delivers(OfKind(Out("out"), "recovered"),
                   FlatMap(ErrIn(1), LAMBDA e : When(e.class = "a", RecoveredOf(e))))
       /\ Delivers(OfKind(got[Errors("out")], "replaced"),
                   FlatMap(ErrIn(1), LAMBDA e : When(e.class = "b", ReplacedBy(e))))

\* An adapter answers each value that its call answers, in order; an error is
\* reported to OnError or published, unless the broker refuses it.
Answered(v) == v.class = "a" \/ (v.class = "b" /\ op # "get")
Answers ==
  /\ op \in {"call", "queryEach", "get"} =>
       Delivers(Out("out"), FlatMap(In(1), LAMBDA v : When(Answered(v), ResponseOf(v))))
  /\ op = "publish" =>
       /\ Delivers(OfKind(got[Errors("out")], "errors"),
                   FlatMap(ErrIn(1), LAMBDA e : When(e.class = "a", e)))
       /\ Delivers(OfKind(Out("channel"), "errors"),
                   FlatMap(ErrIn(1), LAMBDA e : When(e.class = "b", e)))

\* No goroutine of Merge still sends when the output channels are closed.
NoSendOnClosed == closed => \A l \in LoopsOf(op) : todo[l] = <<>>

\* However the channels are served, what comes out of an operator is what its
\* documentation says of its inputs as a whole: nothing is lost, repeated or
\* reordered, on the way or at the end, and no batch, window, pair or pending
\* value is forgotten when the sources close; nor is anything left to send when
\* the outputs are closed.
OutputsAsDocumented == PassesOn /\ HoldsBack /\ Joins /\ KeepsErrors /\ Answers /\ NoSendOnClosed

\* Cancelling ends every operator though nobody reads its outputs and its
\* sources never close; without a cancel it ends after its sources when both
\* channels of every output are drained.
OutputsClose ==
  /\ ctxDone ~> closed
  /\ deaf = {} /\ endless = {} ~> closed
=============================================================================
