----------------------------- MODULE StreamSteps -----------------------------
(***************************************************************************)
(* What each operator of the stream package, and each adapter that calls   *)
(* out for every item of a stream, does with one item: the body of a case  *)
(* of its select loop, as a pure operator from the loop's local variables  *)
(* (mem) and the item to the new locals and the sends the case goes on to  *)
(* make.  StreamOps runs these bodies.                                     *)
(*                                                                         *)
(* An item is of one of three classes, which stand for whatever a          *)
(* predicate, a key function, a type assertion or a user's function tells  *)
(* apart: "a" and "b" are the first and the second case, key, type or      *)
(* branch, "c" matches nothing, is the zero Either, and fails to map (it   *)
(* is a third key for GroupBy, a third type for SwitchType3, whose items   *)
(* of no type are of class "d").                                           *)
(***************************************************************************)
EXTENDS Naturals, Sequences, SequencesExt, FiniteSetsExt

CONSTANTS
  BufferN,     \* n of Buffer
  Size,        \* size of SlidingWindow
  Step         \* step of SlidingWindow

ASSUME StepAssumption ==
  /\ BufferN \in Nat \ {0}
  /\ Step \in Nat \ {0} /\ Size \in Nat /\ Size >= Step

Values(o) == <<"values", o>>       \* the Values channel of output stream o
Errors(o) == <<"errors", o>>

\* A send that waits for its receiver, or for the context to end: then the
\* loop returns, or for some operators goes on.  A send that is only tried.
Must(c, x)  == [to |-> c, what |-> x, wait |-> TRUE,  ondone |-> "return"]
Wait(c, x)  == [to |-> c, what |-> x, wait |-> TRUE,  ondone |-> "continue"]
Try(c, x)   == [to |-> c, what |-> x, wait |-> FALSE, ondone |-> "continue"]

\* A call that is not a send: it comes back, whatever happens to the context.
Do(c, x)    == [to |-> c, what |-> x, wait |-> TRUE,  ondone |-> "finish"]

Then(m, sends) == [mem |-> m, sends |-> sends]
Keep(m) == Then(m, <<>>)
Emit(m, o, x) == Then(m, <<Must(Values(o), x)>>)
Fail(m, o, e) == Then(m, <<Must(Errors(o), e)>>)

\* The wrapped error of an item that could not be mapped, the value MapErr
\* makes of an error, the error it puts in its place.
FailureOf(v)  == [v EXCEPT !.kind = "failure"]
ResponseOf(v) == [v EXCEPT !.kind = "response"]
RecoveredOf(e) == [e EXCEPT !.kind = "recovered"]
ReplacedBy(e) == [e EXCEPT !.kind = "replaced"]

------------------------------------------------------------------------------
(* One item in, at most one out.                                            *)

Tap(m, v) == Emit(m, "out", v)
Filter(m, v) == IF v.class # "c" THEN Emit(m, "out", v) ELSE Keep(m)
OfType(m, v) == IF v.class = "a" THEN Emit(m, "out", v) ELSE Keep(m)
Map(m, v) == IF v.class = "c" THEN Fail(m, "out", FailureOf(v)) ELSE Emit(m, "out", v)
Apply(m, v) == IF v.class = "c" THEN Fail(m, "out", FailureOf(v)) ELSE Emit(m, "out", v)
Decode(m, v) == IF v.class = "c" THEN Fail(m, "out", FailureOf(v)) ELSE Emit(m, "out", v)
Throttle(m, v) ==
  IF m.throttled THEN Keep(m) ELSE Emit([m EXCEPT !.throttled = TRUE], "out", v)

\* fn turns an error into a value, into another error, or into nothing.
MapErr(m, e) ==
  CASE e.class = "a" -> Emit(m, "out", RecoveredOf(e))
    [] e.class = "b" -> Fail(m, "out", ReplacedBy(e))
    [] OTHER         -> Keep(m)

\* fn returns a slice of none, one or two values.
Pieces(v) == [i \in 1..(CASE v.class = "a" -> 1 [] v.class = "b" -> 2 [] OTHER -> 0) |-> <<v, i>>]
FlatMapSlice(m, v) == Then(m, [i \in DOMAIN Pieces(v) |-> Must(Values("out"), Pieces(v)[i])])

------------------------------------------------------------------------------
(* Operators that hold items back.                                          *)

Flush(m) ==
  IF m.batch = <<>> THEN Keep(m)
  ELSE Then([m EXCEPT !.batch = <<>>, !.timer = FALSE], <<Wait(Values("out"), m.batch)>>)
Buffer(m, v) ==
  LET n == [m EXCEPT !.batch = Append(@, v), !.timer = TRUE] IN
  IF Len(n.batch) >= BufferN THEN Flush(n) ELSE Keep(n)

Debounce(m, v) == Keep([m EXCEPT !.batch = <<v>>, !.timer = TRUE])
Silence(m) ==
  IF m.batch = <<>> THEN Keep(m)
  ELSE Emit([m EXCEPT !.batch = <<>>, !.timer = FALSE], "out", m.batch[1])

Collect(m, v) == Keep([m EXCEPT !.batch = Append(@, v)])
Tick(m) == Emit([m EXCEPT !.batch = <<>>], "out", m.batch)
Remainder(m) == IF m.batch = <<>> THEN Keep(m) ELSE Tick(m)

SlidingWindow(m, v) ==
  LET buf == Append(m.batch, v)
      due == m.count + 1 = Step
      n == [m EXCEPT !.batch = buf, !.count = IF due THEN 0 ELSE @ + 1]
  IN IF due /\ Len(buf) >= Size
     THEN Emit([n EXCEPT !.batch = SubSeq(buf, Step + 1, Len(buf))], "out",
               SubSeq(buf, Len(buf) - Size + 1, Len(buf)))
     ELSE Keep(n)

------------------------------------------------------------------------------
(* Several sources.                                                         *)

\* latestA, latestB, ... are in m.held, each the sequence of nothing or one.
Latest(m, s, v) == [m EXCEPT !.held[s] = <<v>>]
AllHeld(m) == \A t \in DOMAIN m.held : m.held[t] # <<>>
HeldHeads(m) == [t \in DOMAIN m.held |-> Head(m.held[t])]
CombineLatest2(m, s, v) ==
  LET n == Latest(m, s, v) IN
  IF AllHeld(n) THEN Emit(n, "out", HeldHeads(n)) ELSE Keep(n)
CombineLatest3(m, s, v) ==
  LET n == Latest(m, s, v) IN
  IF AllHeld(n) THEN Then(n, <<Wait(Values("out"), HeldHeads(n))>>) ELSE Keep(n)
CombineLatest4(m, s, v) == CombineLatest3(m, s, v)

\* queueA and queueB are in m.held too; tryEmit takes a pair off before it
\* sends it, and no more than one pair is ever there.
ZipPair(m, s, v) ==
  LET n == [m EXCEPT !.held[s] = Append(@, v)] IN
  IF AllHeld(n)
  THEN Emit([n EXCEPT !.held = [t \in DOMAIN @ |-> Tail(@[t])]], "out", HeldHeads(n))
  ELSE Keep(n)

Merge(m, v) == Emit(m, "out", v)

------------------------------------------------------------------------------
(* Several outputs.                                                         *)

Tee(m, v) == Then(m, <<Must(Values("a"), v), Must(Values("b"), v)>>)
TeeError(m, e) == Then(m, <<Must(Errors("a"), e), Must(Errors("b"), e)>>)

CaseOf(v) == IF v.class = "c" THEN "rest" ELSE v.class
SwitchBy(m, v) == Emit(m, CaseOf(v), v)
SwitchType2(m, v) == Emit(m, CaseOf(v), v)
SwitchType3(m, v) == Emit(m, IF v.class = "d" THEN "rest" ELSE v.class, v)
RestError(m, e) == Fail(m, "rest", e)

SplitEither(m, v) == IF v.class = "c" THEN Keep(m) ELSE Emit(m, v.class, v)
SplitError(m, e) == Then(m, <<Try(Errors("a"), e), Try(Errors("b"), e)>>)

\* onKey starts the consumer of a new key before the item is sent to it.
GroupBy(m, v) == Emit([m EXCEPT !.groups = @ \cup {v.class}], v.class, v)
GroupError(m, e) ==
  LET gs == SetToSeq(m.groups) IN Then(m, [i \in DOMAIN gs |-> Try(Errors(gs[i]), e)])

------------------------------------------------------------------------------
(* Adapters of an IOPort: one request, query or command for each value.     *)

Call(m, v) == IF v.class = "c" THEN Fail(m, "out", FailureOf(v)) ELSE Emit(m, "out", ResponseOf(v))

\* One row, or one and another that does not validate, or a failed query.
QueryEach(m, v) ==
  CASE v.class = "a" -> Emit(m, "out", ResponseOf(v))
    [] v.class = "b" -> Then(m, <<Must(Values("out"), ResponseOf(v)), Must(Errors("out"), FailureOf(v))>>)
    [] OTHER         -> Fail(m, "out", FailureOf(v))

\* A hit, a miss, an error (or a miss that counts as one).
Get(m, v) ==
  CASE v.class = "a" -> Emit(m, "out", ResponseOf(v))
    [] v.class = "b" -> Keep(m)
    [] OTHER         -> Fail(m, "out", FailureOf(v))

\* The value goes on though it could not be stored.
Set(m, v) ==
  Then(m, (IF v.class = "c" THEN <<Must(Errors("out"), FailureOf(v))>> ELSE <<>>)
            \o <<Must(Values("out"), v)>>)

------------------------------------------------------------------------------
(* Adapters of a SinkPort.  Values("out") is what was written, inserted,    *)
(* stored or published, Errors("out") what OnError was called with.         *)

Write(m, v) ==
  Then(m, <<IF v.class = "c" THEN Do(Errors("out"), FailureOf(v)) ELSE Do(Values("out"), v)>>)
WriteError(m, e) == Then(m, <<Do(Errors("out"), e)>>)

\* An error that matches a declared error channel is published there, and
\* OnError does not hear of it though the broker refuses the publish.
PublishError(m, e) ==
  CASE e.class = "a" -> WriteError(m, e)
    [] e.class = "b" -> Then(m, <<Do(Values("channel"), e)>>)
    [] OTHER         -> Keep(m)
=============================================================================
