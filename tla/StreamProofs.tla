---------------------------- MODULE StreamProofs ----------------------------
(***************************************************************************)
(* What comes out of each operator of the stream package, and of the       *)
(* adapters with the same loop, is what its documentation says of its      *)
(* inputs as a whole, for any number of items, any sizes and every order   *)
(* in which the channels are served.                                       *)
(*                                                                         *)
(* A lane ties one output channel to one source channel: what came out,    *)
(* what is being sent, what is held back and what is still to come are     *)
(* together what the source makes due there, or a prefix of it has come    *)
(* out and the context is done.  Each case of a select loop keeps every    *)
(* lane, because the sends it makes bring to the channel what the item it  *)
(* took makes due.  A path says less, where items may be left out:         *)
(* positions rise.  Both are stated with folds over sequences (Gather),    *)
(* whose laws are in SequenceLemmas.                                       *)
(***************************************************************************)
EXTENDS MCStreamOps, SequenceLemmas, FiniteSetTheorems

(* What flows through an operator.                                          *)
Item == [kind : {"values", "errors", "failure", "response", "recovered", "replaced"},
         src : 1..4, n : Nat, class : {"a", "b", "c", "d"}]

\* What the output channels of operator o carry, and on which of them a send
\* may be skipped.
Results(o) ==
  CASE o = "flatMapSlice" -> Item \X {1, 2}
    [] o = "buffer" -> {q \in Seq(Item) : Len(q) \in 1..BufferN}
    [] o \in {"window", "slidingWindow"} -> Seq(Item)
    [] o \in {"zip", "combineLatest2", "combineLatest3", "combineLatest4"} -> {t \in Seq(Item) : DOMAIN t = SourcesOf(o)}
    [] OTHER -> Item
WhatOf(o, c) == IF c[1] = "errors" THEN Item ELSE Results(o)
Soft(o, c) ==
  \/ c[1] = "values" /\ o \in {"buffer", "combineLatest3", "combineLatest4"}
  \/ c[1] = "errors" /\ o \in {"splitEither", "groupBy"}
SendsOf(o) ==
  {x \in [to : ChannelsOf(o), what : Item \cup (Item \X {1, 2}) \cup Seq(Item), wait : BOOLEAN,
          ondone : {"return", "continue", "finish"}] :
     /\ x.what \in WhatOf(o, x.to)
     /\ ~x.wait => x.ondone = "continue" /\ x.to[1] = "errors"
     /\ x.ondone = "continue" => Soft(o, x.to)}
MemOf(o) ==
  {m \in [batch : Seq(Item), timer : BOOLEAN, throttled : BOOLEAN, count : Nat,
          held : [SourcesOf(o) -> Seq(Item)], groups : SUBSET {"a", "b", "c"}] :
     o = "buffer" => Len(m.batch) < BufferN}

\* A case keeps to both.
Proper(o, r) == r.mem \in MemOf(o) /\ r.sends \in Seq(SendsOf(o))
Fine(o, v) == v \in Item /\ (o # "switchType3" => v.class # "d")

LEMMA One == ASSUME NEW S, NEW x \in S PROVE <<x>> \in Seq(S)
OBVIOUS
LEMMA Two == ASSUME NEW S, NEW x \in S, NEW y \in S PROVE <<x, y>> \in Seq(S)
OBVIOUS

LEMMA WhatKinds == \A o, c : WhatOf(o, c) \subseteq Item \cup (Item \X {1, 2}) \cup Seq(Item)
BY DEF WhatOf, Results

LEMMA SendIs ==
  ASSUME NEW o, NEW c \in ChannelsOf(o), NEW x \in WhatOf(o, c)
  PROVE  /\ Must(c, x) \in SendsOf(o) /\ Do(c, x) \in SendsOf(o)
         /\ Soft(o, c) => Wait(c, x) \in SendsOf(o)
         /\ Soft(o, c) /\ c[1] = "errors" => Try(c, x) \in SendsOf(o)
<1>1. x \in Item \cup (Item \X {1, 2}) \cup Seq(Item)
  BY WhatKinds
<1> HIDE DEF Item, WhatOf, Soft, ChannelsOf
<1> QED BY <1>1 DEF SendsOf, Must, Do, Wait, Try

LEMMA ChannelIs ==
  ASSUME NEW o, NEW p \in OutputsOf(o)
  PROVE  Values(p) \in ChannelsOf(o) /\ Errors(p) \in ChannelsOf(o)
BY DEF ChannelsOf, Kinds, Values, Errors

LEMMA KeepProper == ASSUME NEW o, NEW m \in MemOf(o) PROVE Proper(o, Keep(m))
BY SeqNone DEF Proper, Keep, Then

LEMMA OneProper ==
  ASSUME NEW o, NEW m \in MemOf(o), NEW x \in SendsOf(o)
  PROVE  Proper(o, Then(m, <<x>>))
BY One DEF Proper, Then

LEMMA TwoProper ==
  ASSUME NEW o, NEW m \in MemOf(o), NEW x \in SendsOf(o), NEW y \in SendsOf(o)
  PROVE  Proper(o, Then(m, <<x, y>>))
BY Two DEF Proper, Then

LEMMA EmitProper ==
  ASSUME NEW o, NEW m \in MemOf(o), NEW p \in OutputsOf(o), NEW x \in Results(o)
  PROVE  Proper(o, Emit(m, p, x))
<1>1. Values(p) \in ChannelsOf(o) /\ x \in WhatOf(o, Values(p))
  BY ChannelIs DEF WhatOf, Values
<1>2. Must(Values(p), x) \in SendsOf(o)
  BY <1>1, SendIs
<1> QED BY <1>2, OneProper DEF Emit

LEMMA FailProper ==
  ASSUME NEW o, NEW m \in MemOf(o), NEW p \in OutputsOf(o), NEW x \in Item
  PROVE  Proper(o, Fail(m, p, x))
<1>1. Errors(p) \in ChannelsOf(o) /\ x \in WhatOf(o, Errors(p))
  BY ChannelIs DEF WhatOf, Errors
<1>2. Must(Errors(p), x) \in SendsOf(o)
  BY <1>1, SendIs
<1> QED BY <1>2, OneProper DEF Fail

LEMMA ItemKinds ==
  ASSUME NEW v \in Item
  PROVE  /\ FailureOf(v) \in Item /\ ResponseOf(v) \in Item
         /\ RecoveredOf(v) \in Item /\ ReplacedBy(v) \in Item
BY DEF Item, FailureOf, ResponseOf, RecoveredOf, ReplacedBy

LEMMA SourcesIn == \A o : SourcesOf(o) \subseteq 1..4 /\ LoopsOf(o) \subseteq 1..4
BY DEF SourcesOf, LoopsOf

\* What the loop does with a value: each operator in its turn.
LEMMA PlainProper ==
  ASSUME NEW m \in MemOf(op), NEW s \in SourcesOf(op), NEW v, Fine(op, v),
         op \in {"from", "fromCodec", "tap", "filter", "ofType", "apply", "map", "mapErr", "throttle",
                 "merge", "call", "queryEach", "get"}
  PROVE  Proper(op, OnValue(m, s, v))
<1>1. v \in Item /\ "out" \in OutputsOf(op) /\ Results(op) = Item
  BY DEF Fine, OutputsOf, Results
<1>2. /\ FailureOf(v) \in Item /\ ResponseOf(v) \in Item
  BY <1>1, ItemKinds
<1>3. /\ Proper(op, Keep(m)) /\ Proper(op, Emit(m, "out", v))
      /\ Proper(op, Emit(m, "out", ResponseOf(v)))
      /\ Proper(op, Fail(m, "out", FailureOf(v)))
  BY <1>1, <1>2, KeepProper, EmitProper, FailProper
<1>4. CASE op \in {"from", "tap", "mapErr"}
  BY <1>3, <1>4 DEF OnValue, Tap
<1>5. CASE op = "filter"
  BY <1>3, <1>5 DEF OnValue, Filter
<1>6. CASE op = "ofType"
  BY <1>3, <1>6 DEF OnValue, OfType
<1>7. CASE op \in {"apply", "map", "fromCodec"}
  BY <1>3, <1>7 DEF OnValue, Apply, Map, Decode
<1>8. CASE op = "throttle"
  <2>1. [m EXCEPT !.throttled = TRUE] \in MemOf(op)
    BY DEF MemOf
  <2>2. Proper(op, Emit([m EXCEPT !.throttled = TRUE], "out", v))
    BY <1>1, <2>1, EmitProper
  <2> QED BY <1>3, <1>8, <2>2 DEF OnValue, Throttle
<1>9. CASE op = "merge"
  BY <1>3, <1>9 DEF OnValue, Merge
<1>10. CASE op = "call"
  BY <1>3, <1>10 DEF OnValue, Call
<1>11. CASE op = "get"
  BY <1>3, <1>11 DEF OnValue, Get
<1>12. CASE op = "queryEach"
  <2>1. Must(Values("out"), ResponseOf(v)) \in SendsOf(op)
          /\ Must(Errors("out"), FailureOf(v)) \in SendsOf(op)
    BY <1>1, <1>2, ChannelIs, SendIs DEF WhatOf, Values, Errors
  <2>2. Proper(op, Then(m, <<Must(Values("out"), ResponseOf(v)), Must(Errors("out"), FailureOf(v))>>))
    BY <2>1, TwoProper
  <2> QED BY <1>3, <1>12, <2>2 DEF OnValue, QueryEach
<1> QED BY <1>4, <1>5, <1>6, <1>7, <1>8, <1>9, <1>10, <1>11, <1>12

LEMMA ManyOutputsProper ==
  ASSUME NEW m \in MemOf(op), NEW s \in SourcesOf(op), NEW v, Fine(op, v),
         op \in {"tee", "switch", "switchType2", "switchType3", "splitEither", "groupBy"}
  PROVE  Proper(op, OnValue(m, s, v))
<1>1. v \in Item /\ Results(op) = Item /\ v.class \in {"a", "b", "c", "d"}
  BY DEF Fine, Results, Item
<1>2. \A p \in OutputsOf(op) : Proper(op, Emit(m, p, v)) /\ Must(Values(p), v) \in SendsOf(op)
  BY <1>1, EmitProper, ChannelIs, SendIs DEF WhatOf, Values
<1>3. CASE op = "tee"
  <2>1. Must(Values("a"), v) \in SendsOf(op) /\ Must(Values("b"), v) \in SendsOf(op)
    BY <1>2, <1>3 DEF OutputsOf
  <2>2. Proper(op, Then(m, <<Must(Values("a"), v), Must(Values("b"), v)>>))
    BY <2>1, TwoProper
  <2> QED BY <1>3, <2>2 DEF OnValue, Tee
<1>4. CASE op \in {"switch", "switchType2"}
  <2>1. CaseOf(v) \in OutputsOf(op)
    BY <1>1, <1>4 DEF CaseOf, OutputsOf, Fine
  <2> QED BY <1>2, <1>4, <2>1 DEF OnValue, SwitchBy, SwitchType2
<1>5. CASE op = "switchType3"
  <2>1. (IF v.class = "d" THEN "rest" ELSE v.class) \in OutputsOf(op)
    BY <1>1, <1>5 DEF OutputsOf
  <2> QED BY <1>2, <1>5, <2>1 DEF OnValue, SwitchType3
<1>6. CASE op = "splitEither"
  <2>1. v.class # "c" => v.class \in OutputsOf(op)
    BY <1>1, <1>6 DEF OutputsOf, Fine
  <2> QED BY <1>2, <1>6, <2>1, KeepProper DEF OnValue, SplitEither
<1>7. CASE op = "groupBy"
  <2>1. v.class \in OutputsOf(op) /\ v.class \in {"a", "b", "c"}
    BY <1>1, <1>7 DEF OutputsOf, Fine
  <2>2. [m EXCEPT !.groups = @ \cup {v.class}] \in MemOf(op)
    BY <2>1 DEF MemOf
  <2>3. Proper(op, Emit([m EXCEPT !.groups = @ \cup {v.class}], v.class, v))
    BY <1>1, <2>1, <2>2, EmitProper
  <2> QED BY <1>7, <2>3 DEF OnValue, GroupBy
<1> QED BY <1>3, <1>4, <1>5, <1>6, <1>7

LEMMA AdapterProper ==
  ASSUME NEW m \in MemOf(op), NEW s \in SourcesOf(op), NEW v, Fine(op, v),
         op \in {"set", "drain", "publish"}
  PROVE  Proper(op, OnValue(m, s, v))
<1>1. v \in Item /\ "out" \in OutputsOf(op) /\ Results(op) = Item /\ FailureOf(v) \in Item
  BY ItemKinds DEF Fine, OutputsOf, Results
<1>2. /\ Must(Values("out"), v) \in SendsOf(op) /\ Do(Values("out"), v) \in SendsOf(op)
      /\ Must(Errors("out"), FailureOf(v)) \in SendsOf(op)
      /\ Do(Errors("out"), FailureOf(v)) \in SendsOf(op)
  BY <1>1, ChannelIs, SendIs DEF WhatOf, Values, Errors
<1>3. CASE op = "set"
  <2>1. /\ <<Must(Errors("out"), FailureOf(v))>> \in Seq(SendsOf(op))
        /\ <<Must(Values("out"), v)>> \in Seq(SendsOf(op))
        /\ <<>> \in Seq(SendsOf(op))
    BY <1>2, One, SeqNone
  <2>2. Set(m, v).sends \in Seq(SendsOf(op)) /\ Set(m, v).mem = m
    BY <2>1, SeqCat DEF Set, Then
  <2> QED BY <1>3, <2>2 DEF OnValue, Proper
<1>4. CASE op \in {"drain", "publish"}
  <2>1. Proper(op, Then(m, <<Do(Values("out"), v)>>))
          /\ Proper(op, Then(m, <<Do(Errors("out"), FailureOf(v))>>))
    BY <1>2, OneProper
  <2>2. Proper(op, Write(m, v))
    BY <2>1 DEF Write
  <2> QED BY <1>4, <2>2 DEF OnValue, Sinks
<1> QED BY <1>3, <1>4

LEMMA FlatMapSliceProper ==
  ASSUME NEW m \in MemOf(op), NEW s \in SourcesOf(op), NEW v, Fine(op, v), op = "flatMapSlice"
  PROVE  Proper(op, OnValue(m, s, v))
<1>1. v \in Item /\ "out" \in OutputsOf(op) /\ Results(op) = Item \X {1, 2}
  BY DEF Fine, OutputsOf, Results
<1>2. PICK k \in {0, 1, 2} : Pieces(v) = [i \in 1..k |-> <<v, i>>]
  BY DEF Pieces
<1>3. \A i \in 1..k : Must(Values("out"), <<v, i>>) \in SendsOf(op)
  BY <1>1, ChannelIs, SendIs DEF WhatOf, Values
<1>4. DOMAIN Pieces(v) = 1..k
  BY <1>2
<1>5. [i \in DOMAIN Pieces(v) |-> Must(Values("out"), Pieces(v)[i])] = [i \in 1..k |-> Must(Values("out"), <<v, i>>)]
  BY <1>2, <1>4
<1>6. [i \in 1..k |-> Must(Values("out"), <<v, i>>)] \in [1..k -> SendsOf(op)]
  BY <1>3
<1>7. [i \in 1..k |-> Must(Values("out"), <<v, i>>)] \in Seq(SendsOf(op))
  BY <1>6, ListIsSeq
<1> QED BY <1>5, <1>7 DEF OnValue, FlatMapSlice, Proper, Then

LEMMA BatchIn ==
  ASSUME NEW m \in MemOf(op), NEW v \in Item
  PROVE  /\ Append(m.batch, v) \in Seq(Item) /\ Len(Append(m.batch, v)) = Len(m.batch) + 1
         /\ m.batch \in Seq(Item) /\ Len(m.batch) \in Nat
         /\ (op = "buffer" => Len(m.batch) < BufferN)
         /\ BufferN \in Nat \ {0}
BY StepAssumption DEF MemOf

LEMMA MemChanged ==
  ASSUME NEW m \in MemOf(op), NEW b \in Seq(Item), NEW t \in BOOLEAN, NEW c \in Nat,
         op = "buffer" => Len(b) < BufferN
  PROVE  /\ [m EXCEPT !.batch = b, !.timer = t] \in MemOf(op)
         /\ [m EXCEPT !.batch = b, !.count = c] \in MemOf(op)
         /\ [m EXCEPT !.batch = b] \in MemOf(op)
BY DEF MemOf

LEMMA FlushProper ==
  ASSUME NEW m, NEW b \in Seq(Item), NEW t \in BOOLEAN, NEW m0 \in MemOf(op), Len(b) <= BufferN,
         m = [m0 EXCEPT !.batch = b, !.timer = t], op = "buffer"
  PROVE  b # <<>> => Proper(op, Flush(m))
<1> SUFFICES ASSUME b # <<>> PROVE Proper(op, Flush(m))
  OBVIOUS
<1>1. m.batch = b
        /\ [m EXCEPT !.batch = <<>>, !.timer = FALSE] = [m0 EXCEPT !.batch = <<>>, !.timer = FALSE]
  BY DEF MemOf
<1>2. [m0 EXCEPT !.batch = <<>>, !.timer = FALSE] \in MemOf(op)
  <2>1. <<>> \in Seq(Item) /\ Len(<<>>) = 0 /\ 0 < BufferN /\ FALSE \in BOOLEAN /\ 0 \in Nat
    BY SeqNone, StepAssumption
  <2> QED BY <2>1, MemChanged
<1>3. b \in WhatOf(op, Values("out")) /\ Soft(op, Values("out")) /\ "out" \in OutputsOf(op)
  <2>1. Len(b) \in 1..BufferN
    BY EmptySeq
  <2> QED BY <2>1 DEF WhatOf, Results, Values, Soft, OutputsOf
<1>4. Wait(Values("out"), b) \in SendsOf(op)
  BY <1>3, ChannelIs, SendIs
<1> QED BY <1>1, <1>2, <1>4, OneProper DEF Flush

LEMMA BufferProper ==
  ASSUME NEW m \in MemOf(op), NEW s \in SourcesOf(op), NEW v, Fine(op, v), op = "buffer"
  PROVE  Proper(op, OnValue(m, s, v))
<1> DEFINE b == Append(m.batch, v)
           n == [m EXCEPT !.batch = b, !.timer = TRUE]
<1>1. v \in Item
  BY DEF Fine
<1>2. b \in Seq(Item) /\ Len(b) \in Nat /\ Len(b) <= BufferN /\ b # <<>>
  BY <1>1, BatchIn
<1>3. n.batch = b
  BY DEF MemOf
<1>4. [m EXCEPT !.batch = Append(@, v), !.timer = TRUE] = n
  OBVIOUS
<1> HIDE DEF b
<1>5. Proper(op, Flush(n))
  BY <1>2, FlushProper
<1>6. CASE Len(b) >= BufferN
  BY <1>3, <1>4, <1>5, <1>6 DEF OnValue, Buffer
<1>7. CASE Len(b) < BufferN
  <2>1. n \in MemOf(op)
    BY <1>2, <1>7, MemChanged
  <2>2. ~(Len(b) >= BufferN)
    BY <1>2, <1>7, StepAssumption
  <2> QED BY <1>3, <1>4, <2>1, <2>2, KeepProper DEF OnValue, Buffer
<1> QED BY <1>2, <1>6, <1>7, StepAssumption

LEMMA HoldProper ==
  ASSUME NEW m \in MemOf(op), NEW s \in SourcesOf(op), NEW v, Fine(op, v),
         op \in {"debounce", "window"}
  PROVE  Proper(op, OnValue(m, s, v))
<1>1. v \in Item
  BY DEF Fine
<1>2. Append(m.batch, v) \in Seq(Item) /\ <<v>> \in Seq(Item)
  BY <1>1, BatchIn, One
<1>3. CASE op = "debounce"
  BY <1>2, <1>3, MemChanged, KeepProper DEF OnValue, Debounce
<1>4. CASE op = "window"
  BY <1>2, <1>4, MemChanged, KeepProper DEF OnValue, Collect
<1> QED BY <1>3, <1>4

LEMMA SlideProper ==
  ASSUME NEW m \in MemOf(op), NEW s \in SourcesOf(op), NEW v, Fine(op, v), op = "slidingWindow"
  PROVE  Proper(op, OnValue(m, s, v))
<1> DEFINE b == Append(m.batch, v)
           c == IF m.count + 1 = Step THEN 0 ELSE m.count + 1
           n == [m EXCEPT !.batch = b, !.count = c]
           r == SubSeq(b, Step + 1, Len(b))
           w == SubSeq(b, Len(b) - Size + 1, Len(b))
<1>1. v \in Item /\ "out" \in OutputsOf(op) /\ Results(op) = Seq(Item)
  BY DEF Fine, OutputsOf, Results
<1>2. b \in Seq(Item) /\ Len(b) \in Nat
  BY <1>1, BatchIn
<1>3. c \in Nat
  BY DEF MemOf
<1>4. [m EXCEPT !.batch = b, !.count = IF m.count + 1 = Step THEN 0 ELSE @ + 1] = n
  OBVIOUS
<1> HIDE DEF b, c
<1>5. r \in Seq(Item) /\ (Len(b) >= Size => w \in Seq(Item))
  BY <1>2, StepAssumption
<1>6. n \in MemOf(op) /\ [m EXCEPT !.batch = r, !.count = c] \in MemOf(op)
  BY <1>2, <1>3, <1>5, MemChanged
<1>7. [n EXCEPT !.batch = r] = [m EXCEPT !.batch = r, !.count = c]
  BY DEF MemOf
<1>8. OnValue(m, s, v) = SlidingWindow(m, v)
  BY DEF OnValue
<1>9. SlidingWindow(m, v) = IF m.count + 1 = Step /\ Len(b) >= Size THEN Emit([n EXCEPT !.batch = r], "out", w) ELSE Keep(n)
  BY <1>4 DEF SlidingWindow, b
<1>10. Proper(op, Keep(n))
  BY <1>6, KeepProper
<1>11. Len(b) >= Size => Proper(op, Emit([n EXCEPT !.batch = r], "out", w))
  BY <1>1, <1>5, <1>6, <1>7, EmitProper
<1> QED BY <1>8, <1>9, <1>10, <1>11

\* The sources of a join are numbered, so a tuple is a sequence.
Joining == {"combineLatest2", "combineLatest3", "combineLatest4", "zip"}
LEMMA HeldIs ==
  ASSUME NEW m \in MemOf(op), op \in Joining
  PROVE  /\ m.held \in [SourcesOf(op) -> Seq(Item)] /\ DOMAIN m.held = SourcesOf(op)
         /\ AllHeld(m) => HeldHeads(m) \in Seq(Item) /\ HeldHeads(m) \in [SourcesOf(op) -> Item]
<1>1. m.held \in [SourcesOf(op) -> Seq(Item)] /\ DOMAIN m.held = SourcesOf(op)
  BY DEF MemOf
<1>2. PICK k \in {2, 3, 4} : SourcesOf(op) = 1..k
  BY DEF SourcesOf, Joining
<1>3. ASSUME AllHeld(m) PROVE HeldHeads(m) \in [1..k -> Item]
  BY <1>1, <1>2, <1>3 DEF AllHeld, HeldHeads
<1>4. AllHeld(m) => HeldHeads(m) \in Seq(Item)
  BY <1>3, ListIsSeq
<1> QED BY <1>1, <1>2, <1>3, <1>4

LEMMA HeldOne ==
  ASSUME NEW m \in MemOf(op), NEW s \in SourcesOf(op), NEW q \in Seq(Item)
  PROVE  [m EXCEPT !.held[s] = q] \in MemOf(op)
BY DEF MemOf

LEMMA HeldAll ==
  ASSUME NEW m \in MemOf(op), NEW h \in [SourcesOf(op) -> Seq(Item)]
  PROVE  [m EXCEPT !.held = h] \in MemOf(op)
BY DEF MemOf

LEMMA CombineProper ==
  ASSUME NEW m \in MemOf(op), NEW s \in SourcesOf(op), NEW v, Fine(op, v),
         op \in {"combineLatest2", "combineLatest3", "combineLatest4"}
  PROVE  Proper(op, OnValue(m, s, v))
<1>1. v \in Item /\ "out" \in OutputsOf(op)
        /\ Results(op) = {t \in Seq(Item) : DOMAIN t = SourcesOf(op)} /\ op \in Joining
  BY DEF Fine, OutputsOf, Results, Joining
<1>2. Latest(m, s, v) \in MemOf(op)
  BY <1>1, One, HeldOne DEF Latest
<1>3. AllHeld(Latest(m, s, v)) => HeldHeads(Latest(m, s, v)) \in Results(op)
  BY <1>1, <1>2, HeldIs
<1>4. Proper(op, Keep(Latest(m, s, v)))
  BY <1>2, KeepProper
<1>5. CASE op = "combineLatest2"
  BY <1>1, <1>2, <1>3, <1>4, <1>5, EmitProper DEF OnValue, CombineLatest2
<1>6. CASE op \in {"combineLatest3", "combineLatest4"}
  <2>1. AllHeld(Latest(m, s, v)) => HeldHeads(Latest(m, s, v)) \in WhatOf(op, Values("out"))
    BY <1>3 DEF WhatOf, Values
  <2>2. Soft(op, Values("out")) /\ Values("out") \in ChannelsOf(op)
    BY <1>1, <1>6, ChannelIs DEF Soft, Values
  <2>3. AllHeld(Latest(m, s, v)) => Wait(Values("out"), HeldHeads(Latest(m, s, v))) \in SendsOf(op)
    BY <2>1, <2>2, SendIs
  <2>4. AllHeld(Latest(m, s, v)) => Proper(op, Then(Latest(m, s, v), <<Wait(Values("out"), HeldHeads(Latest(m, s, v)))>>))
    BY <1>2, <2>3, OneProper
  <2> QED BY <1>4, <1>6, <2>4 DEF OnValue, CombineLatest3, CombineLatest4
<1> QED BY <1>5, <1>6

LEMMA ZipProper ==
  ASSUME NEW m \in MemOf(op), NEW s \in SourcesOf(op), NEW v, Fine(op, v), op = "zip"
  PROVE  Proper(op, OnValue(m, s, v))
<1> DEFINE n == [m EXCEPT !.held[s] = Append(@, v)]
           h == [t \in DOMAIN n.held |-> Tail(n.held[t])]
<1>1. v \in Item /\ "out" \in OutputsOf(op)
        /\ Results(op) = {t \in Seq(Item) : DOMAIN t = SourcesOf(op)} /\ op \in Joining
  BY DEF Fine, OutputsOf, Results, Joining
<1>2. n \in MemOf(op)
  <2>1. m.held[s] \in Seq(Item)
    BY DEF MemOf
  <2>2. Append(m.held[s], v) \in Seq(Item)
    BY <1>1, <2>1
  <2>3. n = [m EXCEPT !.held[s] = Append(m.held[s], v)]
    OBVIOUS
  <2> QED BY <2>2, <2>3, HeldOne
<1> HIDE DEF n
<1>3. n.held \in [SourcesOf(op) -> Seq(Item)] /\ DOMAIN n.held = SourcesOf(op)
  BY <1>1, <1>2, HeldIs
<1>4. AllHeld(n) => h \in [SourcesOf(op) -> Seq(Item)]
  BY <1>3 DEF AllHeld
<1>5. AllHeld(n) => [n EXCEPT !.held = h] \in MemOf(op)
  BY <1>2, <1>4, HeldAll
<1>6. AllHeld(n) => HeldHeads(n) \in Results(op)
  BY <1>1, <1>2, HeldIs
<1>7. [n EXCEPT !.held = [t \in DOMAIN @ |-> Tail(@[t])]] = [n EXCEPT !.held = h]
  OBVIOUS
<1>8. AllHeld(n) => Proper(op, Emit([n EXCEPT !.held = h], "out", HeldHeads(n)))
  BY <1>1, <1>5, <1>6, EmitProper
<1>9. Proper(op, Keep(n))
  BY <1>2, KeepProper
<1> QED BY <1>7, <1>8, <1>9 DEF OnValue, ZipPair, n

\* The keys of GroupBy's groups, one after the other.
IsList(q, G) == q \in Seq(G) /\ \A i, j \in DOMAIN q : q[i] = q[j] => i = j
LEMMA ListOf ==
  ASSUME NEW G, G \subseteq {"a", "b", "c"}
  PROVE  IsList(SetToSeq(G), G)
<1>1. IsFiniteSet(G)
  <2>1. IsFiniteSet({"a"}) /\ IsFiniteSet({"b"}) /\ IsFiniteSet({"c"})
    BY FS_Singleton
  <2>2. IsFiniteSet({"a"} \cup {"b"})
    BY <2>1, FS_Union
  <2>3. IsFiniteSet({"a"} \cup {"b"} \cup {"c"})
    BY <2>1, <2>2, FS_Union
  <2>4. G \subseteq {"a"} \cup {"b"} \cup {"c"}
    OBVIOUS
  <2> QED BY <2>3, <2>4, FS_Subset
<1>2. Cardinality(G) \in Nat /\ ExistsBijection(1..Cardinality(G), G)
  BY <1>1, FS_CardinalityType
<1>3. \E f \in [1..Cardinality(G) -> G] : IsInjective(f)
  BY <1>2 DEF ExistsBijection, Bijection, Injection
<1>4. SetToSeq(G) \in [1..Cardinality(G) -> G] /\ IsInjective(SetToSeq(G))
  BY <1>3 DEF SetToSeq
<1>5. SetToSeq(G) \in Seq(G)
  BY <1>2, <1>4, ListIsSeq
<1> QED BY <1>4, <1>5 DEF IsList, IsInjective

ErrorTo(gs, e) == [i \in DOMAIN gs |-> Try(Errors(gs[i]), e)]
LEMMA GroupErrorProper ==
  ASSUME NEW m \in MemOf(op), NEW e, Fine(op, e), op = "groupBy"
  PROVE  Proper(op, OnError(m, e))
<1> DEFINE gs == SetToSeq(m.groups)
<1>1. m.groups \subseteq {"a", "b", "c"} /\ OutputsOf(op) = {"a", "b", "c"} /\ e \in Item
  BY DEF MemOf, OutputsOf, Fine
<1>2. gs \in Seq(m.groups)
  BY <1>1, ListOf DEF IsList
<1>3. \A p \in OutputsOf(op) : Try(Errors(p), e) \in SendsOf(op)
  <2>1. ASSUME NEW p \in OutputsOf(op) PROVE Try(Errors(p), e) \in SendsOf(op)
    <3>1. /\ Errors(p) \in ChannelsOf(op) /\ e \in WhatOf(op, Errors(p)) /\ Soft(op, Errors(p))
          /\ Errors(p)[1] = "errors"
      BY <1>1, ChannelIs DEF WhatOf, Errors, Soft
    <3> QED BY <3>1, SendIs
  <2> QED BY <2>1
<1> HIDE DEF gs
<1>4. DOMAIN gs = 1..Len(gs) /\ Len(gs) \in Nat /\ \A i \in 1..Len(gs) : gs[i] \in OutputsOf(op)
  BY <1>1, <1>2
<1>5. ErrorTo(gs, e) \in [1..Len(gs) -> SendsOf(op)]
  BY <1>3, <1>4 DEF ErrorTo
<1>6. ErrorTo(gs, e) \in Seq(SendsOf(op))
  BY <1>4, <1>5, ListIsSeq
<1>7. OnError(m, e) = Then(m, ErrorTo(gs, e))
  BY DEF OnError, GroupError, ErrorTo, gs
<1> QED BY <1>6, <1>7 DEF Proper, Then

LEMMA ErrorProper ==
  ASSUME NEW m \in MemOf(op), NEW e, Fine(op, e), op \in OpNames
  PROVE  Proper(op, OnError(m, e))
<1>1. e \in Item /\ RecoveredOf(e) \in Item /\ ReplacedBy(e) \in Item
  BY ItemKinds DEF Fine
<1>2. \A p \in OutputsOf(op) : Proper(op, Fail(m, p, e))
  BY <1>1, FailProper
<1>3. CASE op = "mapErr"
  <2>1. "out" \in OutputsOf(op) /\ Results(op) = Item
    BY <1>3 DEF OutputsOf, Results
  <2>2. /\ Proper(op, Emit(m, "out", RecoveredOf(e))) /\ Proper(op, Fail(m, "out", ReplacedBy(e)))
        /\ Proper(op, Keep(m))
    BY <1>1, <2>1, EmitProper, FailProper, KeepProper
  <2> QED BY <1>3, <2>2 DEF OnError, MapErr
<1>4. CASE op \in {"tee", "splitEither"}
  <2>1. /\ {Errors("a"), Errors("b")} \subseteq ChannelsOf(op) /\ e \in WhatOf(op, Errors("a"))
        /\ e \in WhatOf(op, Errors("b"))
        /\ (op = "splitEither" => Soft(op, Errors("a")) /\ Soft(op, Errors("b")))
        /\ Errors("a")[1] = "errors" /\ Errors("b")[1] = "errors"
    BY <1>1, <1>4, ChannelIs DEF OutputsOf, WhatOf, Errors, Soft
  <2>2. /\ Must(Errors("a"), e) \in SendsOf(op) /\ Must(Errors("b"), e) \in SendsOf(op)
        /\ (op = "splitEither" => Try(Errors("a"), e) \in SendsOf(op) /\ Try(Errors("b"), e) \in SendsOf(op))
    BY <2>1, SendIs
  <2>3. /\ Proper(op, Then(m, <<Must(Errors("a"), e), Must(Errors("b"), e)>>))
        /\ (op = "splitEither" => Proper(op, Then(m, <<Try(Errors("a"), e), Try(Errors("b"), e)>>)))
    BY <2>2, TwoProper
  <2> QED BY <1>4, <2>3 DEF OnError, TeeError, SplitError
<1>5. CASE op \in {"switch", "switchType2", "switchType3"}
  BY <1>2, <1>5 DEF OnError, RestError, OutputsOf
<1>6. CASE op = "groupBy"
  BY <1>6, GroupErrorProper
<1>7. CASE op \in {"drain", "publish"}
  <2>1. "out" \in OutputsOf(op) /\ (op = "publish" => "channel" \in OutputsOf(op))
          /\ Results(op) = Item
    BY <1>7 DEF OutputsOf, Results
  <2>2. /\ Do(Errors("out"), e) \in SendsOf(op)
        /\ (op = "publish" => Do(Values("channel"), e) \in SendsOf(op))
    BY <1>1, <2>1, ChannelIs, SendIs DEF WhatOf, Values, Errors
  <2>3. /\ Proper(op, Then(m, <<Do(Errors("out"), e)>>)) /\ Proper(op, Keep(m))
        /\ (op = "publish" => Proper(op, Then(m, <<Do(Values("channel"), e)>>)))
    BY <2>2, OneProper, KeepProper
  <2> QED BY <1>7, <2>3 DEF OnError, WriteError, PublishError
<1>8. CASE op \notin {"mapErr", "tee", "splitEither", "switch", "switchType2", "switchType3", "groupBy", "drain", "publish"}
  <2>1. "out" \in OutputsOf(op)
    BY <1>8 DEF OpNames, Adapters, Sinks, OutputsOf
  <2> QED BY <1>2, <1>8, <2>1 DEF OnError
<1> QED BY <1>3, <1>4, <1>5, <1>6, <1>7, <1>8

LEMMA ValueProper ==
  ASSUME NEW m \in MemOf(op), NEW s \in SourcesOf(op), NEW v, Fine(op, v), op \in OpNames
  PROVE  Proper(op, OnValue(m, s, v))
BY PlainProper, ManyOutputsProper, AdapterProper, FlatMapSliceProper, BufferProper, HoldProper,
   SlideProper, CombineProper, ZipProper DEF OpNames, Adapters, Sinks

LEMMA TimerProper ==
  ASSUME NEW m \in MemOf(op)
  PROVE  /\ op = "buffer" => Proper(op, Flush(m))
         /\ op = "debounce" => Proper(op, Silence(m))
         /\ op = "window" => Proper(op, Tick(m)) /\ Proper(op, Remainder(m))
<1>1. m.batch \in Seq(Item) /\ m.timer \in BOOLEAN
  BY DEF MemOf
<1>2. Proper(op, Keep(m))
  BY KeepProper
<1>3. ASSUME op = "buffer" PROVE Proper(op, Flush(m))
  <2>1. m = [m EXCEPT !.batch = m.batch, !.timer = m.timer]
    BY DEF MemOf
  <2>3. Len(m.batch) \in Nat /\ Len(m.batch) < BufferN
    BY <1>3 DEF MemOf
  <2>4. Len(m.batch) <= BufferN
    BY <2>3, StepAssumption
  <2>2. m.batch # <<>> => Proper(op, Flush(m))
    BY <1>1, <1>3, <2>1, <2>4, FlushProper
  <2> QED BY <1>2, <2>2 DEF Flush
<1>4. <<>> \in Seq(Item) /\ Len(<<>>) = 0 /\ 0 < BufferN /\ FALSE \in BOOLEAN /\ 0 \in Nat
  BY SeqNone, StepAssumption
<1>5. [m EXCEPT !.batch = <<>>, !.timer = FALSE] \in MemOf(op)
        /\ [m EXCEPT !.batch = <<>>] \in MemOf(op)
  BY <1>4, MemChanged
<1>6. ASSUME op = "debounce" PROVE Proper(op, Silence(m))
  <2>1. "out" \in OutputsOf(op) /\ Results(op) = Item
    BY <1>6 DEF OutputsOf, Results
  <2>2. m.batch # <<>> => m.batch[1] \in Item
    BY <1>1, EmptySeq
  <2>3. m.batch # <<>> => Proper(op, Emit([m EXCEPT !.batch = <<>>, !.timer = FALSE], "out", m.batch[1]))
    BY <1>5, <2>1, <2>2, EmitProper
  <2> QED BY <1>2, <2>3 DEF Silence
<1>7. ASSUME op = "window" PROVE Proper(op, Tick(m)) /\ Proper(op, Remainder(m))
  <2>1. "out" \in OutputsOf(op) /\ Results(op) = Seq(Item)
    BY <1>7 DEF OutputsOf, Results
  <2>2. Proper(op, Emit([m EXCEPT !.batch = <<>>], "out", m.batch))
    BY <1>1, <1>5, <2>1, EmitProper
  <2> QED BY <1>2, <2>2 DEF Tick, Remainder
<1> QED BY <1>3, <1>6, <1>7

-----------------------------------------------------------------------------
(* What a source has still to send is the rest of what it had.               *)
Rest(b, a) ==
  /\ Len(b) <= Len(a)
  /\ \A j \in 1..Len(b) : b[j] = a[Len(a) - Len(b) + j]
LEMMA RestTail ==
  ASSUME NEW S, NEW a \in Seq(S), NEW b \in Seq(S), Rest(b, a), b # <<>>
  PROVE  /\ Rest(Tail(b), a) /\ Tail(b) \in Seq(S) /\ Len(Tail(b)) = Len(b) - 1
         /\ Head(b) = a[Len(a) - Len(b) + 1] /\ Head(b) \in S /\ Len(a) - Len(b) + 1 \in 1..Len(a)
<1>1. Len(b) \in Nat \ {0} /\ Len(a) \in Nat
  BY EmptySeq
<1>2. Tail(b) \in Seq(S) /\ Len(Tail(b)) = Len(b) - 1 /\ Head(b) = b[1] /\ b[1] \in S
  BY <1>1
<1>3. \A j \in 1..(Len(b) - 1) : Tail(b)[j] = b[j + 1]
  BY <1>1
<1>4. \A j \in 1..(Len(b) - 1) : b[j + 1] = a[Len(a) - Len(b) + (j + 1)]
  BY <1>1 DEF Rest
<1>5. \A j \in 1..(Len(b) - 1) : Len(a) - Len(b) + (j + 1) = Len(a) - (Len(b) - 1) + j
  BY <1>1
<1>6. Rest(Tail(b), a)
  BY <1>1, <1>2, <1>3, <1>4, <1>5 DEF Rest
<1>7. Head(b) = a[Len(a) - Len(b) + 1] /\ Len(a) - Len(b) + 1 \in 1..Len(a)
  BY <1>1, <1>2 DEF Rest
<1> QED BY <1>2, <1>6, <1>7
LEMMA RestSelf == ASSUME NEW S, NEW a \in Seq(S) PROVE Rest(a, a)
BY DEF Rest

Line == [values : Seq(Item), errors : Seq(Item)]
\* Every item of a source knows where it came from.
Placed(s, k, j, x) == x.kind = k /\ x.src = s /\ x.n = j /\ Fine(op, x)
InputOK ==
  /\ op \in OpNames
  /\ input \in [SourcesOf(op) -> Line]
  /\ \A s \in SourcesOf(op), k \in Kinds :
       \A j \in 1..Len(input[s][k]) : Placed(s, k, j, input[s][k][j])
  /\ \A s \in SourcesOf(op) : s # 1 \/ op \in {"from", "fromCodec"} => input[s]["errors"] = <<>>
LeftOK ==
  /\ left \in [SourcesOf(op) -> Line]
  /\ \A s \in SourcesOf(op), k \in Kinds : Rest(left[s][k], input[s][k])

OpenOK ==
  /\ open \in [LoopsOf(op) -> SUBSET (SourcesOf(op) \X Kinds)]
  /\ \A l \in LoopsOf(op) : open[l] \subseteq Reads(op, l)
  /\ \A l \in LoopsOf(op), s \in SourcesOf(op), k \in Kinds :
       <<s, k>> \in Reads(op, l) /\ <<s, k>> \notin open[l] => left[s][k] = <<>>
PcOK ==
  /\ pc \in [LoopsOf(op) -> {"select", "sending", "flushing", "done"}]
  /\ todo \in [LoopsOf(op) -> Seq(SendsOf(op))]
  /\ ctxDone \in BOOLEAN /\ closed \in BOOLEAN
  /\ \A l \in LoopsOf(op) :
       /\ pc[l] \in {"sending", "flushing"} <=> todo[l] # <<>>
       /\ pc[l] = "flushing" => open[l] = {}
       /\ pc[l] = "done" => open[l] = {} \/ ctxDone
       /\ closed => pc[l] = "done"
GotOK ==
  /\ got \in [ChannelsOf(op) -> Seq(Item \cup (Item \X {1, 2}) \cup Seq(Item))]
  /\ \A c \in ChannelsOf(op) : got[c] \in Seq(WhatOf(op, c))
Ctl == InputOK /\ LeftOK /\ OpenOK /\ PcOK /\ GotOK /\ mem \in MemOf(op)

LEMMA LineKinds == \A q \in Line : \A k \in Kinds : q[k] \in Seq(Item)
BY DEF Line, Kinds
LEMMA LineChanged ==
  ASSUME NEW q \in Line, NEW k \in Kinds, NEW x \in Seq(Item)
  PROVE  /\ [q EXCEPT ![k] = x] \in Line /\ [q EXCEPT ![k] = x][k] = x
         /\ \A j \in Kinds \ {k} : [q EXCEPT ![k] = x][j] = q[j]
BY DEF Line, Kinds

-----------------------------------------------------------------------------
Filled(s, k, q) == \A j \in 1..Len(q) : Placed(s, k, j, q[j])
LEMMA ContentsFilled ==
  ASSUME NEW s \in 1..4, NEW k \in Kinds, NEW n \in Nat, NEW C \in SUBSET {"a", "b", "c", "d"},
         op # "switchType3" => "d" \notin C, NEW q \in Contents(s, k, n, C)
  PROVE  q \in Seq(Item) /\ Filled(s, k, q) /\ Len(q) = n
<1>1. PICK f \in [1..n -> C] : q = [i \in 1..n |-> [kind |-> k, src |-> s, n |-> i, class |-> f[i]]]
  BY DEF Contents
<1>2. \A i \in 1..n : q[i] \in Item /\ q[i].kind = k /\ q[i].src = s /\ q[i].n = i
        /\ q[i].class = f[i]
  <2>1. ASSUME NEW i \in 1..n
        PROVE q[i] \in Item /\ q[i].kind = k /\ q[i].src = s /\ q[i].n = i /\ q[i].class = f[i]
    <3>1. q[i] = [kind |-> k, src |-> s, n |-> i, class |-> f[i]]
      BY <1>1
    <3>3. f[i] \in C
      OBVIOUS
    <3>4. C \subseteq {"a", "b", "c", "d"}
      OBVIOUS
    <3>5. f[i] \in {"a", "b", "c", "d"}
      BY <3>3, <3>4, Zenon
    <3>2. i \in Nat /\ k \in {"values", "errors"}
      BY DEF Kinds
    <3> QED BY <3>1, <3>2, <3>5 DEF Item
  <2> QED BY <2>1
<1>3. q \in [1..n -> Item]
  BY <1>1, <1>2
<1>4. q \in Seq(Item) /\ Len(q) = n
  BY <1>3, ListIsSeq
<1>5. \A i \in 1..n : Placed(s, k, i, q[i])
  BY <1>2 DEF Placed, Fine
<1> QED BY <1>4, <1>5 DEF Filled

LEMMA InputInit == Init => InputOK
<1> SUFFICES ASSUME Init PROVE InputOK
  OBVIOUS
<1>1. op \in OpNames
  BY OpsAssumption DEF Init
<1>2. /\ input \in [SourcesOf(op) -> [values : UNION {ValuesIn(op, s) : s \in SourcesOf(op)},
                                     errors : UNION {ErrorsIn(op, s) : s \in SourcesOf(op)}]]
      /\ \A s \in SourcesOf(op) : input[s].values \in ValuesIn(op, s) /\ input[s].errors \in ErrorsIn(op, s)
  BY DEF Init, InputsOf
<1>3. \A s \in SourcesOf(op) : HowMany(op, s) \in Nat
  BY OpsAssumption DEF HowMany
<1>4. \A s \in SourcesOf(op) : \A q \in ValuesIn(op, s) : q \in Seq(Item) /\ Filled(s, "values", q)
  <2>1. ASSUME NEW s \in SourcesOf(op), NEW q \in ValuesIn(op, s)
        PROVE q \in Seq(Item) /\ Filled(s, "values", q)
    <3>1. PICK C \in SUBSET {"a", "b", "c", "d"} :
            (op # "switchType3" => "d" \notin C) /\ q \in Contents(s, "values", HowMany(op, s), C)
      <4>1. CASE op = "switchType3"
        BY <2>1, <4>1 DEF ValuesIn, Indifferent
      <4>2. CASE op # "switchType3"
        BY <2>1, <4>2 DEF ValuesIn, Indifferent
      <4> QED BY <4>1, <4>2
    <3>2. s \in 1..4 /\ "values" \in Kinds
      BY SourcesIn DEF Kinds
    <3> QED BY <1>3, <3>1, <3>2, ContentsFilled
  <2> QED BY <2>1
<1>5. \A s \in SourcesOf(op) : \A q \in ErrorsIn(op, s) :
        q \in Seq(Item) /\ Filled(s, "errors", q) /\ (s # 1 \/ op \in {"from", "fromCodec"} => q = <<>>)
  <2>1. ASSUME NEW s \in SourcesOf(op), NEW q \in ErrorsIn(op, s)
        PROVE q \in Seq(Item) /\ Filled(s, "errors", q)
                 /\ (s # 1 \/ op \in {"from", "fromCodec"} => q = <<>>)
    <3>1. CASE s # 1 \/ op \in {"from", "fromCodec"}
      <4>1. q = <<>>
        BY <2>1, <3>1 DEF ErrorsIn
      <4> QED BY <4>1, SeqNone DEF Filled
    <3>2. CASE ~(s # 1 \/ op \in {"from", "fromCodec"})
      <4>1. PICK C \in SUBSET {"a", "b", "c"} : q \in Contents(s, "errors", ErrorItems, C)
        BY <2>1, <3>2 DEF ErrorsIn
      <4>2. s \in 1..4 /\ "errors" \in Kinds /\ ErrorItems \in Nat
        BY SourcesIn, OpsAssumption DEF Kinds
      <4> QED BY <3>2, <4>1, <4>2, ContentsFilled
    <3> QED BY <3>1, <3>2
  <2> QED BY <2>1
<1>6. \A s \in SourcesOf(op) : input[s] \in Line
  <2>1. ASSUME NEW s \in SourcesOf(op) PROVE input[s] \in Line
    <3>1. input[s] = [values |-> input[s].values, errors |-> input[s].errors]
      BY <1>2
    <3>2. input[s].values \in Seq(Item) /\ input[s].errors \in Seq(Item)
      BY <1>2, <1>4, <1>5
    <3> QED BY <3>1, <3>2 DEF Line
  <2> QED BY <2>1
<1>7. input \in [SourcesOf(op) -> Line]
  BY <1>2, <1>6
<1>8. \A s \in SourcesOf(op), k \in Kinds : Filled(s, k, input[s][k])
  BY <1>2, <1>4, <1>5 DEF Kinds
<1>9. \A s \in SourcesOf(op) : s # 1 \/ op \in {"from", "fromCodec"} => input[s]["errors"] = <<>>
  BY <1>2, <1>5
<1> QED BY <1>1, <1>7, <1>8, <1>9 DEF InputOK, Filled

LEMMA CtlInit == Init => Ctl
<1> SUFFICES ASSUME Init PROVE Ctl
  OBVIOUS
<1>1. InputOK
  BY InputInit
<1>2. LeftOK
  BY <1>1, LineKinds, RestSelf DEF InputOK, LeftOK, Init
<1>3. OpenOK
  <2>1. \A l \in LoopsOf(op) : Reads(op, l) \subseteq SourcesOf(op) \X Kinds
    BY DEF Reads, LoopsOf, SourcesOf, Kinds
  <2> QED BY <2>1 DEF OpenOK, Init
<1>4. PcOK
  <2>1. <<>> \in Seq(SendsOf(op))
    BY SeqNone
  <2> QED BY <2>1 DEF PcOK, Init
<1>5. GotOK
  BY SeqNone DEF GotOK, Init
<1>6. mem \in MemOf(op)
  BY SeqNone, StepAssumption DEF MemOf, Init
<1> QED BY <1>1, <1>2, <1>3, <1>4, <1>5, <1>6 DEF Ctl

-----------------------------------------------------------------------------
(* One step of the control.                                                  *)
Rigid == UNCHANGED inputs
Narrows == \A l \in LoopsOf(op) : open'[l] \subseteq open[l]

\* What the next item of a source makes its loop do.
CaseAt(s, k) ==
  IF k = "values" THEN OnValue(mem, s, Head(left[s][k])) ELSE OnError(mem, Head(left[s][k]))

LEMMA NextItem ==
  ASSUME Ctl, NEW s \in SourcesOf(op), NEW k \in Kinds, left[s][k] # <<>>
  PROVE  /\ Head(left[s][k]) \in Item
         /\ Placed(s, k, Len(input[s][k]) - Len(left[s][k]) + 1, Head(left[s][k]))
         /\ Fine(op, Head(left[s][k]))
         /\ left[s][k] \in Seq(Item) /\ input[s][k] \in Seq(Item) /\ Rest(left[s][k], input[s][k])
         /\ Head(left[s][k]) = input[s][k][Len(input[s][k]) - Len(left[s][k]) + 1]
         /\ Len(input[s][k]) - Len(left[s][k]) + 1 \in 1..Len(input[s][k])
<1>1. left[s][k] \in Seq(Item) /\ input[s][k] \in Seq(Item) /\ Rest(left[s][k], input[s][k])
  BY LineKinds DEF Ctl, InputOK, LeftOK
<1>2. /\ Head(left[s][k]) = input[s][k][Len(input[s][k]) - Len(left[s][k]) + 1]
      /\ Head(left[s][k]) \in Item /\ Len(input[s][k]) - Len(left[s][k]) + 1 \in 1..Len(input[s][k])
  BY <1>1, RestTail
<1>3. Placed(s, k, Len(input[s][k]) - Len(left[s][k]) + 1, Head(left[s][k]))
  BY <1>2 DEF Ctl, InputOK
<1> QED BY <1>1, <1>2, <1>3 DEF Placed

LEMMA CaseProper ==
  ASSUME Ctl, NEW s \in SourcesOf(op), NEW k \in Kinds, left[s][k] # <<>>
  PROVE  Proper(op, CaseAt(s, k))
<1>1. Fine(op, Head(left[s][k])) /\ op \in OpNames /\ mem \in MemOf(op)
  BY NextItem DEF Ctl, InputOK
<1> QED BY <1>1, ValueProper, ErrorProper DEF CaseAt

LEMMA EnterPc ==
  ASSUME PcOK, NEW l \in LoopsOf(op), pc[l] = "select", NEW r, Proper(op, r), Enter(l, r),
         op' = op, Narrows, UNCHANGED <<closed, ctxDone>>
  PROVE  PcOK' /\ mem' \in MemOf(op)
<1>1. r.sends \in Seq(SendsOf(op)) /\ mem' \in MemOf(op)
  BY DEF Enter, Proper
<1>2. /\ pc' \in [LoopsOf(op) -> {"select", "sending", "flushing", "done"}]
      /\ todo' \in [LoopsOf(op) -> Seq(SendsOf(op))]
  BY <1>1 DEF Enter, PcOK
<1>3. ASSUME NEW i \in LoopsOf(op)
      PROVE  /\ pc'[i] \in {"sending", "flushing"} <=> todo'[i] # <<>>
             /\ pc'[i] = "flushing" => open'[i] = {}
             /\ pc'[i] = "done" => open'[i] = {} \/ ctxDone
             /\ closed => pc'[i] = "done"
  <2>1. open'[i] \subseteq open[i]
    BY DEF Narrows
  <2>2. CASE i = l
    BY <2>2 DEF Enter, PcOK
  <2>3. CASE i # l
    <3>1. pc'[i] = pc[i] /\ todo'[i] = todo[i]
      BY <2>3 DEF Enter, PcOK
    <3> QED BY <2>1, <3>1 DEF PcOK
  <2> QED BY <2>2, <2>3
<1> QED BY <1>1, <1>2, <1>3 DEF PcOK

LEMMA TailOf ==
  ASSUME NEW S, NEW q \in Seq(S), q # <<>>
  PROVE  /\ Len(q) \in Nat \ {0} /\ Tail(q) \in Seq(S) /\ Len(Tail(q)) = Len(q) - 1
         /\ Head(q) \in S /\ (Tail(q) = <<>> <=> ~(Len(q) > 1))
<1>1. Len(q) \in Nat \ {0}
  BY EmptySeq
<1>2. Tail(q) \in Seq(S) /\ Len(Tail(q)) = Len(q) - 1 /\ Head(q) \in S
  BY <1>1
<1>3. Tail(q) = <<>> <=> Len(Tail(q)) = 0
  BY <1>2, EmptySeq
<1> QED BY <1>1, <1>2, <1>3

\* The loop goes on to the next send of its case.
LEMMA AdvancePc ==
  ASSUME PcOK, NEW l \in LoopsOf(op), Sending(l), Advance(l), op' = op,
         UNCHANGED <<open, closed, ctxDone>>
  PROVE  PcOK' /\ todo[l] # <<>> /\ Head(todo[l]) \in SendsOf(op) /\ todo'[l] = Tail(todo[l])
         /\ \A i \in LoopsOf(op) \ {l} : todo'[i] = todo[i] /\ pc'[i] = pc[i]
<1>1. todo[l] \in Seq(SendsOf(op)) /\ todo[l] # <<>>
  BY DEF PcOK, Sending
<1>2. /\ Len(todo[l]) \in Nat \ {0} /\ Tail(todo[l]) \in Seq(SendsOf(op))
      /\ Len(Tail(todo[l])) = Len(todo[l]) - 1
      /\ Head(todo[l]) \in SendsOf(op) /\ (Tail(todo[l]) = <<>> <=> ~(Len(todo[l]) > 1))
  BY <1>1, TailOf
<1>4. todo'[l] = Tail(todo[l]) /\ \A i \in LoopsOf(op) \ {l} : todo'[i] = todo[i] /\ pc'[i] = pc[i]
  BY DEF Advance, PcOK
<1>5. pc'[l] = IF Len(todo[l]) > 1 THEN pc[l] ELSE IF pc[l] = "flushing" THEN "done" ELSE "select"
  BY DEF Advance, PcOK
<1>6. /\ pc' \in [LoopsOf(op) -> {"select", "sending", "flushing", "done"}]
      /\ todo' \in [LoopsOf(op) -> Seq(SendsOf(op))]
  BY <1>2 DEF Advance, PcOK
<1>7. ASSUME NEW i \in LoopsOf(op)
      PROVE  /\ pc'[i] \in {"sending", "flushing"} <=> todo'[i] # <<>>
             /\ pc'[i] = "flushing" => open'[i] = {}
             /\ pc'[i] = "done" => open'[i] = {} \/ ctxDone
             /\ closed => pc'[i] = "done"
  <2>1. CASE i = l
    BY <1>2, <1>4, <1>5, <2>1 DEF PcOK, Sending
  <2>2. CASE i # l
    BY <1>4, <2>2 DEF PcOK
  <2> QED BY <2>1, <2>2
<1> QED BY <1>1, <1>2, <1>4, <1>6, <1>7 DEF PcOK

LEMMA InputStep == ASSUME InputOK, Rigid PROVE InputOK'
BY DEF InputOK, Rigid, inputs, Placed, Fine

LEMMA ReceiveCtl ==
  ASSUME Ctl, NEW l \in LoopsOf(op), NEW s \in SourcesOf(op), NEW k \in Kinds, Receive(l, s, k)
  PROVE  Ctl'
<1>1. /\ pc[l] = "select" /\ <<s, k>> \in open[l] /\ left[s][k] # <<>> /\ Enter(l, CaseAt(s, k))
      /\ left' = [left EXCEPT ![s][k] = Tail(@)]
      /\ UNCHANGED <<inputs, open, got, closed, ctxDone, ticks>>
  BY DEF Receive, CaseAt
<1>2. Proper(op, CaseAt(s, k)) /\ op' = op /\ Rigid
  BY <1>1, CaseProper DEF inputs, Rigid
<1>3. PcOK' /\ mem' \in MemOf(op)
  BY <1>1, <1>2, EnterPc DEF Ctl, Narrows
<1>4. InputOK'
  BY <1>2, InputStep DEF Ctl
<1>5. /\ Tail(left[s][k]) \in Seq(Item) /\ Rest(Tail(left[s][k]), input[s][k])
  BY <1>1, NextItem, RestTail
<1>6. left[s] \in Line /\ left \in [SourcesOf(op) -> Line]
  BY DEF Ctl, LeftOK
<1>7. /\ left' \in [SourcesOf(op) -> Line] /\ left'[s][k] = Tail(left[s][k])
      /\ \A j \in Kinds \ {k} : left'[s][j] = left[s][j]
      /\ \A i \in SourcesOf(op) \ {s} : left'[i] = left[i]
  <2> DEFINE u == [left[s] EXCEPT ![k] = Tail(left[s][k])]
  <2>1. left' = [left EXCEPT ![s] = u]
    BY <1>1
  <2>0. \A q \in Line, x \in Seq(Item) :
          /\ [q EXCEPT ![k] = x] \in Line /\ [q EXCEPT ![k] = x][k] = x
          /\ \A j \in Kinds \ {k} : [q EXCEPT ![k] = x][j] = q[j]
    BY LineChanged
  <2>2. u \in Line /\ u[k] = Tail(left[s][k]) /\ \A j \in Kinds \ {k} : u[j] = left[s][j]
    BY <1>5, <1>6, <2>0
  <2> HIDE DEF u
  <2>3. left' \in [SourcesOf(op) -> Line] /\ left'[s] = u
          /\ \A i \in SourcesOf(op) \ {s} : left'[i] = left[i]
    BY <1>6, <2>1, <2>2
  <2> QED BY <2>2, <2>3
<1>8. LeftOK'
  <2>1. ASSUME NEW i \in SourcesOf(op), NEW j \in Kinds PROVE Rest(left'[i][j], input[i][j])
    <3>1. CASE i = s /\ j = k BY <1>5, <1>7, <3>1
    <3>2. CASE ~(i = s /\ j = k)
      BY <1>7, <3>2 DEF Ctl, LeftOK
    <3> QED BY <3>1, <3>2
  <2> QED BY <1>1, <1>2, <1>7, <2>1 DEF LeftOK, inputs
<1>9. OpenOK'
  <2>1. ASSUME NEW i \in LoopsOf(op), NEW t \in SourcesOf(op), NEW j \in Kinds,
               <<t, j>> \in Reads(op, i), <<t, j>> \notin open[i]
        PROVE  left'[t][j] = <<>>
    <3>1. left[t][j] = <<>>
      BY <2>1 DEF Ctl, OpenOK
    <3>2. ~(t = s /\ j = k)
      BY <1>1, <3>1
    <3> QED BY <1>7, <3>1, <3>2
  <2> QED BY <1>1, <1>2, <2>1 DEF OpenOK, Ctl
<1>10. GotOK'
  BY <1>1, <1>2 DEF GotOK, Ctl
<1> QED BY <1>2, <1>3, <1>4, <1>8, <1>9, <1>10 DEF Ctl

LEMMA ClosedCtl ==
  ASSUME Ctl, NEW l \in LoopsOf(op), NEW s \in SourcesOf(op), NEW k \in Kinds, SourceClosed(l, s, k)
  PROVE  Ctl'
<1> DEFINE r == IF op = "buffer" /\ k = "values" THEN Flush(mem) ELSE Keep(mem)
<1>1. /\ pc[l] = "select" /\ <<s, k>> \in open[l] /\ left[s][k] = <<>> /\ Enter(l, r)
      /\ open' = [open EXCEPT ![l] = @ \ {<<s, k>>}]
      /\ UNCHANGED <<inputs, left, got, closed, ctxDone, ticks>>
  BY DEF SourceClosed
<1>2. Proper(op, r) /\ op' = op /\ Rigid
  BY <1>1, TimerProper, KeepProper DEF inputs, Rigid, Ctl
<1> HIDE DEF r
<1>3. /\ open' \in [LoopsOf(op) -> SUBSET (SourcesOf(op) \X Kinds)]
      /\ open'[l] = open[l] \ {<<s, k>>} /\ \A i \in LoopsOf(op) \ {l} : open'[i] = open[i]
  BY <1>1 DEF Ctl, OpenOK
<1>4. Narrows
  BY <1>3 DEF Narrows
<1>5. PcOK' /\ mem' \in MemOf(op)
  BY <1>1, <1>2, <1>4, EnterPc DEF Ctl
<1>6. InputOK' /\ LeftOK' /\ GotOK'
  BY <1>1, <1>2, InputStep DEF Ctl, LeftOK, GotOK, inputs
<1>7. OpenOK'
  <2>1. ASSUME NEW i \in LoopsOf(op), NEW t \in SourcesOf(op), NEW j \in Kinds,
               <<t, j>> \in Reads(op, i), <<t, j>> \notin open'[i]
        PROVE  left[t][j] = <<>>
    <3>1. CASE i = l /\ <<t, j>> = <<s, k>>
      BY <1>1, <3>1
    <3>2. CASE ~(i = l /\ <<t, j>> = <<s, k>>)
      BY <1>3, <2>1, <3>2 DEF Ctl, OpenOK
    <3> QED BY <3>1, <3>2
  <2> QED BY <1>1, <1>2, <1>3, <1>4, <2>1 DEF OpenOK, Ctl, Narrows
<1> QED BY <1>2, <1>5, <1>6, <1>7 DEF Ctl

LEMMA StillOpen ==
  ASSUME Ctl, Rigid, UNCHANGED <<left, open>>
  PROVE  InputOK' /\ LeftOK' /\ OpenOK' /\ Narrows
<1>1. op' = op /\ input' = input
  BY DEF Rigid, inputs
<1>2. InputOK'
  BY InputStep DEF Ctl
<1>3. LeftOK' /\ OpenOK' /\ Narrows
  BY <1>1 DEF Ctl, LeftOK, OpenOK, Narrows
<1> QED BY <1>2, <1>3

LEMMA TimerCtl == ASSUME Ctl, NEW l \in LoopsOf(op), TimerFires(l) PROVE Ctl'
<1>1. /\ pc[l] = "select" /\ UNCHANGED <<inputs, left, open, got, closed, ctxDone>>
      /\ \/ op = "buffer" /\ Enter(l, Flush(mem))
         \/ op = "debounce" /\ Enter(l, Silence(mem))
         \/ op = "window" /\ Enter(l, Tick(mem))
  BY DEF TimerFires
<1>2. PICK r : Proper(op, r) /\ Enter(l, r)
  BY <1>1, TimerProper DEF Ctl
<1>3. Rigid /\ op' = op
  BY <1>1 DEF Rigid, inputs
<1>4. InputOK' /\ LeftOK' /\ OpenOK' /\ Narrows
  BY <1>1, <1>3, StillOpen
<1>5. PcOK' /\ mem' \in MemOf(op)
  BY <1>1, <1>2, <1>3, <1>4, EnterPc DEF Ctl
<1> QED BY <1>1, <1>3, <1>4, <1>5 DEF Ctl, GotOK

LEMMA EndsCtl == ASSUME Ctl, NEW l \in LoopsOf(op), LoopEnds(l) PROVE Ctl'
<1> DEFINE r == IF op = "window" THEN Remainder(mem) ELSE Keep(mem)
<1>1. /\ pc[l] = "select" /\ open[l] = {}
      /\ UNCHANGED <<inputs, left, open, got, closed, ctxDone, ticks>>
      /\ mem' = r.mem /\ todo' = [todo EXCEPT ![l] = r.sends]
      /\ pc' = [pc EXCEPT ![l] = IF r.sends = <<>> THEN "done" ELSE "flushing"]
  BY DEF LoopEnds
<1>2. Proper(op, r)
  BY TimerProper, KeepProper DEF Ctl
<1>3. Rigid /\ op' = op
  BY <1>1 DEF Rigid, inputs
<1>4. InputOK' /\ LeftOK' /\ OpenOK' /\ Narrows
  BY <1>1, <1>3, StillOpen
<1> HIDE DEF r
<1>5. PcOK'
  <2>1. r.sends \in Seq(SendsOf(op))
    BY <1>2 DEF Proper
  <2>2. /\ pc' \in [LoopsOf(op) -> {"select", "sending", "flushing", "done"}]
        /\ todo' \in [LoopsOf(op) -> Seq(SendsOf(op))]
    BY <1>1, <2>1 DEF PcOK, Ctl
  <2>3. ASSUME NEW i \in LoopsOf(op)
        PROVE  /\ pc'[i] \in {"sending", "flushing"} <=> todo'[i] # <<>>
               /\ pc'[i] = "flushing" => open[i] = {}
               /\ pc'[i] = "done" => open[i] = {} \/ ctxDone
               /\ closed => pc'[i] = "done"
    <3>1. CASE i = l
      BY <1>1, <3>1 DEF PcOK, Ctl
    <3>2. CASE i # l
      <4>1. pc'[i] = pc[i] /\ todo'[i] = todo[i]
        BY <1>1, <3>2 DEF Ctl, PcOK
      <4> QED BY <4>1 DEF Ctl, PcOK
    <3> QED BY <3>1, <3>2
  <2> QED BY <1>1, <1>3, <2>2, <2>3 DEF PcOK, Ctl
<1>6. mem' \in MemOf(op)
  BY <1>1, <1>2 DEF Proper
<1> QED BY <1>1, <1>3, <1>4, <1>5, <1>6 DEF Ctl, GotOK

LEMMA SendIn ==
  ASSUME NEW x \in SendsOf(op)
  PROVE  /\ x.to \in ChannelsOf(op) /\ x.what \in WhatOf(op, x.to)
         /\ x.what \in Item \cup (Item \X {1, 2}) \cup Seq(Item)
         /\ (~x.wait => x.ondone = "continue" /\ x.to[1] = "errors")
         /\ (x.ondone = "continue" => Soft(op, x.to))
BY DEF SendsOf

LEMMA SendCtl == ASSUME Ctl, NEW l \in LoopsOf(op), Send(l) PROVE Ctl'
<1> DEFINE c == Head(todo[l]).to
           x == Head(todo[l]).what
<1>1. /\ Sending(l) /\ Advance(l) /\ got' = [got EXCEPT ![c] = Append(got[c], x)]
      /\ UNCHANGED <<inputs, left, open, mem, closed, ctxDone, ticks>>
  BY DEF Send
<1>2. Rigid /\ op' = op
  BY <1>1 DEF Rigid, inputs
<1>3. InputOK' /\ LeftOK' /\ OpenOK'
  BY <1>1, <1>2, StillOpen
<1>4. PcOK' /\ Head(todo[l]) \in SendsOf(op)
  BY <1>1, <1>2, AdvancePc DEF Ctl
<1>5. c \in ChannelsOf(op) /\ x \in WhatOf(op, c) /\ x \in Item \cup (Item \X {1, 2}) \cup Seq(Item)
  BY <1>4, SendIn
<1> HIDE DEF c, x
<1>6. GotOK'
  <2>1. /\ Append(got[c], x) \in Seq(Item \cup (Item \X {1, 2}) \cup Seq(Item))
        /\ Append(got[c], x) \in Seq(WhatOf(op, c))
    BY <1>5 DEF Ctl, GotOK
  <2>2. /\ got' \in [ChannelsOf(op) -> Seq(Item \cup (Item \X {1, 2}) \cup Seq(Item))]
        /\ \A d \in ChannelsOf(op) : got'[d] = IF d = c THEN Append(got[c], x) ELSE got[d]
    BY <1>1, <1>5, <2>1 DEF Ctl, GotOK
  <2>3. \A d \in ChannelsOf(op) : got'[d] \in Seq(WhatOf(op, d))
    BY <2>1, <2>2 DEF Ctl, GotOK
  <2> QED BY <1>2, <2>2, <2>3 DEF GotOK
<1> QED BY <1>1, <1>2, <1>3, <1>4, <1>6 DEF Ctl

LEMMA SkipCtl ==
  ASSUME Ctl, NEW l \in LoopsOf(op), Sending(l), Advance(l),
         UNCHANGED <<inputs, left, open, mem, got, closed, ctxDone, ticks>>
  PROVE  Ctl'
<1>2. Rigid /\ op' = op
  BY DEF Rigid, inputs
<1>3. InputOK' /\ LeftOK' /\ OpenOK'
  BY <1>2, StillOpen
<1>4. PcOK'
  BY <1>2, AdvancePc DEF Ctl
<1> QED BY <1>2, <1>3, <1>4 DEF Ctl, GotOK

\* The context ends the loop, in the select or in the middle of a case.
Quits(l) ==
  /\ ctxDone
  /\ todo' = [todo EXCEPT ![l] = <<>>]
  /\ pc' = [pc EXCEPT ![l] = "done"]
  /\ UNCHANGED <<inputs, left, open, mem, got, closed, ctxDone, ticks>>
LEMMA QuitsCtl == ASSUME Ctl, NEW l \in LoopsOf(op), Quits(l) PROVE Ctl'
<1>2. Rigid /\ op' = op
  BY DEF Rigid, inputs, Quits
<1>3. InputOK' /\ LeftOK' /\ OpenOK'
  BY <1>2, StillOpen DEF Quits
<1>4. PcOK'
  <2>1. <<>> \in Seq(SendsOf(op))
    BY SeqNone
  <2> QED BY <1>2, <2>1 DEF PcOK, Quits, Ctl
<1> QED BY <1>2, <1>3, <1>4 DEF Ctl, GotOK, Quits

LEMMA CancelledQuits == ASSUME Ctl, NEW l \in LoopsOf(op), Cancelled(l) PROVE Quits(l)
<1>1. todo[l] = <<>>
  BY DEF Cancelled, Ctl, PcOK
<1>2. [todo EXCEPT ![l] = <<>>] = todo
  BY <1>1 DEF Ctl, PcOK
<1> QED BY <1>2 DEF Cancelled, Quits

LEMMA GiveUpIs ==
  ASSUME NEW l, GiveUp(l)
  PROVE  /\ ctxDone /\ Sending(l)
         /\ \/ /\ Head(todo[l]).ondone = "continue" /\ Advance(l)
               /\ UNCHANGED <<inputs, left, open, mem, got, closed, ctxDone, ticks>>
            \/ Quits(l)
BY DEF GiveUp, Quits

LEMMA CtlStep == Ctl /\ [Next]_vars => Ctl'
<1> SUFFICES ASSUME Ctl, [Next]_vars PROVE Ctl'
  OBVIOUS
<1>1. ASSUME NEW l \in LoopsOf(op), Loop(l) PROVE Ctl'
  <2>1. ASSUME NEW s \in SourcesOf(op), NEW k \in Kinds, Receive(l, s, k) PROVE Ctl'
    BY <2>1, ReceiveCtl
  <2>2. ASSUME NEW s \in SourcesOf(op), NEW k \in Kinds, SourceClosed(l, s, k) PROVE Ctl'
    BY <2>2, ClosedCtl
  <2>3. CASE TimerFires(l) BY <2>3, TimerCtl
  <2>4. CASE LoopEnds(l) BY <2>4, EndsCtl
  <2>5. CASE Cancelled(l) BY <2>5, CancelledQuits, QuitsCtl
  <2>6. CASE Send(l) BY <2>6, SendCtl
  <2>7. CASE Drop(l) BY <2>7, SkipCtl DEF Drop
  <2>8. CASE GiveUp(l) BY <2>8, GiveUpIs, SkipCtl, QuitsCtl
  <2> QED BY <1>1, <2>1, <2>2, <2>3, <2>4, <2>5, <2>6, <2>7, <2>8 DEF Loop
<1>2. ASSUME UNCHANGED <<inputs, left, open, todo, pc, got>>, ctxDone' \in BOOLEAN,
             closed' \in BOOLEAN,
             ctxDone => ctxDone', closed' => \A l \in LoopsOf(op) : pc[l] = "done", mem' \in MemOf(op)
      PROVE  Ctl'
  <2>1. Rigid /\ op' = op
    BY <1>2 DEF Rigid, inputs
  <2>2. InputOK' /\ LeftOK' /\ OpenOK'
    BY <1>2, <2>1, StillOpen
  <2>3. PcOK'
    BY <1>2, <2>1 DEF Ctl, PcOK
  <2> QED BY <1>2, <2>1, <2>2, <2>3 DEF Ctl, GotOK
<1>0. mem \in MemOf(op) /\ ctxDone \in BOOLEAN /\ closed \in BOOLEAN
      /\ (closed => \A l \in LoopsOf(op) : pc[l] = "done")
  BY DEF Ctl, PcOK
<1>3. CASE CloseOutputs BY <1>0, <1>2, <1>3 DEF CloseOutputs
<1>4. CASE Cancel BY <1>0, <1>2, <1>4 DEF Cancel
<1>5. CASE IntervalPasses
  <2>1. mem' \in MemOf(op)
    BY <1>0, <1>5 DEF IntervalPasses, MemOf
  <2> QED BY <1>0, <1>2, <1>5, <2>1 DEF IntervalPasses
<1>6. CASE UNCHANGED vars BY <1>0, <1>2, <1>6 DEF vars
<1> QED BY <1>1, <1>3, <1>4, <1>5, <1>6 DEF Next

-----------------------------------------------------------------------------
(* A lane: what of the items of one source channel is due at one output     *)
(* channel.  h says what an item that came out stands for, g what an item   *)
(* that goes in makes due.                                                   *)
OfTo(o, c, h) == [x \in SendsOf(o) |-> IF x.to = c THEN h[x.what] ELSE <<>>]
KeptIn(o, m, c, s) ==
  IF c[1] = "errors" THEN <<>>
  ELSE IF o \in {"buffer", "window"} THEN m.batch
  ELSE IF o = "zip" THEN m.held[s]
  ELSE <<>>
LoopOf(o, s) == IF o = "merge" THEN s ELSE 1

Came(c, h) == Gather(got[c], h)
Coming(l, c, h) == Gather(todo[l], OfTo(op, c, h))
Kept(c, s) == KeptIn(op, mem, c, s)
Due(s, k, g) == Gather(left[s][k], g)
Whole(s, k, g) == Gather(input[s][k], g)

Holding == {"buffer", "window", "zip"}
Lane(c, s, k, h, g, Y) ==
  /\ c \in ChannelsOf(op) /\ s \in SourcesOf(op) /\ k \in Kinds
  /\ h \in [WhatOf(op, c) -> Seq(Y)] /\ g \in [Item -> Seq(Y)]
  /\ c[1] = "errors" => ~Soft(op, c)
  /\ op \in Holding => Y = Item

\* What a case sends and keeps is what was kept and what its item makes due.
Evens(r, c, s, h, x) == Gather(r.sends, OfTo(op, c, h)) \o KeptIn(op, r.mem, c, s) = Kept(c, s) \o x
Feeds(c, s, k, h, g) ==
  /\ \A t \in SourcesOf(op), j \in Kinds :
       left[t][j] # <<>> =>
         Evens(CaseAt(t, j), c, s, h, IF t = s /\ j = k THEN g[Head(left[t][j])] ELSE <<>>)
  /\ op = "buffer" => Evens(Flush(mem), c, s, h, <<>>)
  /\ op = "debounce" => Evens(Silence(mem), c, s, h, <<>>)
  /\ op = "window" => Evens(Tick(mem), c, s, h, <<>>) /\ Evens(Remainder(mem), c, s, h, <<>>)

\* Nothing is lost, and nothing comes from another loop.
Even(c, s, k, h, g) ==
  Came(c, h) \o (Coming(LoopOf(op, s), c, h) \o (Kept(c, s) \o Due(s, k, g))) = Whole(s, k, g)
Quiet(c, s, h) == \A i \in LoopsOf(op) \ {LoopOf(op, s)} : Coming(i, c, h) = <<>>
Begins(c, s, k, h, g, Y) ==
  \E r \in Seq(Y) : (Came(c, h) \o Coming(LoopOf(op, s), c, h)) \o r = Whole(s, k, g)
Cut(c, s, k, h, g, Y) ==
  ctxDone /\ (Soft(op, c) \/ (pc[LoopOf(op, s)] = "done" /\ Begins(c, s, k, h, g, Y)))
LaneInv(c, s, k, h, g, Y) == Quiet(c, s, h) /\ (Even(c, s, k, h, g) \/ Cut(c, s, k, h, g, Y))

LEMMA LoopsAre == \A s \in SourcesOf(op) : LoopOf(op, s) \in LoopsOf(op)
BY DEF LoopOf, LoopsOf, SourcesOf

LEMMA OfToType ==
  ASSUME NEW c, NEW s, NEW k, NEW h, NEW g, NEW Y, Lane(c, s, k, h, g, Y)
  PROVE  OfTo(op, c, h) \in [SendsOf(op) -> Seq(Y)]
<1>1. ASSUME NEW x \in SendsOf(op) PROVE (IF x.to = c THEN h[x.what] ELSE <<>>) \in Seq(Y)
  <2>1. x.what \in WhatOf(op, x.to)
    BY SendIn
  <2> QED BY <2>1, SeqNone DEF Lane
<1> QED BY <1>1 DEF OfTo

LEMMA KeptType ==
  ASSUME NEW m \in MemOf(op), NEW c, NEW s \in SourcesOf(op), NEW Y, op \in Holding => Y = Item
  PROVE  KeptIn(op, m, c, s) \in Seq(Y)
<1>1. m.batch \in Seq(Item) /\ (op = "zip" => m.held[s] \in Seq(Item))
  BY DEF MemOf
<1> QED BY <1>1, SeqNone DEF KeptIn, Holding

LEMMA LaneTypes ==
  ASSUME Ctl, NEW c, NEW s, NEW k, NEW h, NEW g, NEW Y, Lane(c, s, k, h, g, Y)
  PROVE  /\ Came(c, h) \in Seq(Y) /\ Due(s, k, g) \in Seq(Y) /\ Whole(s, k, g) \in Seq(Y)
         /\ Kept(c, s) \in Seq(Y)
         /\ \A i \in LoopsOf(op) : Coming(i, c, h) \in Seq(Y)
<1>1. got[c] \in Seq(WhatOf(op, c)) /\ h \in [WhatOf(op, c) -> Seq(Y)] /\ g \in [Item -> Seq(Y)]
  BY DEF Ctl, GotOK, Lane
<1>2. left[s][k] \in Seq(Item) /\ input[s][k] \in Seq(Item)
  BY LineKinds DEF Ctl, LeftOK, InputOK, Lane
<1>3. \A i \in LoopsOf(op) : todo[i] \in Seq(SendsOf(op))
  BY DEF Ctl, PcOK
<1>4. OfTo(op, c, h) \in [SendsOf(op) -> Seq(Y)]
  BY OfToType
<1>5. Came(c, h) \in Seq(Y)
  BY <1>1, GatherType DEF Came
<1>6. Due(s, k, g) \in Seq(Y) /\ Whole(s, k, g) \in Seq(Y)
  BY <1>1, <1>2, GatherType DEF Due, Whole
<1>7. \A i \in LoopsOf(op) : Coming(i, c, h) \in Seq(Y)
  BY <1>3, <1>4, GatherType DEF Coming
<1>8. Kept(c, s) \in Seq(Y)
  BY KeptType DEF Ctl, Lane, Kept
<1> QED BY <1>5, <1>6, <1>7, <1>8

-----------------------------------------------------------------------------
(* Sequences put together.                                                   *)
LEMMA CatSend ==
  ASSUME NEW Y, NEW a \in Seq(Y), NEW x \in Seq(Y), NEW t \in Seq(Y), NEW r \in Seq(Y)
  PROVE  Same((a \o x) \o (t \o r), a \o ((x \o t) \o r))
<1>1. t \o r \in Seq(Y)
  BY SeqCat
<1>2. Same((a \o x) \o (t \o r), a \o (x \o (t \o r)))
  BY <1>1, CatCat
<1>3. Same((x \o t) \o r, x \o (t \o r))
  BY CatCat
<1> QED BY <1>2, <1>3, Zenon DEF Same
LEMMA CatNone ==
  ASSUME NEW Y, NEW a \in Seq(Y), NEW b \in Seq(Y)
  PROVE  /\ a \o b = <<>> => a = <<>> /\ b = <<>>
         /\ a \o <<>> = a /\ <<>> \o a = a
<1>1. Len(a \o b) = Len(a) + Len(b) /\ Len(a) \in Nat /\ Len(b) \in Nat
  OBVIOUS
<1>2. a \o b = <<>> => Len(a) = 0 /\ Len(b) = 0
  BY <1>1
<1> QED BY <1>2, EmptySeq, ConcatEmptySeq

LEMMA LaneTypesNext ==
  ASSUME Ctl', Rigid, NEW c, NEW s, NEW k, NEW h, NEW g, NEW Y, Lane(c, s, k, h, g, Y)
  PROVE  /\ Came(c, h)' \in Seq(Y) /\ Due(s, k, g)' \in Seq(Y) /\ Kept(c, s)' \in Seq(Y)
         /\ \A i \in LoopsOf(op) : Coming(i, c, h)' \in Seq(Y)
<1>0. op' = op /\ input' = input
  BY DEF Rigid, inputs
<1>1. got'[c] \in Seq(WhatOf(op, c)) /\ h \in [WhatOf(op, c) -> Seq(Y)] /\ g \in [Item -> Seq(Y)]
  BY <1>0 DEF Ctl, GotOK, Lane
<1>2. left'[s][k] \in Seq(Item)
  BY <1>0, LineKinds DEF Ctl, LeftOK, Lane
<1>3. \A i \in LoopsOf(op) : todo'[i] \in Seq(SendsOf(op))
  BY <1>0 DEF Ctl, PcOK
<1>4. OfTo(op, c, h) \in [SendsOf(op) -> Seq(Y)]
  BY OfToType
<1>5. Gather(got'[c], h) \in Seq(Y) /\ Gather(left'[s][k], g) \in Seq(Y)
  BY <1>1, <1>2, GatherType
<1>6. \A i \in LoopsOf(op) : Gather(todo'[i], OfTo(op, c, h)) \in Seq(Y)
  BY <1>3, <1>4, GatherType
<1>7. Kept(c, s)' \in Seq(Y)
  BY <1>0, KeptType DEF Ctl, Lane, Kept
<1> QED BY <1>0, <1>5, <1>6, <1>7 DEF Came, Due, Coming

\* The loop takes up a case, or ends: it sends and keeps what is due.
LEMMA WorkLane ==
  ASSUME Ctl, Ctl', NEW c, NEW s, NEW k, NEW h, NEW g, NEW Y, Lane(c, s, k, h, g, Y),
         LaneInv(c, s, k, h, g, Y), Rigid,
         NEW l \in LoopsOf(op), NEW r, NEW x \in Seq(Y), pc[l] = "select",
         UNCHANGED <<got, ctxDone>>,
         todo' = [todo EXCEPT ![l] = r.sends], mem' = r.mem, \A i \in LoopsOf(op) \ {l} : pc'[i] = pc[i],
         Evens(r, c, s, h, x), Due(s, k, g) = x \o Due(s, k, g)', l # LoopOf(op, s) => x = <<>>
  PROVE  LaneInv(c, s, k, h, g, Y)'
<1>a. PICK L \in LoopsOf(op) : L = LoopOf(op, s)
  BY LoopsAre DEF Lane
<1> DEFINE come == Came(c, h)
           coming == Coming(L, c, h)
           kept == Kept(c, s)
           due == Due(s, k, g)
           kept1 == Kept(c, s)'
           due1 == Due(s, k, g)'
           sent == Gather(r.sends, OfTo(op, c, h))
<1>0. op' = op /\ input' = input
  BY DEF Rigid, inputs
<1>1. L \in LoopsOf(op) /\ s \in SourcesOf(op)
  BY <1>a DEF Lane
<1>2. todo \in [LoopsOf(op) -> Seq(SendsOf(op))] /\ todo[l] = <<>>
  BY DEF Ctl, PcOK
<1>3. todo'[l] = r.sends /\ \A i \in LoopsOf(op) \ {l} : todo'[i] = todo[i]
  BY <1>2
<1>4. /\ come \in Seq(Y) /\ due \in Seq(Y) /\ kept \in Seq(Y)
      /\ \A i \in LoopsOf(op) : Coming(i, c, h) \in Seq(Y)
  BY LaneTypes
<1>5. /\ due1 \in Seq(Y) /\ kept1 \in Seq(Y)
      /\ \A i \in LoopsOf(op) : Coming(i, c, h)' \in Seq(Y)
  BY LaneTypesNext
<1>6. /\ Came(c, h)' = come /\ Whole(s, k, g)' = Whole(s, k, g)
      /\ \A i \in LoopsOf(op) \ {l} : Coming(i, c, h)' = Coming(i, c, h)
      /\ Coming(l, c, h)' = sent /\ Coming(l, c, h) = <<>>
      /\ LoopOf(op, s)' = L
  BY <1>0, <1>a, <1>2, <1>3, GatherNone DEF Came, Whole, Coming
<1>7. sent \o kept1 = kept \o x /\ due = x \o due1
  BY <1>0 DEF Evens, Kept
<1>8. sent \in Seq(Y)
  BY <1>5, <1>6
<1> HIDE DEF come, coming, kept, due, kept1, due1, sent
<1>9. CASE l = L
  <2>1. Quiet(c, s, h)'
    BY <1>0, <1>6, <1>9, <1>a DEF Quiet, LaneInv
  <2>2. CASE Even(c, s, k, h, g)
    <3>1. come \o (<<>> \o (kept \o (x \o due1))) = Whole(s, k, g)
      BY <1>6, <1>7, <1>9, <2>2, <1>a DEF Even, come, kept, due
    <3>2. come \o (sent \o (kept1 \o due1)) = come \o (<<>> \o (kept \o (x \o due1)))
      <4>1. Same((sent \o kept1) \o due1, sent \o (kept1 \o due1))
              /\ Same((kept \o x) \o due1, kept \o (x \o due1))
        BY <1>4, <1>5, <1>8, CatCat
      <4>2. x \o due1 \in Seq(Y)
        BY <1>5, SeqCat
      <4>3. kept \o (x \o due1) \in Seq(Y)
        BY <1>4, <4>2, SeqCat
      <4>4. Same(<<>> \o (kept \o (x \o due1)), kept \o (x \o due1))
        BY <4>3, NoneCat
      <4> QED BY <1>7, <4>1, <4>4, Zenon DEF Same
    <3>3. Coming(LoopOf(op, s), c, h)' = sent
      BY <1>6, <1>9, <1>a
    <3>4. Even(c, s, k, h, g)'
      BY <1>6, <3>1, <3>2, <3>3 DEF Even, kept1, due1
    <3> QED BY <2>1, <3>4 DEF LaneInv
  <2>3. CASE Cut(c, s, k, h, g, Y)
    <3>1. Cut(c, s, k, h, g, Y)'
      BY <1>0, <1>9, <2>3, <1>a DEF Cut
    <3> QED BY <2>1, <3>1 DEF LaneInv
  <2> QED BY <2>2, <2>3 DEF LaneInv
<1>10. CASE l # L
  <2>1. op = "merge"
    BY <1>1, <1>10, <1>a DEF LoopOf, LoopsOf
  <2>2. kept = <<>> /\ kept1 = <<>> /\ x = <<>>
    BY <1>0, <1>10, <2>1, <1>a DEF kept, kept1, Kept, KeptIn
  <2>3. sent = <<>> /\ due1 = due
    <3>1. sent \o <<>> = <<>> \o <<>> /\ due = <<>> \o due1
      BY <1>7, <2>2
    <3>2. <<>> \in Seq(Y)
      BY SeqNone
    <3>3. sent \o <<>> = sent /\ <<>> \o <<>> = <<>> /\ <<>> \o due1 = due1
      BY <1>5, <1>8, <3>2, CatNone
    <3>4. sent = <<>>
      BY <3>1, <3>3, Zenon
    <3>5. due1 = due
      BY <3>1, <3>3, Zenon
    <3> QED BY <3>4, <3>5, Zenon
  <2>4. Coming(L, c, h)' = Coming(L, c, h) /\ pc'[L] = pc[L]
    BY <1>1, <1>6, <1>10
  <2>5. Quiet(c, s, h)'
    BY <1>0, <1>6, <2>3, <2>4, <1>a DEF Quiet, LaneInv
  <2>6. Coming(LoopOf(op, s), c, h)' = Coming(LoopOf(op, s), c, h) /\ Kept(c, s)' = Kept(c, s)
        /\ Due(s, k, g)' = Due(s, k, g)
    BY <1>6, <2>2, <2>3, <2>4, <1>a DEF kept, kept1, due, due1
  <2>7. CASE Even(c, s, k, h, g)
    <3>1. Even(c, s, k, h, g)'
      BY <1>6, <2>6, <2>7 DEF Even, come
    <3> QED BY <2>5, <3>1 DEF LaneInv
  <2>8. CASE Cut(c, s, k, h, g, Y)
    <3>1. Begins(c, s, k, h, g, Y) => Begins(c, s, k, h, g, Y)'
      BY <1>6, <2>6 DEF Begins, come
    <3>2. Cut(c, s, k, h, g, Y)'
      BY <1>0, <2>4, <2>8, <3>1, <1>a DEF Cut
    <3> QED BY <2>5, <3>2 DEF LaneInv
  <2> QED BY <2>7, <2>8 DEF LaneInv
<1> QED BY <1>9, <1>10

\* The head of the sends is the first of what is coming.
LEMMA ComingFirst ==
  ASSUME Ctl, NEW c, NEW s, NEW k, NEW h, NEW g, NEW Y, Lane(c, s, k, h, g, Y),
         NEW l \in LoopsOf(op), todo[l] # <<>>
  PROVE  /\ Same(Coming(l, c, h), OfTo(op, c, h)[Head(todo[l])] \o Gather(Tail(todo[l]), OfTo(op, c, h)))
         /\ OfTo(op, c, h)[Head(todo[l])] \in Seq(Y)
         /\ Gather(Tail(todo[l]), OfTo(op, c, h)) \in Seq(Y)
         /\ Head(todo[l]) \in SendsOf(op)
         /\ OfTo(op, c, h)[Head(todo[l])] = IF Head(todo[l]).to = c THEN h[Head(todo[l]).what] ELSE <<>>
<1>1. todo[l] \in Seq(SendsOf(op))
  BY DEF Ctl, PcOK
<1>2. OfTo(op, c, h) \in [SendsOf(op) -> Seq(Y)]
  BY OfToType
<1>3. Tail(todo[l]) \in Seq(SendsOf(op)) /\ Head(todo[l]) \in SendsOf(op)
  BY <1>1, TailOf
<1>4. Same(Coming(l, c, h), OfTo(op, c, h)[Head(todo[l])] \o Gather(Tail(todo[l]), OfTo(op, c, h)))
  BY <1>1, <1>2, GatherFirst DEF Coming
<1>5. Gather(Tail(todo[l]), OfTo(op, c, h)) \in Seq(Y)
  BY <1>2, <1>3, GatherType
<1>6. OfTo(op, c, h)[Head(todo[l])] = IF Head(todo[l]).to = c THEN h[Head(todo[l]).what] ELSE <<>>
  BY <1>3 DEF OfTo
<1> QED BY <1>2, <1>3, <1>4, <1>5, <1>6

\* What changes in no loop's sends but l's, and there only the sends.
Sends(l) ==
  /\ Rigid /\ UNCHANGED <<left, mem>> /\ (ctxDone => ctxDone')
  /\ \A i \in LoopsOf(op) \ {l} : todo'[i] = todo[i] /\ pc'[i] = pc[i]

LEMMA SendsLane ==
  ASSUME NEW c, NEW s, NEW k, NEW h, NEW g, NEW l \in LoopsOf(op), Sends(l)
  PROVE  /\ Due(s, k, g)' = Due(s, k, g) /\ Kept(c, s)' = Kept(c, s)
         /\ Whole(s, k, g)' = Whole(s, k, g)
         /\ \A i \in LoopsOf(op) \ {l} : Coming(i, c, h)' = Coming(i, c, h)
         /\ op' = op /\ LoopOf(op, s)' = LoopOf(op, s)
BY DEF Sends, Due, Kept, Whole, Coming, Rigid, inputs

\* Nothing of the lane changes but, in a loop of its own, the sends.
LEMMA StillLane ==
  ASSUME Ctl, NEW c, NEW s, NEW k, NEW h, NEW g, NEW Y, Lane(c, s, k, h, g, Y),
         LaneInv(c, s, k, h, g, Y),
         NEW l \in LoopsOf(op), Sends(l), Came(c, h)' = Came(c, h),
         Coming(l, c, h)' = Coming(l, c, h),
         pc[l] = "done" => pc'[l] = "done"
  PROVE  LaneInv(c, s, k, h, g, Y)'
<1>1. PICK L \in LoopsOf(op) : L = LoopOf(op, s)
  BY LoopsAre DEF Lane
<1>2. /\ Due(s, k, g)' = Due(s, k, g) /\ Kept(c, s)' = Kept(c, s)
      /\ Whole(s, k, g)' = Whole(s, k, g)
      /\ \A i \in LoopsOf(op) \ {l} : Coming(i, c, h)' = Coming(i, c, h)
      /\ op' = op /\ LoopOf(op, s)' = LoopOf(op, s)
  BY SendsLane
<1>3. \A i \in LoopsOf(op) : Coming(i, c, h)' = Coming(i, c, h)
  BY <1>2
<1>4. Coming(LoopOf(op, s), c, h)' = Coming(LoopOf(op, s), c, h)
  BY <1>1, <1>2, <1>3
<1>5. pc[L] = "done" => pc'[L] = "done"
  BY DEF Sends
<1>6. Quiet(c, s, h)'
  BY <1>1, <1>2, <1>3 DEF Quiet, LaneInv
<1>7. CASE Even(c, s, k, h, g)
  <2>1. Even(c, s, k, h, g)'
    BY <1>2, <1>4, <1>7 DEF Even
  <2> QED BY <1>6, <2>1 DEF LaneInv
<1>8. CASE Cut(c, s, k, h, g, Y)
  <2>1. Begins(c, s, k, h, g, Y) => Begins(c, s, k, h, g, Y)'
    BY <1>2, <1>4 DEF Begins
  <2>2. Cut(c, s, k, h, g, Y)'
    BY <1>1, <1>2, <1>5, <1>8, <2>1 DEF Cut, Sends
  <2> QED BY <1>6, <2>2 DEF LaneInv
<1> QED BY <1>7, <1>8 DEF LaneInv

LEMMA SendLane ==
  ASSUME Ctl, NEW c, NEW s, NEW k, NEW h, NEW g, NEW Y, Lane(c, s, k, h, g, Y),
         LaneInv(c, s, k, h, g, Y),
         NEW l \in LoopsOf(op), Send(l)
  PROVE  LaneInv(c, s, k, h, g, Y)'
<1> DEFINE x == Head(todo[l])
           f == OfTo(op, c, h)[x]
           rest == Gather(Tail(todo[l]), OfTo(op, c, h))
           come == Came(c, h)
           over == Kept(c, s) \o Due(s, k, g)
<1>1. PICK L \in LoopsOf(op) : L = LoopOf(op, s)
  BY LoopsAre DEF Lane
<1>2. /\ Sending(l) /\ Advance(l) /\ got' = [got EXCEPT ![x.to] = Append(got[x.to], x.what)]
      /\ UNCHANGED <<inputs, left, open, mem, closed, ctxDone, ticks>>
  BY DEF Send
<1>3. /\ op' = op /\ Rigid
  BY <1>2 DEF Rigid, inputs
<1>4. /\ todo[l] # <<>> /\ todo'[l] = Tail(todo[l])
      /\ \A i \in LoopsOf(op) \ {l} : todo'[i] = todo[i] /\ pc'[i] = pc[i]
  BY <1>2, <1>3, AdvancePc DEF Ctl
<1>5. Sends(l)
  BY <1>2, <1>3, <1>4 DEF Sends
<1>6. /\ Due(s, k, g)' = Due(s, k, g) /\ Kept(c, s)' = Kept(c, s)
      /\ Whole(s, k, g)' = Whole(s, k, g)
      /\ \A i \in LoopsOf(op) \ {l} : Coming(i, c, h)' = Coming(i, c, h)
      /\ LoopOf(op, s)' = LoopOf(op, s)
  BY <1>5, SendsLane
<1>7. /\ Same(Coming(l, c, h), f \o rest) /\ f \in Seq(Y) /\ rest \in Seq(Y) /\ x \in SendsOf(op)
      /\ f = IF x.to = c THEN h[x.what] ELSE <<>>
  BY <1>4, ComingFirst
<1>8. Coming(l, c, h)' = rest
  BY <1>3, <1>4 DEF Coming
<1>9. come \in Seq(Y) /\ Kept(c, s) \in Seq(Y) /\ Due(s, k, g) \in Seq(Y)
        /\ Coming(L, c, h) \in Seq(Y)
  BY LaneTypes
<1>10. over \in Seq(Y)
  BY <1>9, SeqCat
<1>11. Came(c, h)' = come \o f
  <2>1. got \in [ChannelsOf(op) -> Seq(Item \cup (Item \X {1, 2}) \cup Seq(Item))]
          /\ got[c] \in Seq(WhatOf(op, c))
        /\ c \in ChannelsOf(op) /\ h \in [WhatOf(op, c) -> Seq(Y)]
    BY DEF Ctl, GotOK, Lane
  <2>2. x.what \in WhatOf(op, x.to)
    BY <1>7, SendIn
  <2>3. CASE x.to = c
    <3>1. got'[c] = Append(got[c], x.what)
      BY <1>2, <2>1, <2>3
    <3>2. Same(Gather(Append(got[c], x.what), h), Gather(got[c], h) \o h[x.what])
      BY <2>1, <2>2, <2>3, GatherLast
    <3>3. f = h[x.what]
      BY <1>7, <2>3
    <3> HIDE DEF f, x
    <3> QED BY <3>1, <3>2, <3>3 DEF Came, Same
  <2>4. CASE x.to # c
    <3>1. got'[c] = got[c] /\ f = <<>>
      BY <1>2, <1>7, <2>1, <2>4
    <3>2. come \o <<>> = come
      BY <1>9, CatNone
    <3> HIDE DEF f, x
    <3> QED BY <3>1, <3>2 DEF Came
  <2> QED BY <2>3, <2>4
<1> HIDE DEF x, f, rest, over, come
<1>12. CASE l = L
  <2>1. Quiet(c, s, h)'
    BY <1>1, <1>3, <1>6, <1>12 DEF Quiet, LaneInv
  <2>2. Coming(LoopOf(op, s), c, h) = f \o rest /\ Coming(LoopOf(op, s), c, h)' = rest
    BY <1>1, <1>6, <1>7, <1>8, <1>12 DEF Same
  <2>3. pc[L] # "done"
    BY <1>2, <1>12 DEF Sending
  <2>4. CASE Even(c, s, k, h, g)
    <3>1. come \o ((f \o rest) \o over) = Whole(s, k, g)
      BY <2>2, <2>4 DEF Even, come, over
    <3>2. Same((come \o f) \o (rest \o over), come \o ((f \o rest) \o over))
      BY <1>7, <1>9, <1>10, CatSend
    <3>3. Even(c, s, k, h, g)'
      BY <1>6, <1>11, <2>2, <3>1, <3>2 DEF Even, over, Same
    <3> QED BY <2>1, <3>3 DEF LaneInv
  <2>5. CASE Cut(c, s, k, h, g, Y)
    <3>1. Cut(c, s, k, h, g, Y)'
      BY <1>1, <1>2, <1>3, <2>3, <2>5 DEF Cut
    <3> QED BY <2>1, <3>1 DEF LaneInv
  <2> QED BY <2>4, <2>5 DEF LaneInv
<1>13. CASE l # L
  <2>1. Coming(l, c, h) = <<>>
    BY <1>1, <1>13 DEF LaneInv, Quiet
  <2>2. f \o rest = <<>>
    BY <1>7, <2>1 DEF Same
  <2>3. f = <<>> /\ rest = <<>>
    BY <1>7, <2>2, CatNone
  <2>4. come \o <<>> = come
    BY <1>9, CatNone
  <2>5. Came(c, h)' = Came(c, h) /\ Coming(l, c, h)' = Coming(l, c, h)
    BY <1>8, <1>11, <2>1, <2>3, <2>4 DEF come
  <2>6. pc[l] # "done"
    BY <1>2 DEF Sending
  <2> QED BY <1>5, <2>5, <2>6, StillLane
<1> QED BY <1>12, <1>13

\* A send is skipped where that may be, or cut off by the context.
LEMMA SkipLane ==
  ASSUME Ctl, NEW c, NEW s, NEW k, NEW h, NEW g, NEW Y, Lane(c, s, k, h, g, Y),
         LaneInv(c, s, k, h, g, Y),
         NEW l \in LoopsOf(op), Sending(l), Advance(l), Head(todo[l]).ondone = "continue",
         ctxDone \/ ~Head(todo[l]).wait,
         UNCHANGED <<inputs, left, open, mem, got, closed, ctxDone, ticks>>
  PROVE  LaneInv(c, s, k, h, g, Y)'
<1> DEFINE x == Head(todo[l])
           f == OfTo(op, c, h)[x]
           rest == Gather(Tail(todo[l]), OfTo(op, c, h))
<1>1. PICK L \in LoopsOf(op) : L = LoopOf(op, s)
  BY LoopsAre DEF Lane
<1>2. Rigid /\ op' = op
  BY DEF Rigid, inputs
<1>3. /\ todo[l] # <<>> /\ todo'[l] = Tail(todo[l])
      /\ \A i \in LoopsOf(op) \ {l} : todo'[i] = todo[i] /\ pc'[i] = pc[i]
  BY <1>2, AdvancePc DEF Ctl
<1>4. Sends(l)
  BY <1>2, <1>3 DEF Sends
<1>5. /\ Same(Coming(l, c, h), f \o rest) /\ f \in Seq(Y) /\ rest \in Seq(Y) /\ x \in SendsOf(op)
      /\ f = IF x.to = c THEN h[x.what] ELSE <<>>
  BY <1>3, ComingFirst
<1>6. Coming(l, c, h)' = rest /\ Came(c, h)' = Came(c, h)
  BY <1>2, <1>3 DEF Coming, Came
<1>7. pc[l] # "done"
  BY DEF Sending
<1>8. Soft(op, x.to) /\ (~x.wait => x.to[1] = "errors")
  BY <1>5, SendIn
<1> HIDE DEF f, rest
<1>9. CASE x.to # c
  <2>1. Coming(l, c, h)' = Coming(l, c, h)
    BY <1>5, <1>6, <1>9, CatNone DEF Same
  <2> QED BY <1>4, <1>6, <1>7, <2>1, StillLane
<1>10. CASE x.to = c
  <2>1. ctxDone /\ Soft(op, c)
    BY <1>8, <1>10 DEF Lane
  <2>2. Cut(c, s, k, h, g, Y)'
    BY <1>2, <2>1 DEF Cut
  <2>3. /\ \A i \in LoopsOf(op) \ {l} : Coming(i, c, h)' = Coming(i, c, h)
        /\ LoopOf(op, s)' = LoopOf(op, s)
    BY <1>4, SendsLane
  <2>4. l # L => Coming(l, c, h)' = <<>>
    <3>1. SUFFICES ASSUME l # L PROVE rest = <<>>
      BY <1>6
    <3>2. f \o rest = <<>>
      BY <1>1, <1>5, <3>1 DEF LaneInv, Quiet, Same
    <3> QED BY <1>5, <3>2, CatNone
  <2>5. Quiet(c, s, h)'
    BY <1>1, <1>2, <2>3, <2>4 DEF Quiet, LaneInv
  <2> QED BY <2>2, <2>5 DEF LaneInv
<1> QED BY <1>9, <1>10

LEMMA QuitsLane ==
  ASSUME Ctl, NEW c, NEW s, NEW k, NEW h, NEW g, NEW Y, Lane(c, s, k, h, g, Y),
         LaneInv(c, s, k, h, g, Y),
         NEW l \in LoopsOf(op), Quits(l)
  PROVE  LaneInv(c, s, k, h, g, Y)'
<1> DEFINE come == Came(c, h)
           over == Kept(c, s) \o Due(s, k, g)
<1>1. PICK L \in LoopsOf(op) : L = LoopOf(op, s)
  BY LoopsAre DEF Lane
<1>2. Rigid /\ op' = op
  BY DEF Rigid, inputs, Quits
<1>3. /\ todo'[l] = <<>> /\ pc'[l] = "done" /\ ctxDone /\ ctxDone'
      /\ \A i \in LoopsOf(op) \ {l} : todo'[i] = todo[i] /\ pc'[i] = pc[i]
  BY DEF Ctl, PcOK, Quits
<1>4. Sends(l)
  BY <1>2, <1>3 DEF Sends, Quits
<1>5. /\ Whole(s, k, g)' = Whole(s, k, g) /\ LoopOf(op, s)' = LoopOf(op, s)
      /\ \A i \in LoopsOf(op) \ {l} : Coming(i, c, h)' = Coming(i, c, h)
  BY <1>4, SendsLane
<1>6. Coming(l, c, h)' = <<>> /\ Came(c, h)' = come
  BY <1>2, <1>3, GatherNone DEF Coming, Came, Quits
<1>7. /\ come \in Seq(Y) /\ Kept(c, s) \in Seq(Y) /\ Due(s, k, g) \in Seq(Y)
      /\ Coming(L, c, h) \in Seq(Y)
      /\ \A i \in LoopsOf(op) : Coming(i, c, h) \in Seq(Y)
  BY LaneTypes
<1>8. over \in Seq(Y) /\ Coming(L, c, h) \o over \in Seq(Y) /\ come \o <<>> = come
  BY <1>7, SeqCat, CatNone
<1> HIDE DEF come, over
<1>9. CASE l = L
  <2>1. Quiet(c, s, h)'
    BY <1>1, <1>2, <1>5, <1>9 DEF Quiet, LaneInv
  <2>2. CASE Soft(op, c)
    <3>1. Cut(c, s, k, h, g, Y)'
      BY <1>2, <1>3, <2>2 DEF Cut
    <3> QED BY <2>1, <3>1 DEF LaneInv
  <2>3. CASE Even(c, s, k, h, g)
    <3>1. come \o (Coming(L, c, h) \o over) = Whole(s, k, g)
      BY <1>1, <2>3 DEF Even, come, over
    <3>2. (Came(c, h)' \o Coming(LoopOf(op, s), c, h)') \o (Coming(L, c, h) \o over) = Whole(s, k, g)'
      BY <1>1, <1>5, <1>6, <1>8, <1>9, <3>1
    <3>3. Begins(c, s, k, h, g, Y)'
      BY <1>8, <3>2 DEF Begins
    <3>4. Cut(c, s, k, h, g, Y)'
      BY <1>1, <1>3, <1>5, <1>9, <3>3 DEF Cut
    <3> QED BY <2>1, <3>4 DEF LaneInv
  <2>4. CASE ~Soft(op, c) /\ Cut(c, s, k, h, g, Y)
    <3>1. Coming(l, c, h) = <<>>
      <4>1. pc[l] = "done"
        BY <1>1, <1>9, <2>4 DEF Cut
      <4>2. todo[l] = <<>>
        BY <4>1 DEF Ctl, PcOK
      <4> QED BY <4>2, GatherNone DEF Coming
    <3>2. Came(c, h)' = Came(c, h) /\ Coming(l, c, h)' = Coming(l, c, h)
      BY <1>6, <3>1 DEF come
    <3> QED BY <1>3, <1>4, <3>2, StillLane
  <2> QED BY <2>2, <2>3, <2>4 DEF LaneInv
<1>10. CASE l # L
  <2>1. Coming(l, c, h) = <<>>
    BY <1>1, <1>10 DEF LaneInv, Quiet
  <2>2. Came(c, h)' = Came(c, h) /\ Coming(l, c, h)' = Coming(l, c, h)
    BY <1>6, <2>1 DEF come
  <2> QED BY <1>3, <1>4, <2>2, StillLane
<1> QED BY <1>9, <1>10

\* No loop takes a step.
LEMMA RestLane ==
  ASSUME Ctl, NEW c, NEW s, NEW k, NEW h, NEW g, NEW Y, Lane(c, s, k, h, g, Y),
         LaneInv(c, s, k, h, g, Y),
         UNCHANGED <<inputs, left, todo, pc, got>>, Kept(c, s)' = Kept(c, s), ctxDone => ctxDone'
  PROVE  LaneInv(c, s, k, h, g, Y)'
<1>1. /\ Due(s, k, g)' = Due(s, k, g) /\ Whole(s, k, g)' = Whole(s, k, g)
      /\ Came(c, h)' = Came(c, h)
      /\ \A i : Coming(i, c, h)' = Coming(i, c, h)
      /\ op' = op /\ LoopOf(op, s)' = LoopOf(op, s)
  BY DEF Due, Whole, Coming, Came, inputs
<1>2. Quiet(c, s, h)'
  BY <1>1 DEF Quiet, LaneInv
<1>3. Coming(LoopOf(op, s), c, h)' = Coming(LoopOf(op, s), c, h)
  BY <1>1 DEF Coming
<1>4. Even(c, s, k, h, g) => Even(c, s, k, h, g)'
  BY <1>1, <1>3 DEF Even
<1>5. Cut(c, s, k, h, g, Y) => Cut(c, s, k, h, g, Y)'
  BY <1>1, <1>3 DEF Cut, Begins
<1> QED BY <1>2, <1>4, <1>5 DEF LaneInv

LEMMA EvensNone ==
  ASSUME Ctl, NEW c, NEW s, NEW k, NEW h, NEW g, NEW Y, Lane(c, s, k, h, g, Y)
  PROVE  Evens(Keep(mem), c, s, h, <<>>)
<1>1. Kept(c, s) \in Seq(Y) /\ Gather(<<>>, OfTo(op, c, h)) = <<>>
  BY LaneTypes, GatherNone
<1>2. <<>> \o Kept(c, s) = Kept(c, s) /\ Kept(c, s) \o <<>> = Kept(c, s)
  BY <1>1, CatNone
<1> QED BY <1>1, <1>2 DEF Evens, Keep, Then, Kept

LEMMA ReceiveLane ==
  ASSUME Ctl, Ctl', NEW c, NEW s, NEW k, NEW h, NEW g, NEW Y, Lane(c, s, k, h, g, Y),
         Feeds(c, s, k, h, g),
         LaneInv(c, s, k, h, g, Y),
         NEW l \in LoopsOf(op), NEW t \in SourcesOf(op), NEW j \in Kinds, Receive(l, t, j)
  PROVE  LaneInv(c, s, k, h, g, Y)'
<1> DEFINE x == IF t = s /\ j = k THEN g[Head(left[t][j])] ELSE <<>>
           r == CaseAt(t, j)
<1>1. /\ pc[l] = "select" /\ <<t, j>> \in open[l] /\ left[t][j] # <<>> /\ Enter(l, r)
      /\ left' = [left EXCEPT ![t][j] = Tail(@)]
      /\ UNCHANGED <<inputs, open, got, closed, ctxDone, ticks>>
  BY DEF Receive, CaseAt
<1>2. Evens(r, c, s, h, x)
  BY <1>1 DEF Feeds
<1>3. Head(left[t][j]) \in Item /\ left[t][j] \in Seq(Item) /\ s \in SourcesOf(op) /\ k \in Kinds
      /\ g \in [Item -> Seq(Y)]
  BY <1>1, NextItem DEF Lane
<1>4. x \in Seq(Y)
  BY <1>3, SeqNone
<1>5. Same(Due(s, k, g), x \o Due(s, k, g)')
  <2>1. left \in [SourcesOf(op) -> Line]
    BY DEF Ctl, LeftOK
  <2>2. CASE t = s /\ j = k
    <3>1. left'[s][k] = Tail(left[s][k])
      BY <1>1, <1>3, <2>1, <2>2 DEF Line, Kinds
    <3>2. Same(Gather(left[s][k], g), g[Head(left[s][k])] \o Gather(Tail(left[s][k]), g))
      BY <1>1, <1>3, <2>2, GatherFirst
    <3> QED BY <2>2, <3>1, <3>2 DEF Due
  <2>3. CASE ~(t = s /\ j = k)
    <3>1. left'[s][k] = left[s][k]
      BY <1>1, <1>3, <2>1, <2>3 DEF Line, Kinds
    <3>2. Due(s, k, g) \in Seq(Y) /\ x = <<>> /\ Due(s, k, g)' = Due(s, k, g)
      BY <2>3, <3>1, LaneTypes DEF Due
    <3>3. <<>> \o Due(s, k, g) = Due(s, k, g)
      BY <3>2, CatNone
    <3> QED BY <3>2, <3>3, Zenon DEF Same
  <2> QED BY <2>2, <2>3
<1>6. l # LoopOf(op, s) => x = <<>>
  <2>1. <<t, j>> \in Reads(op, l)
    BY <1>1 DEF Ctl, OpenOK
  <2>2. op = "merge" => t = l
    BY <2>1 DEF Reads
  <2>3. op # "merge" => l = LoopOf(op, s)
    BY DEF LoopOf, LoopsOf
  <2> QED BY <2>2, <2>3 DEF LoopOf
<1> HIDE DEF x, r
<1>7. Rigid /\ todo' = [todo EXCEPT ![l] = r.sends] /\ mem' = r.mem
        /\ \A i \in LoopsOf(op) \ {l} : pc'[i] = pc[i]
  BY <1>1 DEF Enter, Ctl, PcOK, Rigid
<1>8. Due(s, k, g) = x \o Due(s, k, g)'
  BY <1>5 DEF Same
<1> QED BY <1>1, <1>2, <1>4, <1>6, <1>7, <1>8, WorkLane

\* The loop's own steps: timers, the end of a source or of the loop.
LEMMA OwnLane ==
  ASSUME Ctl, Ctl', NEW c, NEW s, NEW k, NEW h, NEW g, NEW Y, Lane(c, s, k, h, g, Y),
         LaneInv(c, s, k, h, g, Y), Rigid,
         NEW l \in LoopsOf(op), NEW r, pc[l] = "select", UNCHANGED <<left, got, ctxDone>>,
         todo' = [todo EXCEPT ![l] = r.sends], mem' = r.mem, \A i \in LoopsOf(op) \ {l} : pc'[i] = pc[i],
         Evens(r, c, s, h, <<>>)
  PROVE  LaneInv(c, s, k, h, g, Y)'
<1>1. Due(s, k, g)' = Due(s, k, g) /\ Due(s, k, g) \in Seq(Y) /\ <<>> \in Seq(Y)
  BY LaneTypes, SeqNone DEF Due
<1>2. <<>> \o Due(s, k, g) = Due(s, k, g)
  BY <1>1, CatNone
<1>3. Due(s, k, g) = <<>> \o Due(s, k, g)'
  BY <1>1, <1>2, Zenon
<1> QED BY <1>1, <1>3, WorkLane

LEMMA LaneStep ==
  ASSUME Ctl, Ctl', NEW c, NEW s, NEW k, NEW h, NEW g, NEW Y, Lane(c, s, k, h, g, Y),
         Feeds(c, s, k, h, g),
         LaneInv(c, s, k, h, g, Y), [Next]_vars
  PROVE  LaneInv(c, s, k, h, g, Y)'
<1>0. Evens(Keep(mem), c, s, h, <<>>)
        /\ pc \in [LoopsOf(op) -> {"select", "sending", "flushing", "done"}]
  BY EvensNone DEF Ctl, PcOK
<1>1. ASSUME NEW l \in LoopsOf(op), Loop(l) PROVE LaneInv(c, s, k, h, g, Y)'
  <2>1. ASSUME NEW t \in SourcesOf(op), NEW j \in Kinds, Receive(l, t, j)
        PROVE  LaneInv(c, s, k, h, g, Y)'
    BY <2>1, ReceiveLane
  <2>2. ASSUME NEW t \in SourcesOf(op), NEW j \in Kinds, SourceClosed(l, t, j)
        PROVE  LaneInv(c, s, k, h, g, Y)'
    <3>1. PICK r : Enter(l, r) /\ Evens(r, c, s, h, <<>>)
      BY <1>0, <2>2 DEF SourceClosed, Feeds
    <3>2. /\ pc[l] = "select" /\ UNCHANGED <<left, got, ctxDone>> /\ Rigid
          /\ todo' = [todo EXCEPT ![l] = r.sends] /\ mem' = r.mem /\ \A i \in LoopsOf(op) \ {l} : pc'[i] = pc[i]
      BY <1>0, <2>2, <3>1 DEF SourceClosed, Rigid, Enter
    <3> QED BY <3>1, <3>2, OwnLane
  <2>3. CASE TimerFires(l)
    <3>1. PICK r : Enter(l, r) /\ Evens(r, c, s, h, <<>>)
      BY <2>3 DEF TimerFires, Feeds
    <3>2. /\ pc[l] = "select" /\ UNCHANGED <<left, got, ctxDone>> /\ Rigid
          /\ todo' = [todo EXCEPT ![l] = r.sends] /\ mem' = r.mem /\ \A i \in LoopsOf(op) \ {l} : pc'[i] = pc[i]
      BY <1>0, <2>3, <3>1 DEF TimerFires, Rigid, Enter
    <3> QED BY <3>1, <3>2, OwnLane
  <2>4. CASE LoopEnds(l)
    <3> DEFINE r == IF op = "window" THEN Remainder(mem) ELSE Keep(mem)
    <3>1. Evens(r, c, s, h, <<>>)
      BY <1>0 DEF Feeds
    <3>2. /\ pc[l] = "select" /\ UNCHANGED <<left, got, ctxDone>> /\ Rigid
          /\ todo' = [todo EXCEPT ![l] = r.sends] /\ mem' = r.mem /\ \A i \in LoopsOf(op) \ {l} : pc'[i] = pc[i]
      BY <1>0, <2>4 DEF LoopEnds, Rigid
    <3> HIDE DEF r
    <3>3. PICK q : q = r
      OBVIOUS
    <3> QED BY <3>1, <3>2, <3>3, OwnLane
  <2>5. CASE Cancelled(l) BY <2>5, CancelledQuits, QuitsLane
  <2>6. CASE Send(l) BY <2>6, SendLane
  <2>7. CASE Drop(l)
    <3>1. Head(todo[l]).ondone = "continue"
      <4>1. todo[l] # <<>> /\ todo[l] \in Seq(SendsOf(op))
        BY <2>7 DEF Drop, Sending, Ctl, PcOK
      <4>2. Head(todo[l]) \in SendsOf(op)
        BY <4>1, TailOf
      <4> QED BY <2>7, <4>2, SendIn DEF Drop
    <3> QED BY <2>7, <3>1, SkipLane DEF Drop
  <2>8. CASE GiveUp(l) BY <2>8, GiveUpIs, SkipLane, QuitsLane
  <2> QED BY <1>1, <2>1, <2>2, <2>3, <2>4, <2>5, <2>6, <2>7, <2>8 DEF Loop
<1>3. CASE CloseOutputs BY <1>3, RestLane DEF CloseOutputs, Kept, inputs
<1>4. CASE Cancel BY <1>4, RestLane DEF Cancel, Kept, inputs
<1>5. CASE IntervalPasses
  <2>1. mem'.batch = mem.batch /\ mem'.held = mem.held /\ op' = op
    BY <1>5 DEF IntervalPasses, Ctl, MemOf, inputs
  <2>2. Kept(c, s)' = Kept(c, s)
    BY <2>1 DEF Kept, KeptIn
  <2> QED BY <1>5, <2>2, RestLane DEF IntervalPasses
<1>6. CASE UNCHANGED vars BY <1>6, RestLane DEF vars, Kept, inputs
<1> QED BY <1>1, <1>3, <1>4, <1>5, <1>6 DEF Next

LEMMA LaneInit ==
  ASSUME Init, Ctl, NEW c, NEW s, NEW k, NEW h, NEW g, NEW Y, Lane(c, s, k, h, g, Y)
  PROVE  LaneInv(c, s, k, h, g, Y)
<1>1. Came(c, h) = <<>> /\ \A i \in LoopsOf(op) : Coming(i, c, h) = <<>>
  BY GatherNone DEF Init, Came, Coming, Lane
<1>2. Kept(c, s) = <<>> /\ Due(s, k, g) = Whole(s, k, g)
  BY DEF Init, Kept, KeptIn, Lane, Due, Whole
<1>3. Due(s, k, g) \in Seq(Y) /\ LoopOf(op, s) \in LoopsOf(op) /\ <<>> \in Seq(Y)
  BY LaneTypes, LoopsAre, SeqNone DEF Lane
<1>4. <<>> \o Due(s, k, g) = Due(s, k, g)
  BY <1>3, CatNone
<1>5. <<>> \o (<<>> \o (<<>> \o Due(s, k, g))) = Due(s, k, g)
  BY <1>4, Zenon
<1>6. Even(c, s, k, h, g)
  BY <1>1, <1>2, <1>3, <1>5, Zenon DEF Even
<1> QED BY <1>1, <1>6 DEF LaneInv, Quiet

-----------------------------------------------------------------------------
(* What a lane says of the run as a whole.                                   *)
LEMMA PrefixBy ==
  ASSUME NEW Y, NEW a \in Seq(Y), NEW b \in Seq(Y), Len(a) <= Len(b),
         \A i \in 1..Len(a) : a[i] = b[i]
  PROVE  IsPrefix(a, b)
<1>1. SubSeq(a, 1, Len(a)) = SubSeq(b, 1, Len(a))
  <2>1. /\ SubSeq(a, 1, Len(a)) \in Seq(Y) /\ SubSeq(b, 1, Len(a)) \in Seq(Y)
        /\ Len(SubSeq(a, 1, Len(a))) = Len(a) /\ Len(SubSeq(b, 1, Len(a))) = Len(a)
    OBVIOUS
  <2>2. \A i \in 1..Len(a) : SubSeq(a, 1, Len(a))[i] = SubSeq(b, 1, Len(a))[i]
    OBVIOUS
  <2> QED BY <2>1, <2>2, SeqEqual
<1> QED BY <1>1 DEF IsPrefix
LEMMA PrefixIs ==
  ASSUME NEW Y, NEW a \in Seq(Y), NEW b \in Seq(Y)
  PROVE  IsPrefix(a, a \o b)
<1>1. a \o b \in Seq(Y) /\ Len(a) <= Len(a \o b) /\ \A i \in 1..Len(a) : a[i] = (a \o b)[i]
  OBVIOUS
<1> QED BY <1>1, PrefixBy

LEMMA RestNone == ASSUME NEW T, NEW q \in Seq(T), Rest(q, <<>>) PROVE q = <<>>
<1>1. Len(<<>>) = 0 /\ Len(q) \in Nat
  OBVIOUS
<1>2. Len(q) = 0
  BY <1>1 DEF Rest
<1> QED BY <1>2, EmptySeq

\* The end of a run that nobody cancelled: nothing is left anywhere.
LEMMA AtEnd ==
  ASSUME Ctl, Ended, NEW s \in SourcesOf(op), NEW k \in Kinds
  PROVE  /\ left[s][k] = <<>>
         /\ \A l \in LoopsOf(op) : pc[l] = "done" /\ todo[l] = <<>> /\ open[l] = {}
<1>1. \A l \in LoopsOf(op) : pc[l] = "done" /\ todo[l] = <<>> /\ open[l] = {}
  BY DEF Ended, Ctl, PcOK
<1>2. CASE <<s, k>> \in Reads(op, LoopOf(op, s))
  BY <1>1, <1>2, LoopsAre DEF Ctl, OpenOK
<1>3. CASE <<s, k>> \notin Reads(op, LoopOf(op, s))
  <2>1. op \in {"from", "fromCodec"} /\ k = "errors" /\ s = 1
    BY <1>3 DEF Reads, LoopOf, Kinds, SourcesOf
  <2>2. input[s][k] = <<>>
    BY <2>1 DEF Ctl, InputOK
  <2>3. Rest(left[s][k], input[s][k]) /\ left[s][k] \in Seq(Item)
    BY <2>2, LineKinds DEF Ctl, LeftOK
  <2> QED BY <1>1, <2>2, <2>3, RestNone
<1> QED BY <1>1, <1>2, <1>3

LEMMA LaneBegins ==
  ASSUME Ctl, NEW c, NEW s, NEW k, NEW h, NEW g, NEW Y, Lane(c, s, k, h, g, Y),
         LaneInv(c, s, k, h, g, Y),
         ~Soft(op, c) \/ ~ctxDone
  PROVE  \E r \in Seq(Y) : Came(c, h) \o r = Whole(s, k, g)
<1> DEFINE come == Came(c, h)
           coming == Coming(LoopOf(op, s), c, h)
           kept == Kept(c, s)
           due == Due(s, k, g)
<1>1. come \in Seq(Y) /\ coming \in Seq(Y) /\ kept \in Seq(Y) /\ due \in Seq(Y)
  BY LaneTypes, LoopsAre DEF Lane
<1>2. CASE Even(c, s, k, h, g)
  <2>1. come \o (coming \o (kept \o due)) = Whole(s, k, g)
    BY <1>2 DEF Even
  <2> HIDE DEF come, coming, kept, due
  <2>2. coming \o (kept \o due) \in Seq(Y)
    BY <1>1, SeqCat
  <2> QED BY <2>1, <2>2 DEF come
<1>3. CASE Cut(c, s, k, h, g, Y)
  <2>1. PICK r \in Seq(Y) : (come \o coming) \o r = Whole(s, k, g)
    BY <1>3 DEF Cut, Begins
  <2> HIDE DEF come, coming, kept, due
  <2>2. Same((come \o coming) \o r, come \o (coming \o r)) /\ coming \o r \in Seq(Y)
    BY <1>1, CatCat, SeqCat
  <2>3. PICK z \in Seq(Y) : z = coming \o r
    BY <2>2
  <2>4. come \o z = Whole(s, k, g)
    BY <2>1, <2>2, <2>3, Zenon DEF Same
  <2> QED BY <2>4 DEF come
<1> QED BY <1>2, <1>3 DEF LaneInv
LEMMA LaneEnds ==
  ASSUME Ctl, NEW c, NEW s, NEW k, NEW h, NEW g, NEW Y, Lane(c, s, k, h, g, Y),
         LaneInv(c, s, k, h, g, Y), Ended
  PROVE  Came(c, h) \o Kept(c, s) = Whole(s, k, g)
<1>1. Came(c, h) \in Seq(Y) /\ Kept(c, s) \in Seq(Y)
  BY LaneTypes
<1>2. Even(c, s, k, h, g)
  BY DEF Ended, LaneInv, Cut
<1>3. Coming(LoopOf(op, s), c, h) = <<>> /\ Due(s, k, g) = <<>>
  BY AtEnd, LoopsAre, GatherNone DEF Coming, Due, Lane
<1>4. Came(c, h) \o (<<>> \o (Kept(c, s) \o <<>>)) = Whole(s, k, g)
  BY <1>2, <1>3 DEF Even
<1>5. Kept(c, s) \o <<>> = Kept(c, s) /\ <<>> \o Kept(c, s) = Kept(c, s)
  BY <1>1, CatNone
<1> QED BY <1>4, <1>5, Zenon

LEMMA LaneDelivers ==
  ASSUME Ctl, NEW c, NEW s, NEW k, NEW h, NEW g, NEW Y, Lane(c, s, k, h, g, Y),
         LaneInv(c, s, k, h, g, Y),
         ~Soft(op, c) \/ ~ctxDone, Ended => Kept(c, s) = <<>>
  PROVE  Delivers(Came(c, h), Whole(s, k, g))
<1>1. Came(c, h) \in Seq(Y)
  BY LaneTypes
<1>2. PICK come : come = Came(c, h)
  OBVIOUS
<1>3. PICK r \in Seq(Y) : come \o r = Whole(s, k, g)
  BY <1>2, LaneBegins
<1>4. IsPrefix(come, Whole(s, k, g))
  BY <1>1, <1>2, <1>3, PrefixIs
<1>5. ASSUME Ended PROVE come = Whole(s, k, g)
  <2>1. Came(c, h) \o Kept(c, s) = Whole(s, k, g)
    BY <1>5, LaneEnds
  <2>2. Kept(c, s) = <<>>
    BY <1>5
  <2>3. come \o <<>> = Whole(s, k, g)
    BY <1>2, <2>1, <2>2
  <2>4. come \o <<>> = come
    BY <1>1, <1>2, CatNone
  <2> QED BY <2>3, <2>4
<1> QED BY <1>2, <1>4, <1>5 DEF Delivers

-----------------------------------------------------------------------------
(* What the sends of a case bring to a channel.                              *)
LEMMA GatherOne ==
  ASSUME NEW X, NEW Y, NEW f \in [X -> Seq(Y)], NEW x \in X
  PROVE  Gather(<<x>>, f) = f[x] /\ f[x] \in Seq(Y)
<1>1. <<>> \in Seq(X) /\ Append(<<>>, x) = <<x>> /\ f[x] \in Seq(Y)
  OBVIOUS
<1>2. Same(Gather(Append(<<>>, x), f), Gather(<<>>, f) \o f[x])
  BY <1>1, GatherLast
<1>3. Gather(<<>>, f) = <<>> /\ <<>> \o f[x] = f[x]
  BY <1>1, GatherNone, CatNone
<1> QED BY <1>1, <1>2, <1>3, Zenon DEF Same
LEMMA GatherTwo ==
  ASSUME NEW X, NEW Y, NEW f \in [X -> Seq(Y)], NEW x \in X, NEW y \in X
  PROVE  Gather(<<x, y>>, f) = f[x] \o f[y]
<1>1. <<x>> \in Seq(X) /\ Append(<<x>>, y) = <<x, y>>
  <2>1. <<x>> \in Seq(X) /\ <<x, y>> \in Seq(X) /\ Len(<<x, y>>) = 2 /\ <<x, y>>[1] = x
          /\ <<x, y>>[2] = y
    BY One, Two
  <2>2. /\ Append(<<x>>, y) \in Seq(X) /\ Len(Append(<<x>>, y)) = 2
        /\ Append(<<x>>, y)[1] = x /\ Append(<<x>>, y)[2] = y
    BY <2>1
  <2>3. \A i \in 1..2 : Append(<<x>>, y)[i] = <<x, y>>[i]
    BY <2>1, <2>2
  <2> QED BY <2>1, <2>2, <2>3, SeqEqual
<1>2. Same(Gather(Append(<<x>>, y), f), Gather(<<x>>, f) \o f[y])
  BY <1>1, GatherLast
<1>3. Gather(<<x>>, f) = f[x]
  BY GatherOne
<1> QED BY <1>1, <1>2, <1>3, Zenon DEF Same

Mute(q, f) == \A i \in 1..Len(q) : f[q[i]] = <<>>
LEMMA GatherMute ==
  ASSUME NEW X, NEW Y, NEW f \in [X -> Seq(Y)], NEW q \in Seq(X), Mute(q, f)
  PROVE  Gather(q, f) = <<>>
<1> DEFINE T == {n \in Nat : \A r \in Seq(X) : Len(r) = n /\ Mute(r, f) => Gather(r, f) = <<>>}
<1>1. 0 \in T
  BY EmptySeq, GatherNone
<1>2. ASSUME NEW n \in Nat, n \in T PROVE n + 1 \in T
  <2>1. ASSUME NEW r \in Seq(X), Len(r) = n + 1, Mute(r, f) PROVE Gather(r, f) = <<>>
    <3>0. HasLast(r, X, n)
      BY <2>1, LastOff
    <3>1. PICK t \in Seq(X), x \in X : Len(t) = n /\ r = Append(t, x)
      BY <3>0 DEF HasLast
    <3>2. Mute(t, f) /\ f[x] = <<>>
      <4>1. r[n + 1] = x /\ \A i \in 1..n : r[i] = t[i]
        BY <3>1
      <4>2. f[r[n + 1]] = <<>> /\ \A i \in 1..n : f[r[i]] = <<>>
        BY <2>1 DEF Mute
      <4>3. \A i \in 1..Len(t) : f[t[i]] = <<>>
        BY <3>1, <4>1, <4>2
      <4> QED BY <4>1, <4>2, <4>3 DEF Mute
    <3>3. Gather(t, f) = <<>>
      BY <1>2, <3>1, <3>2
    <3>4. Same(Gather(Append(t, x), f), Gather(t, f) \o f[x])
      BY GatherLast
    <3>5. <<>> \o <<>> = <<>>
      OBVIOUS
    <3> QED BY <3>1, <3>2, <3>3, <3>4, <3>5, Zenon DEF Same
  <2> QED BY <2>1
<1> HIDE DEF T
<1>3. Nat \subseteq T
  BY <1>1, <1>2, Induct
<1>4. Len(q) \in T
  BY <1>3
<1> QED BY <1>4 DEF T

Brings(q, c, h, x) == Gather(q, OfTo(op, c, h)) = x

LEMMA NoneBrings == \A c, h : Brings(<<>>, c, h, <<>>)
BY GatherNone DEF Brings

LEMMA OneBrings ==
  ASSUME NEW c, NEW s, NEW k, NEW h, NEW g, NEW Y, Lane(c, s, k, h, g, Y), NEW x \in SendsOf(op)
  PROVE  Brings(<<x>>, c, h, IF x.to = c THEN h[x.what] ELSE <<>>)
<1>1. OfTo(op, c, h) \in [SendsOf(op) -> Seq(Y)]
  BY OfToType
<1>2. Gather(<<x>>, OfTo(op, c, h)) = OfTo(op, c, h)[x]
  BY <1>1, GatherOne
<1> QED BY <1>2 DEF Brings, OfTo

LEMMA TwoBring ==
  ASSUME NEW c, NEW s, NEW k, NEW h, NEW g, NEW Y, Lane(c, s, k, h, g, Y), NEW x \in SendsOf(op),
         NEW y \in SendsOf(op)
  PROVE  /\ x.to # c => Brings(<<x, y>>, c, h, IF y.to = c THEN h[y.what] ELSE <<>>)
         /\ y.to # c => Brings(<<x, y>>, c, h, IF x.to = c THEN h[x.what] ELSE <<>>)
<1> DEFINE f == OfTo(op, c, h)
<1>1. f \in [SendsOf(op) -> Seq(Y)]
  BY OfToType
<1>2. f[x] = (IF x.to = c THEN h[x.what] ELSE <<>>) /\ f[y] = (IF y.to = c THEN h[y.what] ELSE <<>>)
  BY DEF OfTo
<1>3. Gather(<<x, y>>, f) = f[x] \o f[y] /\ f[x] \in Seq(Y) /\ f[y] \in Seq(Y)
  BY <1>1, GatherTwo
<1>4. f[x] \o <<>> = f[x] /\ <<>> \o f[y] = f[y]
  BY <1>3, CatNone
<1>6. x.to # c => Gather(<<x, y>>, f) = f[y]
  BY <1>2, <1>3, <1>4, Zenon
<1>7. y.to # c => Gather(<<x, y>>, f) = f[x]
  BY <1>2, <1>3, <1>4, Zenon
<1> QED BY <1>2, <1>6, <1>7, Zenon DEF Brings

\* Where nothing is kept, what a case brings is what its item makes due.
LEMMA PlainFeeds ==
  ASSUME Ctl, NEW c, NEW s, NEW k, NEW h, NEW g, NEW Y, Lane(c, s, k, h, g, Y),
         op \notin Holding \/ c[1] = "errors",
         \A t \in SourcesOf(op), j \in Kinds : left[t][j] # <<>> =>
           Brings(CaseAt(t, j).sends, c, h, IF t = s /\ j = k THEN g[Head(left[t][j])] ELSE <<>>),
         op = "buffer" => Brings(Flush(mem).sends, c, h, <<>>),
         op = "debounce" => Brings(Silence(mem).sends, c, h, <<>>),
         op = "window" => Brings(Tick(mem).sends, c, h, <<>>) /\ Brings(Remainder(mem).sends, c, h, <<>>)
  PROVE  Feeds(c, s, k, h, g)
<1>1. \A m : KeptIn(op, m, c, s) = <<>>
  BY DEF KeptIn, Holding
<1>2. ASSUME NEW r, NEW x \in Seq(Y), Brings(r.sends, c, h, x) PROVE Evens(r, c, s, h, x)
  <2>1. x \o <<>> = x /\ <<>> \o x = x
    BY CatNone
  <2> QED BY <1>1, <1>2, <2>1 DEF Evens, Brings, Kept
<1>3. <<>> \in Seq(Y)
  BY SeqNone
<1>4. ASSUME NEW t \in SourcesOf(op), NEW j \in Kinds, left[t][j] # <<>>
      PROVE  Evens(CaseAt(t, j), c, s, h, IF t = s /\ j = k THEN g[Head(left[t][j])] ELSE <<>>)
  <2>1. Head(left[t][j]) \in Item /\ g \in [Item -> Seq(Y)]
    BY <1>4, NextItem DEF Lane
  <2>2. (IF t = s /\ j = k THEN g[Head(left[t][j])] ELSE <<>>) \in Seq(Y)
    BY <1>3, <2>1
  <2>3. Brings(CaseAt(t, j).sends, c, h, IF t = s /\ j = k THEN g[Head(left[t][j])] ELSE <<>>)
    BY <1>4
  <2> QED BY <1>2, <2>2, <2>3
<1> QED BY <1>2, <1>3, <1>4 DEF Feeds

-----------------------------------------------------------------------------
(* On which channels a case has nothing to say.  A value puts only its own   *)
(* failure on an Errors channel; an error comes out as itself, or as what    *)
(* MapErr makes of it.                                                       *)
Reports(q, e) == \A i \in 1..Len(q) : q[i].to[1] = "errors" => q[i].what = e
ReportOne(x, e) == x.to[1] = "errors" => x.what = e
LEMMA ReportForms ==
  \A e :
    /\ Reports(<<>>, e)
    /\ \A x : ReportOne(x, e) => Reports(<<x>>, e)
    /\ \A x, y : ReportOne(x, e) /\ ReportOne(y, e) => Reports(<<x, y>>, e)
<1> TAKE e
<1>2. \A x : ReportOne(x, e) => Reports(<<x>>, e)
  BY DEF Reports, ReportOne
<1>3. ASSUME NEW x, NEW y, ReportOne(x, e), ReportOne(y, e) PROVE Reports(<<x, y>>, e)
  <2>1. Len(<<x, y>>) = 2 /\ <<x, y>>[1] = x /\ <<x, y>>[2] = y
    OBVIOUS
  <2>2. \A i \in 1..2 : i = 1 \/ i = 2
    OBVIOUS
  <2> QED BY <1>3, <2>1, <2>2 DEF Reports, ReportOne
<1> QED BY <1>2, <1>3 DEF Reports

LEMMA TwoOfOne == ASSUME NEW x, NEW y PROVE <<x>> \o <<y>> = <<x, y>> /\ <<>> \o <<y>> = <<y>>
<1>1. /\ <<x>> \o <<y>> \in Seq({x, y}) /\ <<x, y>> \in Seq({x, y}) /\ <<x>> \in Seq({x, y})
      /\ <<y>> \in Seq({x, y})
      /\ Len(<<x>> \o <<y>>) = 2 /\ Len(<<x, y>>) = 2 /\ (<<x>> \o <<y>>)[1] = x
      /\ (<<x>> \o <<y>>)[2] = y
      /\ <<x, y>>[1] = x /\ <<x, y>>[2] = y
  OBVIOUS
<1>2. \A i \in 1..2 : (<<x>> \o <<y>>)[i] = <<x, y>>[i]
  BY <1>1
<1>3. <<x>> \o <<y>> = <<x, y>>
  BY <1>1, <1>2, SeqEqual
<1> QED BY <1>1, <1>3, CatNone

LEMMA ValueReports ==
  ASSUME NEW m, NEW s, NEW v, op \in OpNames
  PROVE  Reports(OnValue(m, s, v).sends, FailureOf(v))
<1> DEFINE e == FailureOf(v)
           q == OnValue(m, s, v).sends
<1>a. /\ \A p, x : ReportOne(Must(Values(p), x), e) /\ ReportOne(Do(Values(p), x), e) /\ ReportOne(Wait(Values(p), x), e)
      /\ \A p : ReportOne(Must(Errors(p), e), e) /\ ReportOne(Do(Errors(p), e), e)
  BY DEF ReportOne, Must, Do, Wait, Values, Errors
<1>0. /\ Reports(<<>>, e)
      /\ \A p, x : Reports(<<Must(Values(p), x)>>, e) /\ Reports(<<Wait(Values(p), x)>>, e) /\ Reports(<<Do(Values(p), x)>>, e)
      /\ \A p : Reports(<<Must(Errors(p), e)>>, e) /\ Reports(<<Do(Errors(p), e)>>, e)
      /\ \A p, x, o : Reports(<<Must(Values(p), x), Must(Errors(o), e)>>, e)
      /\ \A p, x, o : Reports(<<Must(Errors(p), e), Must(Values(o), x)>>, e)
      /\ \A p, x, o, y : Reports(<<Must(Values(p), x), Must(Values(o), y)>>, e)
  BY <1>a, ReportForms
<1>1. CASE op \in {"from", "tap", "mapErr", "filter", "ofType", "merge"}
  BY <1>0, <1>1 DEF OnValue, Tap, Filter, OfType, Merge, Emit, Keep, Then
<1>2. CASE op \in {"switch", "switchType2", "switchType3", "splitEither", "groupBy"}
  BY <1>0, <1>2 DEF OnValue, SwitchBy, SwitchType2, SwitchType3, SplitEither, GroupBy, Emit, Keep,
       Then
<1>3. CASE op \in {"apply", "map", "fromCodec", "call", "get"}
  BY <1>0, <1>3 DEF OnValue, Apply, Map, Decode, Call, Get, Emit, Fail, Keep, Then
<1>4. CASE op \in {"queryEach", "tee"}
  BY <1>0, <1>4 DEF OnValue, QueryEach, Tee, Emit, Fail, Then
<1>5. CASE op = "buffer"
  <2>1. \A n : Flush(n).sends = IF n.batch = <<>> THEN <<>> ELSE <<Wait(Values("out"), n.batch)>>
    BY DEF Flush, Keep, Then
  <2>2. \A n : Reports(Flush(n).sends, e)
    BY <1>0, <2>1
  <2>3. PICK n : q = Flush(n).sends \/ q = <<>>
    BY <1>5 DEF OnValue, Buffer, Keep, Then
  <2> QED BY <1>0, <2>2, <2>3
<1>6. CASE op \in {"combineLatest2", "combineLatest3", "combineLatest4", "zip"}
  <2>1. PICK x : q \in {<<>>, <<Must(Values("out"), x)>>, <<Wait(Values("out"), x)>>}
    BY <1>6 DEF OnValue, CombineLatest2, CombineLatest3, CombineLatest4, ZipPair, Emit, Keep, Then
  <2> QED BY <1>0, <2>1
<1>7. CASE op \in {"throttle", "debounce", "window", "slidingWindow"}
  <2>1. PICK x : q \in {<<>>, <<Must(Values("out"), x)>>}
    BY <1>7 DEF OnValue, Throttle, Debounce, Collect, SlidingWindow, Emit, Keep, Then
  <2> QED BY <1>0, <2>1
<1>9. CASE op = "flatMapSlice"
  <2>2. PICK n \in {0, 1, 2} : Pieces(v) = [i \in 1..n |-> <<v, i>>]
    BY DEF Pieces
  <2>3. q = [i \in 1..n |-> Must(Values("out"), <<v, i>>)]
    BY <1>9, <2>2 DEF OnValue, FlatMapSlice, Then
  <2>4. Len(q) = n
    BY <2>3
  <2> HIDE DEF q
  <2>5. \A i \in 1..n : ReportOne(q[i], e)
    BY <1>a, <2>3
  <2> HIDE DEF e
  <2>6. Reports(q, e)
    BY <2>4, <2>5 DEF Reports, ReportOne
  <2> QED BY <2>6 DEF q, e
<1>10. CASE op = "set"
  <2>1. <<Must(Errors("out"), e)>> \o <<Must(Values("out"), v)>> = <<Must(Errors("out"), e), Must(Values("out"), v)>>
        /\ <<>> \o <<Must(Values("out"), v)>> = <<Must(Values("out"), v)>>
    BY TwoOfOne
  <2>2. q \in {<<Must(Errors("out"), e), Must(Values("out"), v)>>, <<Must(Values("out"), v)>>}
    BY <1>10, <2>1 DEF OnValue, Set, Then
  <2> QED BY <1>0, <2>2
<1>11. CASE op \in Sinks
  BY <1>0, <1>11 DEF OnValue, Write, Sinks, Then
<1> QED BY <1>1, <1>2, <1>3, <1>4, <1>5, <1>6, <1>7, <1>9, <1>10, <1>11 DEF OpNames, Adapters

\* What an error leads to.
PassOne(x, e) ==
    /\ x.to[1] = "errors" => x.what = e \/ (op = "mapErr" /\ x.what = ReplacedBy(e))
    /\ x.to[1] = "values" =>
         \/ op = "mapErr" /\ x.what = RecoveredOf(e)
         \/ op = "publish" /\ x.what = e

Passes(q, e) == \A i \in 1..Len(q) : PassOne(q[i], e)

LEMMA ErrorPasses ==
  ASSUME NEW m \in MemOf(op), NEW e, op \in OpNames
  PROVE  Passes(OnError(m, e).sends, e)
<1>0. /\ Passes(<<>>, e)
      /\ \A x : PassOne(x, e) => Passes(<<x>>, e)
      /\ \A x, y : PassOne(x, e) /\ PassOne(y, e) => Passes(<<x, y>>, e)
  <2>1. Passes(<<>>, e) /\ \A x : PassOne(x, e) => Passes(<<x>>, e)
    BY DEF Passes
  <2>3. ASSUME NEW x, NEW y, PassOne(x, e), PassOne(y, e) PROVE Passes(<<x, y>>, e)
    <3>1. Len(<<x, y>>) = 2 /\ <<x, y>>[1] = x /\ <<x, y>>[2] = y
      OBVIOUS
    <3>2. \A i \in 1..2 : i = 1 \/ i = 2
      OBVIOUS
    <3> QED BY <2>3, <3>1, <3>2 DEF Passes
  <2> QED BY <2>1, <2>3
<1>1. \A p : PassOne(Must(Errors(p), e), e) /\ PassOne(Try(Errors(p), e), e)
        /\ PassOne(Do(Errors(p), e), e)
  BY DEF PassOne, Must, Try, Do, Errors
<1>2. CASE op = "mapErr"
  <2>1. PassOne(Must(Values("out"), RecoveredOf(e)), e)
          /\ PassOne(Must(Errors("out"), ReplacedBy(e)), e)
    BY <1>2 DEF PassOne, Must, Values, Errors
  <2> QED BY <1>0, <1>2, <2>1 DEF OnError, MapErr, Emit, Fail, Keep, Then
<1>3. CASE op \in {"tee", "splitEither"}
  BY <1>0, <1>1, <1>3 DEF OnError, TeeError, SplitError, Then
<1>4. CASE op \in {"drain", "publish"}
  <2>1. op = "publish" => PassOne(Do(Values("channel"), e), e)
    BY DEF PassOne, Do, Values
  <2> QED BY <1>0, <1>1, <1>4, <2>1 DEF OnError, WriteError, PublishError, Keep, Then
<1>5. CASE op = "groupBy"
  <2> DEFINE gs == SetToSeq(m.groups)
  <2>1. m.groups \subseteq {"a", "b", "c"}
    BY DEF MemOf
  <2>2. gs \in Seq(m.groups)
    BY <2>1, ListOf DEF IsList
  <2> HIDE DEF gs
  <2>3. DOMAIN gs = 1..Len(gs) /\ Len(gs) \in Nat
    BY <2>2
  <2>4. OnError(m, e).sends = ErrorTo(gs, e)
    BY <1>5 DEF OnError, GroupError, ErrorTo, gs, Then
  <2>5. \A i \in 1..Len(gs) : PassOne(ErrorTo(gs, e)[i], e)
    BY <1>1, <2>3 DEF ErrorTo
  <2>6. Len(ErrorTo(gs, e)) = Len(gs)
    BY <2>3 DEF ErrorTo
  <2> QED BY <2>4, <2>5, <2>6 DEF Passes
<1>6. CASE op \notin {"mapErr", "tee", "splitEither", "groupBy", "drain", "publish"}
  BY <1>0, <1>1, <1>6 DEF OnError, RestError, Fail, Then
<1> QED BY <1>2, <1>3, <1>4, <1>5, <1>6

-----------------------------------------------------------------------------
(* The items an operator passes on, by output and source.                    *)
OfSource(s) == [x \in Item |-> When(x.kind = "values" /\ x.src = s, x)]
WantedBy(o) == [v \in Item |-> When(Wanted(o, v), v)]

LEMMA WhenIn == ASSUME NEW T, NEW p, NEW x \in T PROVE When(p, x) \in Seq(T)
BY SeqNone, One DEF When

LEMMA PassLane ==
  ASSUME Ctl, op \in Passing, NEW o \in OutputsOf(op), NEW s \in SourcesOf(op)
  PROVE  Lane(Values(o), s, "values", OfSource(s), WantedBy(o), Item) /\ Results(op) = Item
           /\ op \notin Holding
<1>1. Results(op) = Item /\ op \notin Holding
  BY DEF Results, Passing, Sinks, Holding
<1>2. WhatOf(op, Values(o)) = Item /\ Values(o)[1] = "values" /\ "values" \in Kinds
  BY <1>1 DEF WhatOf, Values, Kinds
<1>3. OfSource(s) \in [Item -> Seq(Item)] /\ WantedBy(o) \in [Item -> Seq(Item)]
  BY WhenIn DEF OfSource, WantedBy
<1> QED BY <1>1, <1>2, <1>3, ChannelIs DEF Lane

LEMMA ToOutput ==
  \A p, o, x : /\ Must(Values(p), x).to = Values(o) <=> p = o
               /\ Do(Values(p), x).to = Values(o) <=> p = o
               /\ Must(Errors(p), x).to # Values(o) /\ Do(Errors(p), x).to # Values(o)
               /\ Must(Values(p), x).what = x /\ Do(Values(p), x).what = x
               /\ Must(Errors(p), x).what = x /\ Do(Errors(p), x).what = x
               /\ Must(Errors(p), x).to = Errors(o) <=> p = o
               /\ Do(Errors(p), x).to = Errors(o) <=> p = o
               /\ Must(Values(p), x).to # Errors(o) /\ Do(Values(p), x).to # Errors(o)
BY DEF Must, Do, Values, Errors

\* What the value at the head of a source makes due at output o.
LEMMA PassValue ==
  ASSUME Ctl, op \in Passing, NEW o \in OutputsOf(op), NEW s \in SourcesOf(op),
         NEW t \in SourcesOf(op),
         NEW v, Fine(op, v), v.kind = "values", v.src = t
  PROVE  Brings(OnValue(mem, t, v).sends, Values(o), OfSource(s), IF t = s THEN When(Wanted(o, v), v) ELSE <<>>)
<1> DEFINE c == Values(o)
           h == OfSource(s)
           one == IF t = s THEN <<v>> ELSE <<>>
           q == OnValue(mem, t, v).sends
           due == IF t = s THEN When(Wanted(o, v), v) ELSE <<>>
<1>1. v \in Item /\ FailureOf(v) \in Item /\ v.class \in {"a", "b", "c", "d"}
        /\ (op # "switchType3" => v.class # "d")
  BY ItemKinds DEF Fine, Item
<1>2. Lane(c, s, "values", h, WantedBy(o), Item) /\ Results(op) = Item
  BY PassLane
<1>3. h[v] = one
  BY <1>1 DEF OfSource, When
<1>4. \A p \in OutputsOf(op) :
        /\ Must(Values(p), v) \in SendsOf(op) /\ Do(Values(p), v) \in SendsOf(op)
        /\ Must(Errors(p), FailureOf(v)) \in SendsOf(op)
        /\ Do(Errors(p), FailureOf(v)) \in SendsOf(op)
  BY <1>1, <1>2, ChannelIs, SendIs DEF WhatOf, Values, Errors
<1> HIDE DEF c, h
<1>5. \A p \in OutputsOf(op) :
        /\ Brings(<<Must(Values(p), v)>>, c, h, IF p = o THEN one ELSE <<>>)
        /\ Brings(<<Do(Values(p), v)>>, c, h, IF p = o THEN one ELSE <<>>)
        /\ Brings(<<Must(Errors(p), FailureOf(v))>>, c, h, <<>>)
        /\ Brings(<<Do(Errors(p), FailureOf(v))>>, c, h, <<>>)
        /\ Brings(<<Must(Errors(p), FailureOf(v)), Must(Values(p), v)>>, c, h, IF p = o THEN one ELSE <<>>)
  <2> SUFFICES ASSUME NEW p \in OutputsOf(op)
      PROVE /\ Brings(<<Must(Values(p), v)>>, c, h, IF p = o THEN one ELSE <<>>)
            /\ Brings(<<Do(Values(p), v)>>, c, h, IF p = o THEN one ELSE <<>>)
            /\ Brings(<<Must(Errors(p), FailureOf(v))>>, c, h, <<>>)
            /\ Brings(<<Do(Errors(p), FailureOf(v))>>, c, h, <<>>)
            /\ Brings(<<Must(Errors(p), FailureOf(v)), Must(Values(p), v)>>, c, h, IF p = o THEN one ELSE <<>>)
    OBVIOUS
  <2> DEFINE x1 == Must(Values(p), v)
             x2 == Do(Values(p), v)
             x3 == Must(Errors(p), FailureOf(v))
             x4 == Do(Errors(p), FailureOf(v))
  <2>1. x1 \in SendsOf(op) /\ x2 \in SendsOf(op) /\ x3 \in SendsOf(op) /\ x4 \in SendsOf(op)
    BY <1>4
  <2>2. /\ (x1.to = c <=> p = o) /\ x1.what = v /\ (x2.to = c <=> p = o) /\ x2.what = v
        /\ x3.to # c /\ x4.to # c
    BY ToOutput DEF c
  <2> HIDE DEF x1, x2, x3, x4
  <2>3. /\ Brings(<<x1>>, c, h, IF x1.to = c THEN h[x1.what] ELSE <<>>)
        /\ Brings(<<x2>>, c, h, IF x2.to = c THEN h[x2.what] ELSE <<>>)
        /\ Brings(<<x3>>, c, h, IF x3.to = c THEN h[x3.what] ELSE <<>>)
        /\ Brings(<<x4>>, c, h, IF x4.to = c THEN h[x4.what] ELSE <<>>)
        /\ Brings(<<x3, x1>>, c, h, IF x1.to = c THEN h[x1.what] ELSE <<>>)
    BY <1>2, <2>1, <2>2, OneBrings, TwoBring
  <2> HIDE DEF one
  <2> QED BY <1>3, <2>2, <2>3 DEF x1, x2, x3, x4
<1>6. Brings(<<>>, c, h, <<>>)
  BY NoneBrings
<1>7. v.kind = "values" /\ (op = "tee" /\ (o = "a" \/ o = "b") =>
       Brings(<<Must(Values("a"), v), Must(Values("b"), v)>>, c, h, one))
  <2> SUFFICES ASSUME op = "tee", o = "a" \/ o = "b"
               PROVE  Brings(<<Must(Values("a"), v), Must(Values("b"), v)>>, c, h, one)
    OBVIOUS
  <2> DEFINE x1 == Must(Values("a"), v)
             x2 == Must(Values("b"), v)
  <2>1. x1 \in SendsOf(op) /\ x2 \in SendsOf(op)
    BY <1>4 DEF OutputsOf
  <2>2. (x1.to = c <=> "a" = o) /\ x1.what = v /\ (x2.to = c <=> "b" = o) /\ x2.what = v
    BY ToOutput DEF c
  <2> HIDE DEF x1, x2, one
  <2>3. /\ x1.to # c => Brings(<<x1, x2>>, c, h, IF x2.to = c THEN h[x2.what] ELSE <<>>)
        /\ x2.to # c => Brings(<<x1, x2>>, c, h, IF x1.to = c THEN h[x1.what] ELSE <<>>)
    BY <1>2, <2>1, TwoBring
  <2> QED BY <1>3, <2>2, <2>3 DEF x1, x2
<1>8. due = IF Wanted(o, v) THEN one ELSE <<>>
  BY DEF When
<1> HIDE DEF one, due
<1>10. CASE op \in {"from", "tap", "mapErr", "merge"}
  <2>1. q = <<Must(Values("out"), v)>> /\ o = "out" /\ Wanted(o, v)
    BY <1>10 DEF OnValue, Tap, Merge, Emit, Then, OutputsOf, Wanted, Sinks
  <2> QED BY <1>5, <1>8, <2>1 DEF c, h, due
<1>11. CASE op \in {"filter", "ofType"}
  <2>1. q = (IF Wanted(o, v) THEN <<Must(Values("out"), v)>> ELSE <<>>) /\ o = "out"
    BY <1>11 DEF OnValue, Filter, OfType, Emit, Keep, Then, OutputsOf, Wanted
  <2> QED BY <1>5, <1>6, <1>8, <2>1 DEF c, h, due
<1>12. CASE op \in {"apply", "map", "fromCodec"}
  <2>1. q = (IF Wanted(o, v) THEN <<Must(Values("out"), v)>> ELSE <<Must(Errors("out"), FailureOf(v))>>) /\ o = "out"
    BY <1>12 DEF OnValue, Map, Apply, Decode, Emit, Fail, Then, OutputsOf, Wanted
  <2> QED BY <1>5, <1>6, <1>8, <2>1 DEF c, h, due
<1>13. CASE op = "tee"
  <2>1. q = <<Must(Values("a"), v), Must(Values("b"), v)>> /\ (o = "a" \/ o = "b") /\ Wanted(o, v)
    BY <1>13 DEF OnValue, Tee, Then, OutputsOf, Wanted, Sinks
  <2> QED BY <1>7, <1>8, <1>13, <2>1 DEF c, h, due
<1>14. CASE op \in {"switch", "switchType2", "switchType3"}
  <2>1. PICK p : q = <<Must(Values(p), v)>> /\ p = IF v.class = (IF op = "switchType3" THEN "d" ELSE "c") THEN "rest" ELSE v.class
    BY <1>14 DEF OnValue, SwitchBy, SwitchType2, SwitchType3, CaseOf, Emit, Then
  <2>2. p \in OutputsOf(op) /\ (Wanted(o, v) <=> p = o)
    BY <1>1, <1>14, <2>1 DEF OutputsOf, Wanted
  <2> QED BY <1>5, <1>8, <2>1, <2>2 DEF c, h, due
<1>15. CASE op = "splitEither"
  <2>1. q = (IF v.class = "c" THEN <<>> ELSE <<Must(Values(v.class), v)>>)
    BY <1>15 DEF OnValue, SplitEither, Emit, Keep, Then
  <2>2. (Wanted(o, v) <=> v.class = o) /\ (v.class # "c" => v.class \in OutputsOf(op)) /\ o # "c"
    BY <1>1, <1>15 DEF OutputsOf, Wanted
  <2> QED BY <1>5, <1>6, <1>8, <2>1, <2>2 DEF c, h, due
<1>16. CASE op = "groupBy"
  <2>1. q = <<Must(Values(v.class), v)>> /\ (Wanted(o, v) <=> v.class = o) /\ v.class \in OutputsOf(op)
    BY <1>1, <1>16 DEF OnValue, GroupBy, Emit, Then, Wanted, OutputsOf
  <2> QED BY <1>5, <1>8, <2>1 DEF c, h, due
<1>17. CASE op = "set"
  <2>0. <<Must(Errors("out"), FailureOf(v))>> \o <<Must(Values("out"), v)>> = <<Must(Errors("out"), FailureOf(v)), Must(Values("out"), v)>>
        /\ <<>> \o <<Must(Values("out"), v)>> = <<Must(Values("out"), v)>>
    BY TwoOfOne
  <2>1. /\ q \in {<<Must(Values("out"), v)>>, <<Must(Errors("out"), FailureOf(v)), Must(Values("out"), v)>>}
        /\ o = "out" /\ "out" \in OutputsOf(op) /\ Wanted(o, v)
    BY <1>17, <2>0 DEF OnValue, Set, Then, OutputsOf, Wanted, Sinks
  <2> QED BY <1>5, <1>8, <2>1 DEF c, h, due
<1>18. CASE op \in Sinks
  <2>1. q = <<IF v.class = "c" THEN Do(Errors("out"), FailureOf(v)) ELSE Do(Values("out"), v)>>
        /\ "out" \in OutputsOf(op) /\ (Wanted(o, v) <=> v.class # "c" /\ o = "out")
    BY <1>18 DEF OnValue, Write, Then, OutputsOf, Wanted, Sinks
  <2> QED BY <1>5, <1>8, <2>1 DEF c, h, due
<1> QED BY <1>10, <1>11, <1>12, <1>13, <1>14, <1>15, <1>16, <1>17, <1>18 DEF Passing

\* A channel hears nothing of a case whose sends all go elsewhere, or stand
\* for nothing there.
Silent(q, c, h) == \A i \in 1..Len(q) : q[i].to = c => h[q[i].what] = <<>>
LEMMA SilentBrings ==
  ASSUME NEW c, NEW s, NEW k, NEW h, NEW g, NEW Y, Lane(c, s, k, h, g, Y),
         NEW q \in Seq(SendsOf(op)), Silent(q, c, h)
  PROVE  Brings(q, c, h, <<>>)
<1>1. OfTo(op, c, h) \in [SendsOf(op) -> Seq(Y)]
  BY OfToType
<1>2. ASSUME NEW i \in 1..Len(q) PROVE OfTo(op, c, h)[q[i]] = <<>>
  <2>1. q[i] \in SendsOf(op)
    OBVIOUS
  <2>2. OfTo(op, c, h)[q[i]] = IF q[i].to = c THEN h[q[i].what] ELSE <<>>
    BY <2>1 DEF OfTo
  <2> QED BY <2>2 DEF Silent
<1>3. Mute(q, OfTo(op, c, h))
  BY <1>2 DEF Mute
<1> QED BY <1>1, <1>3, GatherMute DEF Brings

\* Neither a value nor an error at the head of a source says anything else.
LEMMA CaseSends ==
  ASSUME Ctl, NEW t \in SourcesOf(op), NEW j \in Kinds, left[t][j] # <<>>
  PROVE  /\ CaseAt(t, j).sends \in Seq(SendsOf(op)) /\ Head(left[t][j]) \in Item
         /\ Fine(op, Head(left[t][j]))
         /\ Head(left[t][j]).kind = j /\ Head(left[t][j]).src = t
         /\ j = "values" => CaseAt(t, j) = OnValue(mem, t, Head(left[t][j]))
                            /\ Reports(CaseAt(t, j).sends, FailureOf(Head(left[t][j])))
         /\ j = "errors" => CaseAt(t, j) = OnError(mem, Head(left[t][j])) /\ Passes(CaseAt(t, j).sends, Head(left[t][j]))
<1>1. CaseAt(t, j).sends \in Seq(SendsOf(op))
  BY CaseProper DEF Proper
<1>2. Head(left[t][j]) \in Item /\ Fine(op, Head(left[t][j])) /\ Head(left[t][j]).kind = j
        /\ Head(left[t][j]).src = t
  BY NextItem DEF Placed
<1>3. op \in OpNames /\ mem \in MemOf(op)
  BY DEF Ctl, InputOK
<1> QED BY <1>1, <1>2, <1>3, ValueReports, ErrorPasses DEF CaseAt

LEMMA KindsApart ==
  ASSUME NEW v \in Item
  PROVE  /\ FailureOf(v).kind = "failure" /\ ResponseOf(v).kind = "response"
         /\ RecoveredOf(v).kind = "recovered" /\ ReplacedBy(v).kind = "replaced"
BY DEF FailureOf, ResponseOf, RecoveredOf, ReplacedBy, Item

LEMMA SendKinds ==
  ASSUME NEW q \in Seq(SendsOf(op)), NEW i \in 1..Len(q)
  PROVE  /\ q[i].to \in ChannelsOf(op) /\ q[i].to[1] \in {"values", "errors"}
         /\ q[i].what \in WhatOf(op, q[i].to)
<1>1. q[i] \in SendsOf(op)
  OBVIOUS
<1>2. q[i].to \in ChannelsOf(op) /\ q[i].what \in WhatOf(op, q[i].to)
  BY <1>1, SendIn
<1> QED BY <1>2 DEF ChannelsOf, Kinds

LEMMA PassFeeds ==
  ASSUME Ctl, op \in Passing, NEW o \in OutputsOf(op), NEW s \in SourcesOf(op)
  PROVE  Feeds(Values(o), s, "values", OfSource(s), WantedBy(o))
<1> DEFINE c == Values(o)
           h == OfSource(s)
<1>1. Lane(c, s, "values", h, WantedBy(o), Item) /\ op \notin Holding /\ Results(op) = Item
  BY PassLane
<1>2. ASSUME NEW t \in SourcesOf(op), NEW j \in Kinds, left[t][j] # <<>>
      PROVE  Brings(CaseAt(t, j).sends, c, h, IF t = s /\ j = "values" THEN WantedBy(o)[Head(left[t][j])] ELSE <<>>)
  <2> DEFINE v == Head(left[t][j])
             q == CaseAt(t, j).sends
  <2>1. /\ q \in Seq(SendsOf(op)) /\ v \in Item /\ Fine(op, v) /\ v.kind = j /\ v.src = t
        /\ (j = "values" => CaseAt(t, j) = OnValue(mem, t, v))
        /\ (j = "errors" => Passes(q, v))
    BY <1>2, CaseSends
  <2>2. CASE j = "values"
    <3>1. Brings(q, c, h, IF t = s THEN When(Wanted(o, v), v) ELSE <<>>)
      BY <2>1, <2>2, PassValue
    <3>2. WantedBy(o)[v] = When(Wanted(o, v), v)
      BY <2>1 DEF WantedBy
    <3> QED BY <2>2, <3>1, <3>2
  <2>3. CASE j = "errors"
    <3> HIDE DEF q, v
    <3>1. ASSUME NEW i \in 1..Len(q), q[i].to = c PROVE h[q[i].what] = <<>>
      <4>1. PassOne(q[i], v) /\ q[i].to[1] = "values"
        BY <2>1, <2>3, <3>1 DEF Passes, Values
      <4>2. q[i].what \in Item
        BY <1>1, <2>1, <3>1, SendKinds DEF WhatOf, Values
      <4>3. q[i].what.kind # "values"
        BY <2>1, <2>3, <4>1, KindsApart DEF PassOne
      <4> QED BY <4>2, <4>3 DEF OfSource, When
    <3>2. Silent(q, c, h)
      BY <3>1 DEF Silent
    <3>3. Brings(q, c, h, <<>>)
      BY <1>1, <2>1, <3>2, SilentBrings
    <3> QED BY <2>3, <3>3 DEF q
  <2> QED BY <2>2, <2>3 DEF Kinds
<1> HIDE DEF c, h
<1> QED BY <1>1, <1>2, PlainFeeds DEF c, h, Passing, Sinks

\* Sends of items, one at a time or two.
LEMMA ItemBrings ==
  ASSUME NEW c, NEW s, NEW k, NEW h, NEW g, NEW Y, Lane(c, s, k, h, g, Y), NEW d \in ChannelsOf(op),
         NEW x \in WhatOf(op, d)
  PROVE  /\ Brings(<<Must(d, x)>>, c, h, IF d = c THEN h[x] ELSE <<>>)
         /\ Brings(<<Do(d, x)>>, c, h, IF d = c THEN h[x] ELSE <<>>)
<1>1. Must(d, x) \in SendsOf(op) /\ Do(d, x) \in SendsOf(op)
  BY SendIs
<1>2. Must(d, x).to = d /\ Do(d, x).to = d /\ Must(d, x).what = x /\ Do(d, x).what = x
  BY DEF Must, Do
<1>3. PICK u, w : u = Must(d, x) /\ w = Do(d, x)
  OBVIOUS
<1>4. Brings(<<u>>, c, h, IF u.to = c THEN h[u.what] ELSE <<>>) /\ Brings(<<w>>, c, h, IF w.to = c THEN h[w.what] ELSE <<>>)
  BY <1>1, <1>3, OneBrings
<1> QED BY <1>2, <1>3, <1>4
LEMMA PairBrings ==
  ASSUME NEW c, NEW s, NEW k, NEW h, NEW g, NEW Y, Lane(c, s, k, h, g, Y), NEW d \in ChannelsOf(op),
         NEW x \in WhatOf(op, d),
         NEW e \in ChannelsOf(op), NEW y \in WhatOf(op, e), d # e
  PROVE  Brings(<<Must(d, x), Must(e, y)>>, c, h, IF d = c THEN h[x] ELSE IF e = c THEN h[y] ELSE <<>>)
<1>1. Must(d, x) \in SendsOf(op) /\ Must(e, y) \in SendsOf(op)
  BY SendIs
<1>2. Must(d, x).to = d /\ Must(e, y).to = e /\ Must(d, x).what = x /\ Must(e, y).what = y
  BY DEF Must
<1>3. PICK u, w : u = Must(d, x) /\ w = Must(e, y)
  OBVIOUS
<1>4. /\ u.to # c => Brings(<<u, w>>, c, h, IF w.to = c THEN h[w.what] ELSE <<>>)
      /\ w.to # c => Brings(<<u, w>>, c, h, IF u.to = c THEN h[u.what] ELSE <<>>)
  BY <1>1, <1>3, TwoBring
<1> QED BY <1>2, <1>3, <1>4

-----------------------------------------------------------------------------
(* The lanes of each operator.                                               *)
KindIs(d) == [x \in Item |-> When(x.kind = d, x)]
Itself == [x \in Item |-> <<x>>]
FailingBy == [v \in Item |-> When(Failing(v), FailureOf(v))]
AnsweredBy == [v \in Item |-> When(Answered(v), ResponseOf(v))]
Recovering == [e \in Item |-> When(e.class = "a", RecoveredOf(e))]
Replacing == [e \in Item |-> When(e.class = "b", ReplacedBy(e))]
OfClass(d) == [e \in Item |-> When(e.class = d, e)]

Is(c, s, k, h, g, Y, c1, s1, k1, h1, g1, Y1) ==
  c = c1 /\ s = s1 /\ k = k1 /\ h = h1 /\ g = g1 /\ Y = Y1

ValuesLane(c, s, k, h, g, Y) ==
  op \in Passing /\ \E o \in OutputsOf(op), t \in SourcesOf(op) :
                      Is(c, s, k, h, g, Y, Values(o), t, "values", OfSource(t), WantedBy(o), Item)
ErrorsLane(c, s, k, h, g, Y) ==
  \E o \in ErrorOwners : Is(c, s, k, h, g, Y, Errors(o), 1, "errors", KindIs("errors"), Itself, Item)
FailuresLane(c, s, k, h, g, Y) ==
  op \in {"apply", "map", "fromCodec"} \cup Adapters
    /\ Is(c, s, k, h, g, Y, Errors("out"), 1, "values", KindIs("failure"), FailingBy, Item)
MappedLane(c, s, k, h, g, Y) ==
  /\ op = "mapErr"
  /\ \/ Is(c, s, k, h, g, Y, Values("out"), 1, "errors", KindIs("recovered"), Recovering, Item)
     \/ Is(c, s, k, h, g, Y, Errors("out"), 1, "errors", KindIs("replaced"), Replacing, Item)
AnswersLane(c, s, k, h, g, Y) ==
  op \in {"call", "queryEach", "get"} /\ Is(c, s, k, h, g, Y, Values("out"), 1, "values", Itself, AnsweredBy, Item)
PublishedLane(c, s, k, h, g, Y) ==
  /\ op = "publish"
  /\ \/ Is(c, s, k, h, g, Y, Errors("out"), 1, "errors", KindIs("errors"), OfClass("a"), Item)
     \/ Is(c, s, k, h, g, Y, Values("channel"), 1, "errors", KindIs("errors"), OfClass("b"), Item)

LEMMA ItemFunctions ==
  /\ \A d : KindIs(d) \in [Item -> Seq(Item)] /\ OfClass(d) \in [Item -> Seq(Item)]
  /\ Itself \in [Item -> Seq(Item)] /\ FailingBy \in [Item -> Seq(Item)]
  /\ AnsweredBy \in [Item -> Seq(Item)]
  /\ Recovering \in [Item -> Seq(Item)] /\ Replacing \in [Item -> Seq(Item)]
BY WhenIn, One, ItemKinds DEF KindIs, OfClass, Itself, FailingBy, AnsweredBy, Recovering, Replacing

LEMMA ItemLane ==
  ASSUME Ctl, NEW c \in ChannelsOf(op), NEW k \in Kinds, NEW h \in [Item -> Seq(Item)],
         NEW g \in [Item -> Seq(Item)],
         c[1] = "errors" => ~Soft(op, c), c[1] # "errors" => Results(op) = Item
  PROVE  Lane(c, 1, k, h, g, Item) /\ WhatOf(op, c) = Item
<1>1. WhatOf(op, c) = Item /\ 1 \in SourcesOf(op)
  BY DEF WhatOf, SourcesOf
<1> QED BY <1>1 DEF Lane

\* A lane of errors or of failures is heard only on an Errors channel.
LEMMA TimersSilent ==
  ASSUME Ctl, NEW c, NEW s, NEW k, NEW h, NEW g, NEW Y, Lane(c, s, k, h, g, Y), c[1] = "errors"
  PROVE  /\ op = "buffer" => Brings(Flush(mem).sends, c, h, <<>>)
         /\ op = "debounce" => Brings(Silence(mem).sends, c, h, <<>>)
         /\ op = "window" => Brings(Tick(mem).sends, c, h, <<>>) /\ Brings(Remainder(mem).sends, c, h, <<>>)
<1>1. mem \in MemOf(op)
  BY DEF Ctl
<1>2. ASSUME NEW q, NEW x, q \in {<<>>, <<Must(Values("out"), x)>>, <<Wait(Values("out"), x)>>},
             q \in Seq(SendsOf(op))
      PROVE  Brings(q, c, h, <<>>)
  <2>1. Silent(q, c, h)
    BY <1>2 DEF Silent, Must, Wait, Values
  <2> QED BY <1>2, <2>1, SilentBrings
<1>3. ASSUME op = "buffer" PROVE Brings(Flush(mem).sends, c, h, <<>>)
  <2>1. Flush(mem).sends \in {<<>>, <<Wait(Values("out"), mem.batch)>>}
    BY DEF Flush, Keep, Then
  <2> QED BY <1>1, <1>2, <1>3, <2>1, TimerProper DEF Proper
<1>4. ASSUME op = "debounce" PROVE Brings(Silence(mem).sends, c, h, <<>>)
  <2>1. Silence(mem).sends \in {<<>>, <<Must(Values("out"), mem.batch[1])>>}
    BY DEF Silence, Keep, Emit, Then
  <2> QED BY <1>1, <1>2, <1>4, <2>1, TimerProper DEF Proper
<1>5. ASSUME op = "window"
      PROVE  Brings(Tick(mem).sends, c, h, <<>>) /\ Brings(Remainder(mem).sends, c, h, <<>>)
  <2>1. /\ Tick(mem).sends \in {<<>>, <<Must(Values("out"), mem.batch)>>}
        /\ Remainder(mem).sends \in {<<>>, <<Must(Values("out"), mem.batch)>>}
    BY DEF Tick, Remainder, Keep, Emit, Then
  <2> QED BY <1>1, <1>2, <1>5, <2>1, TimerProper DEF Proper
<1> QED BY <1>3, <1>4, <1>5

\* Only the first source has errors.
LEMMA ErrorsOfFirst ==
  ASSUME Ctl, NEW t \in SourcesOf(op), left[t]["errors"] # <<>>
  PROVE  t = 1 /\ op \notin {"from", "fromCodec"}
<1>1. SUFFICES ASSUME t # 1 \/ op \in {"from", "fromCodec"} PROVE FALSE
  OBVIOUS
<1>2. input[t]["errors"] = <<>>
  BY <1>1 DEF Ctl, InputOK
<1>3. Rest(left[t]["errors"], input[t]["errors"]) /\ left[t]["errors"] \in Seq(Item)
  BY LineKinds DEF Ctl, LeftOK, Kinds
<1> QED BY <1>2, <1>3, RestNone

\* A lane of the errors: it is fed when the error case feeds it.
LEMMA ErrorFeeds ==
  ASSUME Ctl, NEW c, NEW h, NEW g, NEW Y, Lane(c, 1, "errors", h, g, Y),
         op \notin Holding \/ c[1] = "errors",
         c[1] = "values" => op \in {"mapErr", "publish"},
         \A v \in Item : h[FailureOf(v)] = <<>> \/ c[1] = "values",
         \A v \in Item : v.kind = "values" /\ Fine(op, v) => Silent(OnValue(mem, 1, v).sends, c, h) \/ c[1] = "errors",
         \A e \in Item : e.kind = "errors" /\ Fine(op, e) => Brings(OnError(mem, e).sends, c, h, g[e])
  PROVE  Feeds(c, 1, "errors", h, g)
<1>1. ASSUME NEW t \in SourcesOf(op), NEW j \in Kinds, left[t][j] # <<>>
      PROVE  Brings(CaseAt(t, j).sends, c, h, IF t = 1 /\ j = "errors" THEN g[Head(left[t][j])] ELSE <<>>)
  <2> DEFINE v == Head(left[t][j])
             q == CaseAt(t, j).sends
  <2>1. /\ q \in Seq(SendsOf(op)) /\ v \in Item /\ Fine(op, v) /\ v.kind = j /\ v.src = t
        /\ (j = "values" => CaseAt(t, j) = OnValue(mem, t, v) /\ Reports(q, FailureOf(v)))
        /\ (j = "errors" => CaseAt(t, j) = OnError(mem, v))
    BY <1>1, CaseSends
  <2> HIDE DEF v
  <2>2. CASE j = "values"
    <3>1. CASE c[1] = "errors"
      <4> HIDE DEF q
      <4>1. ASSUME NEW i \in 1..Len(q), q[i].to = c PROVE h[q[i].what] = <<>>
        BY <2>1, <2>2, <3>1, <4>1 DEF Reports
      <4>2. Silent(q, c, h)
        BY <4>1 DEF Silent
      <4> QED BY <2>1, <2>2, <4>2, SilentBrings DEF q
    <3>2. CASE c[1] # "errors"
      <4>1. c[1] = "values" /\ t = 1
        BY <3>2 DEF Lane, ChannelsOf, Kinds, SourcesOf
      <4>2. Silent(q, c, h)
        BY <2>1, <2>2, <4>1
      <4> HIDE DEF q
      <4> QED BY <2>1, <2>2, <4>2, SilentBrings DEF q
    <3> QED BY <3>1, <3>2
  <2>3. CASE j = "errors"
    <3>1. t = 1
      BY <1>1, <2>3, ErrorsOfFirst
    <3>2. Brings(OnError(mem, v).sends, c, h, g[v])
      BY <2>1, <2>3
    <3> QED BY <2>1, <2>3, <3>1, <3>2 DEF v
  <2> QED BY <2>2, <2>3 DEF Kinds
<1>2. c[1] = "errors" \/ op \notin {"buffer", "debounce", "window"}
  BY DEF Lane, ChannelsOf, Kinds
<1> QED BY <1>1, <1>2, PlainFeeds, TimersSilent

LEMMA ErrorsLaneFed ==
  ASSUME Ctl, NEW o \in ErrorOwners
  PROVE  Lane(Errors(o), 1, "errors", KindIs("errors"), Itself, Item)
         /\ Feeds(Errors(o), 1, "errors", KindIs("errors"), Itself)
<1> DEFINE c == Errors(o)
           h == KindIs("errors")
<1>1. o \in OutputsOf(op) /\ op \in OpNames
        /\ op \notin {"splitEither", "groupBy", "mapErr", "publish"}
  BY DEF ErrorOwners, OutputsOf, Ctl, InputOK
<1>2. c \in ChannelsOf(op) /\ c[1] = "errors" /\ ~Soft(op, c) /\ "errors" \in Kinds
  BY <1>1, ChannelIs DEF Errors, Soft, Kinds
<1>3. Lane(c, 1, "errors", h, Itself, Item) /\ WhatOf(op, c) = Item
  BY <1>2, ItemFunctions, ItemLane
<1>4. \A v \in Item : h[FailureOf(v)] = <<>>
  BY ItemKinds, KindsApart DEF KindIs, When
<1>5. ASSUME NEW e \in Item, e.kind = "errors", Fine(op, e)
      PROVE  Brings(OnError(mem, e).sends, c, h, Itself[e])
  <2>1. h[e] = <<e>> /\ Itself[e] = <<e>>
    BY <1>5 DEF KindIs, When, Itself
  <2>2. \A p \in OutputsOf(op) : Errors(p) \in ChannelsOf(op) /\ e \in WhatOf(op, Errors(p))
    BY ChannelIs DEF WhatOf, Errors
  <2>3. \A p : Errors(p) = c <=> p = o
    BY DEF Errors
  <2> HIDE DEF c, h
  <2>4. \A p \in OutputsOf(op) :
           /\ Brings(<<Must(Errors(p), e)>>, c, h, IF Errors(p) = c THEN h[e] ELSE <<>>)
           /\ Brings(<<Do(Errors(p), e)>>, c, h, IF Errors(p) = c THEN h[e] ELSE <<>>)
    BY <1>3, <2>2, ItemBrings
  <2>5. CASE op = "tee"
    <3>1. {"a", "b"} = OutputsOf(op) /\ Errors("a") # Errors("b")
      BY <2>5 DEF OutputsOf, Errors
    <3>2. PICK d1, d2 : d1 = Errors("a") /\ d2 = Errors("b")
      OBVIOUS
    <3>3. Brings(<<Must(d1, e), Must(d2, e)>>, c, h, IF d1 = c THEN h[e] ELSE IF d2 = c THEN h[e] ELSE <<>>)
      BY <1>3, <2>2, <3>1, <3>2, PairBrings
    <3>4. OnError(mem, e).sends = <<Must(d1, e), Must(d2, e)>>
      BY <2>5, <3>2 DEF OnError, TeeError, Then
    <3> QED BY <1>1, <2>1, <2>3, <3>1, <3>2, <3>3, <3>4
  <2>6. CASE op \in {"switch", "switchType2", "switchType3"}
    <3>1. OnError(mem, e).sends = <<Must(Errors("rest"), e)>> /\ o = "rest"
      BY <2>6 DEF OnError, RestError, Fail, Then, ErrorOwners
    <3> QED BY <1>1, <2>1, <2>3, <2>4, <3>1
  <2>7. CASE op = "drain"
    <3>1. OnError(mem, e).sends = <<Do(Errors("out"), e)>> /\ o = "out"
      BY <1>1, <2>7 DEF OnError, WriteError, Then, OutputsOf
    <3> QED BY <1>1, <2>1, <2>3, <2>4, <3>1
  <2>8. CASE op \notin {"tee", "switch", "switchType2", "switchType3", "drain"}
    <3>1. OnError(mem, e).sends = <<Must(Errors("out"), e)>> /\ o = "out"
      BY <1>1, <2>8 DEF OnError, Fail, Then, OutputsOf
    <3> QED BY <1>1, <2>1, <2>3, <2>4, <3>1
  <2> QED BY <2>5, <2>6, <2>7, <2>8
<1>6. Feeds(c, 1, "errors", h, Itself)
  <2> HIDE DEF c, h
  <2> QED BY <1>2, <1>3, <1>4, <1>5, ErrorFeeds
<1> QED BY <1>3, <1>6

\* What MapErr makes of an error.
LEMMA MappedLaneFed ==
  ASSUME Ctl, op = "mapErr"
  PROVE  /\ /\ Lane(Values("out"), 1, "errors", KindIs("recovered"), Recovering, Item)
            /\ Feeds(Values("out"), 1, "errors", KindIs("recovered"), Recovering)
         /\ /\ Lane(Errors("out"), 1, "errors", KindIs("replaced"), Replacing, Item)
            /\ Feeds(Errors("out"), 1, "errors", KindIs("replaced"), Replacing)
<1>1. /\ Values("out") \in ChannelsOf(op) /\ Errors("out") \in ChannelsOf(op)
      /\ Values("out")[1] = "values"
      /\ Errors("out")[1] = "errors" /\ Errors("out") # Values("out") /\ ~Soft(op, Errors("out"))
      /\ Results(op) = Item
      /\ "errors" \in Kinds /\ op \notin Holding
  BY ChannelIs DEF OutputsOf, Errors, Values, Soft, Results, Kinds, Holding
<1>2. PICK c, d : c = Values("out") /\ d = Errors("out")
  OBVIOUS
<1>3. PICK h1, h2 : h1 = KindIs("recovered") /\ h2 = KindIs("replaced")
  OBVIOUS
<1>4. /\ Lane(c, 1, "errors", h1, Recovering, Item) /\ WhatOf(op, c) = Item
      /\ Lane(d, 1, "errors", h2, Replacing, Item) /\ WhatOf(op, d) = Item
  BY <1>1, <1>2, <1>3, ItemFunctions, ItemLane
<1>5. \A v \in Item : /\ h1[v] = When(v.kind = "recovered", v)
                      /\ h2[v] = When(v.kind = "replaced", v)
                      /\ Recovering[v] = When(v.class = "a", RecoveredOf(v))
                      /\ Replacing[v] = When(v.class = "b", ReplacedBy(v))
  BY <1>3 DEF KindIs, Recovering, Replacing
<1>6. \A v \in Item : h2[FailureOf(v)] = <<>>
  BY <1>5, ItemKinds, KindsApart DEF When
<1>7. \A v \in Item : v.kind = "values" => Silent(OnValue(mem, 1, v).sends, c, h1)
  <2>1. ASSUME NEW v \in Item, v.kind = "values" PROVE Silent(OnValue(mem, 1, v).sends, c, h1)
    <3>1. OnValue(mem, 1, v).sends = <<Must(Values("out"), v)>> /\ Must(Values("out"), v).what = v
      BY DEF OnValue, Tap, Emit, Then, Must
    <3>2. h1[v] = <<>>
      BY <1>5, <2>1 DEF When
    <3> QED BY <3>1, <3>2 DEF Silent
  <2> QED BY <2>1
<1>8. ASSUME NEW e \in Item, e.kind = "errors"
      PROVE  Brings(OnError(mem, e).sends, c, h1, Recovering[e])
               /\ Brings(OnError(mem, e).sends, d, h2, Replacing[e])
  <2> DEFINE q == OnError(mem, e).sends
  <2>1. RecoveredOf(e) \in Item /\ ReplacedBy(e) \in Item /\ RecoveredOf(e).kind = "recovered"
          /\ ReplacedBy(e).kind = "replaced"
    BY ItemKinds, KindsApart
  <2>2. q = IF e.class = "a" THEN <<Must(c, RecoveredOf(e))>>
            ELSE IF e.class = "b" THEN <<Must(d, ReplacedBy(e))>> ELSE <<>>
    BY <1>2 DEF OnError, MapErr, Emit, Fail, Keep, Then
  <2>3. /\ Brings(<<Must(c, RecoveredOf(e))>>, c, h1, h1[RecoveredOf(e)])
        /\ Brings(<<Must(c, RecoveredOf(e))>>, d, h2, <<>>)
        /\ Brings(<<Must(d, ReplacedBy(e))>>, c, h1, <<>>)
        /\ Brings(<<Must(d, ReplacedBy(e))>>, d, h2, h2[ReplacedBy(e)])
    BY <1>1, <1>2, <1>4, <2>1, ItemBrings
  <2>4. Brings(<<>>, c, h1, <<>>) /\ Brings(<<>>, d, h2, <<>>)
    BY NoneBrings
  <2>5. /\ Recovering[e] = (IF e.class = "a" THEN <<RecoveredOf(e)>> ELSE <<>>) /\ h1[RecoveredOf(e)] = <<RecoveredOf(e)>>
        /\ Replacing[e] = (IF e.class = "b" THEN <<ReplacedBy(e)>> ELSE <<>>) /\ h2[ReplacedBy(e)] = <<ReplacedBy(e)>>
    BY <1>5, <2>1 DEF When
  <2> HIDE DEF q
  <2>6. Brings(q, c, h1, Recovering[e]) /\ Brings(q, d, h2, Replacing[e])
    BY <2>2, <2>3, <2>4, <2>5
  <2> QED BY <2>6 DEF q
<1>9. Feeds(c, 1, "errors", h1, Recovering)
  <2>1. c[1] = "values" /\ op \in {"mapErr", "publish"} /\ op \notin Holding
    BY <1>1, <1>2
  <2>2. /\ \A v \in Item : h1[FailureOf(v)] = <<>> \/ c[1] = "values"
        /\ \A v \in Item : v.kind = "values" /\ Fine(op, v) => Silent(OnValue(mem, 1, v).sends, c, h1) \/ c[1] = "errors"
        /\ \A e \in Item : e.kind = "errors" /\ Fine(op, e) => Brings(OnError(mem, e).sends, c, h1, Recovering[e])
    BY <1>7, <1>8, <2>1
  <2> QED BY <1>4, <2>1, <2>2, ErrorFeeds
<1>10. Feeds(d, 1, "errors", h2, Replacing)
  <2>1. d[1] = "errors"
    BY <1>1, <1>2
  <2>2. /\ \A v \in Item : h2[FailureOf(v)] = <<>> \/ d[1] = "values"
        /\ \A v \in Item : v.kind = "values" /\ Fine(op, v) => Silent(OnValue(mem, 1, v).sends, d, h2) \/ d[1] = "errors"
        /\ \A e \in Item : e.kind = "errors" /\ Fine(op, e) => Brings(OnError(mem, e).sends, d, h2, Replacing[e])
    BY <1>6, <1>8, <2>1
  <2> QED BY <1>4, <2>1, <2>2, ErrorFeeds
<1> QED BY <1>2, <1>3, <1>4, <1>9, <1>10

\* An error of a sink goes to OnError or to the error channel.
LEMMA PublishedLaneFed ==
  ASSUME Ctl, op = "publish"
  PROVE  /\ /\ Lane(Errors("out"), 1, "errors", KindIs("errors"), OfClass("a"), Item)
            /\ Feeds(Errors("out"), 1, "errors", KindIs("errors"), OfClass("a"))
         /\ /\ Lane(Values("channel"), 1, "errors", KindIs("errors"), OfClass("b"), Item)
            /\ Feeds(Values("channel"), 1, "errors", KindIs("errors"), OfClass("b"))
<1>1. /\ Values("channel") \in ChannelsOf(op) /\ Errors("out") \in ChannelsOf(op)
      /\ Values("channel")[1] = "values"
      /\ Errors("out")[1] = "errors" /\ Errors("out") # Values("channel")
      /\ ~Soft(op, Errors("out")) /\ Results(op) = Item
      /\ "errors" \in Kinds /\ op \notin Holding
  BY ChannelIs DEF OutputsOf, Errors, Values, Soft, Results, Kinds, Holding
<1>2. PICK c, d : c = Values("channel") /\ d = Errors("out")
  OBVIOUS
<1>3. PICK h, g1, g2 : h = KindIs("errors") /\ g1 = OfClass("a") /\ g2 = OfClass("b")
  OBVIOUS
<1>4. /\ Lane(c, 1, "errors", h, g2, Item) /\ WhatOf(op, c) = Item
      /\ Lane(d, 1, "errors", h, g1, Item) /\ WhatOf(op, d) = Item
  BY <1>1, <1>2, <1>3, ItemFunctions, ItemLane
<1>5. \A v \in Item : /\ h[v] = When(v.kind = "errors", v)
                      /\ g1[v] = When(v.class = "a", v) /\ g2[v] = When(v.class = "b", v)
  BY <1>3 DEF KindIs, OfClass
<1>6. \A v \in Item : h[FailureOf(v)] = <<>>
  BY <1>5, ItemKinds, KindsApart DEF When
<1>7. \A v \in Item : Silent(OnValue(mem, 1, v).sends, c, h)
  <2>1. ASSUME NEW v \in Item PROVE Silent(OnValue(mem, 1, v).sends, c, h)
    <3>1. OnValue(mem, 1, v).sends \in {<<Do(Values("out"), v)>>, <<Do(Errors("out"), FailureOf(v))>>}
      BY DEF OnValue, Write, Then, Sinks
    <3>2. Do(Values("out"), v).to # c /\ Do(Errors("out"), FailureOf(v)).to # c
      BY <1>2 DEF Do, Values, Errors
    <3> QED BY <3>1, <3>2 DEF Silent
  <2> QED BY <2>1
<1>8. ASSUME NEW e \in Item, e.kind = "errors"
      PROVE  Brings(OnError(mem, e).sends, c, h, g2[e])
               /\ Brings(OnError(mem, e).sends, d, h, g1[e])
  <2> DEFINE q == OnError(mem, e).sends
  <2>2. q = IF e.class = "a" THEN <<Do(d, e)>> ELSE IF e.class = "b" THEN <<Do(c, e)>> ELSE <<>>
    BY <1>2 DEF OnError, PublishError, WriteError, Keep, Then
  <2>3. /\ Brings(<<Do(c, e)>>, c, h, h[e]) /\ Brings(<<Do(c, e)>>, d, h, <<>>)
        /\ Brings(<<Do(d, e)>>, c, h, <<>>) /\ Brings(<<Do(d, e)>>, d, h, h[e])
    BY <1>1, <1>2, <1>4, ItemBrings
  <2>4. Brings(<<>>, c, h, <<>>) /\ Brings(<<>>, d, h, <<>>)
    BY NoneBrings
  <2>5. /\ g1[e] = (IF e.class = "a" THEN <<e>> ELSE <<>>) /\ h[e] = <<e>>
        /\ g2[e] = (IF e.class = "b" THEN <<e>> ELSE <<>>)
    BY <1>5, <1>8 DEF When
  <2> HIDE DEF q
  <2>6. Brings(q, c, h, g2[e]) /\ Brings(q, d, h, g1[e])
    BY <2>2, <2>3, <2>4, <2>5
  <2> QED BY <2>6 DEF q
<1>9. Feeds(c, 1, "errors", h, g2)
  <2>1. c[1] = "values" /\ op \in {"mapErr", "publish"} /\ op \notin Holding
    BY <1>1, <1>2
  <2>2. /\ \A v \in Item : h[FailureOf(v)] = <<>> \/ c[1] = "values"
        /\ \A v \in Item : v.kind = "values" /\ Fine(op, v) => Silent(OnValue(mem, 1, v).sends, c, h) \/ c[1] = "errors"
        /\ \A e \in Item : e.kind = "errors" /\ Fine(op, e) => Brings(OnError(mem, e).sends, c, h, g2[e])
    BY <1>7, <1>8, <2>1
  <2> QED BY <1>4, <2>1, <2>2, ErrorFeeds
<1>10. Feeds(d, 1, "errors", h, g1)
  <2>1. d[1] = "errors"
    BY <1>1, <1>2
  <2>2. /\ \A v \in Item : h[FailureOf(v)] = <<>> \/ d[1] = "values"
        /\ \A v \in Item : v.kind = "values" /\ Fine(op, v) => Silent(OnValue(mem, 1, v).sends, d, h) \/ d[1] = "errors"
        /\ \A e \in Item : e.kind = "errors" /\ Fine(op, e) => Brings(OnError(mem, e).sends, d, h, g1[e])
    BY <1>6, <1>8, <2>1
  <2> QED BY <1>4, <2>1, <2>2, ErrorFeeds
<1> QED BY <1>2, <1>3, <1>4, <1>9, <1>10

-----------------------------------------------------------------------------
(* The adapters: what a call answers, and the values that fail.              *)
Acts(q, v, c, d, f, x) ==
  /\ op \in {"call", "queryEach", "get"} => x = ResponseOf(v)
  /\ q = IF Failing(v)
         THEN IF op = "queryEach" /\ v.class = "b" THEN <<Must(c, x), Must(d, f)>>
              ELSE IF op = "set" THEN <<Must(d, f), Must(c, x)>>
              ELSE IF op \in Sinks THEN <<Do(d, f)>> ELSE <<Must(d, f)>>
         ELSE IF op \in Sinks THEN <<Do(c, x)>>
         ELSE IF op = "get" /\ v.class = "b" THEN <<>> ELSE <<Must(c, x)>>
LEMMA AdapterSends ==
  ASSUME Ctl, NEW v \in Item, Fine(op, v), NEW s,
         op \in {"apply", "map", "fromCodec"} \cup Adapters,
         NEW c, NEW d, c = Values("out"), d = Errors("out"), NEW f, f = FailureOf(v)
  PROVE  \E x \in WhatOf(op, c) :
           Acts(OnValue(mem, s, v).sends, v, c, d, f, x)
<1>1. ResponseOf(v) \in Item /\ v.class \in {"a", "b", "c", "d"}
        /\ (op # "switchType3" => v.class # "d")
  BY ItemKinds DEF Fine, Item
<1>2. WhatOf(op, c) = Item
  BY DEF WhatOf, Values, Results, Adapters, Sinks
<1>3. CASE op \in {"apply", "map", "fromCodec"}
  <2>1. v \in WhatOf(op, c)
    BY <1>2
  <2>2. OnValue(mem, s, v).sends = IF v.class = "c" THEN <<Must(d, f)>> ELSE <<Must(c, v)>>
    BY <1>3 DEF OnValue, Apply, Map, Decode, Emit, Fail, Then
  <2> QED BY <1>3, <2>1, <2>2 DEF Failing, Sinks, Acts
<1>4. CASE op \in {"call", "queryEach", "get"}
  <2>1. ResponseOf(v) \in WhatOf(op, c)
    BY <1>1, <1>2
  <2>2. OnValue(mem, s, v).sends =
          IF v.class = "a" THEN <<Must(c, ResponseOf(v))>>
          ELSE IF v.class = "c" THEN <<Must(d, f)>>
          ELSE IF op = "call" THEN <<Must(c, ResponseOf(v))>>
          ELSE IF op = "get" THEN <<>> ELSE <<Must(c, ResponseOf(v)), Must(d, f)>>
    BY <1>1, <1>4 DEF OnValue, Call, QueryEach, Get, Emit, Fail, Keep, Then
  <2> QED BY <1>1, <1>4, <2>1, <2>2 DEF Failing, Sinks, Acts
<1>5. CASE op = "set"
  <2>1. v \in WhatOf(op, c)
    BY <1>2
  <2>2. /\ <<Must(d, f)>> \o <<Must(c, v)>> = <<Must(d, f), Must(c, v)>>
        /\ <<>> \o <<Must(c, v)>> = <<Must(c, v)>>
    BY TwoOfOne
  <2>3. OnValue(mem, s, v).sends = IF v.class = "c" THEN <<Must(d, f), Must(c, v)>> ELSE <<Must(c, v)>>
    BY <1>5, <2>2 DEF OnValue, Set, Then
  <2> QED BY <1>5, <2>1, <2>3 DEF Failing, Sinks, Acts
<1>6. CASE op \in Sinks
  <2>1. v \in WhatOf(op, c)
    BY <1>2
  <2>2. OnValue(mem, s, v).sends = IF v.class = "c" THEN <<Do(d, f)>> ELSE <<Do(c, v)>>
    BY <1>6 DEF OnValue, Write, Then, Sinks
  <2> QED BY <1>6, <2>1, <2>2 DEF Failing, Sinks, Acts
<1> QED BY <1>3, <1>4, <1>5, <1>6 DEF Adapters

LEMMA FailuresLaneFed ==
  ASSUME Ctl, op \in {"apply", "map", "fromCodec"} \cup Adapters
  PROVE  /\ Lane(Errors("out"), 1, "values", KindIs("failure"), FailingBy, Item)
         /\ Feeds(Errors("out"), 1, "values", KindIs("failure"), FailingBy)
<1>1. PICK c, d : c = Values("out") /\ d = Errors("out")
  OBVIOUS
<1>2. /\ c \in ChannelsOf(op) /\ d \in ChannelsOf(op) /\ d[1] = "errors" /\ c # d /\ ~Soft(op, d)
      /\ "values" \in Kinds /\ op \notin Holding
  BY <1>1, ChannelIs DEF OutputsOf, Errors, Values, Soft, Kinds, Holding, Adapters, Sinks
<1>3. PICK h : h = KindIs("failure")
  OBVIOUS
<1>4. Lane(d, 1, "values", h, FailingBy, Item) /\ WhatOf(op, d) = Item
  BY <1>2, <1>3, ItemFunctions, ItemLane
<1>5. \A v \in Item : h[v] = When(v.kind = "failure", v)
        /\ FailingBy[v] = When(Failing(v), FailureOf(v))
  BY <1>3 DEF KindIs, FailingBy
<1>6. SourcesOf(op) = {1}
  BY DEF SourcesOf, Adapters, Sinks
<1>7. ASSUME NEW t \in SourcesOf(op), NEW j \in Kinds, left[t][j] # <<>>
      PROVE  Brings(CaseAt(t, j).sends, d, h, IF t = 1 /\ j = "values" THEN FailingBy[Head(left[t][j])] ELSE <<>>)
  <2> DEFINE v == Head(left[t][j])
             q == CaseAt(t, j).sends
  <2>1. /\ q \in Seq(SendsOf(op)) /\ v \in Item /\ Fine(op, v) /\ v.kind = j /\ v.src = t
        /\ (j = "values" => q = OnValue(mem, t, v).sends)
        /\ (j = "errors" => Passes(q, v))
    BY <1>7, CaseSends
  <2> HIDE DEF v
  <2>2. CASE j = "values"
    <3>1. PICK f : f = FailureOf(v)
      OBVIOUS
    <3>2. PICK x \in WhatOf(op, c) :
            Acts(OnValue(mem, t, v).sends, v, c, d, f, x)
      BY <1>1, <2>1, <3>1, AdapterSends
    <3>3. f \in WhatOf(op, d) /\ h[f] = <<f>>
      BY <1>4, <1>5, <2>1, <3>1, ItemKinds, KindsApart DEF When
    <3>4. /\ Brings(<<Must(c, x)>>, d, h, <<>>) /\ Brings(<<Do(c, x)>>, d, h, <<>>)
          /\ Brings(<<Must(d, f)>>, d, h, <<f>>) /\ Brings(<<Do(d, f)>>, d, h, <<f>>)
      BY <1>2, <1>4, <3>2, <3>3, ItemBrings
    <3>5. Brings(<<Must(c, x), Must(d, f)>>, d, h, <<f>>)
      BY <1>2, <1>4, <3>2, <3>3, PairBrings
    <3>6. Brings(<<Must(d, f), Must(c, x)>>, d, h, <<f>>)
      BY <1>2, <1>4, <3>2, <3>3, PairBrings
    <3>7. Brings(<<>>, d, h, <<>>)
      BY NoneBrings
    <3>8. FailingBy[v] = IF Failing(v) THEN <<f>> ELSE <<>>
      BY <1>5, <2>1, <3>1 DEF When
    <3> HIDE DEF q
    <3>9. Brings(q, d, h, FailingBy[v])
      BY <2>1, <2>2, <3>2, <3>4, <3>5, <3>6, <3>7, <3>8 DEF Acts
    <3> QED BY <1>6, <2>2, <3>9 DEF v, q
  <2>3. CASE j = "errors"
    <3> HIDE DEF q
    <3>1. ASSUME NEW i \in 1..Len(q), q[i].to = d PROVE h[q[i].what] = <<>>
      <4>1. q[i].what = v
        BY <1>2, <2>1, <2>3, <3>1 DEF Passes, PassOne, Adapters, Sinks
      <4> QED BY <1>5, <2>1, <2>3, <4>1 DEF When
    <3>2. Silent(q, d, h)
      BY <3>1 DEF Silent
    <3>3. Brings(q, d, h, <<>>)
      BY <1>4, <2>1, <3>2, SilentBrings
    <3> QED BY <2>3, <3>3 DEF q
  <2> QED BY <2>2, <2>3 DEF Kinds
<1>8. Feeds(d, 1, "values", h, FailingBy)
  BY <1>2, <1>4, <1>7, PlainFeeds, TimersSilent
<1> QED BY <1>1, <1>3, <1>4, <1>8

LEMMA AnswersLaneFed ==
  ASSUME Ctl, op \in {"call", "queryEach", "get"}
  PROVE  /\ Lane(Values("out"), 1, "values", Itself, AnsweredBy, Item)
         /\ Feeds(Values("out"), 1, "values", Itself, AnsweredBy)
<1>1. PICK c, d : c = Values("out") /\ d = Errors("out")
  OBVIOUS
<1>2. /\ c \in ChannelsOf(op) /\ d \in ChannelsOf(op) /\ c[1] = "values" /\ d[1] = "errors" /\ c # d
      /\ "values" \in Kinds /\ op \notin Holding /\ Results(op) = Item
  BY <1>1, ChannelIs DEF OutputsOf, Errors, Values, Results, Kinds, Holding
<1>3. PICK h : h = Itself
  OBVIOUS
<1>4. Lane(c, 1, "values", h, AnsweredBy, Item) /\ WhatOf(op, c) = Item
  BY <1>2, <1>3, ItemFunctions, ItemLane
<1>5. \A v \in Item : h[v] = <<v>> /\ AnsweredBy[v] = When(Answered(v), ResponseOf(v))
  BY <1>3 DEF Itself, AnsweredBy
<1>6. SourcesOf(op) = {1}
  BY DEF SourcesOf
<1>7. ASSUME NEW t \in SourcesOf(op), NEW j \in Kinds, left[t][j] # <<>>
      PROVE  Brings(CaseAt(t, j).sends, c, h, IF t = 1 /\ j = "values" THEN AnsweredBy[Head(left[t][j])] ELSE <<>>)
  <2> DEFINE v == Head(left[t][j])
             q == CaseAt(t, j).sends
  <2>1. /\ q \in Seq(SendsOf(op)) /\ v \in Item /\ Fine(op, v) /\ v.kind = j /\ v.src = t
        /\ (j = "values" => q = OnValue(mem, t, v).sends)
        /\ (j = "errors" => Passes(q, v))
    BY <1>7, CaseSends
  <2> HIDE DEF v
  <2>2. CASE j = "values"
    <3>1. PICK f : f = FailureOf(v)
      OBVIOUS
    <3>2. PICK x \in WhatOf(op, c) :
            Acts(OnValue(mem, t, v).sends, v, c, d, f, x)
      <4>1. op \in {"apply", "map", "fromCodec"} \cup Adapters
        BY DEF Adapters
      <4> QED BY <1>1, <2>1, <3>1, <4>1, AdapterSends
    <3>3. f \in WhatOf(op, d) /\ h[x] = <<x>> /\ x = ResponseOf(v)
      BY <1>2, <1>4, <1>5, <2>1, <3>1, <3>2, ItemKinds DEF WhatOf, Acts
    <3>4. /\ Brings(<<Must(c, x)>>, c, h, <<x>>) /\ Brings(<<Must(d, f)>>, c, h, <<>>)
      BY <1>2, <1>4, <3>2, <3>3, ItemBrings
    <3>5. Brings(<<Must(c, x), Must(d, f)>>, c, h, <<x>>)
      BY <1>2, <1>4, <3>2, <3>3, PairBrings
    <3>7. Brings(<<>>, c, h, <<>>)
      BY NoneBrings
    <3>8. AnsweredBy[v] = (IF Answered(v) THEN <<x>> ELSE <<>>) /\ v.class \in {"a", "b", "c"}
      BY <1>5, <2>1, <3>3 DEF When, Fine, Item
    <3> HIDE DEF q
    <3>9. Brings(q, c, h, AnsweredBy[v])
      BY <2>1, <2>2, <3>2, <3>4, <3>5, <3>7, <3>8 DEF Answered, Failing, Sinks, Acts
    <3> QED BY <1>6, <2>2, <3>9 DEF v, q
  <2>3. CASE j = "errors"
    <3> HIDE DEF q
    <3>1. ASSUME NEW i \in 1..Len(q) PROVE q[i].to # c
      <4>1. q[i].to[1] # "values"
        BY <2>1, <2>3 DEF Passes, PassOne
      <4> QED BY <1>2, <4>1
    <3>2. Silent(q, c, h)
      BY <3>1 DEF Silent
    <3>3. Brings(q, c, h, <<>>)
      BY <1>4, <2>1, <3>2, SilentBrings
    <3> QED BY <2>3, <3>3 DEF q
  <2> QED BY <2>2, <2>3 DEF Kinds
<1>8. Feeds(c, 1, "values", h, AnsweredBy)
  BY <1>2, <1>4, <1>7, PlainFeeds
<1> QED BY <1>1, <1>3, <1>4, <1>8

-----------------------------------------------------------------------------
(* Items that each stand for one other.                                      *)
Matches(q, f, x) == Len(q) = Len(x) /\ \A i \in 1..Len(q) : f[q[i]] = <<x[i]>>
LEMMA AppendCat == ASSUME NEW Y, NEW a \in Seq(Y), NEW y \in Y PROVE a \o <<y>> = Append(a, y)
<1>1. /\ a \o <<y>> \in Seq(Y) /\ Append(a, y) \in Seq(Y)
      /\ Len(a \o <<y>>) = Len(a) + 1 /\ Len(Append(a, y)) = Len(a) + 1
  OBVIOUS
<1>2. \A i \in 1..(Len(a) + 1) : (a \o <<y>>)[i] = Append(a, y)[i]
  OBVIOUS
<1> QED BY <1>1, <1>2, SeqEqual
LEMMA GatherEach ==
  ASSUME NEW X, NEW Y, NEW f \in [X -> Seq(Y)], NEW q \in Seq(X), NEW x \in Seq(Y), Matches(q, f, x)
  PROVE  Gather(q, f) = x
<1> DEFINE T == {n \in Nat : \A r \in Seq(X), z \in Seq(Y) : Len(r) = n /\ Matches(r, f, z) => Gather(r, f) = z}
<1>1. 0 \in T
  BY EmptySeq, GatherNone DEF Matches
<1>2. ASSUME NEW n \in Nat, n \in T PROVE n + 1 \in T
  <2>1. ASSUME NEW r \in Seq(X), NEW z \in Seq(Y), Len(r) = n + 1, Matches(r, f, z)
        PROVE  Gather(r, f) = z
    <3>0. HasLast(r, X, n) /\ HasLast(z, Y, n)
      BY <2>1, LastOff DEF Matches
    <3>1. PICK t \in Seq(X), u \in X : Len(t) = n /\ r = Append(t, u)
      BY <3>0 DEF HasLast
    <3>2. PICK w \in Seq(Y), y \in Y : Len(w) = n /\ z = Append(w, y)
      BY <3>0 DEF HasLast
    <3>3. /\ r[n + 1] = u /\ \A i \in 1..n : r[i] = t[i]
          /\ z[n + 1] = y /\ \A i \in 1..n : z[i] = w[i]
      BY <3>1, <3>2
    <3>4. f[u] = <<y>> /\ \A i \in 1..n : f[t[i]] = <<w[i]>>
      <4>1. n + 1 \in 1..(n + 1) /\ \A i \in 1..n : i \in 1..(n + 1)
        OBVIOUS
      <4> QED BY <2>1, <3>3, <4>1 DEF Matches
    <3>5. Matches(t, f, w)
      BY <3>1, <3>2, <3>4 DEF Matches
    <3>6. Gather(t, f) = w
      BY <1>2, <3>1, <3>5
    <3>7. Same(Gather(Append(t, u), f), Gather(t, f) \o f[u])
      BY GatherLast
    <3>8. w \o <<y>> = Append(w, y)
      BY AppendCat
    <3> QED BY <3>1, <3>2, <3>4, <3>6, <3>7, <3>8, Zenon DEF Same
  <2> QED BY <2>1
<1> HIDE DEF T
<1>3. Nat \subseteq T
  BY <1>1, <1>2, Induct
<1>4. Len(q) \in T
  BY <1>3
<1> QED BY <1>4 DEF T

\* FlatMapSlice sends the pieces of a value one by one.
Piece == [x \in Item \X {1, 2} |-> <<x>>]
PiecesOf == [v \in Item |-> Pieces(v)]
SlicedLane(c, s, k, h, g, Y) ==
  op = "flatMapSlice" /\ Is(c, s, k, h, g, Y, Values("out"), 1, "values", Piece, PiecesOf, Item \X {1, 2})

LEMMA PiecesType ==
  ASSUME NEW v \in Item
  PROVE  Pieces(v) \in Seq(Item \X {1, 2}) /\ \A i \in 1..Len(Pieces(v)) : Pieces(v)[i] = <<v, i>> /\ i \in {1, 2}
<1>1. PICK n \in {0, 1, 2} : Pieces(v) = [i \in 1..n |-> <<v, i>>]
  BY DEF Pieces
<1> HIDE DEF Item
<1>2. \A i \in 1..n : <<v, i>> \in Item \X {1, 2} /\ i \in {1, 2}
  OBVIOUS
<1>3. [i \in 1..n |-> <<v, i>>] \in [1..n -> Item \X {1, 2}] /\ n \in Nat
  BY <1>2
<1> QED BY <1>1, <1>2, <1>3, ListIsSeq

LEMMA SlicedLaneFed ==
  ASSUME Ctl, op = "flatMapSlice"
  PROVE  /\ Lane(Values("out"), 1, "values", Piece, PiecesOf, Item \X {1, 2})
         /\ Feeds(Values("out"), 1, "values", Piece, PiecesOf)
<1>1. PICK c : c = Values("out")
  OBVIOUS
<1>2. c \in ChannelsOf(op) /\ c[1] = "values" /\ "values" \in Kinds /\ op \notin Holding
        /\ WhatOf(op, c) = Item \X {1, 2}
  BY <1>1, ChannelIs DEF OutputsOf, Values, Results, Kinds, Holding, WhatOf
<1>3. PICK h : h = Piece
  OBVIOUS
<1>4. h \in [Item \X {1, 2} -> Seq(Item \X {1, 2})] /\ PiecesOf \in [Item -> Seq(Item \X {1, 2})]
  BY <1>3, One, PiecesType DEF Piece, PiecesOf
<1>6. SourcesOf(op) = {1}
  BY DEF SourcesOf
<1>5. Lane(c, 1, "values", h, PiecesOf, Item \X {1, 2})
  BY <1>2, <1>4, <1>6 DEF Lane
<1>7. ASSUME NEW t \in SourcesOf(op), NEW j \in Kinds, left[t][j] # <<>>
      PROVE  Brings(CaseAt(t, j).sends, c, h, IF t = 1 /\ j = "values" THEN PiecesOf[Head(left[t][j])] ELSE <<>>)
  <2> DEFINE v == Head(left[t][j])
             q == CaseAt(t, j).sends
  <2>1. /\ q \in Seq(SendsOf(op)) /\ v \in Item /\ Fine(op, v) /\ v.kind = j /\ v.src = t
        /\ (j = "values" => q = OnValue(mem, t, v).sends)
        /\ (j = "errors" => Passes(q, v))
    BY <1>7, CaseSends
  <2> HIDE DEF v
  <2>2. CASE j = "values"
    <3>1. PICK ps : ps = Pieces(v)
      OBVIOUS
    <3>2. ps \in Seq(Item \X {1, 2}) /\ \A i \in 1..Len(ps) : ps[i] \in Item \X {1, 2}
      BY <2>1, <3>1, PiecesType
    <3>3. q = [i \in DOMAIN ps |-> Must(c, ps[i])]
      BY <1>1, <2>1, <2>2, <3>1 DEF OnValue, FlatMapSlice, Then
    <3> HIDE DEF q
    <3>4. DOMAIN ps = 1..Len(ps) /\ Len(ps) \in Nat
      BY <3>2
    <3>5. Len(q) = Len(ps) /\ \A i \in 1..Len(q) : q[i] = Must(c, ps[i])
      BY <3>3, <3>4
    <3>6. OfTo(op, c, h) \in [SendsOf(op) -> Seq(Item \X {1, 2})]
      BY <1>5, OfToType
    <3>7. ASSUME NEW i \in 1..Len(q) PROVE OfTo(op, c, h)[q[i]] = <<ps[i]>>
      <4>0. q[i] \in SendsOf(op) /\ q[i] = Must(c, ps[i])
        BY <2>1, <3>5
      <4>1. q[i] \in SendsOf(op) /\ q[i].to = c /\ q[i].what = ps[i]
        BY <4>0 DEF Must
      <4>2. h[ps[i]] = <<ps[i]>>
        BY <1>3, <3>2, <3>5 DEF Piece
      <4> QED BY <4>1, <4>2 DEF OfTo
    <3>8. Matches(q, OfTo(op, c, h), ps)
      BY <3>5, <3>7 DEF Matches
    <3>9. Gather(q, OfTo(op, c, h)) = ps
      <4>1. PICK X, Y, f : X = SendsOf(op) /\ Y = Item \X {1, 2} /\ f = OfTo(op, c, h)
        OBVIOUS
      <4>2. f \in [X -> Seq(Y)] /\ q \in Seq(X) /\ ps \in Seq(Y) /\ Matches(q, f, ps)
        BY <2>1, <3>2, <3>6, <3>8, <4>1
      <4> QED BY <4>1, <4>2, GatherEach
    <3>10. PiecesOf[v] = ps
      BY <2>1, <3>1 DEF PiecesOf
    <3> QED BY <1>6, <2>2, <3>9, <3>10 DEF v, q, Brings
  <2>3. CASE j = "errors"
    <3> HIDE DEF q
    <3>1. ASSUME NEW i \in 1..Len(q) PROVE q[i].to # c
      <4>1. q[i].to[1] # "values"
        BY <2>1, <2>3 DEF Passes, PassOne
      <4> QED BY <1>2, <4>1
    <3>2. Silent(q, c, h)
      BY <3>1 DEF Silent
    <3>3. Brings(q, c, h, <<>>)
      BY <1>5, <2>1, <3>2, SilentBrings
    <3> QED BY <2>3, <3>3 DEF q
  <2> QED BY <2>2, <2>3 DEF Kinds
<1>8. Feeds(c, 1, "values", h, PiecesOf)
  BY <1>2, <1>5, <1>7, PlainFeeds
<1> QED BY <1>1, <1>3, <1>5, <1>8

-----------------------------------------------------------------------------
(* Operators that hold values back: what comes out and what is held are what *)
(* went in.                                                                  *)
Batches(o) == [q \in Results(o) |-> q]
BatchLane(c, s, k, h, g, Y) ==
  op \in {"buffer", "window"} /\ Is(c, s, k, h, g, Y, Values("out"), 1, "values", Batches(op), Itself, Item)

\* A case that sends what it held, or nothing.
LEMMA HoldsEvens ==
  ASSUME Ctl, NEW c, NEW s, NEW k, NEW h, NEW g, Lane(c, s, k, h, g, Item), NEW b \in Seq(Item),
         NEW r, NEW y \in Seq(Item),
         Brings(r.sends, c, h, b), KeptIn(op, r.mem, c, s) = <<>>,
         b = Kept(c, s) \o y
  PROVE  Evens(r, c, s, h, y)
<1>1. b \o <<>> = b /\ <<>> \o b = b
  BY CatNone
<1> QED BY <1>1 DEF Evens, Brings

LEMMA KeepsEvens ==
  ASSUME Ctl, NEW c, NEW s, NEW k, NEW h, NEW g, Lane(c, s, k, h, g, Item), NEW r,
         NEW y \in Seq(Item),
         Brings(r.sends, c, h, <<>>), KeptIn(op, r.mem, c, s) = Kept(c, s) \o y
  PROVE  Evens(r, c, s, h, y)
<1>1. Kept(c, s) \o y \in Seq(Item)
  BY LaneTypes, SeqCat
<1>2. <<>> \o (Kept(c, s) \o y) = Kept(c, s) \o y
  BY <1>1, CatNone
<1> QED BY <1>2 DEF Evens, Brings

LEMMA ErrorEvens ==
  ASSUME Ctl, NEW c, NEW s, NEW k, NEW h, NEW g, Lane(c, s, k, h, g, Item), c[1] = "values",
         op \in Holding, NEW t \in SourcesOf(op), left[t]["errors"] # <<>>
  PROVE  Evens(CaseAt(t, "errors"), c, s, h, <<>>)
<1> DEFINE e == Head(left[t]["errors"])
<1>0. "errors" \in Kinds
  BY DEF Kinds
<1>1. /\ CaseAt(t, "errors") = OnError(mem, e) /\ Passes(OnError(mem, e).sends, e)
      /\ OnError(mem, e).sends \in Seq(SendsOf(op))
  BY <1>0, CaseSends
<1> HIDE DEF e
<1>2. OnError(mem, e).mem = mem
  BY DEF OnError, Holding, Fail, Then
<1>3. PICK q : q = OnError(mem, e).sends
  OBVIOUS
<1>4. \A i \in 1..Len(q) : q[i].to # c
  BY <1>1, <1>3 DEF Passes, PassOne, Holding
<1>5. Brings(q, c, h, <<>>)
  BY <1>1, <1>3, <1>4, SilentBrings DEF Silent
<1>6. Kept(c, s) \in Seq(Item)
  BY LaneTypes
<1>7. <<>> \o Kept(c, s) = Kept(c, s) /\ Kept(c, s) \o <<>> = Kept(c, s)
  BY <1>6, CatNone
<1> QED BY <1>1, <1>2, <1>3, <1>5, <1>7 DEF Evens, Brings, Kept

LEMMA BatchLaneFed ==
  ASSUME Ctl, op \in {"buffer", "window"}
  PROVE  /\ Lane(Values("out"), 1, "values", Batches(op), Itself, Item)
         /\ Feeds(Values("out"), 1, "values", Batches(op), Itself)
<1>1. PICK c, h : c = Values("out") /\ h = Batches(op)
  OBVIOUS
<1>2. c \in ChannelsOf(op) /\ c[1] = "values" /\ "values" \in Kinds /\ op \in Holding
        /\ WhatOf(op, c) = Results(op)
      /\ SourcesOf(op) = {1} /\ Results(op) \subseteq Seq(Item)
  BY <1>1, ChannelIs DEF OutputsOf, Values, Results, Kinds, Holding, WhatOf, SourcesOf
<1>3. h \in [WhatOf(op, c) -> Seq(Item)]
  BY <1>1, <1>2 DEF Batches
<1>4. Lane(c, 1, "values", h, Itself, Item)
  BY <1>2, <1>3, ItemFunctions DEF Lane
<1>5. \A m : KeptIn(op, m, c, 1) = m.batch
  BY <1>2 DEF KeptIn
<1>6. mem \in MemOf(op) /\ mem.batch \in Seq(Item) /\ Kept(c, 1) = mem.batch
  BY <1>5 DEF Ctl, MemOf, Kept
<1>7. \A b \in Results(op) : b \in Seq(Item) /\ h[b] = b
  BY <1>1, <1>2 DEF Batches
<1>8. ASSUME NEW b \in Results(op)
      PROVE  /\ Brings(<<Must(c, b)>>, c, h, b)
             /\ (op = "buffer" => Brings(<<Wait(c, b)>>, c, h, b))
  <2>1. Must(c, b) \in SendsOf(op) /\ (op = "buffer" => Wait(c, b) \in SendsOf(op))
    BY <1>2, SendIs DEF Soft
  <2>2. Must(c, b).to = c /\ Wait(c, b).to = c /\ Must(c, b).what = b /\ Wait(c, b).what = b
    BY DEF Must, Wait
  <2>3. PICK u, w : u = Must(c, b) /\ w = Wait(c, b)
    OBVIOUS
  <2>4. /\ Brings(<<u>>, c, h, IF u.to = c THEN h[u.what] ELSE <<>>)
        /\ op = "buffer" => Brings(<<w>>, c, h, IF w.to = c THEN h[w.what] ELSE <<>>)
    BY <1>4, <2>1, <2>3, OneBrings
  <2> QED BY <1>7, <2>2, <2>3, <2>4
<1>9. ASSUME NEW t \in SourcesOf(op), NEW j \in Kinds, left[t][j] # <<>>
      PROVE  Evens(CaseAt(t, j), c, 1, h, IF t = 1 /\ j = "values" THEN Itself[Head(left[t][j])] ELSE <<>>)
  <2> DEFINE v == Head(left[t][j])
  <2>1. v \in Item /\ (j = "values" => CaseAt(t, j) = OnValue(mem, t, v)) /\ t = 1
    BY <1>2, <1>9, CaseSends
  <2> HIDE DEF v
  <2>2. CASE j = "errors"
    BY <1>2, <1>4, <1>9, <2>2, ErrorEvens
  <2>3. CASE j = "values"
    <3>1. PICK b : b = Append(mem.batch, v)
      OBVIOUS
    <3>2. b = Kept(c, 1) \o <<v>> /\ b \in Seq(Item) /\ <<v>> \in Seq(Item) /\ Len(b) = Len(mem.batch) + 1 /\ b # <<>>
      <4>1. mem.batch \o <<v>> = Append(mem.batch, v) /\ <<v>> \in Seq(Item)
        BY <1>6, <2>1, AppendCat, One
      <4>2. b \in Seq(Item) /\ Len(b) = Len(mem.batch) + 1 /\ Len(mem.batch) \in Nat
        BY <1>6, <2>1, <3>1
      <4>3. b # <<>>
        BY <4>2
      <4> QED BY <1>6, <3>1, <4>1, <4>2, <4>3
    <3>3. Itself[v] = <<v>>
      BY <2>1 DEF Itself
    <3>4. PICK r : r = OnValue(mem, t, v)
      OBVIOUS
    <3>5. CASE op = "window"
      <4>1. r.sends = <<>> /\ r.mem.batch = b
        BY <1>6, <3>1, <3>4, <3>5 DEF OnValue, Collect, Keep, Then, MemOf
      <4>2. Evens(r, c, 1, h, <<v>>)
        <5>1. KeptIn(op, r.mem, c, 1) = b
          BY <1>5, <4>1
        <5>2. Brings(r.sends, c, h, <<>>)
          BY <4>1, NoneBrings
        <5>3. PICK y \in Seq(Item) : y = <<v>>
          BY <3>2
        <5>4. KeptIn(op, r.mem, c, 1) = Kept(c, 1) \o y
          BY <3>2, <5>1, <5>3
        <5>5. Evens(r, c, 1, h, y)
          BY <1>4, <5>2, <5>4, KeepsEvens
        <5> QED BY <5>3, <5>5
      <4> QED BY <2>1, <2>3, <3>3, <3>4, <4>2 DEF v
    <3>6. CASE op = "buffer"
      <4>1. Len(mem.batch) < BufferN /\ BufferN \in Nat /\ Len(mem.batch) \in Nat
        BY <1>6, <3>6, StepAssumption DEF MemOf
      <4>2. PICK n : n = [mem EXCEPT !.batch = Append(@, v), !.timer = TRUE]
        OBVIOUS
      <4>3. n.batch = b
        BY <1>6, <3>1, <4>2 DEF MemOf
      <4>4. r = IF Len(b) >= BufferN THEN Flush(n) ELSE Keep(n)
        BY <3>4, <3>6, <4>2, <4>3 DEF OnValue, Buffer
      <4>5. CASE Len(b) >= BufferN
        <5>1. b \in Results(op)
          BY <3>2, <3>6, <4>1, <4>5 DEF Results
        <5>2. r.sends = <<Wait(c, b)>> /\ r.mem.batch = <<>>
          BY <1>1, <1>6, <3>2, <4>2, <4>3, <4>4, <4>5 DEF Flush, Then, MemOf
        <5>3. Brings(r.sends, c, h, b)
          BY <1>8, <3>6, <5>1, <5>2
        <5>4. Evens(r, c, 1, h, <<v>>)
          BY <1>4, <1>5, <3>2, <5>2, <5>3, HoldsEvens
        <5> QED BY <2>1, <2>3, <3>3, <3>4, <5>4 DEF v
      <4>6. CASE ~(Len(b) >= BufferN)
        <5>1. r.sends = <<>> /\ r.mem.batch = b
          BY <4>3, <4>4, <4>6 DEF Keep, Then
        <5>2. Evens(r, c, 1, h, <<v>>)
          <6>1. KeptIn(op, r.mem, c, 1) = b
            BY <1>5, <5>1
          <6>2. Brings(r.sends, c, h, <<>>)
            BY <5>1, NoneBrings
          <6>3. PICK y \in Seq(Item) : y = <<v>>
            BY <3>2
          <6>4. KeptIn(op, r.mem, c, 1) = Kept(c, 1) \o y
            BY <3>2, <6>1, <6>3
          <6>5. Evens(r, c, 1, h, y)
            BY <1>4, <6>2, <6>4, KeepsEvens
          <6> QED BY <6>3, <6>5
        <5> QED BY <2>1, <2>3, <3>3, <3>4, <5>2 DEF v
      <4> QED BY <4>5, <4>6
    <3> QED BY <3>5, <3>6
  <2> QED BY <2>2, <2>3 DEF Kinds
<1>10. Kept(c, 1) = Kept(c, 1) \o <<>>
  BY <1>6, CatNone
<1>11. ASSUME op = "buffer" PROVE Evens(Flush(mem), c, 1, h, <<>>)
  <2>1. CASE mem.batch = <<>>
    BY <1>4, <1>2, <2>1, EvensNone DEF Flush
  <2>2. CASE mem.batch # <<>>
    <3>1. Flush(mem).sends = <<Wait(c, mem.batch)>> /\ Flush(mem).mem.batch = <<>>
      BY <1>1, <1>6, <2>2 DEF Flush, Then, MemOf
    <3>2. mem.batch \in Results(op)
      <4>1. Len(mem.batch) \in 1..BufferN
        BY <1>6, <1>11, <2>2, StepAssumption DEF MemOf
      <4> QED BY <1>6, <1>11, <4>1 DEF Results
    <3>3. Brings(Flush(mem).sends, c, h, mem.batch)
      BY <1>8, <1>11, <3>1, <3>2
    <3> QED BY <1>4, <1>5, <1>6, <1>10, <3>1, <3>3, SeqNone, HoldsEvens
  <2> QED BY <2>1, <2>2
<1>12. ASSUME op = "window"
       PROVE  Evens(Tick(mem), c, 1, h, <<>>) /\ Evens(Remainder(mem), c, 1, h, <<>>)
  <2>1. Tick(mem).sends = <<Must(c, mem.batch)>> /\ Tick(mem).mem.batch = <<>>
    BY <1>1, <1>6 DEF Tick, Emit, Then, MemOf
  <2>2. mem.batch \in Results(op)
    BY <1>6, <1>12 DEF Results
  <2>3. Brings(Tick(mem).sends, c, h, mem.batch)
    BY <1>8, <2>1, <2>2
  <2>4. Evens(Tick(mem), c, 1, h, <<>>)
    BY <1>4, <1>5, <1>6, <1>10, <2>1, <2>3, SeqNone, HoldsEvens
  <2>5. Evens(Keep(mem), c, 1, h, <<>>)
    BY <1>4, EvensNone
  <2> QED BY <2>4, <2>5 DEF Remainder
<1>13. Feeds(c, 1, "values", h, Itself)
  BY <1>2, <1>9, <1>11, <1>12 DEF Feeds
<1> QED BY <1>1, <1>4, <1>13

\* The n-th of one source waits for the n-th of the other.
Side(s) == [t \in Results("zip") |-> <<t[s]>>]
ZipLane(c, s, k, h, g, Y) ==
  op = "zip" /\ \E t \in {1, 2} : Is(c, s, k, h, g, Y, Values("out"), t, "values", Side(t), Itself, Item)

LEMMA PairIs ==
  ASSUME NEW t, t \in Results("zip"), NEW s \in {1, 2}
  PROVE  t \in Seq(Item) /\ t[s] \in Item /\ Len(t) = 2
<1>1. t \in Seq(Item) /\ DOMAIN t = {1, 2}
  BY DEF Results, SourcesOf
<1>2. DOMAIN t = 1..Len(t) /\ Len(t) \in Nat
  <2> HIDE DEF Item
  <2>1. PICK q \in Seq(Item) : q = t
    BY <1>1
  <2> QED BY <2>1
<1>3. Len(t) = 2
  <2>1. 2 \in 1..Len(t) /\ 3 \notin 1..Len(t)
    BY <1>1, <1>2
  <2> QED BY <1>2, <2>1
<1>4. s \in 1..Len(t)
  BY <1>3
<1> QED BY <1>1, <1>3, <1>4

\* What a value does to the queues: it joins its own, and a pair is taken off
\* when both have something.
Queued(n, t, v) ==
  /\ n \in MemOf(op)
  /\ \A i \in {1, 2} : n.held[i] = mem.held[i] \o IF i = t THEN <<v>> ELSE <<>>
LEMMA ZipIs ==
  ASSUME Ctl, op = "zip", NEW t \in {1, 2}, NEW v \in Item, Fine(op, v), NEW c, c = Values("out")
  PROVE  \E n : /\ Queued(n, t, v)
                /\ AllHeld(n) => /\ HeldHeads(n) \in WhatOf(op, c) /\ OnValue(mem, t, v).sends = <<Must(c, HeldHeads(n))>>
                                 /\ \A i \in {1, 2} : /\ n.held[i] \in Seq(Item) /\ n.held[i] # <<>>
                                                      /\ HeldHeads(n)[i] = Head(n.held[i])
                                                      /\ OnValue(mem, t, v).mem.held[i] = Tail(n.held[i])
                /\ ~AllHeld(n) => OnValue(mem, t, v).sends = <<>> /\ OnValue(mem, t, v).mem = n
<1>1. SourcesOf(op) = {1, 2} /\ op \in Joining /\ mem \in MemOf(op)
  BY DEF SourcesOf, Joining, Ctl
<1>2. mem.held \in [{1, 2} -> Seq(Item)]
  BY <1>1, HeldIs
<1>3. PICK n : n = [mem EXCEPT !.held[t] = Append(@, v)]
  OBVIOUS
<1>4. n = [mem EXCEPT !.held[t] = Append(mem.held[t], v)] /\ Append(mem.held[t], v) \in Seq(Item)
  BY <1>2, <1>3
<1>5. n \in MemOf(op)
  BY <1>1, <1>4, HeldOne
<1>6. n.held \in [{1, 2} -> Seq(Item)] /\ DOMAIN n.held = {1, 2}
  BY <1>1, <1>5, HeldIs
<1>7. Queued(n, t, v)
  <2>1. n.held = [mem.held EXCEPT ![t] = Append(mem.held[t], v)]
    BY <1>1, <1>4 DEF MemOf
  <2>2. ASSUME NEW i \in {1, 2} PROVE n.held[i] = mem.held[i] \o IF i = t THEN <<v>> ELSE <<>>
    <3>1. mem.held[i] \in Seq(Item)
      BY <1>2
    <3>2. mem.held[i] \o <<v>> = Append(mem.held[i], v) /\ mem.held[i] \o <<>> = mem.held[i]
      BY <3>1, AppendCat, CatNone
    <3> QED BY <1>2, <2>1, <3>2
  <2> QED BY <1>5, <2>2 DEF Queued
<1>8. OnValue(mem, t, v) = IF AllHeld(n)
                           THEN Emit([n EXCEPT !.held = [i \in DOMAIN @ |-> Tail(@[i])]], "out", HeldHeads(n))
                           ELSE Keep(n)
  BY <1>3 DEF OnValue, ZipPair
<1>9. ASSUME AllHeld(n)
      PROVE  /\ HeldHeads(n) \in WhatOf(op, c)
             /\ OnValue(mem, t, v).sends = <<Must(c, HeldHeads(n))>>
             /\ \A i \in {1, 2} : /\ n.held[i] \in Seq(Item) /\ n.held[i] # <<>>
                                  /\ HeldHeads(n)[i] = Head(n.held[i])
                                  /\ OnValue(mem, t, v).mem.held[i] = Tail(n.held[i])
  <2>1. HeldHeads(n) \in Seq(Item) /\ DOMAIN HeldHeads(n) = {1, 2}
    BY <1>1, <1>5, <1>6, <1>9, HeldIs DEF HeldHeads
  <2>2. HeldHeads(n) \in WhatOf(op, c)
    BY <1>1, <2>1 DEF WhatOf, Results, Values
  <2>3. OnValue(mem, t, v).sends = <<Must(c, HeldHeads(n))>>
    BY <1>8, <1>9 DEF Emit, Then
  <2>4. \A i \in {1, 2} : n.held[i] \in Seq(Item) /\ n.held[i] # <<>> /\ HeldHeads(n)[i] = Head(n.held[i])
    BY <1>6, <1>9 DEF AllHeld, HeldHeads
  <2>5. OnValue(mem, t, v).mem.held = [i \in {1, 2} |-> Tail(n.held[i])]
    <3>1. PICK x : x = [i \in {1, 2} |-> Tail(n.held[i])]
      OBVIOUS
    <3>2. OnValue(mem, t, v).mem = [n EXCEPT !.held = x]
      BY <1>6, <1>8, <1>9, <3>1 DEF Emit, Then
    <3>3. [n EXCEPT !.held = x].held = x
      BY <1>5 DEF MemOf
    <3> QED BY <3>1, <3>2, <3>3
  <2> QED BY <2>2, <2>3, <2>4, <2>5
<1>10. ~AllHeld(n) => OnValue(mem, t, v).sends = <<>> /\ OnValue(mem, t, v).mem = n
  BY <1>8 DEF Keep, Then
<1> QED BY <1>7, <1>9, <1>10

LEMMA ZipLaneFed ==
  ASSUME Ctl, op = "zip", NEW s \in {1, 2}
  PROVE  /\ Lane(Values("out"), s, "values", Side(s), Itself, Item)
         /\ Feeds(Values("out"), s, "values", Side(s), Itself)
<1>1. PICK c, h : c = Values("out") /\ h = Side(s)
  OBVIOUS
<1>2. c \in ChannelsOf(op) /\ c[1] = "values" /\ "values" \in Kinds /\ op \in Holding
        /\ WhatOf(op, c) = Results("zip")
      /\ SourcesOf(op) = {1, 2} /\ op \in Joining
  BY <1>1, ChannelIs DEF OutputsOf, Values, Kinds, Holding, WhatOf, SourcesOf, Joining
<1>3. h \in [WhatOf(op, c) -> Seq(Item)]
  BY <1>1, <1>2, PairIs, One DEF Side
<1>4. Lane(c, s, "values", h, Itself, Item)
  BY <1>2, <1>3, ItemFunctions DEF Lane
<1>5. \A m : KeptIn(op, m, c, s) = m.held[s]
  BY <1>2 DEF KeptIn
<1>6. mem \in MemOf(op) /\ mem.held[s] \in Seq(Item) /\ Kept(c, s) = mem.held[s]
  BY <1>2, <1>5, HeldIs DEF Ctl, Kept
<1>9. ASSUME NEW t \in SourcesOf(op), NEW j \in Kinds, left[t][j] # <<>>
      PROVE  Evens(CaseAt(t, j), c, s, h, IF t = s /\ j = "values" THEN Itself[Head(left[t][j])] ELSE <<>>)
  <2> DEFINE v == Head(left[t][j])
  <2>1. v \in Item /\ (j = "values" => CaseAt(t, j) = OnValue(mem, t, v)) /\ t \in {1, 2}
          /\ Fine(op, v)
    BY <1>2, <1>9, CaseSends
  <2> HIDE DEF v
  <2>2. CASE j = "errors"
    BY <1>2, <1>4, <1>9, <2>2, ErrorEvens
  <2>3. CASE j = "values"
    <3>1. PICK n : /\ Queued(n, t, v)
                   /\ AllHeld(n) => /\ HeldHeads(n) \in WhatOf(op, c) /\ OnValue(mem, t, v).sends = <<Must(c, HeldHeads(n))>>
                                    /\ \A i \in {1, 2} : /\ n.held[i] \in Seq(Item) /\ n.held[i] # <<>>
                                                         /\ HeldHeads(n)[i] = Head(n.held[i])
                                                         /\ OnValue(mem, t, v).mem.held[i] = Tail(n.held[i])
                   /\ ~AllHeld(n) => OnValue(mem, t, v).sends = <<>> /\ OnValue(mem, t, v).mem = n
      BY <1>1, <2>1, ZipIs
    <3>2. PICK y \in Seq(Item) : y = IF s = t THEN <<v>> ELSE <<>>
      BY <2>1, One, SeqNone
    <3>3. PICK r : r = OnValue(mem, t, v)
      OBVIOUS
    <3>4. n.held[s] = Kept(c, s) \o y
      BY <1>6, <3>1, <3>2 DEF Queued
    <3>5. CASE AllHeld(n)
      <4>1. PICK x \in WhatOf(op, c) : x = HeldHeads(n)
        BY <3>1, <3>5
      <4>2. r.sends = <<Must(c, x)>> /\ r.mem.held[s] = Tail(n.held[s]) /\ x[s] = Head(n.held[s])
            /\ n.held[s] \in Seq(Item) /\ n.held[s] # <<>>
        BY <3>1, <3>3, <3>5, <4>1
      <4>3. PICK a : a = n.held[s]
        OBVIOUS
      <4>4. h[x] = <<Head(a)>> /\ Tail(a) \in Seq(Item) /\ Head(a) \in Item
        <5>1. a \in Seq(Item) /\ a # <<>>
          BY <4>2, <4>3
        <5> QED BY <1>1, <1>2, <4>1, <4>2, <4>3, <5>1 DEF Side
      <4>5. Brings(<<Must(c, x)>>, c, h, h[x])
        BY <1>2, <1>4, <4>1, ItemBrings
      <4>6. <<Head(a)>> \o Tail(a) = a
        <5>1. a \in Seq(Item) /\ a # <<>>
          BY <4>2, <4>3
        <5>2. Len(<<Head(a)>> \o Tail(a)) = Len(a) /\ <<Head(a)>> \o Tail(a) \in Seq(Item)
          BY <5>1
        <5>3. \A i \in 1..Len(a) : (<<Head(a)>> \o Tail(a))[i] = a[i]
          BY <5>1
        <5> QED BY <5>1, <5>2, <5>3, SeqEqual
      <4>7. Gather(r.sends, OfTo(op, c, h)) = <<Head(a)>> /\ KeptIn(op, r.mem, c, s) = Tail(a)
        BY <1>5, <4>2, <4>3, <4>4, <4>5 DEF Brings
      <4>8. Evens(r, c, s, h, y)
        BY <3>4, <4>3, <4>6, <4>7 DEF Evens
      <4>9. Itself[v] = <<v>>
        BY <2>1 DEF Itself
      <4> QED BY <2>1, <2>3, <3>2, <3>3, <4>8, <4>9 DEF v
    <3>6. CASE ~AllHeld(n)
      <4>1. r.sends = <<>> /\ r.mem.held[s] = n.held[s]
        BY <3>1, <3>3, <3>6
      <4>2. Brings(r.sends, c, h, <<>>)
        BY <4>1, NoneBrings
      <4>3. KeptIn(op, r.mem, c, s) = Kept(c, s) \o y
        BY <1>5, <3>4, <4>1
      <4>4. Evens(r, c, s, h, y)
        BY <1>4, <4>2, <4>3, KeepsEvens
      <4>9. Itself[v] = <<v>>
        BY <2>1 DEF Itself
      <4> QED BY <2>1, <2>3, <3>2, <3>3, <4>4, <4>9 DEF v
    <3> QED BY <3>5, <3>6
  <2> QED BY <2>2, <2>3 DEF Kinds
<1>13. Feeds(c, s, "values", h, Itself)
  BY <1>2, <1>9 DEF Feeds
<1> QED BY <1>1, <1>4, <1>13

-----------------------------------------------------------------------------
(* Counting round.                                                           *)
LEMMA ModIs ==
  ASSUME NEW K \in Nat \ {0}, NEW q \in Nat, NEW r \in 0..(K-1)
  PROVE  (q * K + r) % K = r
OBVIOUS
Splits(n, K) == \E q \in Nat, r \in 0..(K-1) : n = q * K + r
LEMMA SplitNext ==
  ASSUME NEW K \in Nat \ {0}, NEW q \in Nat, NEW r \in 0..(K-1)
  PROVE  IF r + 1 = K THEN q * K + r + 1 = (q + 1) * K + 0 ELSE q * K + r + 1 = q * K + (r + 1) /\ r + 1 \in 0..(K-1)
OBVIOUS
LEMMA ModSplit == ASSUME NEW n \in Nat, NEW K \in Nat \ {0} PROVE Splits(n, K)
<1> DEFINE T == {i \in Nat : Splits(i, K)}
<1>1. 0 \in T
  <2>1. 0 = 0 * K + 0 /\ 0 \in 0..(K-1)
    OBVIOUS
  <2> QED BY <2>1 DEF Splits
<1>2. ASSUME NEW i \in Nat, i \in T PROVE i + 1 \in T
  <2>1. PICK q \in Nat, r \in 0..(K-1) : i = q * K + r
    BY <1>2 DEF Splits
  <2>2. IF r + 1 = K THEN i + 1 = (q + 1) * K + 0 ELSE i + 1 = q * K + (r + 1) /\ r + 1 \in 0..(K-1)
    BY <2>1, SplitNext
  <2>3. q + 1 \in Nat /\ 0 \in 0..(K-1)
    OBVIOUS
  <2>4. Splits(i + 1, K)
    <3>1. CASE r + 1 = K
      BY <2>2, <2>3, <3>1, Zenon DEF Splits
    <3>2. CASE r + 1 # K
      BY <2>2, <3>2, Zenon DEF Splits
    <3> QED BY <3>1, <3>2
  <2> QED BY <2>4
<1> HIDE DEF T
<1>3. Nat \subseteq T
  BY <1>1, <1>2, Induct
<1> QED BY <1>3 DEF T
LEMMA ModStep == ASSUME NEW n \in Nat, NEW K \in Nat \ {0} 
  PROVE  n % K \in 0..(K-1) /\ (n+1) % K = IF (n % K) + 1 = K THEN 0 ELSE (n % K) + 1
<1>1. PICK q \in Nat, r \in 0..(K-1) : n = q * K + r
  BY ModSplit DEF Splits
<1>0. n % K = r
  BY <1>1, ModIs
<1>2. CASE r + 1 = K
  <2>1. q + 1 \in Nat /\ 0 \in 0..(K-1) /\ n + 1 = (q + 1) * K + 0
    BY <1>1, <1>2, SplitNext
  <2>2. ((q + 1) * K + 0) % K = 0
    BY <2>1, ModIs
  <2> QED BY <1>0, <1>1, <1>2, <2>1, <2>2
<1>3. CASE r + 1 # K
  <2>1. r + 1 \in 0..(K-1) /\ n + 1 = q * K + (r + 1)
    BY <1>1, <1>3, SplitNext
  <2>2. (q * K + (r + 1)) % K = r + 1
    BY <2>1, ModIs
  <2> QED BY <1>0, <1>1, <1>3, <2>1, <2>2
<1> QED BY <1>2, <1>3

-----------------------------------------------------------------------------
(* The last items of the first p of a sequence.                              *)
Recent(b, a, p) ==
  /\ Len(b) <= p /\ p <= Len(a)
  /\ \A i \in 1..Len(b) : b[i] = a[p - Len(b) + i]
LEMMA RecentAppend ==
  ASSUME NEW S, NEW a \in Seq(S), NEW b \in Seq(S), NEW p \in Nat, Recent(b, a, p), p < Len(a),
         NEW v \in S, v = a[p + 1]
  PROVE  Recent(Append(b, v), a, p + 1) /\ Len(Append(b, v)) = Len(b) + 1 /\ Append(b, v) \in Seq(S)
<1>1. Len(Append(b, v)) = Len(b) + 1 /\ Append(b, v) \in Seq(S) /\ Len(b) \in Nat /\ Len(a) \in Nat
  OBVIOUS
<1>2. ASSUME NEW i \in 1..(Len(b) + 1) PROVE Append(b, v)[i] = a[(p + 1) - (Len(b) + 1) + i]
  <2>1. CASE i = Len(b) + 1
    <3>1. (p + 1) - (Len(b) + 1) + i = p + 1
      BY <1>1, <2>1
    <3> QED BY <1>1, <2>1, <3>1
  <2>2. CASE i # Len(b) + 1
    <3>1. (p + 1) - (Len(b) + 1) + i = p - Len(b) + i /\ i \in 1..Len(b)
      BY <1>1, <2>2
    <3> QED BY <1>1, <3>1 DEF Recent
  <2> QED BY <2>1, <2>2
<1> QED BY <1>1, <1>2 DEF Recent

\* SubSeq as the provers know it.
LEMMA SubIs ==
  ASSUME NEW S, NEW q \in Seq(S), NEW m \in Nat, NEW n \in Nat, 1 <= m, m <= n + 1, n <= Len(q)
  PROVE  /\ SubSeq(q, m, n) \in Seq(S) /\ Len(SubSeq(q, m, n)) = n - m + 1
         /\ \A i \in 1..(n - m + 1) : SubSeq(q, m, n)[i] = q[m + i - 1]
OBVIOUS
LEMMA RecentDrop ==
  ASSUME NEW S, NEW a \in Seq(S), NEW b \in Seq(S), NEW p \in Nat, Recent(b, a, p), NEW k \in Nat,
         k <= Len(b)
  PROVE  LET r == SubSeq(b, k + 1, Len(b)) IN Recent(r, a, p) /\ Len(r) = Len(b) - k /\ r \in Seq(S)
<1> DEFINE r == SubSeq(b, k + 1, Len(b))
<1>1. Len(b) \in Nat /\ 1 <= k + 1 /\ k + 1 <= Len(b) + 1 /\ k + 1 \in Nat
        /\ Len(b) - (k + 1) + 1 = Len(b) - k
  OBVIOUS
<1>2. r \in Seq(S) /\ Len(r) = Len(b) - k /\ \A i \in 1..(Len(b) - k) : r[i] = b[(k + 1) + i - 1]
  <2>1. PICK m \in Nat, n \in Nat : m = k + 1 /\ n = Len(b)
    BY <1>1
  <2>3. 1 <= m /\ m <= n + 1 /\ n <= Len(b)
    BY <1>1, <2>1
  <2>2. /\ SubSeq(b, m, n) \in Seq(S) /\ Len(SubSeq(b, m, n)) = n - m + 1
        /\ \A i \in 1..(n - m + 1) : SubSeq(b, m, n)[i] = b[m + i - 1]
    BY <2>3, SubIs
  <2> QED BY <1>1, <2>1, <2>2
<1> HIDE DEF r
<1>3. ASSUME NEW i \in 1..Len(r) PROVE r[i] = a[p - Len(r) + i]
  <2>1. (k + 1) + i - 1 \in 1..Len(b) /\ p - Len(b) + ((k + 1) + i - 1) = p - Len(r) + i
    BY <1>1, <1>2
  <2>2. b[(k + 1) + i - 1] = a[p - Len(b) + ((k + 1) + i - 1)]
    BY <2>1 DEF Recent
  <2> QED BY <1>2, <2>1, <2>2
<1>4. Len(r) <= p
  BY <1>1, <1>2 DEF Recent
<1> QED BY <1>2, <1>3, <1>4 DEF Recent, r
LEMMA RecentWindow ==
  ASSUME NEW S, NEW a \in Seq(S), NEW b \in Seq(S), NEW p \in Nat, Recent(b, a, p),
         NEW n \in Nat \ {0}, n <= Len(b)
  PROVE  /\ SubSeq(b, Len(b) - n + 1, Len(b)) = SubSeq(a, p - n + 1, p)
         /\ SubSeq(b, Len(b) - n + 1, Len(b)) \in Seq(S)
<1> DEFINE r == SubSeq(b, Len(b) - n + 1, Len(b))
           w == SubSeq(a, p - n + 1, p)
<1>1. /\ Len(b) \in Nat /\ Len(b) <= p /\ Len(a) \in Nat /\ p <= Len(a)
      /\ Len(b) - n + 1 \in Nat /\ 1 <= Len(b) - n + 1 /\ Len(b) - n + 1 <= Len(b) + 1
      /\ p - n + 1 \in Nat /\ 1 <= p - n + 1 /\ p - n + 1 <= p + 1
      /\ Len(b) - (Len(b) - n + 1) + 1 = n /\ p - (p - n + 1) + 1 = n
  BY DEF Recent
<1>2. r \in Seq(S) /\ Len(r) = n /\ \A i \in 1..n : r[i] = b[(Len(b) - n + 1) + i - 1]
  BY <1>1, SubIs
<1>3. w \in Seq(S) /\ Len(w) = n /\ \A i \in 1..n : w[i] = a[(p - n + 1) + i - 1]
  BY <1>1, SubIs
<1> HIDE DEF r, w
<1>4. ASSUME NEW i \in 1..n PROVE r[i] = w[i]
  <2>1. (Len(b) - n + 1) + i - 1 \in 1..Len(b)
          /\ p - Len(b) + ((Len(b) - n + 1) + i - 1) = (p - n + 1) + i - 1
    BY <1>1
  <2>2. b[(Len(b) - n + 1) + i - 1] = a[p - Len(b) + ((Len(b) - n + 1) + i - 1)]
    BY <2>1 DEF Recent
  <2> QED BY <1>2, <1>3, <2>1, <2>2
<1>5. r = w
  BY <1>2, <1>3, <1>4, SeqEqual
<1> QED BY <1>2, <1>5 DEF r, w

-----------------------------------------------------------------------------
(* How the locals of a loop change: with a value, or with a timer.           *)
ByTimer ==
  \/ mem' = mem \/ (mem.throttled /\ mem' = [mem EXCEPT !.throttled = FALSE])
  \/ op = "buffer" /\ mem' = Flush(mem).mem
  \/ op = "debounce" /\ mem' = Silence(mem).mem
  \/ op = "window" /\ (mem' = Tick(mem).mem \/ mem' = Remainder(mem).mem)
SameValues == \A s \in SourcesOf(op) : left'[s]["values"] = left[s]["values"]
Steady == op' = op /\ input' = input

LEMMA SteadyStep == ASSUME [Next]_vars PROVE Steady
<1>1. \A l, s, k : Receive(l, s, k) \/ SourceClosed(l, s, k) => UNCHANGED inputs
  BY DEF Receive, SourceClosed
<1>2. \A l : TimerFires(l) \/ LoopEnds(l) \/ Cancelled(l) \/ Send(l) \/ Drop(l) \/ GiveUp(l) => UNCHANGED inputs
  BY DEF TimerFires, LoopEnds, Cancelled, Send, Drop, GiveUp
<1>3. CloseOutputs \/ Cancel \/ IntervalPasses => UNCHANGED inputs
  BY DEF CloseOutputs, Cancel, IntervalPasses
<1>4. UNCHANGED inputs
  BY <1>1, <1>2, <1>3 DEF Next, Loop, vars
<1> QED BY <1>4 DEF Steady, inputs

LEMMA ErrorKeeps == \A m, e : op \in OpNames => OnError(m, e).mem = m
BY DEF OnError, MapErr, TeeError, RestError, SplitError, GroupError, WriteError, PublishError, Emit,
     Fail, Keep, Then

LEMMA MemStep ==
  ASSUME Ctl, [Next]_vars
  PROVE  \/ \E l \in LoopsOf(op), s \in SourcesOf(op) : Receive(l, s, "values")
         \/ SameValues /\ ByTimer
<1>1. CASE UNCHANGED vars
  BY <1>1 DEF vars, SameValues, ByTimer
<1>2. CASE CloseOutputs \/ Cancel \/ IntervalPasses
  BY <1>2 DEF CloseOutputs, Cancel, IntervalPasses, SameValues, ByTimer
<1>3. ASSUME NEW l \in LoopsOf(op), Loop(l)
      PROVE  (\E s \in SourcesOf(op) : Receive(l, s, "values")) \/ (SameValues /\ ByTimer)
  <2>1. ASSUME NEW s \in SourcesOf(op), Receive(l, s, "errors") PROVE SameValues /\ ByTimer
    <3>1. left' = [left EXCEPT ![s]["errors"] = Tail(@)]
            /\ mem' = OnError(mem, Head(left[s]["errors"])).mem
      BY <2>1 DEF Receive, Enter
    <3>2. mem' = mem
      BY <3>1, ErrorKeeps DEF Ctl, InputOK
    <3>3. SameValues
      <4> DEFINE u == [left[s] EXCEPT !["errors"] = Tail(left[s]["errors"])]
      <4>1. left' = [left EXCEPT ![s] = u]
        BY <3>1
      <4>2. u["values"] = left[s]["values"] /\ left \in [SourcesOf(op) -> Line]
        BY DEF Ctl, LeftOK, Line
      <4> HIDE DEF u
      <4> QED BY <4>1, <4>2 DEF SameValues
    <3> QED BY <3>2, <3>3 DEF ByTimer
  <2>2. ASSUME NEW s \in SourcesOf(op), NEW k \in Kinds, SourceClosed(l, s, k)
        PROVE  SameValues /\ ByTimer
    BY <2>2 DEF SourceClosed, Enter, Keep, Then, SameValues, ByTimer
  <2>3. ASSUME TimerFires(l) PROVE SameValues /\ ByTimer
    BY <2>3 DEF TimerFires, Enter, SameValues, ByTimer
  <2>4. ASSUME LoopEnds(l) PROVE SameValues /\ ByTimer
    BY <2>4 DEF LoopEnds, Keep, Then, SameValues, ByTimer
  <2>5. ASSUME Cancelled(l) \/ Send(l) \/ Drop(l) \/ GiveUp(l) PROVE SameValues /\ ByTimer
    BY <2>5 DEF Cancelled, Send, Drop, GiveUp, SameValues, ByTimer
  <2> QED BY <1>3, <2>1, <2>2, <2>3, <2>4, <2>5 DEF Loop, Kinds
<1> QED BY <1>1, <1>2, <1>3 DEF Next

\* Where in the input of a source its loop is.
Pos(s) == Len(input[s]["values"]) - Len(left[s]["values"])
LEMMA PosIs ==
  ASSUME Ctl, NEW s \in SourcesOf(op)
  PROVE  Pos(s) \in Nat /\ Pos(s) <= Len(In(s)) /\ In(s) \in Seq(Item)
           /\ (left[s]["values"] = <<>> => Pos(s) = Len(In(s)))
<1>1. "values" \in Kinds /\ left[s] \in Line /\ input[s] \in Line
  BY DEF Kinds, Ctl, LeftOK, InputOK
<1>2. left[s]["values"] \in Seq(Item) /\ input[s]["values"] \in Seq(Item)
        /\ Rest(left[s]["values"], input[s]["values"])
  BY <1>1, LineKinds DEF Ctl, LeftOK
<1>3. Len(left[s]["values"]) \in Nat /\ Len(input[s]["values"]) \in Nat
  BY <1>2
<1>4. Len(left[s]["values"]) <= Len(input[s]["values"])
  BY <1>2 DEF Rest
<1>5. ASSUME NEW m \in Nat, NEW n \in Nat, m <= n PROVE n - m \in Nat /\ n - m <= n /\ n - 0 = n
  BY <1>5
<1>6. left[s]["values"] = <<>> => Len(left[s]["values"]) = 0
  OBVIOUS
<1> QED BY <1>2, <1>3, <1>4, <1>5, <1>6 DEF Pos, In
\* A value received is the next of its source, and moves it on by one.
LEMMA ReceivesNext ==
  ASSUME Ctl, NEW l \in LoopsOf(op), NEW s \in SourcesOf(op), Receive(l, s, "values")
  PROVE  \E v \in Item :
           /\ v = In(s)[Pos(s) + 1] /\ v.n = Pos(s) + 1 /\ Pos(s) < Len(In(s)) /\ Fine(op, v)
           /\ v.kind = "values" /\ v.src = s
           /\ v = Head(left[s]["values"]) /\ Pos(s)' = Pos(s) + 1 /\ mem' = OnValue(mem, s, v).mem
           /\ \A t \in SourcesOf(op) \ {s} : Pos(t)' = Pos(t)
<1> DEFINE q == left[s]["values"]
           v == Head(q)
<1>1. q # <<>> /\ left' = [left EXCEPT ![s]["values"] = Tail(@)] /\ mem' = OnValue(mem, s, v).mem /\ input' = input
  BY DEF Receive, Enter, inputs
<1>2. "values" \in Kinds
  BY DEF Kinds
<1>3. /\ v \in Item /\ Placed(s, "values", Len(In(s)) - Len(q) + 1, v) /\ q \in Seq(Item)
      /\ In(s) \in Seq(Item)
      /\ v = In(s)[Len(In(s)) - Len(q) + 1] /\ Len(In(s)) - Len(q) + 1 \in 1..Len(In(s))
  BY <1>1, <1>2, NextItem DEF In
<1>4. v = In(s)[Pos(s) + 1] /\ v.n = Pos(s) + 1 /\ Pos(s) < Len(In(s)) /\ Fine(op, v)
        /\ v.kind = "values" /\ v.src = s
  <2>1. Len(q) \in Nat /\ Len(In(s)) \in Nat /\ Pos(s) = Len(In(s)) - Len(q)
    BY <1>3 DEF Pos, In
  <2>2. Pos(s) + 1 = Len(In(s)) - Len(q) + 1 /\ Pos(s) < Len(In(s))
    BY <1>3, <2>1
  <2> QED BY <1>3, <2>2 DEF Placed
<1>5. Pos(s)' = Pos(s) + 1 /\ \A t \in SourcesOf(op) \ {s} : Pos(t)' = Pos(t)
  <2> DEFINE u == [left[s] EXCEPT !["values"] = Tail(q)]
  <2>1. left' = [left EXCEPT ![s] = u]
    BY <1>1
  <2>2. left \in [SourcesOf(op) -> Line] /\ left[s] \in Line
    BY DEF Ctl, LeftOK
  <2>3. u["values"] = Tail(q)
    BY <2>2 DEF Line
  <2> HIDE DEF u
  <2>4. left'[s]["values"] = Tail(q) /\ \A t \in SourcesOf(op) \ {s} : left'[t] = left[t]
    BY <2>1, <2>2, <2>3
  <2>5. Len(Tail(q)) = Len(q) - 1 /\ Len(q) \in Nat /\ Len(In(s)) \in Nat
    BY <1>1, <1>3
  <2>6. Len(In(s)) - Len(Tail(q)) = Len(In(s)) - Len(q) + 1
    <3>1. ASSUME NEW m \in Nat, NEW n \in Nat PROVE m - (n - 1) = m - n + 1
      OBVIOUS
    <3> QED BY <2>5, <3>1
  <2> QED BY <1>1, <2>4, <2>6 DEF Pos, In
<1> HIDE DEF v, q
<1> QED BY <1>1, <1>3, <1>4, <1>5 DEF v, q

-----------------------------------------------------------------------------
(* SlidingWindow: its buffer is the end of what it has read, all of it or    *)
(* enough for the next window.                                               *)
SlideInv ==
  op = "slidingWindow" =>
    /\ Recent(mem.batch, In(1), Pos(1))
    /\ mem.count = Pos(1) % Step
    /\ Len(mem.batch) = Pos(1) \/ Len(mem.batch) + Step >= Size + mem.count

Windowed == [w \in Seq(Item) |-> <<w>>]
WindowsAt == [v \in Item |-> IF v.n <= Len(In(1)) THEN WindowAt(v) ELSE <<>>]
SlidingLane(c, s, k, h, g, Y) ==
  op = "slidingWindow" /\ Is(c, s, k, h, g, Y, Values("out"), 1, "values", Windowed, WindowsAt, Seq(Item))

\* What the next value does to the buffer.
Slid(v, r) ==
  /\ Recent(r.mem.batch, In(1), Pos(1) + 1) /\ r.mem.count = (Pos(1) + 1) % Step
  /\ Len(r.mem.batch) = Pos(1) + 1 \/ Len(r.mem.batch) + Step >= Size + r.mem.count
  /\ WindowAt(v) \in Seq(Seq(Item))
  /\ \/ r.sends = <<>> /\ WindowAt(v) = <<>>
     \/ \E w \in Seq(Item) : r.sends = <<Must(Values("out"), w)>> /\ WindowAt(v) = <<w>>

LEMMA SlideIs ==
  ASSUME Ctl, op = "slidingWindow", SlideInv, NEW v \in Item, v = In(1)[Pos(1) + 1],
         v.n = Pos(1) + 1, Pos(1) < Len(In(1))
  PROVE  Slid(v, OnValue(mem, 1, v))
<1>1. 1 \in SourcesOf(op) /\ mem \in MemOf(op) /\ mem.batch \in Seq(Item) /\ mem.count \in Nat
  BY DEF SourcesOf, Ctl, MemOf
<1>2. Pos(1) \in Nat /\ In(1) \in Seq(Item)
  BY <1>1, PosIs
<1>3. PICK a, p, b, k : a = In(1) /\ p = Pos(1) /\ b = Append(mem.batch, v) /\ k = mem.count
  OBVIOUS
<1>4. Recent(b, a, p + 1) /\ Len(b) = Len(mem.batch) + 1 /\ b \in Seq(Item)
        /\ Len(mem.batch) \in Nat /\ Len(mem.batch) <= p
      /\ Len(b) \in Nat
  <2>1. Recent(mem.batch, a, p)
    BY <1>3 DEF SlideInv
  <2>2. Recent(b, a, p + 1) /\ Len(b) = Len(mem.batch) + 1 /\ b \in Seq(Item)
    BY <1>1, <1>2, <1>3, <2>1, RecentAppend
  <2> QED BY <1>1, <1>2, <1>3, <2>1, <2>2 DEF Recent
<1>5. Step \in Nat \ {0} /\ Size \in Nat /\ Size >= Step
  BY StepAssumption
<1>6. k \in 0..(Step - 1) /\ (p + 1) % Step = IF k + 1 = Step THEN 0 ELSE k + 1
  BY <1>2, <1>3, <1>5, ModStep DEF SlideInv
<1>7. Len(mem.batch) = p \/ Len(mem.batch) + Step >= Size + k
  BY <1>3 DEF SlideInv
<1> DEFINE due == k + 1 = Step
<1>9. PICK n : n = [mem EXCEPT !.batch = b, !.count = IF due THEN 0 ELSE k + 1]
  OBVIOUS
<1>10. OnValue(mem, 1, v) =
         IF due /\ Len(b) >= Size
         THEN Emit([n EXCEPT !.batch = SubSeq(b, Step + 1, Len(b))], "out", SubSeq(b, Len(b) - Size + 1, Len(b)))
         ELSE Keep(n)
  BY <1>3, <1>9 DEF OnValue, SlidingWindow
<1>11. n.batch = b /\ n.count = (p + 1) % Step /\ \A x : [n EXCEPT !.batch = x].batch = x
         /\ [n EXCEPT !.batch = x].count = n.count
  BY <1>1, <1>6, <1>9 DEF MemOf
<1>12. WindowAt(v) = When((p + 1) % Step = 0 /\ p + 1 >= Size, SubSeq(a, (p + 1) - Size + 1, p + 1))
  BY <1>3 DEF WindowAt
<1>13. due <=> (p + 1) % Step = 0
  BY <1>5, <1>6
<1>14. CASE due /\ Len(b) >= Size
  <2>1. p + 1 >= Size
    BY <1>2, <1>3, <1>4, <1>5, <1>14
  <2>2. PICK w : w = SubSeq(b, Len(b) - Size + 1, Len(b))
    OBVIOUS
  <2>3. w = SubSeq(a, (p + 1) - Size + 1, p + 1) /\ w \in Seq(Item)
    <3>1. Size \in Nat \ {0} /\ Size <= Len(b) /\ p + 1 \in Nat /\ a \in Seq(Item)
      BY <1>2, <1>3, <1>4, <1>5, <1>14
    <3>2. PICK e \in Nat : e = p + 1
      BY <3>1
    <3>3. Recent(b, a, e)
      BY <1>4, <3>2
    <3>4. SubSeq(b, Len(b) - Size + 1, Len(b)) = SubSeq(a, e - Size + 1, e)
            /\ SubSeq(b, Len(b) - Size + 1, Len(b)) \in Seq(Item)
      BY <1>4, <3>1, <3>3, RecentWindow
    <3> QED BY <2>2, <3>2, <3>4
  <2>4. PICK d : d = SubSeq(b, Step + 1, Len(b))
    OBVIOUS
  <2>5. Recent(d, a, p + 1) /\ Len(d) = Len(b) - Step
    <3>1. Step \in Nat /\ Step <= Len(b) /\ p + 1 \in Nat /\ a \in Seq(Item)
      BY <1>2, <1>3, <1>4, <1>5, <1>14
    <3>2. PICK e \in Nat : e = p + 1
      BY <3>1
    <3>3. Recent(b, a, e)
      BY <1>4, <3>2
    <3>4. LET r == SubSeq(b, Step + 1, Len(b)) IN Recent(r, a, e) /\ Len(r) = Len(b) - Step /\ r \in Seq(Item)
      BY <1>4, <3>1, <3>3, RecentDrop
    <3> QED BY <2>4, <3>2, <3>4
  <2>6. OnValue(mem, 1, v).sends = <<Must(Values("out"), w)>> /\ OnValue(mem, 1, v).mem = [n EXCEPT !.batch = d]
    <3>1. OnValue(mem, 1, v) = Emit([n EXCEPT !.batch = d], "out", w)
      BY <1>10, <1>14, <2>2, <2>4
    <3>2. PICK z : z = [n EXCEPT !.batch = d]
      OBVIOUS
    <3> QED BY <3>1, <3>2 DEF Emit, Then
  <2>7. Len(d) + Step >= Size + n.count
    BY <1>4, <1>5, <1>11, <1>13, <1>14, <2>5
  <2>8. WindowAt(v) = <<w>> /\ <<w>> \in Seq(Seq(Item))
    BY <1>12, <1>13, <1>14, <2>1, <2>3, One DEF When
  <2> QED BY <1>3, <1>11, <2>3, <2>5, <2>6, <2>7, <2>8 DEF Slid
<1>15. CASE ~(due /\ Len(b) >= Size)
  <2>1. OnValue(mem, 1, v).sends = <<>> /\ OnValue(mem, 1, v).mem = n
    BY <1>10, <1>15 DEF Keep, Then
  <2>2. Len(b) = p + 1 \/ Len(b) + Step >= Size + n.count
    <3>1. CASE Len(mem.batch) = p
      BY <1>4, <3>1
    <3>2. CASE Len(mem.batch) + Step >= Size + k /\ ~due
      <4>1. n.count = k + 1
        BY <1>6, <1>11, <3>2
      <4> QED BY <1>4, <1>5, <1>6, <3>2, <4>1
    <3>3. CASE Len(mem.batch) + Step >= Size + k /\ due
      <4>1. Len(b) >= Size
        BY <1>4, <1>5, <1>6, <3>3
      <4> QED BY <1>15, <3>3, <4>1
    <3> QED BY <1>7, <3>1, <3>2, <3>3
  <2>3. ~((p + 1) % Step = 0 /\ p + 1 >= Size)
    <3>1. SUFFICES ASSUME due, p + 1 >= Size PROVE FALSE
      BY <1>13
    <3>2. Len(b) >= Size
      BY <1>2, <1>3, <1>4, <1>5, <1>6, <1>7, <3>1
    <3> QED BY <1>15, <3>1, <3>2
  <2>4. WindowAt(v) = <<>>
    BY <1>12, <2>3 DEF When
  <2> QED BY <1>3, <1>4, <1>11, <2>1, <2>2, <2>4, SeqNone DEF Slid
<1> QED BY <1>14, <1>15

LEMMA SlideInit == Init => SlideInv
<1> SUFFICES ASSUME Init, op = "slidingWindow" PROVE SlideInv
  BY DEF SlideInv
<1>1. Ctl /\ 1 \in SourcesOf(op)
  BY CtlInit DEF SourcesOf
<1>2. In(1) \in Seq(Item) /\ left = input /\ mem.batch = <<>> /\ mem.count = 0
  BY <1>1, PosIs DEF Init
<1>3. Len(In(1)) \in Nat /\ Pos(1) = Len(In(1)) - Len(In(1))
  BY <1>2 DEF Pos, In
<1>4. Pos(1) = 0 /\ Len(<<>>) = 0
  BY <1>3
<1>5. 0 % Step = 0
  <2>1. 0 \in 0..(Step - 1) /\ 0 * Step + 0 = 0 /\ Step \in Nat \ {0}
    BY StepAssumption
  <2> QED BY <2>1, ModIs
<1> QED BY <1>2, <1>3, <1>4, <1>5 DEF SlideInv, Recent

LEMMA SlideStep == ASSUME Ctl, SlideInv, [Next]_vars PROVE SlideInv'
<1> SUFFICES ASSUME op = "slidingWindow" PROVE SlideInv'
  BY SteadyStep DEF SlideInv, Steady
<1>1. SourcesOf(op) = {1} /\ In(1)' = In(1)
  BY SteadyStep DEF SourcesOf, Steady, In
<1>2. ASSUME NEW l \in LoopsOf(op), NEW s \in SourcesOf(op), Receive(l, s, "values") PROVE SlideInv'
  <2>1. PICK v \in Item : /\ v = In(1)[Pos(1) + 1] /\ v.n = Pos(1) + 1 /\ Pos(1) < Len(In(1))
                          /\ Pos(1)' = Pos(1) + 1 /\ mem' = OnValue(mem, 1, v).mem
    BY <1>1, <1>2, ReceivesNext
  <2>2. Slid(v, OnValue(mem, 1, v))
    BY <2>1, SlideIs
  <2>3. /\ Recent(mem'.batch, In(1), Pos(1) + 1) /\ mem'.count = (Pos(1) + 1) % Step
        /\ Len(mem'.batch) = Pos(1) + 1 \/ Len(mem'.batch) + Step >= Size + mem'.count
    BY <2>1, <2>2 DEF Slid
  <2>4. Recent(mem.batch, In(1), Pos(1))' <=> Recent(mem'.batch, In(1)', Pos(1)')
    BY DEF Recent
  <2> QED BY <1>1, <2>1, <2>3, <2>4 DEF SlideInv
<1>3. ASSUME SameValues, ByTimer PROVE SlideInv'
  <2>1. Pos(1)' = Pos(1)
    BY <1>1, <1>3, SteadyStep DEF SameValues, Pos, Steady
  <2>2. mem'.batch = mem.batch /\ mem'.count = mem.count
    BY <1>3 DEF ByTimer, Ctl, MemOf
  <2>4. Recent(mem.batch, In(1), Pos(1))' <=> Recent(mem'.batch, In(1)', Pos(1)')
    BY DEF Recent
  <2> QED BY <1>1, <2>1, <2>2, <2>4 DEF SlideInv
<1> QED BY <1>2, <1>3, MemStep

LEMMA WindowsType == ASSUME Ctl, op = "slidingWindow" PROVE WindowsAt \in [Item -> Seq(Seq(Item))]
<1>1. 1 \in SourcesOf(op)
  BY DEF SourcesOf
<1>2. PICK a : a = In(1)
  OBVIOUS
<1>3. a \in Seq(Item)
  BY <1>1, <1>2, PosIs
<1>4. ASSUME NEW v \in Item
      PROVE  (IF v.n <= Len(In(1)) THEN WindowAt(v) ELSE <<>>) \in Seq(Seq(Item))
  <2>1. PICK i \in Nat : i = v.n
    BY DEF Item
  <2>2. Size \in Nat \ {0}
    BY StepAssumption
  <2>3. ASSUME i <= Len(a), i >= Size PROVE SubSeq(a, i - Size + 1, i) \in Seq(Item)
    <3>1. PICK m \in Nat : m = i - Size + 1
      BY <2>2, <2>3
    <3>2. 1 <= m /\ m <= i + 1
      BY <2>2, <2>3, <3>1
    <3>3. SubSeq(a, m, i) \in Seq(Item)
      BY <1>3, <2>3, <3>2, SubIs
    <3> QED BY <3>1, <3>3
  <2>4. i <= Len(a) => WindowAt(v) \in Seq(Seq(Item))
    <3>1. WindowAt(v) = When(i % Step = 0 /\ i >= Size, SubSeq(a, i - Size + 1, i))
      BY <1>2, <2>1 DEF WindowAt
    <3> QED BY <2>3, <3>1, One, SeqNone DEF When
  <2> QED BY <1>2, <2>1, <2>4, SeqNone
<1> QED BY <1>4 DEF WindowsAt

LEMMA SlidingLaneFed ==
  ASSUME Ctl, op = "slidingWindow", SlideInv
  PROVE  /\ Lane(Values("out"), 1, "values", Windowed, WindowsAt, Seq(Item))
         /\ Feeds(Values("out"), 1, "values", Windowed, WindowsAt)
<1>1. PICK c, h : c = Values("out") /\ h = Windowed
  OBVIOUS
<1>2. c \in ChannelsOf(op) /\ c[1] = "values" /\ "values" \in Kinds /\ op \notin Holding
        /\ WhatOf(op, c) = Seq(Item)
      /\ SourcesOf(op) = {1}
  BY <1>1, ChannelIs DEF OutputsOf, Values, Kinds, Holding, WhatOf, Results, SourcesOf
<1>3. h \in [Seq(Item) -> Seq(Seq(Item))] /\ \A w \in Seq(Item) : h[w] = <<w>>
  BY <1>1, One DEF Windowed
<1>4. Lane(c, 1, "values", h, WindowsAt, Seq(Item))
  BY <1>2, <1>3, WindowsType DEF Lane
<1>7. ASSUME NEW t \in SourcesOf(op), NEW j \in Kinds, left[t][j] # <<>>
      PROVE  Brings(CaseAt(t, j).sends, c, h, IF t = 1 /\ j = "values" THEN WindowsAt[Head(left[t][j])] ELSE <<>>)
  <2> DEFINE v == Head(left[t][j])
             q == CaseAt(t, j).sends
  <2>1. /\ q \in Seq(SendsOf(op)) /\ v \in Item /\ t = 1
        /\ (j = "values" => q = OnValue(mem, t, v).sends)
        /\ (j = "errors" => Passes(q, v))
    BY <1>2, <1>7, CaseSends
  <2>2. CASE j = "values"
    <3>0. v.n \in Nat /\ v = In(1)[Pos(1) + 1] /\ v.n = Pos(1) + 1 /\ Pos(1) < Len(In(1))
      <4>1. /\ Placed(1, "values", Len(In(1)) - Len(left[1]["values"]) + 1, v)
            /\ left[1]["values"] \in Seq(Item) /\ In(1) \in Seq(Item)
            /\ v = In(1)[Len(In(1)) - Len(left[1]["values"]) + 1]
            /\ Len(In(1)) - Len(left[1]["values"]) + 1 \in 1..Len(In(1))
        BY <1>7, <2>1, <2>2, NextItem DEF In
      <4>2. Pos(1) = Len(In(1)) - Len(left[1]["values"])
        BY DEF Pos, In
      <4>3. Len(In(1)) \in Nat /\ Len(left[1]["values"]) \in Nat
        BY <4>1
      <4> HIDE DEF v
      <4>4. v.n = Pos(1) + 1 /\ v = In(1)[Pos(1) + 1] /\ Pos(1) + 1 \in 1..Len(In(1))
        BY <4>1, <4>2 DEF Placed
      <4>5. Pos(1) \in Nat /\ Pos(1) < Len(In(1))
        <5>1. ASSUME NEW a \in Nat, NEW b \in Nat, (a - b) + 1 \in 1..a
              PROVE  a - b \in Nat /\ a - b < a
          BY <5>1
        <5>2. (Len(In(1)) - Len(left[1]["values"])) + 1 \in 1..Len(In(1))
          BY <4>2, <4>4
        <5> QED BY <4>2, <4>3, <5>1, <5>2
      <4> QED BY <4>4, <4>5
    <3> HIDE DEF v
    <3>1. Slid(v, OnValue(mem, 1, v))
      BY <2>1, <3>0, SlideIs
    <3>2. WindowsAt[v] = WindowAt(v)
      <4>1. v.n <= Len(In(1))
        <5>1. 1 \in SourcesOf(op)
          BY <1>2
        <5>2. Pos(1) \in Nat /\ In(1) \in Seq(Item)
          BY <5>1, PosIs
        <5>3. Len(In(1)) \in Nat
          BY <5>2
        <5> QED BY <3>0, <5>2, <5>3
      <4> QED BY <2>1, <4>1 DEF WindowsAt
    <3>3. PICK r : r = OnValue(mem, 1, v).sends
      OBVIOUS
    <3>4. (r = <<>> /\ WindowAt(v) = <<>>) \/ \E w \in Seq(Item) : r = <<Must(c, w)>> /\ WindowAt(v) = <<w>>
      BY <1>1, <3>1, <3>3 DEF Slid
    <3>5. Brings(r, c, h, WindowAt(v))
      <4>1. CASE r = <<>> /\ WindowAt(v) = <<>>
        BY <4>1, NoneBrings
      <4>2. ASSUME NEW w \in Seq(Item), r = <<Must(c, w)>>, WindowAt(v) = <<w>>
            PROVE  Brings(r, c, h, WindowAt(v))
        <5>1. w \in WhatOf(op, c)
          BY <1>2
        <5>2. Brings(<<Must(c, w)>>, c, h, h[w])
          BY <1>2, <1>4, <5>1, ItemBrings
        <5> QED BY <1>3, <4>2, <5>2
      <4> QED BY <3>4, <4>1, <4>2
    <3> QED BY <2>1, <2>2, <3>2, <3>3, <3>5 DEF v
  <2>3. CASE j = "errors"
    <3> HIDE DEF q, v
    <3>1. ASSUME NEW i \in 1..Len(q) PROVE q[i].to # c
      <4>1. q[i].to[1] # "values"
        BY <2>1, <2>3 DEF Passes, PassOne
      <4> QED BY <1>2, <4>1
    <3>2. Silent(q, c, h)
      BY <3>1 DEF Silent
    <3>3. Brings(q, c, h, <<>>)
      BY <1>4, <2>1, <3>2, SilentBrings
    <3> QED BY <2>3, <3>3 DEF q
  <2> QED BY <2>2, <2>3 DEF Kinds
<1>8. Feeds(c, 1, "values", h, WindowsAt)
  BY <1>2, <1>4, <1>7, PlainFeeds
<1> QED BY <1>1, <1>4, <1>8

-----------------------------------------------------------------------------
(* All the lanes of an operator.                                             *)
IsLane(c, s, k, h, g, Y) ==
  \/ ValuesLane(c, s, k, h, g, Y) \/ ErrorsLane(c, s, k, h, g, Y) \/ FailuresLane(c, s, k, h, g, Y)
  \/ MappedLane(c, s, k, h, g, Y) \/ AnswersLane(c, s, k, h, g, Y) \/ PublishedLane(c, s, k, h, g, Y)
  \/ SlicedLane(c, s, k, h, g, Y) \/ BatchLane(c, s, k, h, g, Y) \/ ZipLane(c, s, k, h, g, Y)
  \/ SlidingLane(c, s, k, h, g, Y)
LanesInv == \A c, s, k, h, g, Y : IsLane(c, s, k, h, g, Y) => LaneInv(c, s, k, h, g, Y)

LEMMA LaneFed ==
  ASSUME Ctl, SlideInv, NEW c, NEW s, NEW k, NEW h, NEW g, NEW Y, IsLane(c, s, k, h, g, Y)
  PROVE  Lane(c, s, k, h, g, Y) /\ Feeds(c, s, k, h, g)
<1>1. CASE ValuesLane(c, s, k, h, g, Y)
  BY <1>1, PassLane, PassFeeds DEF ValuesLane, Is
<1>2. CASE ErrorsLane(c, s, k, h, g, Y)
  BY <1>2, ErrorsLaneFed DEF ErrorsLane, Is
<1>3. CASE FailuresLane(c, s, k, h, g, Y)
  BY <1>3, FailuresLaneFed DEF FailuresLane, Is
<1>4. CASE MappedLane(c, s, k, h, g, Y)
  BY <1>4, MappedLaneFed DEF MappedLane, Is
<1>5. CASE AnswersLane(c, s, k, h, g, Y)
  BY <1>5, AnswersLaneFed DEF AnswersLane, Is
<1>6. CASE PublishedLane(c, s, k, h, g, Y)
  BY <1>6, PublishedLaneFed DEF PublishedLane, Is
<1>7. CASE SlicedLane(c, s, k, h, g, Y)
  BY <1>7, SlicedLaneFed DEF SlicedLane, Is
<1>8. CASE BatchLane(c, s, k, h, g, Y)
  BY <1>8, BatchLaneFed DEF BatchLane, Is
<1>9. CASE ZipLane(c, s, k, h, g, Y)
  BY <1>9, ZipLaneFed DEF ZipLane, Is
<1>10. CASE SlidingLane(c, s, k, h, g, Y)
  BY <1>10, SlidingLaneFed DEF SlidingLane, Is
<1> QED BY <1>1, <1>2, <1>3, <1>4, <1>5, <1>6, <1>7, <1>8, <1>9, <1>10 DEF IsLane

\* Which lanes there are never changes.
LEMMA LanesStay ==
  ASSUME Steady, NEW c, NEW s, NEW k, NEW h, NEW g, NEW Y
  PROVE  IsLane(c, s, k, h, g, Y)' <=> IsLane(c, s, k, h, g, Y)
<1>0. op' = op /\ input' = input
  BY DEF Steady
<1>1. /\ \A o : WantedBy(o)' = WantedBy(o)
      /\ FailingBy' = FailingBy /\ AnsweredBy' = AnsweredBy /\ ErrorOwners' = ErrorOwners
      /\ Batches(op)' = Batches(op)
  BY <1>0 DEF WantedBy, Wanted, FailingBy, Failing, AnsweredBy, Answered, ErrorOwners, Batches
<1>2. WindowsAt' = WindowsAt
  BY <1>0 DEF WindowsAt, WindowAt, In
<1>3. ValuesLane(c, s, k, h, g, Y)' <=> ValuesLane(c, s, k, h, g, Y)
  BY <1>0, <1>1 DEF ValuesLane, Is
<1>4. ErrorsLane(c, s, k, h, g, Y)' <=> ErrorsLane(c, s, k, h, g, Y)
  BY <1>0, <1>1 DEF ErrorsLane, Is
<1>5. FailuresLane(c, s, k, h, g, Y)' <=> FailuresLane(c, s, k, h, g, Y)
  BY <1>0, <1>1 DEF FailuresLane, Is
<1>6. MappedLane(c, s, k, h, g, Y)' <=> MappedLane(c, s, k, h, g, Y)
  BY <1>0 DEF MappedLane, Is
<1>7. AnswersLane(c, s, k, h, g, Y)' <=> AnswersLane(c, s, k, h, g, Y)
  BY <1>0, <1>1 DEF AnswersLane, Is
<1>8. PublishedLane(c, s, k, h, g, Y)' <=> PublishedLane(c, s, k, h, g, Y)
  BY <1>0 DEF PublishedLane, Is
<1>9. SlicedLane(c, s, k, h, g, Y)' <=> SlicedLane(c, s, k, h, g, Y)
  BY <1>0 DEF SlicedLane, Is
<1>10. BatchLane(c, s, k, h, g, Y)' <=> BatchLane(c, s, k, h, g, Y)
  BY <1>0, <1>1 DEF BatchLane, Is
<1>11. ZipLane(c, s, k, h, g, Y)' <=> ZipLane(c, s, k, h, g, Y)
  BY <1>0 DEF ZipLane, Is
<1>12. SlidingLane(c, s, k, h, g, Y)' <=> SlidingLane(c, s, k, h, g, Y)
  BY <1>0, <1>2 DEF SlidingLane, Is
<1> QED BY <1>3, <1>4, <1>5, <1>6, <1>7, <1>8, <1>9, <1>10, <1>11, <1>12 DEF IsLane

LEMMA LanesInit == Init => LanesInv
<1> SUFFICES ASSUME Init, NEW c, NEW s, NEW k, NEW h, NEW g, NEW Y, IsLane(c, s, k, h, g, Y)
             PROVE  LaneInv(c, s, k, h, g, Y)
  BY DEF LanesInv
<1>1. Ctl /\ SlideInv
  BY CtlInit, SlideInit
<1>2. Lane(c, s, k, h, g, Y)
  BY <1>1, LaneFed
<1> QED BY <1>1, <1>2, LaneInit

LEMMA LanesStep == ASSUME Ctl, SlideInv, LanesInv, [Next]_vars PROVE LanesInv'
<1>1. Ctl' /\ Steady
  BY CtlStep, SteadyStep
<1> SUFFICES ASSUME NEW c, NEW s, NEW k, NEW h, NEW g, NEW Y, IsLane(c, s, k, h, g, Y)'
             PROVE  LaneInv(c, s, k, h, g, Y)'
  BY DEF LanesInv
<1>2. IsLane(c, s, k, h, g, Y)
  BY <1>1, LanesStay
<1>3. Lane(c, s, k, h, g, Y) /\ Feeds(c, s, k, h, g)
  BY <1>2, LaneFed
<1>4. LaneInv(c, s, k, h, g, Y)
  BY <1>2 DEF LanesInv
<1> QED BY <1>1, <1>3, <1>4, LaneStep

-----------------------------------------------------------------------------
(* What the lanes say of what came out.                                      *)
LEMMA LaneSays ==
  ASSUME Ctl, SlideInv, LanesInv, NEW c, NEW s, NEW k, NEW h, NEW g, NEW Y,
         IsLane(c, s, k, h, g, Y),
         ~Soft(op, c) \/ ~ctxDone, (op \in Holding /\ c[1] # "errors") => (Ended => Kept(c, s) = <<>>)
  PROVE  Delivers(Came(c, h), Whole(s, k, g))
<1>1. Lane(c, s, k, h, g, Y) /\ LaneInv(c, s, k, h, g, Y)
  BY LaneFed DEF LanesInv
<1>2. Ended => Kept(c, s) = <<>>
  BY DEF Kept, KeptIn, Holding
<1> QED BY <1>1, <1>2, LaneDelivers

LEMMA KindGather ==
  ASSUME NEW q \in Seq(Item), NEW d
  PROVE  OfKind(q, d) = Gather(q, KindIs(d))
<1>1. \A i \in DOMAIN q : KindIs(d)[q[i]] = When(q[i].kind = d, q[i])
  BY DEF KindIs
<1> QED BY <1>1 DEF OfKind, FlatMap, Gather, Images

LEMMA GatherItself == ASSUME NEW q \in Seq(Item) PROVE Gather(q, Itself) = q
<1>1. Matches(q, Itself, q)
  BY DEF Matches, Itself
<1>2. PICK X, f : X = Item /\ f = Itself
  OBVIOUS
<1>3. f \in [X -> Seq(X)] /\ q \in Seq(X) /\ Matches(q, f, q)
  BY <1>1, <1>2, ItemFunctions
<1> QED BY <1>2, <1>3, GatherEach

\* An output channel that carries items, and the input of a source.
LEMMA ItemsOut ==
  ASSUME Ctl, NEW c \in ChannelsOf(op), WhatOf(op, c) = Item
  PROVE  got[c] \in Seq(Item)
BY DEF Ctl, GotOK
LEMMA ItemsIn ==
  ASSUME Ctl, NEW s \in SourcesOf(op)
  PROVE  In(s) \in Seq(Item) /\ ErrIn(s) \in Seq(Item)
BY LineKinds DEF Ctl, InputOK, In, ErrIn, Kinds

LEMMA PassesOnHolds == ASSUME Ctl, SlideInv, LanesInv PROVE PassesOn
<1> SUFFICES ASSUME op \in Passing, NEW o \in OutputsOf(op), NEW s \in SourcesOf(op)
             PROVE  Delivers(FlatMap(Out(o), LAMBDA x : When(x.kind = "values" /\ x.src = s, x)),
                             FlatMap(In(s), LAMBDA v : When(Wanted(o, v), v)))
  BY DEF PassesOn
<1>1. ~Soft(op, Values(o)) /\ op \notin Holding /\ Values(o) \in ChannelsOf(op)
        /\ WhatOf(op, Values(o)) = Item
  BY PassLane, ChannelIs DEF Soft, Values, Passing, Sinks, WhatOf
<1>2. IsLane(Values(o), s, "values", OfSource(s), WantedBy(o), Item)
  BY DEF IsLane, ValuesLane, Is
<1>3. Delivers(Came(Values(o), OfSource(s)), Whole(s, "values", WantedBy(o)))
  BY <1>1, <1>2, LaneSays
<1>4. Out(o) \in Seq(Item) /\ In(s) \in Seq(Item)
  BY <1>1, ItemsOut, ItemsIn DEF Out
<1>5. FlatMap(Out(o), LAMBDA x : When(x.kind = "values" /\ x.src = s, x)) = Came(Values(o), OfSource(s))
  <2>1. \A i \in DOMAIN Out(o) : OfSource(s)[Out(o)[i]] = When(Out(o)[i].kind = "values" /\ Out(o)[i].src = s, Out(o)[i])
    BY <1>4 DEF OfSource
  <2> QED BY <2>1 DEF FlatMap, Came, Gather, Images, Out
<1>6. FlatMap(In(s), LAMBDA v : When(Wanted(o, v), v)) = Whole(s, "values", WantedBy(o))
  <2>1. \A i \in DOMAIN In(s) : WantedBy(o)[In(s)[i]] = When(Wanted(o, In(s)[i]), In(s)[i])
    BY <1>4 DEF WantedBy
  <2> QED BY <2>1 DEF FlatMap, Whole, Gather, Images, In
<1> QED BY <1>3, <1>5, <1>6

-----------------------------------------------------------------------------
(* Errors, failures and answers.                                             *)
LEMMA OwnersDeliver ==
  ASSUME Ctl, SlideInv, LanesInv, NEW o \in ErrorOwners
  PROVE  Delivers(OfKind(got[Errors(o)], "errors"), ErrIn(1))
<1>1. Lane(Errors(o), 1, "errors", KindIs("errors"), Itself, Item)
        /\ IsLane(Errors(o), 1, "errors", KindIs("errors"), Itself, Item)
  BY ErrorsLaneFed DEF IsLane, ErrorsLane, Is
<1>2. ~Soft(op, Errors(o)) /\ Errors(o)[1] = "errors" /\ WhatOf(op, Errors(o)) = Item
        /\ Errors(o) \in ChannelsOf(op)
      /\ 1 \in SourcesOf(op)
  BY <1>1 DEF Lane, WhatOf, Errors
<1>3. Delivers(Came(Errors(o), KindIs("errors")), Whole(1, "errors", Itself))
  BY <1>1, <1>2, LaneSays
<1>4. OfKind(got[Errors(o)], "errors") = Came(Errors(o), KindIs("errors"))
  BY <1>2, ItemsOut, KindGather DEF Came
<1>5. Whole(1, "errors", Itself) = ErrIn(1)
  <2>1. ErrIn(1) \in Seq(Item)
    BY <1>2, ItemsIn
  <2> QED BY <2>1, GatherItself DEF Whole, ErrIn
<1> QED BY <1>3, <1>4, <1>5

LEMMA FailuresDeliver ==
  ASSUME Ctl, SlideInv, LanesInv, op \in {"apply", "map", "fromCodec"} \cup Adapters
  PROVE  Delivers(OfKind(got[Errors("out")], "failure"), FlatMap(In(1), LAMBDA v : When(Failing(v), FailureOf(v))))
<1>1. /\ Lane(Errors("out"), 1, "values", KindIs("failure"), FailingBy, Item)
      /\ IsLane(Errors("out"), 1, "values", KindIs("failure"), FailingBy, Item)
  BY FailuresLaneFed DEF IsLane, FailuresLane, Is
<1>2. ~Soft(op, Errors("out")) /\ Errors("out")[1] = "errors" /\ WhatOf(op, Errors("out")) = Item
        /\ Errors("out") \in ChannelsOf(op)
      /\ 1 \in SourcesOf(op)
  BY <1>1 DEF Lane, WhatOf, Errors
<1>3. Delivers(Came(Errors("out"), KindIs("failure")), Whole(1, "values", FailingBy))
  BY <1>1, <1>2, LaneSays
<1>4. OfKind(got[Errors("out")], "failure") = Came(Errors("out"), KindIs("failure"))
  BY <1>2, ItemsOut, KindGather DEF Came
<1>5. FlatMap(In(1), LAMBDA v : When(Failing(v), FailureOf(v))) = Whole(1, "values", FailingBy)
  <2>1. \A i \in DOMAIN In(1) : FailingBy[In(1)[i]] = When(Failing(In(1)[i]), FailureOf(In(1)[i]))
    BY <1>2, ItemsIn DEF FailingBy
  <2> QED BY <2>1 DEF FlatMap, Whole, Gather, Images, In
<1> QED BY <1>3, <1>4, <1>5

LEMMA MappedDeliver ==
  ASSUME Ctl, SlideInv, LanesInv, op = "mapErr"
  PROVE  /\ Delivers(OfKind(Out("out"), "recovered"), FlatMap(ErrIn(1), LAMBDA e : When(e.class = "a", RecoveredOf(e))))
         /\ Delivers(OfKind(got[Errors("out")], "replaced"), FlatMap(ErrIn(1), LAMBDA e : When(e.class = "b", ReplacedBy(e))))
<1>1. /\ IsLane(Values("out"), 1, "errors", KindIs("recovered"), Recovering, Item)
      /\ IsLane(Errors("out"), 1, "errors", KindIs("replaced"), Replacing, Item)
      /\ Lane(Values("out"), 1, "errors", KindIs("recovered"), Recovering, Item)
      /\ Lane(Errors("out"), 1, "errors", KindIs("replaced"), Replacing, Item)
  BY MappedLaneFed DEF IsLane, MappedLane, Is
<1>2. /\ ~Soft(op, Errors("out")) /\ ~Soft(op, Values("out")) /\ op \notin Holding
      /\ WhatOf(op, Errors("out")) = Item /\ WhatOf(op, Values("out")) = Item
      /\ Errors("out") \in ChannelsOf(op) /\ Values("out") \in ChannelsOf(op) /\ 1 \in SourcesOf(op)
  BY <1>1 DEF Lane, WhatOf, Errors, Values, Soft, Results, Holding
<1>3. /\ Delivers(Came(Values("out"), KindIs("recovered")), Whole(1, "errors", Recovering))
      /\ Delivers(Came(Errors("out"), KindIs("replaced")), Whole(1, "errors", Replacing))
  BY <1>1, <1>2, LaneSays
<1>4. /\ OfKind(Out("out"), "recovered") = Came(Values("out"), KindIs("recovered"))
      /\ OfKind(got[Errors("out")], "replaced") = Came(Errors("out"), KindIs("replaced"))
  BY <1>2, ItemsOut, KindGather DEF Came, Out
<1>0. ErrIn(1) \in Seq(Item)
  BY <1>2, ItemsIn
<1>5. FlatMap(ErrIn(1), LAMBDA e : When(e.class = "a", RecoveredOf(e))) = Whole(1, "errors", Recovering)
  <2>1. \A i \in DOMAIN ErrIn(1) : Recovering[ErrIn(1)[i]] = When(ErrIn(1)[i].class = "a", RecoveredOf(ErrIn(1)[i]))
    BY <1>0 DEF Recovering
  <2> QED BY <2>1 DEF FlatMap, Whole, Gather, Images, ErrIn
<1>6. FlatMap(ErrIn(1), LAMBDA e : When(e.class = "b", ReplacedBy(e))) = Whole(1, "errors", Replacing)
  <2>1. \A i \in DOMAIN ErrIn(1) : Replacing[ErrIn(1)[i]] = When(ErrIn(1)[i].class = "b", ReplacedBy(ErrIn(1)[i]))
    BY <1>0 DEF Replacing
  <2> QED BY <2>1 DEF FlatMap, Whole, Gather, Images, ErrIn
<1> QED BY <1>3, <1>4, <1>5, <1>6

LEMMA AnswersHolds == ASSUME Ctl, SlideInv, LanesInv PROVE Answers
<1>0. ErrIn(1) \in Seq(Item) /\ In(1) \in Seq(Item)
  <2>1. 1 \in SourcesOf(op)
    BY DEF SourcesOf
  <2> QED BY <2>1, ItemsIn
<1>1. ASSUME op \in {"call", "queryEach", "get"}
      PROVE  Delivers(Out("out"), FlatMap(In(1), LAMBDA v : When(Answered(v), ResponseOf(v))))
  <2>1. /\ Lane(Values("out"), 1, "values", Itself, AnsweredBy, Item)
        /\ IsLane(Values("out"), 1, "values", Itself, AnsweredBy, Item)
    BY <1>1, AnswersLaneFed DEF IsLane, AnswersLane, Is
  <2>2. ~Soft(op, Values("out")) /\ op \notin Holding /\ WhatOf(op, Values("out")) = Item
          /\ Values("out") \in ChannelsOf(op)
    BY <1>1, <2>1 DEF Lane, WhatOf, Values, Soft, Results, Holding
  <2>3. Delivers(Came(Values("out"), Itself), Whole(1, "values", AnsweredBy))
    BY <2>1, <2>2, LaneSays
  <2>4. Out("out") \in Seq(Item)
    BY <2>2, ItemsOut DEF Out
  <2>6. Came(Values("out"), Itself) = Out("out")
    BY <2>4, GatherItself DEF Came, Out
  <2>7. FlatMap(In(1), LAMBDA v : When(Answered(v), ResponseOf(v))) = Whole(1, "values", AnsweredBy)
    <3>1. \A i \in DOMAIN In(1) : AnsweredBy[In(1)[i]] = When(Answered(In(1)[i]), ResponseOf(In(1)[i]))
      BY <1>0 DEF AnsweredBy
    <3> QED BY <3>1 DEF FlatMap, Whole, Gather, Images, In
  <2> QED BY <2>3, <2>6, <2>7
<1>2. ASSUME op = "publish"
      PROVE  /\ Delivers(OfKind(got[Errors("out")], "errors"), FlatMap(ErrIn(1), LAMBDA e : When(e.class = "a", e)))
             /\ Delivers(OfKind(Out("channel"), "errors"), FlatMap(ErrIn(1), LAMBDA e : When(e.class = "b", e)))
  <2>1. /\ IsLane(Errors("out"), 1, "errors", KindIs("errors"), OfClass("a"), Item)
        /\ IsLane(Values("channel"), 1, "errors", KindIs("errors"), OfClass("b"), Item)
        /\ Lane(Errors("out"), 1, "errors", KindIs("errors"), OfClass("a"), Item)
        /\ Lane(Values("channel"), 1, "errors", KindIs("errors"), OfClass("b"), Item)
    BY <1>2, PublishedLaneFed DEF IsLane, PublishedLane, Is
  <2>2. /\ ~Soft(op, Errors("out")) /\ ~Soft(op, Values("channel")) /\ op \notin Holding
        /\ WhatOf(op, Errors("out")) = Item /\ WhatOf(op, Values("channel")) = Item
        /\ Errors("out") \in ChannelsOf(op) /\ Values("channel") \in ChannelsOf(op)
    BY <1>2, <2>1 DEF Lane, WhatOf, Errors, Values, Soft, Results, Holding
  <2>3. /\ Delivers(Came(Errors("out"), KindIs("errors")), Whole(1, "errors", OfClass("a")))
        /\ Delivers(Came(Values("channel"), KindIs("errors")), Whole(1, "errors", OfClass("b")))
    BY <2>1, <2>2, LaneSays
  <2>4. /\ OfKind(got[Errors("out")], "errors") = Came(Errors("out"), KindIs("errors"))
        /\ OfKind(Out("channel"), "errors") = Came(Values("channel"), KindIs("errors"))
    BY <2>2, ItemsOut, KindGather DEF Came, Out
  <2>5. FlatMap(ErrIn(1), LAMBDA e : When(e.class = "a", e)) = Whole(1, "errors", OfClass("a"))
    <3>1. \A i \in DOMAIN ErrIn(1) : OfClass("a")[ErrIn(1)[i]] = When(ErrIn(1)[i].class = "a", ErrIn(1)[i])
      BY <1>0 DEF OfClass
    <3> QED BY <3>1 DEF FlatMap, Whole, Gather, Images, ErrIn
  <2>6. FlatMap(ErrIn(1), LAMBDA e : When(e.class = "b", e)) = Whole(1, "errors", OfClass("b"))
    <3>1. \A i \in DOMAIN ErrIn(1) : OfClass("b")[ErrIn(1)[i]] = When(ErrIn(1)[i].class = "b", ErrIn(1)[i])
      BY <1>0 DEF OfClass
    <3> QED BY <3>1 DEF FlatMap, Whole, Gather, Images, ErrIn
  <2> QED BY <2>3, <2>4, <2>5, <2>6
<1> QED BY <1>1, <1>2 DEF Answers

-----------------------------------------------------------------------------
(* Nothing is forgotten at the end: what a loop has held back is out when    *)
(* the channel it came from is closed, or when the loop ends by itself, and  *)
(* only one of Zip's queues ever holds anything.                             *)
Over(l) == pc[l] \in {"flushing", "done"} /\ ~ctxDone
EmptyInv ==
  /\ op = "buffer" /\ <<1, "values">> \notin open[1] => mem.batch = <<>>
  /\ op \in {"window", "debounce"} /\ Over(1) => mem.batch = <<>>
  /\ op = "zip" => mem.held[1] = <<>> \/ mem.held[2] = <<>>

LEMMA FlushEmpties ==
  ASSUME Ctl
  PROVE  /\ Flush(mem).mem.batch = <<>> /\ Silence(mem).mem.batch = <<>>
         /\ Tick(mem).mem.batch = <<>> /\ Remainder(mem).mem.batch = <<>>
<1>1. mem \in MemOf(op)
  BY DEF Ctl
<1>2. Flush(mem).mem.batch = <<>>
  BY <1>1 DEF Flush, Keep, Then, MemOf
<1>3. Silence(mem).mem.batch = <<>>
  BY <1>1 DEF Silence, Keep, Emit, Then, MemOf
<1>4. Tick(mem).mem.batch = <<>> /\ Remainder(mem).mem.batch = <<>>
  BY <1>1 DEF Tick, Remainder, Keep, Emit, Then, MemOf
<1> QED BY <1>2, <1>3, <1>4

LEMMA EmptyInit == Init => EmptyInv
<1> SUFFICES ASSUME Init PROVE EmptyInv
  OBVIOUS
<1>1. mem.batch = <<>> /\ mem.held = [s \in SourcesOf(op) |-> <<>>]
  BY DEF Init
<1>2. op = "zip" => 1 \in SourcesOf(op)
  BY DEF SourcesOf
<1> QED BY <1>1, <1>2 DEF EmptyInv

LEMMA BufferEmpty ==
  ASSUME Ctl, EmptyInv, [Next]_vars, op = "buffer", <<1, "values">> \notin open'[1]
  PROVE  mem'.batch = <<>>
<1>0. SourcesOf(op) = {1} /\ LoopsOf(op) = {1} /\ mem \in MemOf(op) /\ "values" \in Kinds
  BY DEF SourcesOf, LoopsOf, Ctl, Kinds
<1>1. CASE <<1, "values">> \notin open[1]
  <2>1. mem.batch = <<>>
    BY <1>1 DEF EmptyInv
  <2>2. ~Receive(1, 1, "values")
    BY <1>1 DEF Receive
  <2>3. ByTimer
    BY <1>0, <2>2, MemStep
  <2> QED BY <1>0, <2>1, <2>3, FlushEmpties DEF ByTimer, MemOf
<1>2. CASE <<1, "values">> \in open[1]
  <2>1. open' # open
    BY <1>2
  <2>2. PICK k \in Kinds : SourceClosed(1, 1, k)
    <3>1. \A l, s, k : Receive(l, s, k) => open' = open
      BY DEF Receive
    <3>2. \A l : TimerFires(l) \/ LoopEnds(l) \/ Cancelled(l) \/ Send(l) \/ Drop(l) \/ GiveUp(l) => open' = open
      BY DEF TimerFires, LoopEnds, Cancelled, Send, Drop, GiveUp
    <3>3. CloseOutputs \/ Cancel \/ IntervalPasses => open' = open
      BY DEF CloseOutputs, Cancel, IntervalPasses
    <3> QED BY <1>0, <2>1, <3>1, <3>2, <3>3 DEF Next, Loop, vars
  <2>3. open' = [open EXCEPT ![1] = @ \ {<<1, k>>}]
    BY <2>2 DEF SourceClosed
  <2>4. k = "values"
    BY <1>0, <1>2, <2>3 DEF Ctl, OpenOK
  <2>5. mem' = Flush(mem).mem
    BY <2>2, <2>4 DEF SourceClosed, Enter
  <2> QED BY <2>5, FlushEmpties
<1> QED BY <1>1, <1>2

\* A loop that is over does nothing but what is left to send.
LEMMA BecomesOver ==
  ASSUME Ctl, [Next]_vars, NEW i \in LoopsOf(op), LoopsOf(op) = {i}, Over(i)'
  PROVE  (LoopEnds(i) /\ ~ctxDone) \/ (Over(i) /\ (mem' = mem \/ mem' = [mem EXCEPT !.throttled = FALSE]))
<1>1. pc'[i] \in {"flushing", "done"} /\ ~ctxDone'
  BY DEF Over
<1>2. CASE UNCHANGED vars
  BY <1>1, <1>2 DEF vars, Over
<1>3. CASE CloseOutputs \/ Cancel \/ IntervalPasses
  BY <1>1, <1>3 DEF CloseOutputs, Cancel, IntervalPasses, Over
<1>4. CASE Loop(i)
  <2>0. pc \in [LoopsOf(op) -> {"select", "sending", "flushing", "done"}]
    BY DEF Ctl, PcOK
  <2>1. \A s, k : ~Receive(i, s, k) /\ ~SourceClosed(i, s, k)
    BY <1>1, <2>0 DEF Receive, SourceClosed, Enter
  <2>2. ~TimerFires(i) /\ ~Cancelled(i)
    BY <1>1, <2>0 DEF TimerFires, Cancelled, Enter
  <2>3. ASSUME LoopEnds(i) PROVE ~ctxDone
    BY <1>1, <2>3 DEF LoopEnds
  <2>4. ASSUME Send(i) \/ Drop(i) \/ GiveUp(i) PROVE Over(i) /\ mem' = mem
    <3>1. ctxDone' = ctxDone /\ mem' = mem
      BY <2>4 DEF Send, Drop, GiveUp
    <3>2. Advance(i) /\ Sending(i)
      BY <1>1, <2>4, <3>1 DEF Send, Drop, GiveUp
    <3>3. pc[i] = "flushing"
      BY <1>1, <2>0, <3>2 DEF Advance, Sending
    <3> QED BY <1>1, <3>1, <3>3 DEF Over
  <2> QED BY <1>4, <2>1, <2>2, <2>3, <2>4 DEF Loop
<1> QED BY <1>2, <1>3, <1>4 DEF Next

LEMMA EmptyStep == ASSUME Ctl, EmptyInv, [Next]_vars PROVE EmptyInv'
<1>0. op' = op /\ mem \in MemOf(op)
  BY SteadyStep DEF Steady, Ctl
<1>1. ASSUME op = "buffer", <<1, "values">> \notin open'[1] PROVE mem'.batch = <<>>
  BY <1>1, BufferEmpty
<1>2. ASSUME op \in {"window", "debounce"}, Over(1)' PROVE mem'.batch = <<>>
  <2>1. LoopsOf(op) = {1}
    BY <1>2 DEF LoopsOf
  <2>2. (LoopEnds(1) /\ ~ctxDone) \/ (Over(1) /\ (mem' = mem \/ mem' = [mem EXCEPT !.throttled = FALSE]))
    BY <1>2, <2>1, BecomesOver
  <2>3. ASSUME LoopEnds(1) PROVE mem'.batch = <<>>
    BY <1>0, <1>2, <2>3, FlushEmpties DEF LoopEnds, Keep, Then
  <2>4. ASSUME Over(1), mem' = mem \/ mem' = [mem EXCEPT !.throttled = FALSE]
        PROVE  mem'.batch = <<>>
    BY <1>0, <1>2, <2>4 DEF EmptyInv, MemOf
  <2> QED BY <2>2, <2>3, <2>4
<1>3. ASSUME op = "zip" PROVE mem'.held[1] = <<>> \/ mem'.held[2] = <<>>
  <2>1. CASE SameValues /\ ByTimer
    BY <1>0, <1>3, <2>1 DEF EmptyInv, ByTimer, MemOf
  <2>2. ASSUME NEW l \in LoopsOf(op), NEW t \in SourcesOf(op), Receive(l, t, "values")
        PROVE  mem'.held[1] = <<>> \/ mem'.held[2] = <<>>
    <3>1. PICK v \in Item : v = Head(left[t]["values"]) /\ Fine(op, v) /\ mem' = OnValue(mem, t, v).mem
      BY <2>2, ReceivesNext
    <3>2. t \in {1, 2}
      BY <1>3 DEF SourcesOf
    <3>3. PICK c : c = Values("out")
      OBVIOUS
    <3>4. PICK n : /\ Queued(n, t, v)
                   /\ AllHeld(n) => /\ HeldHeads(n) \in WhatOf(op, c) /\ OnValue(mem, t, v).sends = <<Must(c, HeldHeads(n))>>
                                    /\ \A i \in {1, 2} : /\ n.held[i] \in Seq(Item) /\ n.held[i] # <<>>
                                                         /\ HeldHeads(n)[i] = Head(n.held[i])
                                                         /\ OnValue(mem, t, v).mem.held[i] = Tail(n.held[i])
                   /\ ~AllHeld(n) => OnValue(mem, t, v).sends = <<>> /\ OnValue(mem, t, v).mem = n
      BY <1>3, <3>1, <3>2, <3>3, ZipIs
    <3>5. DOMAIN n.held = {1, 2} /\ DOMAIN mem.held = {1, 2}
            /\ \A i \in {1, 2} : mem.held[i] \in Seq(Item)
      <4>1. op \in Joining /\ n \in MemOf(op) /\ SourcesOf(op) = {1, 2}
        BY <1>3, <3>4 DEF Joining, Queued, SourcesOf
      <4> QED BY <1>0, <4>1, HeldIs
    <3>6. CASE AllHeld(n)
      <4>1. \A i \in {1, 2} : i # t => mem.held[i] # <<>>
        <5>1. \A i \in {1, 2} : i # t => n.held[i] = mem.held[i] \o <<>> /\ mem.held[i] \o <<>> = mem.held[i]
          BY <3>4, <3>5, CatNone DEF Queued
        <5> QED BY <3>5, <3>6, <5>1 DEF AllHeld
      <4>2. mem.held[t] = <<>>
        BY <1>3, <3>2, <4>1 DEF EmptyInv
      <4>3. n.held[t] = <<>> \o <<v>>
        BY <3>2, <3>4, <4>2 DEF Queued
      <4>4. n.held[t] = <<v>>
        <5>1. <<v>> \in Seq(Item)
          BY One
        <5> QED BY <4>3, <5>1, CatNone
      <4>5. Tail(<<v>>) = <<>>
        OBVIOUS
      <4> QED BY <3>1, <3>2, <3>4, <3>6, <4>4, <4>5
    <3>7. CASE ~AllHeld(n)
      BY <3>1, <3>4, <3>5, <3>7 DEF AllHeld
    <3> QED BY <3>6, <3>7
  <2> QED BY <2>1, <2>2, MemStep
<1> QED BY <1>0, <1>1, <1>2, <1>3 DEF EmptyInv

-----------------------------------------------------------------------------
(* What comes out of an operator that slices, windows or holds back.         *)
LEMMA SliceDelivers ==
  ASSUME Ctl, SlideInv, LanesInv, op = "flatMapSlice"
  PROVE  Delivers(Out("out"), FlatMap(In(1), Pieces))
<1>1. /\ Lane(Values("out"), 1, "values", Piece, PiecesOf, Item \X {1, 2})
      /\ IsLane(Values("out"), 1, "values", Piece, PiecesOf, Item \X {1, 2})
  BY SlicedLaneFed DEF IsLane, SlicedLane, Is
<1>2. /\ ~Soft(op, Values("out")) /\ op \notin Holding /\ WhatOf(op, Values("out")) = Item \X {1, 2}
      /\ Values("out") \in ChannelsOf(op) /\ 1 \in SourcesOf(op)
  BY <1>1 DEF Lane, WhatOf, Values, Soft, Results, Holding
<1>3. Delivers(Came(Values("out"), Piece), Whole(1, "values", PiecesOf))
  BY <1>1, <1>2, LaneSays
<1>4. Out("out") \in Seq(Item \X {1, 2})
  BY <1>2 DEF Out, Ctl, GotOK
<1>5. Came(Values("out"), Piece) = Out("out")
  <2>1. PICK X, f, q : X = Item \X {1, 2} /\ f = Piece /\ q = Out("out")
    OBVIOUS
  <2>2. f \in [X -> Seq(X)] /\ q \in Seq(X) /\ \A x \in X : f[x] = <<x>>
    BY <1>4, <2>1, One DEF Piece
  <2>3. Matches(q, f, q)
    BY <2>2 DEF Matches
  <2>4. Gather(q, f) = q
    BY <2>2, <2>3, GatherEach
  <2> QED BY <2>1, <2>4 DEF Came, Out
<1>6. FlatMap(In(1), Pieces) = Whole(1, "values", PiecesOf)
  <2>1. In(1) \in Seq(Item)
    BY <1>2, ItemsIn
  <2>2. \A i \in DOMAIN In(1) : PiecesOf[In(1)[i]] = Pieces(In(1)[i])
    BY <2>1 DEF PiecesOf
  <2> QED BY <2>2 DEF FlatMap, Whole, Gather, Images, In
<1> QED BY <1>3, <1>5, <1>6

LEMMA WindowsDeliver ==
  ASSUME Ctl, SlideInv, LanesInv, op = "slidingWindow"
  PROVE  Delivers(Out("out"), FlatMap(In(1), WindowAt))
<1>1. /\ Lane(Values("out"), 1, "values", Windowed, WindowsAt, Seq(Item))
      /\ IsLane(Values("out"), 1, "values", Windowed, WindowsAt, Seq(Item))
  BY SlidingLaneFed DEF IsLane, SlidingLane, Is
<1>2. /\ ~Soft(op, Values("out")) /\ op \notin Holding /\ WhatOf(op, Values("out")) = Seq(Item)
      /\ Values("out") \in ChannelsOf(op) /\ 1 \in SourcesOf(op)
  BY <1>1 DEF Lane, WhatOf, Values, Soft, Results, Holding
<1>3. Delivers(Came(Values("out"), Windowed), Whole(1, "values", WindowsAt))
  BY <1>1, <1>2, LaneSays
<1>4. Out("out") \in Seq(Seq(Item))
  BY <1>2 DEF Out, Ctl, GotOK
<1>5. Came(Values("out"), Windowed) = Out("out")
  <2>1. PICK X, f, q : X = Seq(Item) /\ f = Windowed /\ q = Out("out")
    OBVIOUS
  <2>2. f \in [X -> Seq(X)] /\ q \in Seq(X) /\ \A x \in X : f[x] = <<x>>
    BY <1>4, <2>1, One DEF Windowed
  <2>3. Matches(q, f, q)
    BY <2>2 DEF Matches
  <2>4. Gather(q, f) = q
    BY <2>2, <2>3, GatherEach
  <2> QED BY <2>1, <2>4 DEF Came, Out
<1>6. FlatMap(In(1), WindowAt) = Whole(1, "values", WindowsAt)
  <2>1. PICK q : q = In(1)
    OBVIOUS
  <2>2. q \in Seq(Item)
    BY <1>2, <2>1, ItemsIn
  <2>3. \A i \in 1..Len(q) : q[i].n = i
    <3>1. "values" \in Kinds /\ In(1) = input[1]["values"]
      BY DEF Kinds, In
    <3> QED BY <1>2, <2>1, <3>1 DEF Ctl, InputOK, Placed
  <2>4. \A i \in DOMAIN q : WindowsAt[q[i]] = WindowAt(q[i])
    <3>1. DOMAIN q = 1..Len(q) /\ \A i \in 1..Len(q) : q[i] \in Item /\ q[i].n <= Len(q)
      BY <2>2, <2>3
    <3> QED BY <2>1, <3>1 DEF WindowsAt
  <2>5. [i \in DOMAIN q |-> WindowAt(q[i])] = [i \in DOMAIN q |-> WindowsAt[q[i]]]
    BY <2>4
  <2> QED BY <2>1, <2>5 DEF FlatMap, Whole, Gather, Images, In
<1> QED BY <1>3, <1>5, <1>6

LEMMA BatchesDeliver ==
  ASSUME Ctl, SlideInv, LanesInv, EmptyInv, op \in {"buffer", "window"}, op = "buffer" => ~ctxDone
  PROVE  Delivers(FlattenSeq(Out("out")), In(1))
<1>1. /\ Lane(Values("out"), 1, "values", Batches(op), Itself, Item)
      /\ IsLane(Values("out"), 1, "values", Batches(op), Itself, Item)
  BY BatchLaneFed DEF IsLane, BatchLane, Is
<1>2. /\ Soft(op, Values("out")) => ~ctxDone
      /\ WhatOf(op, Values("out")) = Results(op) /\ Values("out") \in ChannelsOf(op)
      /\ 1 \in SourcesOf(op) /\ LoopsOf(op) = {1}
  BY <1>1 DEF Lane, WhatOf, Values, Soft, LoopsOf
<1>3. ASSUME Ended PROVE Kept(Values("out"), 1) = <<>>
  <2>1. pc[1] = "done" /\ open[1] = {}
    BY <1>2, <1>3, AtEnd DEF Kinds
  <2>2. ~ctxDone
    BY <1>3 DEF Ended
  <2>3. mem.batch = <<>>
    BY <2>1, <2>2 DEF EmptyInv, Over
  <2> QED BY <2>3 DEF Kept, KeptIn, Values
<1>4. Delivers(Came(Values("out"), Batches(op)), Whole(1, "values", Itself))
  BY <1>1, <1>2, <1>3, LaneSays
<1>5. Out("out") \in Seq(Results(op))
  BY <1>2 DEF Out, Ctl, GotOK
<1>6. FlattenSeq(Out("out")) = Came(Values("out"), Batches(op))
  <2>1. PICK q : q = Out("out")
    OBVIOUS
  <2>2. q = [i \in DOMAIN q |-> Batches(op)[q[i]]]
    BY <1>5, <2>1 DEF Batches
  <2> QED BY <2>1, <2>2, Zenon DEF Came, Gather, Images, Out
<1>7. Whole(1, "values", Itself) = In(1)
  <2>1. In(1) \in Seq(Item)
    BY <1>2, ItemsIn
  <2> QED BY <2>1, GatherItself DEF Whole, In
<1> QED BY <1>4, <1>6, <1>7

LEMMA BatchesFull ==
  ASSUME Ctl, op = "buffer"
  PROVE  \A i \in DOMAIN Out("out") : Len(Out("out")[i]) \in 1..BufferN
<1>1. Values("out") \in ChannelsOf(op)
        /\ WhatOf(op, Values("out")) = {q \in Seq(Item) : Len(q) \in 1..BufferN}
  BY ChannelIs DEF OutputsOf, WhatOf, Values, Results
<1> QED BY <1>1 DEF Out, Ctl, GotOK

LEMMA MinIs ==
  ASSUME NEW a \in Nat, NEW b \in Nat
  PROVE  /\ Min({a, b}) \in Nat /\ Min({a, b}) <= a /\ Min({a, b}) <= b
         /\ Min({a, b}) = a \/ Min({a, b}) = b
<1>1. \E x \in {a, b} : \A y \in {a, b} : x <= y
  <2>1. CASE a <= b BY <2>1
  <2>2. CASE ~(a <= b) BY <2>2
  <2> QED BY <2>1, <2>2
<1>2. Min({a, b}) = CHOOSE x \in {a, b} : \A y \in {a, b} : x <= y
  BY DEF Min
<1>3. Min({a, b}) \in {a, b} /\ \A y \in {a, b} : Min({a, b}) <= y
  BY <1>1, <1>2
<1> QED BY <1>3

\* The s-th of each pair that came out is the next of its source.
SideOut(s) == [i \in 1..Len(Out("out")) |-> Out("out")[i][s]]
LEMMA SideComes ==
  ASSUME Ctl, op = "zip", NEW s \in {1, 2}
  PROVE  /\ Out("out") \in Seq(Results("zip")) /\ SideOut(s) \in Seq(Item)
         /\ Len(SideOut(s)) = Len(Out("out"))
         /\ Came(Values("out"), Side(s)) = SideOut(s)
<1>1. Values("out") \in ChannelsOf(op) /\ WhatOf(op, Values("out")) = Results("zip")
  BY ChannelIs DEF OutputsOf, WhatOf, Values
<1>2. Out("out") \in Seq(Results("zip"))
  BY <1>1 DEF Out, Ctl, GotOK
<1>3. \A t \in Results("zip") : t[s] \in Item
  BY PairIs
<1>4. PICK X, f, q, x : X = Results("zip") /\ f = Side(s) /\ q = Out("out") /\ x = SideOut(s)
  OBVIOUS
<1>5. q \in Seq(X) /\ (\A t \in X : t[s] \in Item) /\ f = [t \in X |-> <<t[s]>>]
        /\ x = [i \in 1..Len(q) |-> q[i][s]]
  BY <1>2, <1>3, <1>4 DEF Side, SideOut
<1>6. f \in [X -> Seq(Item)]
  BY <1>5, One
<1>7. x \in Seq(Item) /\ Len(x) = Len(q)
  <2>1. Len(q) \in Nat /\ x \in [1..Len(q) -> Item]
    BY <1>5
  <2> QED BY <2>1, <1>5, ListIsSeq
<1>8. Matches(q, f, x)
  BY <1>5, <1>7 DEF Matches
<1>9. Gather(q, f) = x
  <2>1. q \in Seq(X) /\ x \in Seq(Item)
    BY <1>5, <1>7
  <2> QED BY <1>6, <1>8, <2>1, GatherEach
<1> QED BY <1>2, <1>4, <1>7, <1>9 DEF Came, Out

LEMMA SideDelivers ==
  ASSUME Ctl, SlideInv, LanesInv, op = "zip", NEW s \in {1, 2}
  PROVE  /\ Len(Out("out")) <= Len(In(s)) /\ \A i \in 1..Len(Out("out")) : Out("out")[i][s] = In(s)[i]
         /\ Ended /\ mem.held[s] = <<>> => Len(Out("out")) = Len(In(s))
<1>0. PICK c : c = Values("out")
  OBVIOUS
<1>1. /\ Lane(c, s, "values", Side(s), Itself, Item)
      /\ IsLane(c, s, "values", Side(s), Itself, Item)
  BY <1>0, ZipLaneFed DEF IsLane, ZipLane, Is
<1>2. ~Soft(op, c) /\ s \in SourcesOf(op) /\ LaneInv(c, s, "values", Side(s), Itself, Item)
  BY <1>0, <1>1 DEF Soft, Values, SourcesOf, LanesInv
<1>3. PICK a, w : a = SideOut(s) /\ w = In(s)
  OBVIOUS
<1>4. /\ a \in Seq(Item) /\ w \in Seq(Item) /\ Len(a) = Len(Out("out")) /\ Came(c, Side(s)) = a
      /\ \A i \in 1..Len(Out("out")) : a[i] = Out("out")[i][s]
  BY <1>0, <1>2, <1>3, SideComes, ItemsIn DEF SideOut
<1>5. Whole(s, "values", Itself) = w
  BY <1>3, <1>4, GatherItself DEF Whole, In
<1>6. PICK r \in Seq(Item) : a \o r = w
  <2>1. \E r \in Seq(Item) : Came(c, Side(s)) \o r = Whole(s, "values", Itself)
    BY <1>1, <1>2, LaneBegins
  <2> QED BY <1>4, <1>5, <2>1
<1>7. Len(a) <= Len(w) /\ \A i \in 1..Len(a) : a[i] = w[i]
  BY <1>4, <1>6
<1>8. ASSUME Ended, mem.held[s] = <<>> PROVE Len(a) = Len(w)
  <2>1. Came(c, Side(s)) \o Kept(c, s) = w
    BY <1>1, <1>2, <1>5, <1>8, LaneEnds
  <2>2. Kept(c, s) = <<>>
    BY <1>0, <1>8 DEF Kept, KeptIn, Values
  <2>3. a \o <<>> = w /\ a \o <<>> = a
    BY <1>4, <2>1, <2>2, CatNone
  <2> QED BY <2>3
<1> QED BY <1>3, <1>4, <1>7, <1>8

LEMMA ZipDelivers ==
  ASSUME Ctl, SlideInv, LanesInv, EmptyInv, op = "zip"
  PROVE  Delivers(Out("out"), [i \in 1..Min({Len(In(1)), Len(In(2))}) |-> <<In(1)[i], In(2)[i]>>])
<1> DEFINE whole == [i \in 1..Min({Len(In(1)), Len(In(2))}) |-> <<In(1)[i], In(2)[i]>>]
<1>1. PICK q, a, b, T : q = Out("out") /\ a = In(1) /\ b = In(2) /\ T = Results("zip")
  OBVIOUS
<1>2. a \in Seq(Item) /\ b \in Seq(Item) /\ q \in Seq(T)
  <2>1. 1 \in SourcesOf(op) /\ 2 \in SourcesOf(op)
    BY DEF SourcesOf
  <2> QED BY <1>1, <2>1, ItemsIn, SideComes
<1>3. \A t \in T : t \in Seq(Item) /\ Len(t) = 2
  BY <1>1, PairIs
<1>4. /\ Len(q) <= Len(a) /\ \A i \in 1..Len(q) : q[i][1] = a[i]
      /\ Len(q) <= Len(b) /\ \A i \in 1..Len(q) : q[i][2] = b[i]
  <2>1. Len(q) <= Len(a) /\ \A i \in 1..Len(q) : q[i][1] = a[i]
    BY <1>1, SideDelivers
  <2>2. Len(q) <= Len(b) /\ \A i \in 1..Len(q) : q[i][2] = b[i]
    BY <1>1, SideDelivers
  <2> QED BY <2>1, <2>2
<1>5. Ended => Len(q) = Len(a) \/ Len(q) = Len(b)
  <2>1. Ended /\ mem.held[1] = <<>> => Len(q) = Len(a)
    BY <1>1, SideDelivers
  <2>2. Ended /\ mem.held[2] = <<>> => Len(q) = Len(b)
    BY <1>1, SideDelivers
  <2> QED BY <2>1, <2>2 DEF EmptyInv
<1>6. PICK m : m = Min({Len(a), Len(b)})
  OBVIOUS
<1>7. m \in Nat /\ m <= Len(a) /\ m <= Len(b) /\ (m = Len(a) \/ m = Len(b))
  <2>1. Len(a) \in Nat /\ Len(b) \in Nat
    BY <1>2
  <2> QED BY <1>6, <2>1, MinIs
<1>8. \A i \in 1..m : <<a[i], b[i]>> \in Seq(Item)
  BY <1>2, <1>7, Two
<1>9. whole = [i \in 1..m |-> <<a[i], b[i]>>]
  BY <1>1, <1>6
<1>10. whole \in Seq(Seq(Item)) /\ Len(whole) = m /\ \A i \in 1..m : whole[i] = <<a[i], b[i]>>
  <2>1. whole \in [1..m -> Seq(Item)] /\ DOMAIN whole = 1..m
    BY <1>8, <1>9
  <2>2. whole \in Seq(Seq(Item))
    BY <1>7, <2>1, ListIsSeq
  <2>3. \A i \in 1..m : whole[i] = <<a[i], b[i]>>
    BY <1>9
  <2> HIDE DEF whole
  <2> QED BY <1>7, <2>1, <2>2, <2>3
<1>11. q \in Seq(Seq(Item)) /\ Len(q) \in Nat
  BY <1>2, <1>3
<1>12. ASSUME NEW i \in 1..Len(q) PROVE q[i] = <<a[i], b[i]>>
  <2>1. q[i] \in Seq(Item) /\ Len(q[i]) = 2 /\ q[i][1] = a[i] /\ q[i][2] = b[i]
    BY <1>2, <1>3, <1>4
  <2>2. <<a[i], b[i]>> \in Seq(Item)
    BY <1>2, <1>4, Two
  <2> QED BY <2>1, <2>2, SeqEqual
<1> HIDE DEF whole
<1>13. PICK w : w = whole
  OBVIOUS
<1>14. Len(q) <= m /\ \A i \in 1..Len(q) : q[i] = w[i]
  <2>1. Len(q) <= m
    BY <1>4, <1>7
  <2>2. ASSUME NEW i \in 1..Len(q) PROVE q[i] = w[i]
    <3>1. i \in 1..m
      BY <1>7, <1>11, <2>1
    <3>2. whole[i] = <<a[i], b[i]>>
      BY <1>10, <3>1
    <3> QED BY <1>12, <1>13, <3>2
  <2> QED BY <2>1, <2>2
<1>15. IsPrefix(q, w)
  BY <1>10, <1>11, <1>13, <1>14, PrefixBy
<1>16. Ended => q = w
  <2>1. Ended => Len(q) = m
    BY <1>4, <1>5, <1>7, <1>14
  <2> QED BY <1>10, <1>11, <1>13, <1>14, <2>1, SeqEqual
<1>17. Delivers(q, w)
  BY <1>15, <1>16 DEF Delivers
<1> QED BY <1>1, <1>13, <1>17 DEF whole

-----------------------------------------------------------------------------
(* Where some items may be left out, what comes is still in the order of the *)
(* source: what came, what is being sent and what is held back rise.         *)
Rising(q) == \A i, j \in 1..Len(q) : i < j => q[i].n < q[j].n
Before(a, b) == \A i \in 1..Len(a), j \in 1..Len(b) : a[i].n < b[j].n
From(q, w, p) == \A i \in 1..Len(q) : q[i].n \in 1..p /\ q[i] = w[q[i].n]
Sorted(a, b, c, w, p) ==
  /\ Rising(a) /\ Rising(b) /\ Rising(c)
  /\ Before(a, b) /\ Before(a, c) /\ Before(b, c)
  /\ From(a, w, p) /\ From(b, w, p) /\ From(c, w, p)

LEMMA CatAt ==
  ASSUME NEW Y, NEW a \in Seq(Y), NEW b \in Seq(Y), NEW i \in 1..Len(a \o b)
  PROVE  /\ i \in 1..Len(a) => (a \o b)[i] = a[i]
         /\ i \notin 1..Len(a) => i - Len(a) \in 1..Len(b) /\ (a \o b)[i] = b[i - Len(a)]
OBVIOUS
LEMMA CatHas ==
  ASSUME NEW Y, NEW a \in Seq(Y), NEW b \in Seq(Y)
  PROVE  /\ \A i \in 1..Len(a) : i \in 1..Len(a \o b) /\ (a \o b)[i] = a[i]
         /\ \A i \in 1..Len(b) : Len(a) + i \in 1..Len(a \o b) /\ (a \o b)[Len(a) + i] = b[i]
OBVIOUS
LEMMA NumberOf == \A x \in Item : x.n \in Nat
BY DEF Item

LEMMA RisingCat ==
  ASSUME NEW a \in Seq(Item), NEW b \in Seq(Item)
  PROVE  Rising(a \o b) <=> Rising(a) /\ Rising(b) /\ Before(a, b)
<1>0. /\ \A i \in 1..Len(a) : i \in 1..Len(a \o b) /\ (a \o b)[i] = a[i]
      /\ \A i \in 1..Len(b) : Len(a) + i \in 1..Len(a \o b) /\ (a \o b)[Len(a) + i] = b[i]
      /\ Len(a) \in Nat /\ Len(b) \in Nat
  BY CatHas
<1>1. ASSUME Rising(a \o b) PROVE Rising(a) /\ Rising(b) /\ Before(a, b)
  <2>1. Rising(a)
    BY <1>0, <1>1 DEF Rising
  <2>2. ASSUME NEW i \in 1..Len(b), NEW j \in 1..Len(b), i < j PROVE b[i].n < b[j].n
    <3>1. Len(a) + i < Len(a) + j
      BY <1>0, <2>2
    <3> QED BY <1>0, <1>1, <3>1 DEF Rising
  <2>3. ASSUME NEW i \in 1..Len(a), NEW j \in 1..Len(b) PROVE a[i].n < b[j].n
    <3>1. i < Len(a) + j
      BY <1>0
    <3> QED BY <1>0, <1>1, <3>1 DEF Rising
  <2> QED BY <2>1, <2>2, <2>3 DEF Rising, Before
<1>2. ASSUME Rising(a), Rising(b), Before(a, b) PROVE Rising(a \o b)
  <2>1. ASSUME NEW i \in 1..Len(a \o b), NEW j \in 1..Len(a \o b), i < j
        PROVE  (a \o b)[i].n < (a \o b)[j].n
    <3>1. CASE j \in 1..Len(a)
      <4>1. i \in 1..Len(a)
        BY <2>1, <3>1
      <4> QED BY <1>2, <2>1, <3>1, <4>1, CatAt DEF Rising
    <3>2. CASE j \notin 1..Len(a) /\ i \in 1..Len(a)
      BY <1>2, <2>1, <3>2, CatAt DEF Before
    <3>3. CASE j \notin 1..Len(a) /\ i \notin 1..Len(a)
      <4>1. /\ i - Len(a) \in 1..Len(b) /\ (a \o b)[i] = b[i - Len(a)]
            /\ j - Len(a) \in 1..Len(b) /\ (a \o b)[j] = b[j - Len(a)]
        BY <2>1, <3>3, CatAt
      <4>2. i - Len(a) < j - Len(a)
        BY <1>0, <2>1
      <4> QED BY <1>2, <4>1, <4>2 DEF Rising
    <3> QED BY <3>1, <3>2, <3>3
  <2> QED BY <2>1 DEF Rising
<1> QED BY <1>1, <1>2

LEMMA BeforeCat ==
  ASSUME NEW a \in Seq(Item), NEW b \in Seq(Item), NEW c \in Seq(Item)
  PROVE  /\ Before(a \o b, c) <=> Before(a, c) /\ Before(b, c)
         /\ Before(c, a \o b) <=> Before(c, a) /\ Before(c, b)
<1>0. /\ \A i \in 1..Len(a) : i \in 1..Len(a \o b) /\ (a \o b)[i] = a[i]
      /\ \A i \in 1..Len(b) : Len(a) + i \in 1..Len(a \o b) /\ (a \o b)[Len(a) + i] = b[i]
  BY CatHas
<1>1. \A i \in 1..Len(a \o b) : /\ i \in 1..Len(a) => (a \o b)[i] = a[i]
                                /\ i \notin 1..Len(a) => i - Len(a) \in 1..Len(b) /\ (a \o b)[i] = b[i - Len(a)]
  BY CatAt
<1>2. PICK d : d = a \o b
  OBVIOUS
<1>3. /\ \A i \in 1..Len(a) : i \in 1..Len(d) /\ d[i] = a[i]
      /\ \A i \in 1..Len(b) : Len(a) + i \in 1..Len(d) /\ d[Len(a) + i] = b[i]
      /\ \A i \in 1..Len(d) : /\ i \in 1..Len(a) => d[i] = a[i]
                              /\ i \notin 1..Len(a) => i - Len(a) \in 1..Len(b) /\ d[i] = b[i - Len(a)]
  BY <1>0, <1>1, <1>2
<1>4. Before(d, c) <=> Before(a, c) /\ Before(b, c)
  <2>1. ASSUME Before(d, c) PROVE Before(a, c) /\ Before(b, c)
    BY <1>3, <2>1 DEF Before
  <2>2. ASSUME Before(a, c), Before(b, c) PROVE Before(d, c)
    BY <1>3, <2>2 DEF Before
  <2> QED BY <2>1, <2>2
<1>5. Before(c, d) <=> Before(c, a) /\ Before(c, b)
  <2>1. ASSUME Before(c, d) PROVE Before(c, a) /\ Before(c, b)
    BY <1>3, <2>1 DEF Before
  <2>2. ASSUME Before(c, a), Before(c, b) PROVE Before(c, d)
    BY <1>3, <2>2 DEF Before
  <2> QED BY <2>1, <2>2
<1> QED BY <1>2, <1>4, <1>5

LEMMA FromCat ==
  ASSUME NEW a \in Seq(Item), NEW b \in Seq(Item), NEW w, NEW p
  PROVE  From(a \o b, w, p) <=> From(a, w, p) /\ From(b, w, p)
<1>1. PICK d : d = a \o b
  OBVIOUS
<1>2. /\ \A i \in 1..Len(a) : i \in 1..Len(d) /\ d[i] = a[i]
      /\ \A i \in 1..Len(b) : Len(a) + i \in 1..Len(d) /\ d[Len(a) + i] = b[i]
  BY <1>1, CatHas
<1>3. \A i \in 1..Len(d) : /\ i \in 1..Len(a) => d[i] = a[i]
                           /\ i \notin 1..Len(a) => i - Len(a) \in 1..Len(b) /\ d[i] = b[i - Len(a)]
  BY <1>1, CatAt
<1>4. ASSUME From(d, w, p) PROVE From(a, w, p) /\ From(b, w, p)
  BY <1>2, <1>4 DEF From
<1>5. ASSUME From(a, w, p), From(b, w, p) PROVE From(d, w, p)
  <2>1. ASSUME NEW i \in 1..Len(d) PROVE d[i].n \in 1..p /\ d[i] = w[d[i].n]
    <3>1. CASE i \in 1..Len(a)
      <4>1. d[i] = a[i]
        BY <1>3, <3>1
      <4> QED BY <1>5, <3>1, <4>1 DEF From
    <3>2. CASE i \notin 1..Len(a)
      <4>1. PICK j \in 1..Len(b) : d[i] = b[j]
        BY <1>3, <3>2
      <4> QED BY <1>5, <4>1 DEF From
    <3> QED BY <3>1, <3>2
  <2> QED BY <2>1 DEF From
<1> QED BY <1>1, <1>4, <1>5

LEMMA OrderNone ==
  ASSUME NEW a, NEW w, NEW p
  PROVE  Rising(<<>>) /\ Before(<<>>, a) /\ Before(a, <<>>) /\ From(<<>>, w, p)
BY DEF Rising, Before, From

\* What is sent next is joined to what came, or left out.
LEMMA SortedMoves ==
  ASSUME NEW a \in Seq(Item), NEW x \in Seq(Item), NEW t \in Seq(Item), NEW c \in Seq(Item), NEW w,
         NEW p,
         Sorted(a, x \o t, c, w, p)
  PROVE  Sorted(a \o x, t, c, w, p) /\ Sorted(a, t, c, w, p) /\ Sorted(a, <<>>, c, w, p)
<1>1. /\ Rising(a) /\ Rising(x) /\ Rising(t) /\ Rising(c) /\ Before(x, t) /\ Before(a, x)
      /\ Before(a, t)
      /\ Before(a, c) /\ Before(x, c) /\ Before(t, c) /\ From(a, w, p) /\ From(x, w, p)
      /\ From(t, w, p) /\ From(c, w, p)
  BY RisingCat, BeforeCat, FromCat DEF Sorted
<1>2. Rising(a \o x) /\ Before(a \o x, t) /\ Before(a \o x, c) /\ From(a \o x, w, p)
  BY <1>1, RisingCat, BeforeCat, FromCat
<1>3. Rising(<<>>) /\ Before(<<>>, c) /\ Before(a, <<>>) /\ From(<<>>, w, p)
  BY OrderNone
<1> QED BY <1>1, <1>2, <1>3 DEF Sorted

\* A case turns what is held back, and perhaps the next item, into what it
\* sends and what it holds back.
LEMMA SortedTurns ==
  ASSUME NEW a \in Seq(Item), NEW b \in Seq(Item), NEW c \in Seq(Item), NEW w, NEW p,
         Sorted(a, <<>>, b \o c, w, p)
  PROVE  Sorted(a, b, c, w, p)
<1>1. /\ Rising(b) /\ Rising(c) /\ Before(b, c) /\ Before(a, b) /\ Before(a, c) /\ From(b, w, p)
      /\ From(c, w, p)
      /\ Rising(a) /\ From(a, w, p)
  BY RisingCat, BeforeCat, FromCat DEF Sorted
<1> QED BY <1>1 DEF Sorted

LEMMA FromWider ==
  ASSUME NEW q \in Seq(Item), NEW w, NEW p \in Nat, From(q, w, p)
  PROVE  From(q, w, p + 1)
BY DEF From

LEMMA SortedNext ==
  ASSUME NEW a \in Seq(Item), NEW c \in Seq(Item), NEW w, NEW p \in Nat, NEW e \in Item,
         e.n = p + 1, e = w[p + 1],
         Sorted(a, <<>>, c, w, p)
  PROVE  /\ Sorted(a, <<>>, c \o <<e>>, w, p + 1) /\ Sorted(a, <<>>, <<e>>, w, p + 1)
         /\ Sorted(a, <<>>, c, w, p + 1) /\ Sorted(a, <<>>, <<>>, w, p + 1)
<1>1. PICK y \in Seq(Item) : y = <<e>>
  BY One
<1>2. Len(y) = 1 /\ y[1] = e
  BY <1>1
<1>3. Rising(y) /\ From(y, w, p + 1)
  BY <1>2 DEF Rising, From
<1>4. \A q \in Seq(Item) : From(q, w, p) => Before(q, y) /\ From(q, w, p + 1)
  BY <1>2, FromWider DEF From, Before
<1>5. Before(a, y) /\ Before(c, y) /\ From(a, w, p + 1) /\ From(c, w, p + 1) /\ Rising(a)
        /\ Rising(c) /\ Before(a, c)
  BY <1>4 DEF Sorted
<1>6. Rising(c \o y) /\ Before(a, c \o y) /\ From(c \o y, w, p + 1)
  BY <1>3, <1>5, RisingCat, BeforeCat, FromCat
<1>7. Rising(<<>>) /\ From(<<>>, w, p + 1) /\ \A q : Before(<<>>, q) /\ Before(q, <<>>)
  BY OrderNone
<1> QED BY <1>1, <1>3, <1>5, <1>6, <1>7 DEF Sorted

-----------------------------------------------------------------------------
(* The path to a channel of an operator with one loop: what came of a source *)
(* there, what is being sent there and what waits for a timer.               *)
WaitsIn(o, m, c) == IF c[1] = "values" /\ o \in {"buffer", "debounce"} THEN m.batch ELSE <<>>
Waits(c) == WaitsIn(op, mem, c)
At(k) == Len(input[1][k]) - Len(left[1][k])
Path(c, k, h) ==
  /\ c \in ChannelsOf(op) /\ k \in Kinds /\ LoopsOf(op) = {1} /\ 1 \in SourcesOf(op)
  /\ h \in [WhatOf(op, c) -> Seq(Item)]

LEMMA OfToIs ==
  ASSUME NEW c, NEW Y, NEW h \in [WhatOf(op, c) -> Seq(Y)]
  PROVE  OfTo(op, c, h) \in [SendsOf(op) -> Seq(Y)]
<1>1. ASSUME NEW x \in SendsOf(op) PROVE (IF x.to = c THEN h[x.what] ELSE <<>>) \in Seq(Y)
  <2>1. x.what \in WhatOf(op, x.to)
    BY SendIn
  <2> QED BY <2>1, SeqNone
<1> QED BY <1>1 DEF OfTo

LEMMA PathTypes ==
  ASSUME Ctl, NEW c, NEW k, NEW h, Path(c, k, h)
  PROVE  /\ Came(c, h) \in Seq(Item) /\ Coming(1, c, h) \in Seq(Item) /\ Waits(c) \in Seq(Item)
         /\ At(k) \in Nat /\ OfTo(op, c, h) \in [SendsOf(op) -> Seq(Item)]
<1>1. got[c] \in Seq(WhatOf(op, c)) /\ h \in [WhatOf(op, c) -> Seq(Item)]
        /\ todo[1] \in Seq(SendsOf(op))
  BY DEF Ctl, GotOK, PcOK, Path
<1>2. OfTo(op, c, h) \in [SendsOf(op) -> Seq(Item)]
  BY <1>1, OfToIs
<1>3. Came(c, h) \in Seq(Item) /\ Coming(1, c, h) \in Seq(Item)
  BY <1>1, <1>2, GatherType DEF Came, Coming
<1>4. Waits(c) \in Seq(Item)
  BY SeqNone DEF Waits, WaitsIn, Ctl, MemOf
<1>5. At(k) \in Nat
  <2>1. input[1][k] \in Seq(Item) /\ left[1][k] \in Seq(Item) /\ Len(left[1][k]) <= Len(input[1][k])
    BY LineKinds DEF Ctl, InputOK, LeftOK, Path, Rest
  <2> QED BY <2>1 DEF At
<1> QED BY <1>2, <1>3, <1>4, <1>5

LEMMA PathTypesNext ==
  ASSUME Ctl', op' = op, NEW c, NEW k, NEW h, Path(c, k, h)
  PROVE  Came(c, h)' \in Seq(Item) /\ Coming(1, c, h)' \in Seq(Item) /\ Waits(c)' \in Seq(Item)
<1>1. got'[c] \in Seq(WhatOf(op, c)) /\ h \in [WhatOf(op, c) -> Seq(Item)]
        /\ todo'[1] \in Seq(SendsOf(op))
  BY DEF Ctl, GotOK, PcOK, Path
<1>2. OfTo(op, c, h) \in [SendsOf(op) -> Seq(Item)]
  BY <1>1, OfToIs
<1>3. Gather(got'[c], h) \in Seq(Item) /\ Gather(todo'[1], OfTo(op, c, h)) \in Seq(Item)
  BY <1>1, <1>2, GatherType
<1>4. Waits(c)' \in Seq(Item)
  BY SeqNone DEF Waits, WaitsIn, Ctl, MemOf
<1> QED BY <1>3, <1>4 DEF Came, Coming

\* What is coming moves on, is left out where that may be, or is given up.
MovesOn(c, h, x, t) == Came(c, h)' = Came(c, h) \o x /\ Coming(1, c, h)' = t
LeavesOut(c, h, x, t) == Came(c, h)' = Came(c, h) /\ Coming(1, c, h)' = t /\ (x = <<>> \/ Soft(op, c))
GivesUp(c, h) == Came(c, h)' = Came(c, h) /\ Coming(1, c, h)' = <<>> /\ ctxDone' /\ pc'[1] = "done"
PathSends(c, h) ==
  \E x, t \in Seq(Item) :
    /\ Coming(1, c, h) = x \o t
    /\ MovesOn(c, h, x, t) \/ LeavesOut(c, h, x, t) \/ GivesUp(c, h)

LEMMA PathFirst ==
  ASSUME Ctl, NEW c, NEW k, NEW h, Path(c, k, h), todo[1] # <<>>
  PROVE  \E x, t \in Seq(Item) :
           /\ Coming(1, c, h) = x \o t /\ t = Gather(Tail(todo[1]), OfTo(op, c, h))
           /\ x = (IF Head(todo[1]).to = c THEN h[Head(todo[1]).what] ELSE <<>>)
           /\ Head(todo[1]) \in SendsOf(op)
<1>1. todo[1] \in Seq(SendsOf(op))
  BY DEF Ctl, PcOK, Path
<1>2. OfTo(op, c, h) \in [SendsOf(op) -> Seq(Item)]
  BY PathTypes
<1>3. Tail(todo[1]) \in Seq(SendsOf(op)) /\ Head(todo[1]) \in SendsOf(op)
  BY <1>1, TailOf
<1>4. Same(Coming(1, c, h), OfTo(op, c, h)[Head(todo[1])] \o Gather(Tail(todo[1]), OfTo(op, c, h)))
  BY <1>1, <1>2, GatherFirst DEF Coming
<1>5. Gather(Tail(todo[1]), OfTo(op, c, h)) \in Seq(Item)
  BY <1>2, <1>3, GatherType
<1>6. OfTo(op, c, h)[Head(todo[1])] = IF Head(todo[1]).to = c THEN h[Head(todo[1]).what] ELSE <<>>
  BY <1>3 DEF OfTo
<1>7. PICK x, t : x = OfTo(op, c, h)[Head(todo[1])] /\ t = Gather(Tail(todo[1]), OfTo(op, c, h))
  OBVIOUS
<1>8. x \in Seq(Item)
  BY <1>2, <1>3, <1>7
<1>9. Coming(1, c, h) = x \o t
  BY <1>4, <1>7, Zenon DEF Same
<1> QED BY <1>3, <1>5, <1>6, <1>7, <1>8, <1>9

LEMMA SendPath ==
  ASSUME Ctl, NEW c, NEW k, NEW h, Path(c, k, h), Send(1) \/ Drop(1) \/ GiveUp(1) \/ Cancelled(1)
  PROVE  PathSends(c, h) /\ UNCHANGED <<op, mem, left, input>>
<1>0. UNCHANGED <<op, mem, left, input>>
  BY DEF Send, Drop, GiveUp, Cancelled, inputs
<1>1. CASE Cancelled(1) \/ (GiveUp(1) /\ Quits(1))
  <2>1. Quits(1)
    BY <1>1, CancelledQuits DEF Path
  <2>2. todo'[1] = <<>> /\ pc'[1] = "done" /\ ctxDone' /\ got' = got
    BY <2>1 DEF Ctl, PcOK, Quits, Path
  <2>3. GivesUp(c, h)
    BY <1>0, <2>2, GatherNone DEF GivesUp, Came, Coming
  <2>4. Coming(1, c, h) \in Seq(Item) /\ <<>> \in Seq(Item)
    BY PathTypes, SeqNone
  <2>5. Coming(1, c, h) = <<>> \o Coming(1, c, h)
    BY <2>4, CatNone
  <2>6. PICK z \in Seq(Item) : z = Coming(1, c, h)
    BY <2>4
  <2> QED BY <1>0, <2>3, <2>4, <2>5, <2>6 DEF PathSends
<1>2. CASE Sending(1) /\ Advance(1) /\ (Send(1) \/ Drop(1) \/ GiveUp(1))
  <2>1. todo[1] # <<>> /\ todo'[1] = Tail(todo[1])
    BY <1>0, <1>2, AdvancePc DEF Ctl, Path, Send, Drop, GiveUp
  <2>2. PICK x \in Seq(Item), t \in Seq(Item) :
           /\ Coming(1, c, h) = x \o t /\ t = Gather(Tail(todo[1]), OfTo(op, c, h))
           /\ x = (IF Head(todo[1]).to = c THEN h[Head(todo[1]).what] ELSE <<>>)
           /\ Head(todo[1]) \in SendsOf(op)
    BY <2>1, PathFirst
  <2>3. Coming(1, c, h)' = t
    BY <1>0, <2>1, <2>2 DEF Coming
  <2>4. PICK z \in SendsOf(op) : z = Head(todo[1])
    BY <2>2
  <2>5. CASE Send(1)
    <3>1. got' = [got EXCEPT ![z.to] = Append(got[z.to], z.what)]
      BY <2>4, <2>5 DEF Send
    <3>2. got \in [ChannelsOf(op) -> Seq(Item \cup (Item \X {1, 2}) \cup Seq(Item))]
            /\ got[c] \in Seq(WhatOf(op, c))
          /\ c \in ChannelsOf(op) /\ h \in [WhatOf(op, c) -> Seq(Item)]
      BY DEF Ctl, GotOK, Path
    <3>3. z.what \in WhatOf(op, z.to)
      BY SendIn
    <3>4. CASE z.to = c
      <4>1. got'[c] = Append(got[c], z.what)
        BY <3>1, <3>2, <3>4
      <4>2. Same(Gather(Append(got[c], z.what), h), Gather(got[c], h) \o h[z.what])
        BY <3>2, <3>3, <3>4, GatherLast
      <4>3. x = h[z.what]
        BY <2>2, <2>4, <3>4
      <4>4. Came(c, h)' = Came(c, h) \o x
        BY <4>1, <4>2, <4>3 DEF Came, Same
      <4> QED BY <1>0, <2>2, <2>3, <4>4 DEF PathSends, MovesOn
    <3>5. CASE z.to # c
      <4>1. got'[c] = got[c] /\ x = <<>>
        BY <2>2, <2>4, <3>1, <3>2, <3>5
      <4>2. Came(c, h)' = Came(c, h)
        BY <4>1 DEF Came
      <4> QED BY <1>0, <2>2, <2>3, <4>1, <4>2 DEF PathSends, LeavesOut
    <3> QED BY <3>4, <3>5
  <2>6. CASE Drop(1) \/ GiveUp(1)
    <3>1. Came(c, h)' = Came(c, h)
      BY <2>6 DEF Came, Drop, GiveUp
    <3>2. CASE z.to # c
      <4>1. x = <<>>
        BY <2>2, <2>4, <3>2
      <4> QED BY <1>0, <2>2, <2>3, <3>1, <4>1 DEF PathSends, LeavesOut
    <3>3. CASE z.to = c /\ z.ondone = "continue"
      <4>1. Soft(op, c)
        BY <3>3, SendIn
      <4> QED BY <1>0, <2>2, <2>3, <3>1, <4>1 DEF PathSends, LeavesOut
    <3>4. CASE z.to = c /\ z.ondone # "continue"
      <4>1. z.wait /\ ~Drop(1)
        BY <2>4, <3>4, SendIn DEF Drop
      <4>2. Quits(1)
        BY <2>4, <2>6, <3>4, <4>1, GiveUpIs
      <4> QED BY <1>1, <2>6, <4>1, <4>2
    <3> QED BY <3>2, <3>3, <3>4
  <2> QED BY <1>2, <2>5, <2>6
<1>3. Send(1) => Sending(1) /\ Advance(1)
  BY DEF Send
<1>4. Drop(1) => Sending(1) /\ Advance(1)
  BY DEF Drop
<1>5. GiveUp(1) => Quits(1) \/ (Sending(1) /\ Advance(1))
  BY GiveUpIs
<1> QED BY <1>1, <1>2, <1>3, <1>4, <1>5

-----------------------------------------------------------------------------
(* A case of the loop sends what waited, or what came in, or neither.        *)
Turns(r, c, h, y) == Gather(r.sends, OfTo(op, c, h)) \o WaitsIn(op, r.mem, c) = y
TurnsTo(r, c, h, e) ==
  Turns(r, c, h, Waits(c) \o <<e>>) \/ Turns(r, c, h, <<e>>) \/ Turns(r, c, h, Waits(c)) \/ Turns(r, c, h, <<>>)
PathFed(c, k, h) ==
  /\ \A t \in SourcesOf(op), j \in Kinds :
       left[t][j] # <<>> =>
         IF t = 1 /\ j = k THEN TurnsTo(CaseAt(t, j), c, h, Head(left[t][j]))
                           ELSE Turns(CaseAt(t, j), c, h, Waits(c))
  /\ op = "buffer" => Turns(Flush(mem), c, h, Waits(c))
  /\ op = "debounce" => Turns(Silence(mem), c, h, Waits(c))
  /\ op = "window" => Turns(Tick(mem), c, h, Waits(c)) /\ Turns(Remainder(mem), c, h, Waits(c))
InOrder(c, k, h) == Sorted(Came(c, h), Coming(1, c, h), Waits(c), input[1][k], At(k))

LEMMA KeepTurns ==
  ASSUME Ctl, NEW c, NEW k, NEW h, Path(c, k, h)
  PROVE  Turns(Keep(mem), c, h, Waits(c))
<1>1. Keep(mem).sends = <<>> /\ Keep(mem).mem = mem
  BY DEF Keep, Then
<1>2. Gather(<<>>, OfTo(op, c, h)) = <<>>
  BY GatherNone
<1>3. <<>> \o Waits(c) = Waits(c)
  BY PathTypes, CatNone
<1> QED BY <1>1, <1>2, <1>3 DEF Turns, Waits

\* What the loop does when it selects.
Selects(r) ==
  /\ pc[1] = "select" /\ UNCHANGED <<op, input, got, ctxDone>>
  /\ todo'[1] = r.sends /\ mem' = r.mem
LEMMA SelectPath ==
  ASSUME Ctl, Ctl', NEW c, NEW k, NEW h, Path(c, k, h), NEW r, Selects(r), NEW y, Turns(r, c, h, y)
  PROVE  /\ Coming(1, c, h) = <<>> /\ Came(c, h)' = Came(c, h)
         /\ Coming(1, c, h)' \o Waits(c)' = y
<1>1. todo[1] = <<>>
  BY DEF Ctl, PcOK, Path, Selects
<1>2. Coming(1, c, h) = <<>> /\ Came(c, h)' = Came(c, h)
  BY <1>1, GatherNone DEF Coming, Came, Selects
<1>3. Coming(1, c, h)' = Gather(r.sends, OfTo(op, c, h)) /\ Waits(c)' = WaitsIn(op, r.mem, c)
  BY DEF Coming, Waits, Selects
<1> QED BY <1>2, <1>3 DEF Turns

LEMMA SelectOrder ==
  ASSUME Ctl, Ctl', NEW c, NEW k, NEW h, Path(c, k, h), InOrder(c, k, h), NEW r, Selects(r),
         Turns(r, c, h, Waits(c)),
         left'[1][k] = left[1][k]
  PROVE  InOrder(c, k, h)'
<1>1. PICK a \in Seq(Item), w \in Seq(Item) : a = Came(c, h) /\ w = Waits(c)
  BY PathTypes
<1>2. Coming(1, c, h) = <<>> /\ Came(c, h)' = a /\ Coming(1, c, h)' \o Waits(c)' = w
  BY <1>1, SelectPath
<1>3. input'[1][k] = input[1][k] /\ At(k)' = At(k)
  BY DEF Selects, At
<1>4. Sorted(a, <<>>, w, input[1][k], At(k))
  BY <1>1, <1>2 DEF InOrder
<1>5. PICK b \in Seq(Item), v \in Seq(Item) : b = Coming(1, c, h)' /\ v = Waits(c)'
  BY PathTypesNext DEF Selects
<1>6. Sorted(a, b, v, input[1][k], At(k))
  BY <1>2, <1>4, <1>5, SortedTurns
<1> QED BY <1>2, <1>3, <1>5, <1>6 DEF InOrder

LEMMA ReceiveOrder ==
  ASSUME Ctl, Ctl', NEW c, NEW k, NEW h, Path(c, k, h), PathFed(c, k, h), InOrder(c, k, h),
         NEW t \in SourcesOf(op), NEW j \in Kinds, Receive(1, t, j)
  PROVE  InOrder(c, k, h)'
<1>1. PICK r : r = CaseAt(t, j)
  OBVIOUS
<1>2. pc[1] = "select" /\ left[t][j] # <<>> /\ left' = [left EXCEPT ![t][j] = Tail(@)]
      /\ Enter(1, r) /\ UNCHANGED <<inputs, open, got, closed, ctxDone, ticks>>
  BY <1>1 DEF Receive, CaseAt
<1>3. Selects(r)
  BY <1>2 DEF Selects, Enter, Ctl, PcOK, Path, inputs
<1>4. left \in [SourcesOf(op) -> Line]
  BY DEF Ctl, LeftOK
<1>5. CASE ~(t = 1 /\ j = k)
  <2>1. left'[1][k] = left[1][k]
    BY <1>2, <1>4, <1>5 DEF Line, Kinds, Path
  <2>2. Turns(r, c, h, Waits(c))
    BY <1>1, <1>2, <1>5 DEF PathFed
  <2> QED BY <1>3, <2>1, <2>2, SelectOrder
<1>6. CASE t = 1 /\ j = k
  <2>1. PICK e : e = Head(left[1][k])
    OBVIOUS
  <2>2. TurnsTo(r, c, h, e)
    BY <1>1, <1>2, <1>6, <2>1 DEF PathFed
  <2>3. left'[1][k] = Tail(left[1][k]) /\ input' = input
    BY <1>2, <1>4, <1>6 DEF Line, Kinds, Path, inputs
  <2>4. /\ e \in Item /\ Placed(1, k, At(k) + 1, e) /\ left[1][k] \in Seq(Item)
        /\ input[1][k] \in Seq(Item)
        /\ e = input[1][k][At(k) + 1]
    BY <1>2, <1>6, <2>1, NextItem DEF At
  <2>5. PICK p \in Nat : p = At(k)
    BY PathTypes
  <2>6. At(k)' = p + 1
    <3>1. Len(Tail(left[1][k])) = Len(left[1][k]) - 1 /\ Len(left[1][k]) \in Nat
      BY <1>2, <1>6, <2>4, TailOf
    <3>2. Len(input[1][k]) \in Nat
      BY <2>4
    <3>3. At(k)' = Len(input[1][k]) - Len(Tail(left[1][k]))
      BY <2>3 DEF At
    <3>4. ASSUME NEW n \in Nat, NEW m \in Nat PROVE n - (m - 1) = (n - m) + 1
      OBVIOUS
    <3>5. PICK n \in Nat, m \in Nat, d \in {Len(Tail(left[1][k]))} :
            n = Len(input[1][k]) /\ m = Len(left[1][k]) /\ d = Len(Tail(left[1][k]))
      BY <3>1, <3>2
    <3>6. d = m - 1 /\ At(k)' = n - d /\ p = n - m
      BY <2>5, <3>1, <3>3, <3>5 DEF At
    <3> QED BY <3>4, <3>6
  <2>7. e.n = p + 1 /\ e = input[1][k][p + 1]
    BY <2>4, <2>5 DEF Placed
  <2>8. PICK a \in Seq(Item), w \in Seq(Item), q \in {input[1][k]} :
          a = Came(c, h) /\ w = Waits(c) /\ q = input[1][k]
    BY PathTypes
  <2>9. Coming(1, c, h) = <<>> /\ Came(c, h)' = a
    BY <1>3, <2>2, <2>8, SelectPath DEF TurnsTo
  <2>10. Sorted(a, <<>>, w, q, p)
    BY <2>5, <2>8, <2>9 DEF InOrder
  <2>11. /\ Sorted(a, <<>>, w \o <<e>>, q, p + 1) /\ Sorted(a, <<>>, <<e>>, q, p + 1)
         /\ Sorted(a, <<>>, w, q, p + 1) /\ Sorted(a, <<>>, <<>>, q, p + 1)
    BY <2>4, <2>7, <2>8, <2>10, SortedNext
  <2>12. PICK y : Turns(r, c, h, y) /\ Sorted(a, <<>>, y, q, p + 1)
    BY <2>2, <2>8, <2>11 DEF TurnsTo
  <2>13. PICK b \in Seq(Item), v \in Seq(Item) : b = Coming(1, c, h)' /\ v = Waits(c)'
    BY <1>3, PathTypesNext DEF Selects
  <2>14. b \o v = y
    BY <1>3, <2>12, <2>13, SelectPath
  <2>15. Sorted(a, b, v, q, p + 1)
    BY <2>12, <2>14, SortedTurns
  <2> QED BY <2>3, <2>6, <2>8, <2>9, <2>13, <2>15 DEF InOrder
<1> QED BY <1>5, <1>6

LEMMA SendOrder ==
  ASSUME Ctl, NEW c, NEW k, NEW h, Path(c, k, h), InOrder(c, k, h), PathSends(c, h),
         UNCHANGED <<op, mem, left, input>>
  PROVE  InOrder(c, k, h)'
<1>1. PICK a \in Seq(Item), w \in Seq(Item), q \in {input[1][k]}, p \in {At(k)} :
        a = Came(c, h) /\ w = Waits(c) /\ q = input[1][k] /\ p = At(k)
  BY PathTypes
<1>2. PICK x \in Seq(Item), t \in Seq(Item) :
         /\ Coming(1, c, h) = x \o t
         /\ MovesOn(c, h, x, t) \/ LeavesOut(c, h, x, t) \/ GivesUp(c, h)
  BY DEF PathSends
<1>3. Sorted(a, x \o t, w, q, p)
  BY <1>1, <1>2 DEF InOrder
<1>4. Sorted(a \o x, t, w, q, p) /\ Sorted(a, t, w, q, p) /\ Sorted(a, <<>>, w, q, p)
  BY <1>3, SortedMoves
<1>5. Waits(c)' = w /\ input'[1][k] = q /\ At(k)' = p
  BY <1>1 DEF Waits, At
<1>6. CASE MovesOn(c, h, x, t)
  BY <1>1, <1>4, <1>5, <1>6 DEF MovesOn, InOrder
<1>7. CASE LeavesOut(c, h, x, t)
  BY <1>1, <1>4, <1>5, <1>7 DEF LeavesOut, InOrder
<1>8. CASE GivesUp(c, h)
  BY <1>1, <1>4, <1>5, <1>8 DEF GivesUp, InOrder
<1> QED BY <1>2, <1>6, <1>7, <1>8

LEMMA OrderStep ==
  ASSUME Ctl, Ctl', NEW c, NEW k, NEW h, Path(c, k, h), PathFed(c, k, h), InOrder(c, k, h),
         [Next]_vars
  PROVE  InOrder(c, k, h)'
<1>0. Turns(Keep(mem), c, h, Waits(c))
        /\ pc \in [LoopsOf(op) -> {"select", "sending", "flushing", "done"}]
      /\ todo \in [LoopsOf(op) -> Seq(SendsOf(op))] /\ 1 \in LoopsOf(op) /\ LoopsOf(op) = {1}
  BY KeepTurns DEF Ctl, PcOK, Path
<1>1. CASE Loop(1)
  <2>1. ASSUME NEW t \in SourcesOf(op), NEW j \in Kinds, Receive(1, t, j) PROVE InOrder(c, k, h)'
    BY <2>1, ReceiveOrder
  <2>2. ASSUME NEW t \in SourcesOf(op), NEW j \in Kinds, SourceClosed(1, t, j)
        PROVE  InOrder(c, k, h)'
    <3>1. PICK r : Enter(1, r) /\ Turns(r, c, h, Waits(c))
      BY <1>0, <2>2 DEF SourceClosed, PathFed
    <3>2. Selects(r) /\ left' = left
      BY <1>0, <2>2, <3>1 DEF SourceClosed, Selects, Enter, inputs
    <3> QED BY <3>1, <3>2, SelectOrder
  <2>3. CASE TimerFires(1)
    <3>1. PICK r : Enter(1, r) /\ Turns(r, c, h, Waits(c))
      BY <2>3 DEF TimerFires, PathFed
    <3>2. Selects(r) /\ left' = left
      BY <1>0, <2>3, <3>1 DEF TimerFires, Selects, Enter, inputs
    <3> QED BY <3>1, <3>2, SelectOrder
  <2>4. CASE LoopEnds(1)
    <3>1. PICK r : r = IF op = "window" THEN Remainder(mem) ELSE Keep(mem)
      OBVIOUS
    <3>2. Turns(r, c, h, Waits(c))
      BY <1>0, <3>1 DEF PathFed
    <3>3. Selects(r) /\ left' = left
      BY <1>0, <2>4, <3>1 DEF LoopEnds, Selects, inputs
    <3> QED BY <3>2, <3>3, SelectOrder
  <2>5. CASE Send(1) \/ Drop(1) \/ GiveUp(1) \/ Cancelled(1)
    BY <2>5, SendPath, SendOrder
  <2> QED BY <1>1, <2>1, <2>2, <2>3, <2>4, <2>5 DEF Loop
<1>2. CASE CloseOutputs \/ Cancel \/ IntervalPasses \/ UNCHANGED vars
  <2>1. UNCHANGED <<op, input, left, todo, got>>
    BY <1>2 DEF CloseOutputs, Cancel, IntervalPasses, vars, inputs
  <2>2. mem'.batch = mem.batch
    BY <1>2 DEF CloseOutputs, Cancel, IntervalPasses, vars, Ctl, MemOf
  <2>3. Came(c, h)' = Came(c, h) /\ Coming(1, c, h)' = Coming(1, c, h) /\ Waits(c)' = Waits(c)
          /\ At(k)' = At(k)
    BY <2>1, <2>2 DEF Came, Coming, Waits, WaitsIn, At
  <2> QED BY <2>1, <2>3 DEF InOrder
<1> QED BY <1>0, <1>1, <1>2 DEF Next

LEMMA OrderInit ==
  ASSUME Init, Ctl, NEW c, NEW k, NEW h, Path(c, k, h)
  PROVE  InOrder(c, k, h)
<1>1. got[c] = <<>> /\ todo[1] = <<>> /\ mem.batch = <<>>
  BY DEF Init, Path
<1>2. Came(c, h) = <<>> /\ Coming(1, c, h) = <<>> /\ Waits(c) = <<>>
  BY <1>1, GatherNone DEF Came, Coming, Waits, WaitsIn
<1> QED BY <1>2, OrderNone DEF InOrder, Sorted

-----------------------------------------------------------------------------
(* An error is sent at most once to each output.                             *)
Single(q, f, i) == \A j \in 1..Len(q) : j # i => f[q[j]] = <<>>
LEMMA GatherSingle ==
  ASSUME NEW X, NEW Y, NEW f \in [X -> Seq(Y)], NEW q \in Seq(X), NEW i \in 1..Len(q),
         Single(q, f, i)
  PROVE  Gather(q, f) = f[q[i]]
<1> DEFINE T == {n \in Nat : \A r \in Seq(X) : \A k \in 1..n :
                               Len(r) = n /\ Single(r, f, k) => Gather(r, f) = f[r[k]]}
<1>1. 0 \in T
  OBVIOUS
<1>2. ASSUME NEW n \in Nat, n \in T PROVE n + 1 \in T
  <2>1. ASSUME NEW r \in Seq(X), NEW k \in 1..(n + 1), Len(r) = n + 1, Single(r, f, k)
        PROVE  Gather(r, f) = f[r[k]]
    <3>0. HasLast(r, X, n)
      BY <2>1, LastOff
    <3>1. PICK t \in Seq(X), x \in X : Len(t) = n /\ r = Append(t, x)
      BY <3>0 DEF HasLast
    <3>2. r[n + 1] = x /\ \A j \in 1..n : r[j] = t[j]
      BY <3>1
    <3>3. Same(Gather(Append(t, x), f), Gather(t, f) \o f[x])
      BY GatherLast
    <3>4. Gather(r, f) = Gather(t, f) \o f[x] /\ f[x] \in Seq(Y)
      BY <3>1, <3>3 DEF Same
    <3>5. CASE k = n + 1
      <4>1. ASSUME NEW j \in 1..n PROVE f[t[j]] = <<>>
        <5>1. j \in 1..Len(r) /\ j # k
          BY <2>1, <3>5
        <5>2. f[r[j]] = <<>>
          BY <2>1, <5>1 DEF Single
        <5> QED BY <3>2, <5>2
      <4>2. Mute(t, f)
        BY <3>1, <4>1 DEF Mute
      <4>3. Gather(t, f) = <<>>
        BY <4>2, GatherMute
      <4>4. <<>> \o f[x] = f[x]
        BY <3>4, CatNone
      <4> QED BY <3>2, <3>4, <3>5, <4>3, <4>4
    <3>6. CASE k # n + 1
      <4>1. k \in 1..n /\ n + 1 \in 1..Len(r)
        BY <2>1, <3>6
      <4>2. f[x] = <<>>
        BY <2>1, <3>2, <3>6, <4>1 DEF Single
      <4>3. ASSUME NEW j \in 1..n, j # k PROVE f[t[j]] = <<>>
        <5>1. j \in 1..Len(r)
          BY <2>1
        <5>2. f[r[j]] = <<>>
          BY <2>1, <4>3, <5>1 DEF Single
        <5> QED BY <3>2, <5>2
      <4>4. Single(t, f, k)
        BY <3>1, <4>3 DEF Single
      <4>5. Gather(t, f) = f[t[k]]
        BY <1>2, <3>1, <4>1, <4>4
      <4>6. t[k] \in X /\ f[t[k]] \in Seq(Y)
        BY <3>1, <4>1
      <4>7. f[t[k]] \o <<>> = f[t[k]]
        BY <4>6, CatNone
      <4> QED BY <3>2, <3>4, <4>1, <4>2, <4>5, <4>7
    <3> QED BY <3>5, <3>6
  <2> QED BY <2>1
<1> HIDE DEF T
<1>3. Nat \subseteq T
  BY <1>1, <1>2, Induct
<1>4. Len(q) \in Nat
  OBVIOUS
<1> QED BY <1>3, <1>4 DEF T

Alone(q, c) == \A i, j \in 1..Len(q) : q[i].to = c /\ q[j].to = c => i = j
LEMMA AloneForms ==
  ASSUME NEW c
  PROVE  /\ Alone(<<>>, c) /\ \A x : Alone(<<x>>, c)
         /\ \A x, y : x.to # y.to => Alone(<<x, y>>, c)
<1>1. Alone(<<>>, c) /\ \A x : Alone(<<x>>, c)
  BY DEF Alone
<1>2. ASSUME NEW x, NEW y, x.to # y.to PROVE Alone(<<x, y>>, c)
  <2>1. Len(<<x, y>>) = 2 /\ <<x, y>>[1] = x /\ <<x, y>>[2] = y
    OBVIOUS
  <2>2. \A i \in 1..2 : i = 1 \/ i = 2
    OBVIOUS
  <2> QED BY <1>2, <2>1, <2>2 DEF Alone
<1> QED BY <1>1, <1>2

LEMMA ErrorAlone ==
  ASSUME NEW m \in MemOf(op), NEW e, op \in OpNames, NEW o
  PROVE  Alone(OnError(m, e).sends, Errors(o))
<1>0. PICK c : c = Errors(o)
  OBVIOUS
<1>1. Alone(<<>>, c) /\ (\A x : Alone(<<x>>, c)) /\ \A x, y : x.to # y.to => Alone(<<x, y>>, c)
  BY AloneForms
<1>2. CASE op \in {"tee", "splitEither"}
  <2>1. /\ Must(Errors("a"), e).to # Must(Errors("b"), e).to
        /\ Try(Errors("a"), e).to # Try(Errors("b"), e).to
    BY DEF Must, Try, Errors
  <2> QED BY <1>0, <1>1, <1>2, <2>1 DEF OnError, TeeError, SplitError, Then
<1>3. CASE op = "groupBy"
  <2> DEFINE gs == SetToSeq(m.groups)
  <2>1. m.groups \subseteq {"a", "b", "c"}
    BY DEF MemOf
  <2>2. gs \in Seq(m.groups) /\ \A i, j \in DOMAIN gs : gs[i] = gs[j] => i = j
    BY <2>1, ListOf DEF IsList
  <2> HIDE DEF gs
  <2>3. DOMAIN gs = 1..Len(gs) /\ Len(gs) \in Nat
    BY <2>2
  <2>4. OnError(m, e).sends = ErrorTo(gs, e)
    BY <1>3 DEF OnError, GroupError, ErrorTo, gs, Then
  <2>5. \A i \in 1..Len(gs) : ErrorTo(gs, e)[i].to = c => gs[i] = o
    BY <1>0, <2>3 DEF ErrorTo, Try, Errors
  <2>6. Len(ErrorTo(gs, e)) = Len(gs)
    BY <2>3 DEF ErrorTo
  <2> QED BY <1>0, <2>2, <2>3, <2>4, <2>5, <2>6 DEF Alone
<1>4. CASE op \notin {"tee", "splitEither", "groupBy"}
  BY <1>0, <1>1, <1>4 DEF OnError, MapErr, RestError, WriteError, PublishError, Emit, Fail, Keep,
       Then
<1> QED BY <1>2, <1>3, <1>4

LEMMA PathSilent ==
  ASSUME Ctl, NEW c, NEW k, NEW h, Path(c, k, h), NEW q \in Seq(SendsOf(op)), Silent(q, c, h)
  PROVE  Gather(q, OfTo(op, c, h)) = <<>>
<1>1. OfTo(op, c, h) \in [SendsOf(op) -> Seq(Item)]
  BY PathTypes
<1>2. ASSUME NEW i \in 1..Len(q) PROVE OfTo(op, c, h)[q[i]] = <<>>
  <2>1. q[i] \in SendsOf(op)
    OBVIOUS
  <2>2. OfTo(op, c, h)[q[i]] = IF q[i].to = c THEN h[q[i].what] ELSE <<>>
    BY <2>1 DEF OfTo
  <2> QED BY <2>2 DEF Silent
<1>3. Mute(q, OfTo(op, c, h))
  BY <1>2 DEF Mute
<1> QED BY <1>1, <1>3, GatherMute

LEMMA PathOne ==
  ASSUME Ctl, NEW c, NEW k, NEW h, Path(c, k, h), NEW q \in Seq(SendsOf(op)), Alone(q, c)
  PROVE  Gather(q, OfTo(op, c, h)) = <<>> \/ \E i \in 1..Len(q) : q[i].to = c /\ Gather(q, OfTo(op, c, h)) = h[q[i].what]
<1>1. OfTo(op, c, h) \in [SendsOf(op) -> Seq(Item)]
  BY PathTypes
<1>2. CASE \E i \in 1..Len(q) : q[i].to = c
  <2>1. PICK i \in 1..Len(q) : q[i].to = c
    BY <1>2
  <2>2. \A j \in 1..Len(q) : OfTo(op, c, h)[q[j]] = IF q[j].to = c THEN h[q[j].what] ELSE <<>>
    BY DEF OfTo
  <2>3. Single(q, OfTo(op, c, h), i)
    BY <2>1, <2>2 DEF Single, Alone
  <2>4. Gather(q, OfTo(op, c, h)) = OfTo(op, c, h)[q[i]]
    BY <1>1, <2>3, GatherSingle
  <2> QED BY <2>1, <2>2, <2>4
<1>3. CASE ~\E i \in 1..Len(q) : q[i].to = c
  <2>1. Silent(q, c, h)
    BY <1>3 DEF Silent
  <2> QED BY <2>1, PathSilent
<1> QED BY <1>2, <1>3

-----------------------------------------------------------------------------
(* The paths.                                                                *)
LEMMA TurnsPlain ==
  ASSUME Ctl, NEW c, NEW k, NEW h, Path(c, k, h), NEW r, NEW y \in Seq(Item),
         \A m : WaitsIn(op, m, c) = <<>>,
         Gather(r.sends, OfTo(op, c, h)) = y
  PROVE  Turns(r, c, h, y)
<1>1. y \o <<>> = y
  BY CatNone
<1> QED BY <1>1 DEF Turns

LEMMA ErrorsPathFed ==
  ASSUME Ctl, LoopsOf(op) = {1}, NEW o \in OutputsOf(op)
  PROVE  /\ Path(Errors(o), "errors", KindIs("errors"))
         /\ PathFed(Errors(o), "errors", KindIs("errors"))
<1>1. PICK c, h : c = Errors(o) /\ h = KindIs("errors")
  OBVIOUS
<1>2. c \in ChannelsOf(op) /\ c[1] = "errors" /\ WhatOf(op, c) = Item /\ "errors" \in Kinds
        /\ 1 \in SourcesOf(op)
  BY <1>1, ChannelIs DEF Errors, WhatOf, Kinds, SourcesOf
<1>3. Path(c, "errors", h)
  BY <1>1, <1>2, ItemFunctions DEF Path
<1>4. (\A m : WaitsIn(op, m, c) = <<>>) /\ Waits(c) = <<>>
  BY <1>2 DEF WaitsIn, Waits
<1>5. ASSUME NEW r, r.sends \in Seq(SendsOf(op)), Silent(r.sends, c, h)
      PROVE  Turns(r, c, h, Waits(c))
  <2>1. Gather(r.sends, OfTo(op, c, h)) = <<>>
    BY <1>3, <1>5, PathSilent
  <2> QED BY <1>3, <1>4, <2>1, SeqNone, TurnsPlain
<1>6. \A x \in Item : h[x] = IF x.kind = "errors" THEN <<x>> ELSE <<>>
  BY <1>1 DEF KindIs, When
<1>7. ASSUME NEW t \in SourcesOf(op), NEW j \in Kinds, left[t][j] # <<>>
      PROVE  IF t = 1 /\ j = "errors" THEN TurnsTo(CaseAt(t, j), c, h, Head(left[t][j]))
                                      ELSE Turns(CaseAt(t, j), c, h, Waits(c))
  <2>1. PICK r, e : r = CaseAt(t, j) /\ e = Head(left[t][j])
    OBVIOUS
  <2>2. /\ r.sends \in Seq(SendsOf(op)) /\ e \in Item /\ e.kind = j
        /\ j = "values" => Reports(r.sends, FailureOf(e))
        /\ j = "errors" => r = OnError(mem, e) /\ Passes(r.sends, e)
    BY <1>7, <2>1, CaseSends
  <2>3. CASE j = "values"
    <3>1. ASSUME NEW i \in 1..Len(r.sends), r.sends[i].to = c PROVE h[r.sends[i].what] = <<>>
      <4>1. r.sends[i].what = FailureOf(e)
        BY <1>2, <2>2, <2>3, <3>1 DEF Reports
      <4> QED BY <1>6, <2>2, <4>1, ItemKinds, KindsApart
    <3>2. Silent(r.sends, c, h)
      BY <3>1 DEF Silent
    <3> QED BY <1>5, <2>1, <2>2, <2>3, <3>2
  <2>4. CASE j = "errors"
    <3>1. t = 1
      BY <1>7, <2>4, ErrorsOfFirst
    <3>2. Alone(r.sends, c)
      BY <1>1, <2>2, <2>4, ErrorAlone DEF Ctl, InputOK
    <3>3. Gather(r.sends, OfTo(op, c, h)) = <<>> \/ \E i \in 1..Len(r.sends) : r.sends[i].to = c /\ Gather(r.sends, OfTo(op, c, h)) = h[r.sends[i].what]
      BY <1>3, <2>2, <3>2, PathOne
    <3>4. ASSUME NEW i \in 1..Len(r.sends), r.sends[i].to = c
          PROVE  h[r.sends[i].what] \in {<<>>, <<e>>}
      <4>1. r.sends[i].what = e \/ r.sends[i].what = ReplacedBy(e)
        BY <1>2, <2>2, <2>4, <3>4 DEF Passes, PassOne
      <4> QED BY <1>6, <2>2, <2>4, <4>1, ItemKinds, KindsApart
    <3>5. Gather(r.sends, OfTo(op, c, h)) \in {<<>>, <<e>>}
      BY <3>3, <3>4
    <3>6. PICK y \in Seq(Item) : y = Gather(r.sends, OfTo(op, c, h))
      BY <2>2, <3>5, One, SeqNone
    <3>7. Turns(r, c, h, y)
      BY <1>3, <1>4, <3>6, TurnsPlain
    <3> QED BY <2>1, <2>4, <3>1, <3>5, <3>6, <3>7 DEF TurnsTo
  <2> QED BY <2>3, <2>4 DEF Kinds
<1>8. mem \in MemOf(op)
  BY DEF Ctl
<1>9. ASSUME NEW q, NEW x, q \in {<<>>, <<Must(Values("out"), x)>>, <<Wait(Values("out"), x)>>}
      PROVE  Silent(q, c, h)
  BY <1>2, <1>9 DEF Silent, Must, Wait, Values
<1>10. ASSUME op = "buffer" PROVE Turns(Flush(mem), c, h, Waits(c))
  <2>1. Flush(mem).sends \in {<<>>, <<Wait(Values("out"), mem.batch)>>}
    BY DEF Flush, Keep, Then
  <2>2. PICK r : r = Flush(mem)
    OBVIOUS
  <2>3. r.sends \in Seq(SendsOf(op)) /\ Silent(r.sends, c, h)
    BY <1>8, <1>9, <1>10, <2>1, <2>2, TimerProper DEF Proper
  <2> QED BY <1>5, <2>2, <2>3
<1>11. ASSUME op = "debounce" PROVE Turns(Silence(mem), c, h, Waits(c))
  <2>1. Silence(mem).sends \in {<<>>, <<Must(Values("out"), mem.batch[1])>>}
    BY DEF Silence, Keep, Emit, Then
  <2>2. PICK r : r = Silence(mem)
    OBVIOUS
  <2>3. r.sends \in Seq(SendsOf(op)) /\ Silent(r.sends, c, h)
    BY <1>8, <1>9, <1>11, <2>1, <2>2, TimerProper DEF Proper
  <2> QED BY <1>5, <2>2, <2>3
<1>12. ASSUME op = "window"
       PROVE  Turns(Tick(mem), c, h, Waits(c)) /\ Turns(Remainder(mem), c, h, Waits(c))
  <2>1. /\ Tick(mem).sends \in {<<>>, <<Must(Values("out"), mem.batch)>>}
        /\ Remainder(mem).sends \in {<<>>, <<Must(Values("out"), mem.batch)>>}
    BY DEF Tick, Remainder, Keep, Emit, Then
  <2>2. PICK r, u : r = Tick(mem) /\ u = Remainder(mem)
    OBVIOUS
  <2>3. r.sends \in Seq(SendsOf(op)) /\ u.sends \in Seq(SendsOf(op)) /\ Silent(r.sends, c, h)
          /\ Silent(u.sends, c, h)
    BY <1>8, <1>9, <1>12, <2>1, <2>2, TimerProper DEF Proper
  <2> QED BY <1>5, <2>2, <2>3
<1>13. PathFed(c, "errors", h)
  BY <1>7, <1>10, <1>11, <1>12 DEF PathFed
<1> QED BY <1>1, <1>3, <1>13

\* Buffer's batches: where it loses any, the rest is in order.
LEMMA BatchPathFed ==
  ASSUME Ctl, op = "buffer"
  PROVE  Path(Values("out"), "values", Batches(op)) /\ PathFed(Values("out"), "values", Batches(op))
<1>1. PICK c, h : c = Values("out") /\ h = Batches(op)
  OBVIOUS
<1>2. Lane(c, 1, "values", h, Itself, Item) /\ Feeds(c, 1, "values", h, Itself)
  BY <1>1, BatchLaneFed
<1>3. Path(c, "values", h)
  BY <1>2 DEF Lane, Path, LoopsOf
<1>4. \A m : WaitsIn(op, m, c) = KeptIn(op, m, c, 1)
  BY <1>1 DEF WaitsIn, KeptIn, Values
<1>5. Waits(c) = Kept(c, 1)
  BY <1>4 DEF Waits, Kept
<1>6. \A r, y : Evens(r, c, 1, h, y) => Turns(r, c, h, Waits(c) \o y)
  BY <1>4, <1>5 DEF Evens, Turns
<1>7. Waits(c) \o <<>> = Waits(c)
  BY <1>3, PathTypes, CatNone
<1>8. \A r : Evens(r, c, 1, h, <<>>) => Turns(r, c, h, Waits(c))
  BY <1>6, <1>7
<1>9. ASSUME NEW t \in SourcesOf(op), NEW j \in Kinds, left[t][j] # <<>>
      PROVE  IF t = 1 /\ j = "values" THEN TurnsTo(CaseAt(t, j), c, h, Head(left[t][j]))
                                      ELSE Turns(CaseAt(t, j), c, h, Waits(c))
  <2>1. PICK r : r = CaseAt(t, j)
    OBVIOUS
  <2>2. Evens(r, c, 1, h, IF t = 1 /\ j = "values" THEN Itself[Head(left[t][j])] ELSE <<>>)
    BY <1>2, <1>9, <2>1 DEF Feeds
  <2>3. Head(left[t][j]) \in Item
    BY <1>9, CaseSends
  <2>4. Itself[Head(left[t][j])] = <<Head(left[t][j])>>
    BY <2>3 DEF Itself
  <2> QED BY <1>6, <1>8, <2>1, <2>2, <2>4 DEF TurnsTo
<1>10. PathFed(c, "values", h)
  BY <1>2, <1>8, <1>9 DEF PathFed, Feeds
<1> QED BY <1>1, <1>3, <1>10

-----------------------------------------------------------------------------
(* Debounce holds back one value; Throttle none, but drops some.             *)
BriefInv ==
  /\ op = "debounce" => Len(mem.batch) <= 1
  /\ op = "throttle" /\ mem.throttled => Pos(1) > 0

LEMMA BriefInit == Init => BriefInv
BY DEF Init, BriefInv

LEMMA BriefStep == ASSUME Ctl, BriefInv, [Next]_vars PROVE BriefInv'
<1>0. op' = op /\ input' = input /\ mem \in MemOf(op)
  BY SteadyStep DEF Steady, Ctl
<1>1. ASSUME SameValues, ByTimer PROVE BriefInv'
  <2>1. op = "debounce" => mem' = mem \/ (mem.throttled /\ mem' = [mem EXCEPT !.throttled = FALSE]) \/ mem' = Silence(mem).mem
    BY <1>1 DEF ByTimer
  <2>2. op = "throttle" => mem' = mem \/ (mem.throttled /\ mem' = [mem EXCEPT !.throttled = FALSE])
    BY <1>1 DEF ByTimer
  <2>3. Len(Silence(mem).mem.batch) = 0
    BY FlushEmpties, <1>0
  <2>4. op = "debounce" => Len(mem'.batch) <= 1
    BY <1>0, <2>1, <2>3 DEF BriefInv, MemOf
  <2>5. op = "throttle" => (mem'.throttled => mem.throttled)
    BY <1>0, <2>2 DEF MemOf
  <2>6. op = "throttle" => Pos(1)' = Pos(1)
    BY <1>0, <1>1 DEF SameValues, Pos, SourcesOf
  <2> QED BY <1>0, <2>4, <2>5, <2>6 DEF BriefInv
<1>2. ASSUME NEW l \in LoopsOf(op), NEW s \in SourcesOf(op), Receive(l, s, "values"),
             op \in {"debounce", "throttle"}
      PROVE  BriefInv'
  <2>1. s = 1
    BY <1>2 DEF SourcesOf
  <2>2. PICK v \in Item : Pos(s)' = Pos(s) + 1 /\ mem' = OnValue(mem, s, v).mem
    BY <1>2, ReceivesNext
  <2>3. op = "debounce" => mem'.batch = <<v>>
    BY <1>0, <2>2 DEF OnValue, Debounce, Keep, Then, MemOf
  <2>4. Pos(1) \in Nat /\ Pos(1)' = Pos(1) + 1
    BY <1>2, <2>1, <2>2, PosIs
  <2>5. Pos(1)' > 0
    BY <2>4
  <2>6. PICK y : y = <<v>>
    OBVIOUS
  <2>7. op = "debounce" => Len(mem'.batch) <= 1
    <3>1. op = "debounce" => mem'.batch = y
      BY <2>3, <2>6, Zenon
    <3>2. Len(y) = 1
      BY <2>6
    <3>3. op = "debounce" => Len(mem'.batch) = 1
      BY <3>1, <3>2, Zenon
    <3> QED BY ONLY <3>3
  <2> QED BY <1>0, <2>5, <2>7 DEF BriefInv
<1>3. op \notin {"debounce", "throttle"} => BriefInv'
  BY <1>0 DEF BriefInv
<1> QED BY <1>1, <1>2, <1>3, MemStep

ItemPath(c, h) == c = Values("out") /\ h = Itself /\ op \in {"debounce", "throttle"}
LEMMA ItemPathIs ==
  ASSUME Ctl, NEW c, NEW h, ItemPath(c, h)
  PROVE  /\ Path(c, "values", h) /\ Lane(c, 1, "values", h, Itself, Item) /\ WhatOf(op, c) = Item
         /\ c \in ChannelsOf(op)
         /\ c[1] = "values" /\ Waits(c) = (IF op = "debounce" THEN mem.batch ELSE <<>>)
<1>1. c \in ChannelsOf(op) /\ c[1] = "values" /\ WhatOf(op, c) = Item /\ "values" \in Kinds
        /\ LoopsOf(op) = {1} /\ 1 \in SourcesOf(op)
      /\ op \notin Holding
  BY ChannelIs DEF ItemPath, Values, WhatOf, Results, Kinds, LoopsOf, SourcesOf, OutputsOf, Holding
<1>2. h \in [Item -> Seq(Item)] /\ Itself \in [Item -> Seq(Item)]
  BY ItemFunctions DEF ItemPath
<1>3. Path(c, "values", h) /\ Lane(c, 1, "values", h, Itself, Item)
  BY <1>1, <1>2 DEF Path, Lane
<1> QED BY <1>1, <1>3 DEF Waits, WaitsIn, ItemPath

\* What one case makes of what waited.
LEMMA ItemTurns ==
  ASSUME Ctl, BriefInv, NEW c, NEW h, ItemPath(c, h), NEW t \in SourcesOf(op), NEW j \in Kinds,
         left[t][j] # <<>>
  PROVE  /\ t = 1 /\ Head(left[t][j]) \in Item
         /\ j = "errors" => Turns(CaseAt(t, j), c, h, Waits(c))
         /\ j = "values" /\ op = "debounce" => Turns(CaseAt(t, j), c, h, <<Head(left[t][j])>>)
         /\ j = "values" /\ op = "throttle" =>
              Turns(CaseAt(t, j), c, h, IF mem.throttled THEN <<>> ELSE <<Head(left[t][j])>>)
<1>1. PICK r, e : r = CaseAt(t, j) /\ e = Head(left[t][j])
  OBVIOUS
<1>2. /\ r.sends \in Seq(SendsOf(op)) /\ e \in Item /\ t = 1
      /\ j = "values" => r = OnValue(mem, t, e)
      /\ j = "errors" => r = OnError(mem, e) /\ Passes(r.sends, e)
  BY <1>1, CaseSends DEF ItemPath, SourcesOf
<1>3. /\ Path(c, "values", h) /\ Lane(c, 1, "values", h, Itself, Item) /\ WhatOf(op, c) = Item
      /\ c \in ChannelsOf(op)
      /\ c[1] = "values" /\ Waits(c) = (IF op = "debounce" THEN mem.batch ELSE <<>>)
  BY ItemPathIs
<1>4. Waits(c) \in Seq(Item) /\ mem \in MemOf(op)
  BY <1>3, PathTypes DEF Ctl
<1>5. \A m : WaitsIn(op, m, c) = IF op = "debounce" THEN m.batch ELSE <<>>
  BY <1>3 DEF WaitsIn, ItemPath
<1>6. ASSUME j = "errors" PROVE Turns(r, c, h, Waits(c))
  <2>1. OnError(mem, e) = Fail(mem, "out", e)
    BY DEF OnError, ItemPath
  <2>2. r.mem = mem
    BY <1>2, <1>6, <2>1 DEF Fail, Then
  <2>3. \A i \in 1..Len(r.sends) : r.sends[i].to # c
    BY <1>2, <1>3, <1>6 DEF Passes, PassOne, ItemPath
  <2>4. Gather(r.sends, OfTo(op, c, h)) = <<>>
    BY <1>2, <1>3, <2>3, PathSilent DEF Silent
  <2>5. <<>> \o Waits(c) = Waits(c)
    BY <1>4, CatNone
  <2> QED BY <2>2, <2>4, <2>5 DEF Turns, Waits
<1>7. ASSUME j = "values", op = "debounce" PROVE Turns(r, c, h, <<e>>)
  <2>0. OnValue(mem, t, e).sends = <<>> /\ OnValue(mem, t, e).mem.batch = <<e>>
    BY <1>4, <1>7 DEF OnValue, Debounce, Keep, Then, MemOf
  <2>1. r.sends = <<>> /\ r.mem.batch = <<e>>
    BY <1>2, <1>7, <2>0
  <2>2. Gather(<<>>, OfTo(op, c, h)) = <<>>
    BY GatherNone
  <2>3. <<>> \o <<e>> = <<e>>
    BY <1>2, One, CatNone
  <2> QED BY <1>5, <1>7, <2>1, <2>2, <2>3 DEF Turns
<1>8. ASSUME j = "values", op = "throttle"
      PROVE  Turns(r, c, h, IF mem.throttled THEN <<>> ELSE <<e>>)
  <2>0. PICK d : d = Must(c, e)
    OBVIOUS
  <2>1. r.sends = IF mem.throttled THEN <<>> ELSE <<d>>
    BY <1>2, <1>8, <2>0 DEF OnValue, Throttle, Keep, Then, Emit, ItemPath
  <2>2. Gather(<<>>, OfTo(op, c, h)) = <<>>
    BY GatherNone
  <2>3. Gather(<<d>>, OfTo(op, c, h)) = <<e>>
    <3>1. Brings(<<Must(c, e)>>, c, h, h[e])
      BY <1>2, <1>3, ItemBrings
    <3>2. h[e] = <<e>>
      BY <1>2 DEF ItemPath, Itself
    <3> QED BY <2>0, <3>1, <3>2 DEF Brings
  <2>4. <<>> \o <<>> = <<>> /\ <<e>> \o <<>> = <<e>>
    BY <1>2, One, CatNone
  <2> QED BY <1>5, <1>8, <2>1, <2>2, <2>3, <2>4 DEF Turns
<1> QED BY <1>1, <1>2, <1>6, <1>7, <1>8 DEF Kinds

LEMMA SilenceTurns ==
  ASSUME Ctl, BriefInv, NEW c, NEW h, ItemPath(c, h), op = "debounce"
  PROVE  Turns(Silence(mem), c, h, Waits(c))
<1>1. /\ Path(c, "values", h) /\ Lane(c, 1, "values", h, Itself, Item) /\ WhatOf(op, c) = Item
      /\ c \in ChannelsOf(op)
      /\ Waits(c) = mem.batch /\ \A m : WaitsIn(op, m, c) = m.batch
  BY ItemPathIs DEF WaitsIn, ItemPath
<1>2. mem \in MemOf(op) /\ mem.batch \in Seq(Item) /\ Len(mem.batch) <= 1
  BY DEF Ctl, MemOf, BriefInv
<1>3. CASE mem.batch = <<>>
  <2>1. Turns(Keep(mem), c, h, Waits(c))
    BY <1>1, KeepTurns
  <2> QED BY <1>3, <2>1 DEF Silence
<1>4. CASE mem.batch # <<>>
  <2>1. PICK x : x = mem.batch[1]
    OBVIOUS
  <2>2. x \in Item /\ mem.batch = <<x>>
    BY <1>2, <1>4, <2>1
  <2>3. Silence(mem).sends = <<Must(c, x)>> /\ Silence(mem).mem.batch = <<>>
    BY <1>2, <1>4, <2>1 DEF Silence, Emit, Then, MemOf, ItemPath
  <2>4. Brings(<<Must(c, x)>>, c, h, h[x])
    BY <1>1, <2>2, ItemBrings
  <2>5. h[x] = <<x>>
    BY <2>2 DEF ItemPath, Itself
  <2>6. <<x>> \o <<>> = <<x>>
    BY <2>2, One, CatNone
  <2>7. Turns(Silence(mem), c, h, <<x>>)
    BY <1>1, <2>3, <2>4, <2>5, <2>6 DEF Turns, Brings
  <2> QED BY <1>1, <2>2, <2>7
<1> QED BY <1>3, <1>4

LEMMA ItemPathFed ==
  ASSUME Ctl, BriefInv, NEW c, NEW h, ItemPath(c, h)
  PROVE  PathFed(c, "values", h)
<1>1. ASSUME NEW t \in SourcesOf(op), NEW j \in Kinds, left[t][j] # <<>>
      PROVE  IF t = 1 /\ j = "values" THEN TurnsTo(CaseAt(t, j), c, h, Head(left[t][j]))
                                      ELSE Turns(CaseAt(t, j), c, h, Waits(c))
  <2>1. /\ t = 1 /\ (j = "errors" => Turns(CaseAt(t, j), c, h, Waits(c)))
        /\ j = "values" /\ op = "debounce" => Turns(CaseAt(t, j), c, h, <<Head(left[t][j])>>)
        /\ j = "values" /\ op = "throttle" =>
              Turns(CaseAt(t, j), c, h, IF mem.throttled THEN <<>> ELSE <<Head(left[t][j])>>)
    BY <1>1, ItemTurns
  <2> QED BY <2>1 DEF TurnsTo, ItemPath, Kinds
<1>2. op = "debounce" => Turns(Silence(mem), c, h, Waits(c))
  BY SilenceTurns
<1> QED BY <1>1, <1>2 DEF PathFed, ItemPath

-----------------------------------------------------------------------------
(* What Debounce and Throttle may not lose: the newest value, and the first. *)
Has(q, x) == \E i \in 1..Len(q) : q[i] = x
On(c, h, x) == Has(Came(c, h), x) \/ Has(Coming(1, c, h), x) \/ Has(Waits(c), x)

LEMMA HasCat ==
  ASSUME NEW a \in Seq(Item), NEW b \in Seq(Item), NEW x
  PROVE  Has(a \o b, x) <=> Has(a, x) \/ Has(b, x)
<1>1. PICK d : d = a \o b
  OBVIOUS
<1>2. /\ \A i \in 1..Len(a) : i \in 1..Len(d) /\ d[i] = a[i]
      /\ \A i \in 1..Len(b) : Len(a) + i \in 1..Len(d) /\ d[Len(a) + i] = b[i]
  BY <1>1, CatHas
<1>3. \A i \in 1..Len(d) : /\ i \in 1..Len(a) => d[i] = a[i]
                           /\ i \notin 1..Len(a) => i - Len(a) \in 1..Len(b) /\ d[i] = b[i - Len(a)]
  BY <1>1, CatAt
<1>4. Has(a, x) \/ Has(b, x) => Has(d, x)
  BY <1>2 DEF Has
<1>5. Has(d, x) => Has(a, x) \/ Has(b, x)
  BY <1>3 DEF Has
<1> QED BY <1>1, <1>4, <1>5

LEMMA HasOne == ASSUME NEW x PROVE Has(<<x>>, x) /\ ~Has(<<>>, x)
BY DEF Has

\* The loop takes up a case that leaves y on the way.
Takes(c, h, y) ==
  /\ Coming(1, c, h) = <<>> /\ Came(c, h)' = Came(c, h) /\ Coming(1, c, h)' \o Waits(c)' = y
  /\ pc[1] = "select" /\ ctxDone' = ctxDone
TakesValue(c, h) ==
  \E v \in Item :
    /\ v = In(1)[Pos(1) + 1] /\ v.n = Pos(1) + 1 /\ Pos(1)' = Pos(1) + 1 /\ Pos(1) < Len(In(1))
    /\ op = "debounce" => Takes(c, h, <<v>>)
    /\ op = "throttle" => Takes(c, h, IF mem.throttled THEN <<>> ELSE <<v>>)
TakesOther(c, h) == Takes(c, h, Waits(c)) /\ Pos(1)' = Pos(1)
GoesOn(c, h) == PathSends(c, h) /\ pc[1] # "done" /\ UNCHANGED <<op, mem, left, input, ctxDone>>
Stays(c, h) ==
  /\ Came(c, h)' = Came(c, h) /\ Coming(1, c, h)' = Coming(1, c, h) /\ Waits(c)' = Waits(c)
  /\ Pos(1)' = Pos(1)
  /\ pc'[1] = pc[1] /\ (ctxDone => ctxDone')

LEMMA ItemMoves ==
  ASSUME Ctl, Ctl', BriefInv, NEW c, NEW h, ItemPath(c, h), [Next]_vars
  PROVE  TakesValue(c, h) \/ TakesOther(c, h) \/ GoesOn(c, h) \/ Stays(c, h)
<1>0. /\ Path(c, "values", h) /\ Turns(Keep(mem), c, h, Waits(c)) /\ LoopsOf(op) = {1}
      /\ 1 \in LoopsOf(op) /\ SourcesOf(op) = {1}
      /\ pc \in [LoopsOf(op) -> {"select", "sending", "flushing", "done"}]
      /\ todo \in [LoopsOf(op) -> Seq(SendsOf(op))]
  BY ItemPathIs, KeepTurns DEF Ctl, PcOK, ItemPath, LoopsOf, SourcesOf
<1>1. ASSUME NEW r, NEW y, Selects(r), Turns(r, c, h, y) PROVE Takes(c, h, y)
  BY <1>0, <1>1, SelectPath DEF Takes, Selects
<1>2. ASSUME NEW t \in SourcesOf(op), NEW j \in Kinds, Receive(1, t, j)
      PROVE  TakesValue(c, h) \/ TakesOther(c, h)
  <2>1. PICK r : r = CaseAt(t, j)
    OBVIOUS
  <2>2. pc[1] = "select" /\ left[t][j] # <<>> /\ left' = [left EXCEPT ![t][j] = Tail(@)]
        /\ Enter(1, r) /\ UNCHANGED <<inputs, open, got, closed, ctxDone, ticks>>
    BY <1>2, <2>1 DEF Receive, CaseAt
  <2>3. Selects(r)
    BY <1>0, <2>2 DEF Selects, Enter, inputs
  <2>4. /\ t = 1 /\ Head(left[t][j]) \in Item
        /\ j = "errors" => Turns(CaseAt(t, j), c, h, Waits(c))
        /\ j = "values" /\ op = "debounce" => Turns(CaseAt(t, j), c, h, <<Head(left[t][j])>>)
        /\ j = "values" /\ op = "throttle" =>
              Turns(CaseAt(t, j), c, h, IF mem.throttled THEN <<>> ELSE <<Head(left[t][j])>>)
    BY <2>2, ItemTurns
  <2>5. CASE j = "errors"
    <3>1. left'[1]["values"] = left[1]["values"]
      BY <2>2, <2>4, <2>5 DEF Ctl, LeftOK, Line, Kinds
    <3>2. Pos(1)' = Pos(1)
      BY <2>2, <3>1 DEF Pos, inputs
    <3> QED BY <1>1, <2>1, <2>3, <2>4, <2>5, <3>2 DEF TakesOther
  <2>6. CASE j = "values"
    <3>1. PICK v \in Item : /\ v = In(1)[Pos(1) + 1] /\ v.n = Pos(1) + 1 /\ Pos(1) < Len(In(1))
                            /\ v = Head(left[1]["values"]) /\ Pos(1)' = Pos(1) + 1
      BY <1>0, <1>2, <2>4, <2>6, ReceivesNext
    <3>2. op = "debounce" => Takes(c, h, <<v>>)
      BY <1>1, <2>1, <2>3, <2>4, <2>6, <3>1
    <3>3. op = "throttle" => Takes(c, h, IF mem.throttled THEN <<>> ELSE <<v>>)
      BY <1>1, <2>1, <2>3, <2>4, <2>6, <3>1
    <3> QED BY <3>1, <3>2, <3>3 DEF TakesValue
  <2> QED BY <2>5, <2>6 DEF Kinds
<1>3. ASSUME Loop(1), ~\E t \in SourcesOf(op), j \in Kinds : Receive(1, t, j)
      PROVE  TakesOther(c, h) \/ GoesOn(c, h)
  <2>1. ASSUME NEW r, Selects(r), Turns(r, c, h, Waits(c)), left' = left PROVE TakesOther(c, h)
    <3>1. Pos(1)' = Pos(1)
      BY <2>1 DEF Pos, Selects
    <3> QED BY <1>1, <2>1, <3>1 DEF TakesOther
  <2>2. ASSUME NEW t \in SourcesOf(op), NEW j \in Kinds, SourceClosed(1, t, j)
        PROVE  TakesOther(c, h)
    <3>1. Enter(1, Keep(mem))
      BY <2>2 DEF SourceClosed, ItemPath
    <3>2. PICK r : r = Keep(mem)
      OBVIOUS
    <3>3. Selects(r) /\ left' = left
      BY <1>0, <2>2, <3>1, <3>2 DEF SourceClosed, Selects, Enter, inputs
    <3> QED BY <1>0, <2>1, <3>2, <3>3
  <2>3. CASE TimerFires(1)
    <3>1. op = "debounce" /\ Enter(1, Silence(mem))
      BY <2>3 DEF TimerFires, ItemPath
    <3>2. PICK r : r = Silence(mem)
      OBVIOUS
    <3>3. Selects(r) /\ left' = left
      BY <1>0, <2>3, <3>1, <3>2 DEF TimerFires, Selects, Enter, inputs
    <3>4. Turns(r, c, h, Waits(c))
      BY <3>1, <3>2, SilenceTurns
    <3> QED BY <2>1, <3>3, <3>4
  <2>4. CASE LoopEnds(1)
    <3>1. PICK r : r = Keep(mem)
      OBVIOUS
    <3>2. Selects(r) /\ left' = left
      BY <1>0, <2>4, <3>1 DEF LoopEnds, Selects, inputs, ItemPath
    <3> QED BY <1>0, <2>1, <3>1, <3>2
  <2>5. CASE Send(1) \/ Drop(1) \/ GiveUp(1) \/ Cancelled(1)
    <3>1. pc[1] # "done" /\ ctxDone' = ctxDone
      BY <2>5 DEF Send, Drop, GiveUp, Cancelled, Sending
    <3> QED BY <1>0, <2>5, <3>1, SendPath DEF GoesOn
  <2> QED BY <1>3, <2>2, <2>3, <2>4, <2>5 DEF Loop
<1>4. CASE CloseOutputs \/ Cancel \/ IntervalPasses \/ UNCHANGED vars
  <2>1. UNCHANGED <<op, input, left, todo, got, pc>> /\ (ctxDone => ctxDone')
    BY <1>4 DEF CloseOutputs, Cancel, IntervalPasses, vars, inputs
  <2>2. mem'.batch = mem.batch
    BY <1>4 DEF CloseOutputs, Cancel, IntervalPasses, vars, Ctl, MemOf
  <2>3. Came(c, h)' = Came(c, h) /\ Coming(1, c, h)' = Coming(1, c, h) /\ Waits(c)' = Waits(c)
          /\ Pos(1)' = Pos(1)
    BY <2>1, <2>2 DEF Came, Coming, Waits, WaitsIn, Pos
  <2> QED BY <2>1, <2>3 DEF Stays
<1> QED BY <1>0, <1>2, <1>3, <1>4 DEF Next

-----------------------------------------------------------------------------
(* Debounce has its newest value somewhere until the context ends; Throttle  *)
(* its first, or has sent nothing.                                           *)
Out1 == Values("out")
FreshInv == op = "debounce" /\ ~ctxDone /\ Pos(1) > 0 => On(Out1, Itself, In(1)[Pos(1)])
Unsent ==
  /\ Came(Out1, Itself) = <<>> /\ Coming(1, Out1, Itself) = <<>>
  /\ Pos(1) = 0 \/ (ctxDone /\ pc[1] = "done")
FirstInv == op = "throttle" => On(Out1, Itself, In(1)[1]) \/ Unsent

LEMMA FreshInit == ASSUME Init, Ctl PROVE FreshInv /\ FirstInv
<1>1. ASSUME op \in {"debounce", "throttle"}
      PROVE  Pos(1) = 0 /\ Came(Out1, Itself) = <<>> /\ Coming(1, Out1, Itself) = <<>>
  <2>1. left = input /\ got[Out1] = <<>> /\ todo[1] = <<>> /\ 1 \in SourcesOf(op)
    <3>1. Out1 \in ChannelsOf(op) /\ 1 \in LoopsOf(op) /\ 1 \in SourcesOf(op)
      BY <1>1, ChannelIs DEF OutputsOf, LoopsOf, SourcesOf, Out1
    <3> QED BY <3>1 DEF Init
  <2>2. Len(input[1]["values"]) \in Nat
    BY <2>1, ItemsIn DEF In
  <2> QED BY <2>1, <2>2, GatherNone DEF Pos, Came, Coming
<1> QED BY <1>1 DEF FreshInv, FirstInv, Unsent

LEMMA NoneOfCat ==
  ASSUME NEW a \in Seq(Item), NEW b \in Seq(Item), a \o b = <<>>
  PROVE  a = <<>> /\ b = <<>>
<1>1. Len(a \o b) = Len(a) + Len(b) /\ Len(a) \in Nat /\ Len(b) \in Nat /\ Len(<<>>) = 0
  OBVIOUS
<1>2. Len(a) = 0 /\ Len(b) = 0
  BY <1>1
<1> QED BY <1>2, EmptySeq

\* What a case takes up is still there after it.
LEMMA TakenOn ==
  ASSUME Ctl', op' = op, NEW c, NEW h, Path(c, "values", h), NEW x, NEW y, Takes(c, h, y)
  PROVE  /\ Has(Came(c, h), x) => On(c, h, x)'
         /\ Has(y, x) => On(c, h, x)'
         /\ y = <<>> => Coming(1, c, h)' = <<>>
<1>1. PICK a \in Seq(Item), b \in Seq(Item), w \in Seq(Item) : a = Came(c, h)' /\ b = Coming(1, c, h)' /\ w = Waits(c)'
  BY PathTypesNext
<1>2. b \o w = y /\ a = Came(c, h)
  BY <1>1 DEF Takes
<1>3. Has(y, x) => Has(b, x) \/ Has(w, x)
  BY <1>2, HasCat
<1>4. y = <<>> => b = <<>>
  BY <1>2, NoneOfCat
<1>5. Has(a, x) \/ Has(b, x) \/ Has(w, x) => On(c, h, x)'
  BY <1>1 DEF On, Has
<1> QED BY <1>1, <1>2, <1>3, <1>4, <1>5

\* What is being sent stays, or is given up with what comes after it.
LEMMA MovedOn ==
  ASSUME Ctl, NEW c, NEW h, ItemPath(c, h), NEW x, GoesOn(c, h)
  PROVE  \/ /\ On(c, h, x) => On(c, h, x)'
            /\ Came(c, h) = <<>> /\ Coming(1, c, h) = <<>> => Came(c, h)' = <<>> /\ Coming(1, c, h)' = <<>>
         \/ GivesUp(c, h) /\ (Has(Came(c, h), x) => On(c, h, x)')
<1>0. Path(c, "values", h) /\ c[1] = "values" /\ ~Soft(op, c)
  BY ItemPathIs DEF Soft, ItemPath
<1>1. PICK a \in Seq(Item), w \in Seq(Item) : a = Came(c, h) /\ w = Waits(c)
  BY <1>0, PathTypes
<1>2. PICK u \in Seq(Item), t \in Seq(Item) :
         /\ Coming(1, c, h) = u \o t
         /\ MovesOn(c, h, u, t) \/ LeavesOut(c, h, u, t) \/ GivesUp(c, h)
  BY DEF GoesOn, PathSends
<1>3. Waits(c)' = w
  BY <1>1 DEF Waits, GoesOn
<1>4. On(c, h, x) <=> Has(a, x) \/ Has(u, x) \/ Has(t, x) \/ Has(w, x)
  <2>1. PICK q : q = u \o t
    OBVIOUS
  <2>2. Has(q, x) <=> Has(u, x) \/ Has(t, x)
    BY <2>1, HasCat
  <2>3. q = Coming(1, c, h)
    BY <1>2, <2>1
  <2>4. On(c, h, x) <=> Has(a, x) \/ Has(q, x) \/ Has(w, x)
    BY <1>1, <2>3, Zenon DEF On
  <2> QED BY <2>2, <2>4
<1>5. Coming(1, c, h) = <<>> => u = <<>> /\ t = <<>>
  BY <1>2, NoneOfCat
<1>6. CASE MovesOn(c, h, u, t)
  <2>1. Came(c, h)' = a \o u /\ Coming(1, c, h)' = t
    BY <1>1, <1>6 DEF MovesOn
  <2>2. PICK d : d = Came(c, h)'
    OBVIOUS
  <2>3. Has(d, x) <=> Has(a, x) \/ Has(u, x)
    BY <2>1, <2>2, HasCat
  <2>4. On(c, h, x)' <=> Has(d, x) \/ Has(t, x) \/ Has(w, x)
    BY <1>3, <2>1, <2>2 DEF On, Has
  <2>5. a \o <<>> = a
    BY CatNone
  <2> QED BY <1>1, <1>4, <1>5, <2>1, <2>3, <2>4, <2>5
<1>7. CASE LeavesOut(c, h, u, t)
  <2>1. Came(c, h)' = a /\ Coming(1, c, h)' = t /\ u = <<>>
    BY <1>0, <1>1, <1>7 DEF LeavesOut
  <2>2. On(c, h, x)' <=> Has(a, x) \/ Has(t, x) \/ Has(w, x)
    BY <1>3, <2>1 DEF On, Has
  <2>3. ~Has(u, x)
    BY <2>1, HasOne
  <2> QED BY <1>1, <1>4, <1>5, <2>1, <2>2, <2>3
<1>8. CASE GivesUp(c, h)
  <2>1. Came(c, h)' = a
    BY <1>1, <1>8 DEF GivesUp
  <2>2. Has(a, x) => On(c, h, x)'
    BY <2>1 DEF On, Has
  <2> QED BY <1>1, <1>8, <2>2
<1> QED BY <1>2, <1>6, <1>7, <1>8

LEMMA FreshStep ==
  ASSUME Ctl, Ctl', BriefInv, FreshInv, [Next]_vars
  PROVE  FreshInv'
<1> SUFFICES ASSUME op' = "debounce", ~ctxDone', Pos(1)' > 0 PROVE On(Out1, Itself, In(1)[Pos(1)])'
  BY DEF FreshInv
<1>0. op' = op /\ input' = input /\ op = "debounce" /\ 1 \in SourcesOf(op)
  BY SteadyStep DEF Steady, SourcesOf
<1>1. PICK c, h : c = Out1 /\ h = Itself
  OBVIOUS
<1>2. ItemPath(c, h) /\ Path(c, "values", h)
  BY <1>0, <1>1, ItemPathIs DEF ItemPath, Out1
<1>3. PICK x : x = In(1)[Pos(1)]'
  OBVIOUS
<1>4. Pos(1) \in Nat
  BY <1>0, PosIs
<1>5. In(1)' = In(1)
  BY <1>0 DEF In
<1>6. ASSUME Pos(1)' = Pos(1), ~ctxDone PROVE On(c, h, x)
  BY <1>0, <1>1, <1>3, <1>5, <1>6 DEF FreshInv
<1>7. CASE TakesValue(c, h)
  <2>1. PICK v \in Item : v = In(1)[Pos(1) + 1] /\ Pos(1)' = Pos(1) + 1 /\ Takes(c, h, <<v>>)
    BY <1>0, <1>7 DEF TakesValue
  <2>2. x = v
    BY <1>3, <1>5, <2>1
  <2>3. PICK y : y = <<v>>
    OBVIOUS
  <2>4. Has(y, x)
    BY <2>2, <2>3, HasOne
  <2>5. On(c, h, x)'
    BY <1>0, <1>2, <2>1, <2>3, <2>4, TakenOn
  <2> QED BY <1>1, <1>3, <2>5
<1>8. CASE TakesOther(c, h)
  <2>1. Takes(c, h, Waits(c)) /\ Pos(1)' = Pos(1) /\ ctxDone' = ctxDone /\ Coming(1, c, h) = <<>>
    BY <1>8 DEF TakesOther, Takes
  <2>2. On(c, h, x)
    BY <1>6, <2>1
  <2>3. Has(Came(c, h), x) \/ Has(Waits(c), x)
    BY <2>1, <2>2, HasOne DEF On
  <2>4. On(c, h, x)'
    BY <1>0, <1>2, <2>1, <2>3, TakenOn
  <2> QED BY <1>1, <1>3, <2>4
<1>9. CASE GoesOn(c, h)
  <2>1. Pos(1)' = Pos(1)
    BY <1>9 DEF GoesOn, Pos
  <2>2. ~GivesUp(c, h)
    BY DEF GivesUp
  <2>3. ~ctxDone
    BY <1>9 DEF GoesOn
  <2>4. On(c, h, x)
    BY <1>6, <2>1, <2>3
  <2>5. On(c, h, x)'
    BY <1>2, <1>9, <2>2, <2>4, MovedOn
  <2> QED BY <1>1, <1>3, <2>5
<1>10. CASE Stays(c, h)
  <2>1. On(c, h, x)
    BY <1>6, <1>10 DEF Stays
  <2>2. On(c, h, x)'
    BY <1>10, <2>1 DEF Stays, On, Has
  <2> QED BY <1>1, <1>3, <2>2
<1> QED BY <1>2, <1>7, <1>8, <1>9, <1>10, ItemMoves

-----------------------------------------------------------------------------
LEMMA FirstOfAll ==
  ASSUME Ctl, 1 \in SourcesOf(op), NEW p, NEW a \in Seq(Item), NEW b \in Seq(Item), NEW w,
         Sorted(a, b, w, input[1]["values"], p), p \in Nat, p <= Len(In(1)), Has(b, In(1)[1])
  PROVE  a = <<>>
<1>1. PICK i \in 1..Len(b) : b[i] = In(1)[1]
  BY DEF Has
<1>2. b[i].n \in 1..p
  BY <1>1 DEF Sorted, From
<1>3. In(1) \in Seq(Item) /\ "values" \in Kinds /\ In(1) = input[1]["values"]
  BY ItemsIn DEF Kinds, In
<1>4. 1 \in 1..Len(In(1))
  BY <1>2, <1>3
<1>5. b[i].n = 1
  BY <1>1, <1>3, <1>4 DEF Ctl, InputOK, Placed
<1>6. ASSUME NEW j \in 1..Len(a) PROVE FALSE
  <2>1. a[j].n < b[i].n /\ a[j].n \in 1..p
    BY <1>1 DEF Sorted, Before, From
  <2> QED BY <1>5, <2>1
<1>7. Len(a) \in Nat
  OBVIOUS
<1>8. Len(a) = 0
  BY <1>6, <1>7
<1> QED BY <1>8, EmptySeq

LEMMA FirstStep ==
  ASSUME Ctl, Ctl', BriefInv, FirstInv, InOrder(Out1, "values", Itself), [Next]_vars
  PROVE  FirstInv'
<1> SUFFICES ASSUME op' = "throttle" PROVE (On(Out1, Itself, In(1)[1]) \/ Unsent)'
  BY DEF FirstInv
<1>0. op' = op /\ input' = input /\ op = "throttle" /\ 1 \in SourcesOf(op)
  BY SteadyStep DEF Steady, SourcesOf
<1>1. PICK c, h : c = Out1 /\ h = Itself
  OBVIOUS
<1>2. ItemPath(c, h) /\ Path(c, "values", h) /\ Waits(c) = <<>>
  BY <1>0, <1>1, ItemPathIs DEF ItemPath, Out1
<1>3. PICK x : x = In(1)[1]
  OBVIOUS
<1>4. Pos(1) \in Nat /\ Pos(1) <= Len(In(1))
  BY <1>0, PosIs
<1>5. In(1)[1]' = x
  BY <1>0, <1>3 DEF In
<1>6. On(c, h, x) \/ Unsent
  BY <1>0, <1>1, <1>3 DEF FirstInv
<1>7. Coming(1, c, h) = <<>> => (On(c, h, x) => Has(Came(c, h), x))
  BY <1>2, HasOne DEF On
<1>8. CASE TakesValue(c, h)
  <2>1. PICK v \in Item : v = In(1)[Pos(1) + 1] /\ Takes(c, h, IF mem.throttled THEN <<>> ELSE <<v>>)
    BY <1>0, <1>8 DEF TakesValue
  <2>2. CASE Pos(1) = 0
    <3>1. ~mem.throttled /\ v = x
      BY <1>0, <1>3, <2>1, <2>2 DEF BriefInv
    <3>2. PICK y : y = <<v>>
      OBVIOUS
    <3>3. Has(y, x) /\ Takes(c, h, y)
      BY <2>1, <3>1, <3>2, HasOne
    <3>4. On(c, h, x)'
      BY <1>0, <1>2, <3>3, TakenOn
    <3> QED BY <1>1, <1>5, <3>4
  <2>3. CASE Pos(1) # 0
    <3>1. On(c, h, x) /\ Coming(1, c, h) = <<>>
      BY <1>6, <2>1, <2>3 DEF Unsent, Takes
    <3>2. Has(Came(c, h), x)
      BY <1>7, <3>1
    <3>3. PICK y : y = IF mem.throttled THEN <<>> ELSE <<v>>
      OBVIOUS
    <3>4. Takes(c, h, y)
      BY <2>1, <3>3
    <3>5. On(c, h, x)'
      BY <1>0, <1>2, <3>2, <3>4, TakenOn
    <3> QED BY <1>1, <1>5, <3>5
  <2> QED BY <2>2, <2>3
<1>9. CASE TakesOther(c, h)
  <2>1. Takes(c, h, <<>>) /\ Pos(1)' = Pos(1)
    BY <1>2, <1>9 DEF TakesOther
  <2>2. PICK y : y = <<>>
    OBVIOUS
  <2>3. Takes(c, h, y) /\ Coming(1, c, h) = <<>> /\ pc[1] = "select" /\ Came(c, h)' = Came(c, h)
    BY <2>1, <2>2 DEF Takes
  <2>4. On(c, h, x) => On(c, h, x)'
    BY <1>0, <1>2, <1>7, <2>3, TakenOn
  <2>5. Coming(1, c, h)' = <<>>
    BY <1>0, <1>2, <2>2, <2>3, TakenOn
  <2>6. ASSUME Unsent PROVE Unsent'
    BY <1>1, <2>1, <2>3, <2>5, <2>6 DEF Unsent
  <2> QED BY <1>1, <1>5, <1>6, <2>4, <2>6
<1>10. CASE GoesOn(c, h)
  <2>1. Pos(1)' = Pos(1) /\ ctxDone' = ctxDone /\ pc[1] # "done"
    BY <1>10 DEF GoesOn, Pos
  <2>2. CASE GivesUp(c, h) /\ (Has(Came(c, h), x) => On(c, h, x)')
    <3>1. Came(c, h)' = Came(c, h) /\ Coming(1, c, h)' = <<>> /\ ctxDone' /\ pc'[1] = "done"
      BY <2>2 DEF GivesUp
    <3>2. Came(c, h) = <<>> => Unsent'
      BY <1>1, <3>1 DEF Unsent
    <3>3. PICK a \in Seq(Item), b \in Seq(Item), w \in {Waits(c)} :
            a = Came(c, h) /\ b = Coming(1, c, h) /\ w = Waits(c)
      BY <1>2, PathTypes
    <3>4. PICK p : p = Pos(1)
      OBVIOUS
    <3>5. Sorted(a, b, w, input[1]["values"], p)
      <4>1. At("values") = p
        BY <3>4 DEF At, Pos
      <4> QED BY <1>1, <3>3, <4>1 DEF InOrder
    <3>6. Has(b, x) => a = <<>>
      BY <1>0, <1>3, <1>4, <3>4, <3>5, FirstOfAll
    <3>7. On(c, h, x) => Has(a, x) \/ Has(b, x)
      BY <1>2, <3>3, HasOne DEF On
    <3>8. Unsent => a = <<>>
      BY <1>1, <3>3 DEF Unsent
    <3> QED BY <1>1, <1>5, <1>6, <2>2, <3>2, <3>3, <3>6, <3>7, <3>8
  <2>3. CASE /\ On(c, h, x) => On(c, h, x)'
             /\ Came(c, h) = <<>> /\ Coming(1, c, h) = <<>> => Came(c, h)' = <<>> /\ Coming(1, c, h)' = <<>>
    <3>1. Unsent => Unsent'
      BY <1>1, <2>1, <2>3 DEF Unsent
    <3> QED BY <1>1, <1>5, <1>6, <2>3, <3>1
  <2> QED BY <1>2, <1>10, <2>2, <2>3, MovedOn
<1>11. CASE Stays(c, h)
  <2>1. On(c, h, x) => On(c, h, x)'
    BY <1>11 DEF Stays, On, Has
  <2>2. Unsent => Unsent'
    BY <1>1, <1>11 DEF Stays, Unsent
  <2> QED BY <1>1, <1>5, <1>6, <2>1, <2>2
<1> QED BY <1>2, <1>8, <1>9, <1>10, <1>11, ItemMoves

-----------------------------------------------------------------------------
(* All the paths of an operator with one loop.                               *)
IsPath(c, k, h) ==
  \/ LoopsOf(op) = {1} /\ k = "errors" /\ h = KindIs("errors") /\ \E o \in OutputsOf(op) : c = Errors(o)
  \/ op = "buffer" /\ c = Values("out") /\ k = "values" /\ h = Batches(op)
  \/ ItemPath(c, h) /\ k = "values"
OrdersInv == \A c, k, h : IsPath(c, k, h) => InOrder(c, k, h)

LEMMA IsPathFed ==
  ASSUME Ctl, BriefInv, NEW c, NEW k, NEW h, IsPath(c, k, h)
  PROVE  Path(c, k, h) /\ PathFed(c, k, h)
<1>1. CASE LoopsOf(op) = {1} /\ k = "errors" /\ h = KindIs("errors")
        /\ \E o \in OutputsOf(op) : c = Errors(o)
  BY <1>1, ErrorsPathFed
<1>2. CASE op = "buffer" /\ c = Values("out") /\ k = "values" /\ h = Batches(op)
  BY <1>2, BatchPathFed
<1>3. CASE ItemPath(c, h) /\ k = "values"
  BY <1>3, ItemPathFed, ItemPathIs
<1> QED BY <1>1, <1>2, <1>3 DEF IsPath

LEMMA OrdersInit == ASSUME Init, Ctl, BriefInv PROVE OrdersInv
<1> SUFFICES ASSUME NEW c, NEW k, NEW h, IsPath(c, k, h) PROVE InOrder(c, k, h)
  BY DEF OrdersInv
<1>1. Path(c, k, h)
  BY IsPathFed
<1> QED BY <1>1, OrderInit

LEMMA OrdersStep == ASSUME Ctl, Ctl', BriefInv, OrdersInv, [Next]_vars PROVE OrdersInv'
<1>0. op' = op
  BY SteadyStep DEF Steady
<1>1. Batches(op)' = Batches(op)
  BY <1>0 DEF Batches
<1>2. ASSUME NEW c, NEW k, NEW h, IsPath(c, k, h)' PROVE InOrder(c, k, h)'
  <2>1. IsPath(c, k, h)
    BY <1>0, <1>1, <1>2 DEF IsPath, ItemPath
  <2>2. Path(c, k, h) /\ PathFed(c, k, h)
    BY <2>1, IsPathFed
  <2>3. InOrder(c, k, h)
    BY <2>1 DEF OrdersInv
  <2> QED BY <2>2, <2>3, OrderStep
<1> QED BY <1>2 DEF OrdersInv

\* Debounce and Throttle have something to send.
LongInv == op \in {"debounce", "throttle"} => In(1) # <<>>
LEMMA LongInit == Init => LongInv
<1> SUFFICES ASSUME Init, op \in {"debounce", "throttle"} PROVE In(1) # <<>>
  BY DEF LongInv
<1>1. SourcesOf(op) = {1} /\ input[1].values \in ValuesIn(op, 1)
  BY DEF Init, InputsOf, SourcesOf
<1>2. input[1].values \in Contents(1, "values", UnaryItems + 1, {"a"})
  BY <1>1 DEF ValuesIn, HowMany, Indifferent
<1>3. PICK q, n : q = input[1].values /\ n = UnaryItems + 1
  OBVIOUS
<1>4. n \in Nat \ {0}
  BY <1>3, OpsAssumption
<1>5. q \in Contents(1, "values", n, {"a"})
  BY <1>2, <1>3
<1>6. Len(q) = n
  BY <1>4, <1>5, ContentsFilled DEF Kinds
<1> QED BY <1>3, <1>4, <1>6 DEF In
LEMMA LongStep == ASSUME LongInv, [Next]_vars PROVE LongInv'
BY SteadyStep DEF Steady, LongInv, In

-----------------------------------------------------------------------------
LEMMA RisingIs == ASSUME NEW q \in Seq(Item) PROVE Rising(q) <=> InSourceOrder(q)
BY DEF Rising, InSourceOrder

LEMMA BatchesInOrder ==
  ASSUME Ctl, BriefInv, OrdersInv, op = "buffer"
  PROVE  InSourceOrder(FlattenSeq(Out("out")))
<1>1. PICK c, h : c = Values("out") /\ h = Batches(op)
  OBVIOUS
<1>2. IsPath(c, "values", h)
  BY <1>1 DEF IsPath
<1>3. Path(c, "values", h) /\ InOrder(c, "values", h)
  BY <1>2, IsPathFed DEF OrdersInv
<1>4. Came(c, h) \in Seq(Item) /\ Rising(Came(c, h))
  BY <1>3, PathTypes DEF InOrder, Sorted
<1>5. FlattenSeq(Out("out")) = Came(c, h)
  <2>1. PICK q : q = Out("out")
    OBVIOUS
  <2>2. Out("out") \in Seq(Results(op)) /\ Results(op) = {x \in Seq(Item) : Len(x) \in 1..BufferN}
    BY <1>1, <1>3 DEF Path, Out, Ctl, GotOK, WhatOf, Values, Results
  <2>3. q = [i \in DOMAIN q |-> Batches(op)[q[i]]]
    BY <2>1, <2>2 DEF Batches
  <2> QED BY <1>1, <2>1, <2>3, Zenon DEF Came, Gather, Images, Out
<1> QED BY <1>4, <1>5, RisingIs

LEMMA ItemsInOrder ==
  ASSUME Ctl, BriefInv, OrdersInv, op \in {"debounce", "throttle"}
  PROVE  /\ Out("out") \in Seq(Item) /\ Came(Out1, Itself) = Out("out")
         /\ InSourceOrder(Out("out")) /\ Rising(Out("out"))
         /\ Sorted(Out("out"), Coming(1, Out1, Itself), Waits(Out1), input[1]["values"], Pos(1))
         /\ Coming(1, Out1, Itself) \in Seq(Item)
<1>1. PICK c, h : c = Out1 /\ h = Itself
  OBVIOUS
<1>2. ItemPath(c, h)
  BY <1>1 DEF ItemPath, Out1
<1>3. Path(c, "values", h) /\ InOrder(c, "values", h) /\ c \in ChannelsOf(op)
        /\ WhatOf(op, c) = Item
  BY <1>2, ItemPathIs DEF OrdersInv, IsPath
<1>4. Out("out") \in Seq(Item) /\ Came(c, h) = Out("out")
  <2>1. got[c] \in Seq(Item) /\ got[c] = Out("out")
    BY <1>1, <1>3, ItemsOut DEF Out, Out1
  <2> QED BY <1>1, <2>1, GatherItself DEF Came
<1>5. At("values") = Pos(1)
  BY DEF At, Pos
<1>6. Sorted(Out("out"), Coming(1, c, h), Waits(c), input[1]["values"], Pos(1))
        /\ Coming(1, c, h) \in Seq(Item)
  BY <1>3, <1>4, <1>5, PathTypes DEF InOrder
<1> QED BY <1>1, <1>4, <1>6, RisingIs DEF Sorted

LEMMA LastIs ==
  ASSUME Ctl, 1 \in SourcesOf(op), NEW a \in Seq(Item), Rising(a),
         From(a, input[1]["values"], Len(In(1))), In(1) # <<>>,
         Has(a, In(1)[Len(In(1))])
  PROVE  a # <<>> /\ Last(a) = Last(In(1))
<1>1. PICK q \in Seq(Item) : q = In(1)
  BY ItemsIn
<1>2. Len(q) \in Nat \ {0} /\ Len(a) \in Nat
  BY <1>1, EmptySeq
<1>3. PICK i \in 1..Len(a) : a[i] = q[Len(q)]
  BY <1>1 DEF Has
<1>4. q[Len(q)].n = Len(q)
  <2>1. "values" \in Kinds /\ q = input[1]["values"] /\ Len(q) \in 1..Len(q)
    BY <1>1, <1>2 DEF Kinds, In
  <2> QED BY <2>1 DEF Ctl, InputOK, Placed
<1>5. ASSUME i # Len(a) PROVE FALSE
  <2>1. i < Len(a) /\ Len(a) \in 1..Len(a)
    BY <1>2, <1>5
  <2>2. a[i].n < a[Len(a)].n
    BY <2>1 DEF Rising
  <2>3. a[Len(a)].n \in 1..Len(q)
    BY <1>1, <2>1 DEF From
  <2> QED BY <1>2, <1>3, <1>4, <2>2, <2>3
<1>6. a # <<>>
  BY <1>3
<1> QED BY <1>1, <1>3, <1>5, <1>6 DEF Last

LEMMA DebounceHolds ==
  ASSUME Ctl, BriefInv, OrdersInv, EmptyInv, FreshInv, LongInv, op = "debounce"
  PROVE  InSourceOrder(Out("out")) /\ (Ended => Out("out") # <<>> /\ Last(Out("out")) = Last(In(1)))
<1>0. 1 \in SourcesOf(op) /\ LoopsOf(op) = {1} /\ "values" \in Kinds
  BY DEF SourcesOf, LoopsOf, Kinds
<1>1. ASSUME Ended PROVE Out("out") # <<>> /\ Last(Out("out")) = Last(In(1))
  <2>1. left[1]["values"] = <<>> /\ pc[1] = "done" /\ todo[1] = <<>> /\ ~ctxDone
    BY <1>0, <1>1, AtEnd DEF Ended
  <2>2. Pos(1) = Len(In(1)) /\ In(1) \in Seq(Item) /\ In(1) # <<>>
    BY <1>0, <2>1, PosIs DEF LongInv
  <2>3. Pos(1) > 0
    BY <2>2, EmptySeq
  <2>4. On(Out1, Itself, In(1)[Len(In(1))])
    BY <2>1, <2>2, <2>3 DEF FreshInv
  <2>5. Coming(1, Out1, Itself) = <<>> /\ Waits(Out1) = <<>>
    BY <2>1, GatherNone DEF Coming, Waits, WaitsIn, EmptyInv, Over
  <2>6. Has(Out("out"), In(1)[Len(In(1))])
    BY <2>4, <2>5, HasOne, ItemsInOrder DEF On
  <2>7. Rising(Out("out")) /\ From(Out("out"), input[1]["values"], Len(In(1)))
          /\ Out("out") \in Seq(Item)
    BY <2>2, ItemsInOrder DEF Sorted
  <2> QED BY <1>0, <2>2, <2>6, <2>7, LastIs
<1> QED BY <1>1, ItemsInOrder

LEMMA ThrottleHolds ==
  ASSUME Ctl, BriefInv, OrdersInv, FirstInv, LongInv, op = "throttle"
  PROVE  /\ InSourceOrder(Out("out")) /\ (Ended => Out("out") # <<>>)
         /\ (Out("out") # <<>> => Head(Out("out")) = Head(In(1)))
<1>0. 1 \in SourcesOf(op) /\ LoopsOf(op) = {1} /\ "values" \in Kinds /\ Waits(Out1) = <<>>
  BY DEF SourcesOf, LoopsOf, Kinds, Waits, WaitsIn
<1>1. Came(Out1, Itself) = Out("out")
  BY ItemsInOrder
<1>2. ASSUME Ended PROVE Out("out") # <<>>
  <2>1. left[1]["values"] = <<>> /\ todo[1] = <<>> /\ ~ctxDone
    BY <1>0, <1>2, AtEnd DEF Ended
  <2>2. Pos(1) = Len(In(1)) /\ In(1) \in Seq(Item) /\ In(1) # <<>>
    BY <1>0, <2>1, PosIs DEF LongInv
  <2>3. Pos(1) # 0
    BY <2>2, EmptySeq
  <2>4. On(Out1, Itself, In(1)[1])
    BY <2>1, <2>3 DEF FirstInv, Unsent
  <2>5. Coming(1, Out1, Itself) = <<>>
    BY <2>1, GatherNone DEF Coming
  <2>6. Has(Out("out"), In(1)[1])
    BY <1>0, <1>1, <2>4, <2>5, HasOne DEF On
  <2> QED BY <2>6, HasOne
<1>3. ASSUME Out("out") # <<>> PROVE Head(Out("out")) = Head(In(1))
  <2>1. On(Out1, Itself, In(1)[1])
    BY <1>1, <1>3 DEF FirstInv, Unsent
  <2>2. PICK a \in Seq(Item), b \in Seq(Item), w \in {Waits(Out1)} :
          a = Out("out") /\ b = Coming(1, Out1, Itself) /\ w = Waits(Out1)
    BY ItemsInOrder
  <2>3. Sorted(a, b, w, input[1]["values"], Pos(1)) /\ Pos(1) \in Nat /\ Pos(1) <= Len(In(1))
    BY <1>0, <2>2, ItemsInOrder, PosIs
  <2>4. ~Has(b, In(1)[1])
    BY <1>0, <1>3, <2>2, <2>3, FirstOfAll
  <2>5. Has(a, In(1)[1])
    BY <1>0, <1>1, <2>1, <2>2, <2>4, HasOne DEF On
  <2>6. PICK i \in 1..Len(a) : a[i] = In(1)[1]
    BY <2>5 DEF Has
  <2>7. In(1) \in Seq(Item) /\ In(1) # <<>> /\ In(1) = input[1]["values"] /\ Len(In(1)) \in Nat \ {0}
    BY <1>0, ItemsIn, EmptySeq DEF LongInv, In
  <2>8. a[i].n = 1
    <3>1. 1 \in 1..Len(In(1))
      BY <2>7
    <3> QED BY <1>0, <2>6, <2>7, <3>1 DEF Ctl, InputOK, Placed
  <2>9. ASSUME i # 1 PROVE FALSE
    <3>1. 1 \in 1..Len(a) /\ 1 < i
      BY <2>9
    <3>2. a[1].n < a[i].n /\ a[1].n \in 1..Pos(1)
      BY <2>3, <3>1 DEF Sorted, Rising, From
    <3> QED BY <2>8, <3>2
  <2>10. Head(a) = a[1] /\ Head(In(1)) = In(1)[1]
    BY <1>3, <2>2, <2>7
  <2> QED BY <2>2, <2>6, <2>9, <2>10
<1> QED BY <1>2, <1>3, ItemsInOrder

-----------------------------------------------------------------------------
LEMMA HoldsBackHolds ==
  ASSUME Ctl, SlideInv, LanesInv, EmptyInv, BriefInv, OrdersInv, FreshInv, FirstInv, LongInv
  PROVE  HoldsBack
<1>1. op = "buffer" =>
       /\ \A i \in DOMAIN Out("out") : Len(Out("out")[i]) \in 1..BufferN
       /\ InSourceOrder(FlattenSeq(Out("out")))
       /\ ~ctxDone => Delivers(FlattenSeq(Out("out")), In(1))
  BY BatchesFull, BatchesInOrder, BatchesDeliver
<1>2. op = "window" => Delivers(FlattenSeq(Out("out")), In(1))
  BY BatchesDeliver
<1>3. op = "debounce" =>
       InSourceOrder(Out("out")) /\ (Ended => Out("out") # <<>> /\ Last(Out("out")) = Last(In(1)))
  BY DebounceHolds
<1>4. op = "throttle" =>
       InSourceOrder(Out("out")) /\ (Ended => Out("out") # <<>>)
         /\ (Out("out") # <<>> => Head(Out("out")) = Head(In(1)))
  BY ThrottleHolds
<1>5. op = "slidingWindow" => Delivers(Out("out"), FlatMap(In(1), WindowAt))
  BY WindowsDeliver
<1>6. op = "flatMapSlice" => Delivers(Out("out"), FlatMap(In(1), Pieces))
  BY SliceDelivers
<1> QED BY <1>1, <1>2, <1>3, <1>4, <1>5, <1>6 DEF HoldsBack

LEMMA PrefixAt ==
  ASSUME NEW Y, NEW a \in Seq(Y), NEW b \in Seq(Y), IsPrefix(a, b)
  PROVE  Len(a) <= Len(b) /\ \A i \in 1..Len(a) : a[i] = b[i]
<1>1. Len(a) <= Len(b) /\ SubSeq(a, 1, Len(a)) = SubSeq(b, 1, Len(a))
  BY DEF IsPrefix
<1>2. \A i \in 1..Len(a) : SubSeq(a, 1, Len(a))[i] = a[i] /\ SubSeq(b, 1, Len(a))[i] = b[i]
  BY <1>1
<1> QED BY <1>1, <1>2

LEMMA KeepsErrorsHolds ==
  ASSUME Ctl, SlideInv, LanesInv, BriefInv, OrdersInv
  PROVE  KeepsErrors
<1>1. ASSUME NEW o \in OutputsOf(op) PROVE InSourceOrder(OfKind(got[Errors(o)], "errors"))
  <2>1. Errors(o) \in ChannelsOf(op) /\ WhatOf(op, Errors(o)) = Item
    BY ChannelIs DEF WhatOf, Errors
  <2>2. got[Errors(o)] \in Seq(Item)
    BY <2>1, ItemsOut
  <2>3. OfKind(got[Errors(o)], "errors") = Came(Errors(o), KindIs("errors"))
          /\ Came(Errors(o), KindIs("errors")) \in Seq(Item)
    BY <2>2, KindGather, GatherType, ItemFunctions DEF Came
  <2>4. CASE LoopsOf(op) = {1}
    <3>1. IsPath(Errors(o), "errors", KindIs("errors"))
      BY <2>4 DEF IsPath
    <3>2. Rising(Came(Errors(o), KindIs("errors")))
      BY <3>1 DEF OrdersInv, InOrder, Sorted
    <3> QED BY <2>3, <3>2, RisingIs
  <2>5. CASE LoopsOf(op) # {1}
    <3>1. op = "merge"
      BY <2>5 DEF LoopsOf
    <3>2. o \in ErrorOwners /\ 1 \in SourcesOf(op) /\ "errors" \in Kinds
      BY <3>1 DEF ErrorOwners, SourcesOf, Kinds
    <3>3. PICK a \in Seq(Item), b \in Seq(Item) : a = OfKind(got[Errors(o)], "errors") /\ b = ErrIn(1)
      BY <2>3, <3>2, ItemsIn
    <3>4. IsPrefix(a, b)
      BY <3>2, <3>3, OwnersDeliver DEF Delivers
    <3>5. \A i \in 1..Len(b) : b[i].n = i
      BY <3>2, <3>3 DEF Ctl, InputOK, Placed, ErrIn
    <3>6. \A i \in 1..Len(a) : a[i].n = i
      BY <3>4, <3>5, PrefixAt
    <3>7. Rising(a)
      BY <3>6 DEF Rising
    <3> QED BY <3>3, <3>7, RisingIs
  <2> QED BY <2>4, <2>5
<1>2. \A o \in ErrorOwners : Delivers(OfKind(got[Errors(o)], "errors"), ErrIn(1))
  BY OwnersDeliver
<1>3. op \in {"apply", "map", "fromCodec"} \cup Adapters =>
       Delivers(OfKind(got[Errors("out")], "failure"),
                FlatMap(In(1), LAMBDA v : When(Failing(v), FailureOf(v))))
  BY FailuresDeliver
<1>4. op = "mapErr" =>
       /\ Delivers(OfKind(Out("out"), "recovered"),
                   FlatMap(ErrIn(1), LAMBDA e : When(e.class = "a", RecoveredOf(e))))
       /\ Delivers(OfKind(got[Errors("out")], "replaced"),
                   FlatMap(ErrIn(1), LAMBDA e : When(e.class = "b", ReplacedBy(e))))
  BY MappedDeliver
<1> QED BY <1>1, <1>2, <1>3, <1>4 DEF KeepsErrors

-----------------------------------------------------------------------------
(* CombineLatest: the tuples that came out and the one that is being sent.   *)
Combining == {"combineLatest2", "combineLatest3", "combineLatest4"}
Flow == IF todo[1] # <<>> /\ Head(todo[1]).to = Out1 THEN Append(Out("out"), Head(todo[1]).what) ELSE Out("out")
OneSend == op \in Combining => Len(todo[1]) <= 1
JoinsNext(s) ==
  \E v \in Item :
    /\ v = In(s)[Pos(s) + 1] /\ v.n = Pos(s) + 1 /\ Pos(s) < Len(In(s)) /\ Pos(s)' = Pos(s) + 1
    /\ \A t \in SourcesOf(op) \ {s} : Pos(t)' = Pos(t)
    /\ mem' = Latest(mem, s, v) /\ ctxDone' = ctxDone
    /\ Flow' = IF AllHeld(Latest(mem, s, v)) THEN Append(Flow, HeldHeads(Latest(mem, s, v))) ELSE Flow
FlowStays == Flow' = Flow \/ (Flow' = Out("out") /\ ctxDone')

LEMMA CombineIs ==
  ASSUME Ctl, op \in Combining
  PROVE  /\ LoopsOf(op) = {1} /\ 1 \in LoopsOf(op) /\ 1 \in SourcesOf(op)
         /\ Out1 \in ChannelsOf(op) /\ Out1[1] = "values"
         /\ WhatOf(op, Out1) = Results(op)
         /\ Results(op) = {t \in Seq(Item) : DOMAIN t = SourcesOf(op)}
         /\ Out("out") \in Seq(Results(op)) /\ Flow \in Seq(Results(op))
         /\ got[Out1] = Out("out") /\ op \in Joining /\ todo[1] \in Seq(SendsOf(op))
         /\ pc \in [LoopsOf(op) -> {"select", "sending", "flushing", "done"}]
         /\ todo \in [LoopsOf(op) -> Seq(SendsOf(op))]
<1>1. /\ LoopsOf(op) = {1} /\ 1 \in LoopsOf(op) /\ 1 \in SourcesOf(op) /\ Out1 \in ChannelsOf(op)
      /\ Out1[1] = "values"
      /\ op \in Joining
  BY ChannelIs DEF Combining, LoopsOf, SourcesOf, OutputsOf, Out1, Values, Joining
<1>2. WhatOf(op, Out1) = Results(op) /\ got[Out1] = Out("out")
  BY <1>1 DEF WhatOf, Out, Out1
<1>3. Results(op) = {t \in Seq(Item) : DOMAIN t = SourcesOf(op)}
  BY DEF Combining, Results
<1>4. Out("out") \in Seq(Results(op)) /\ todo[1] \in Seq(SendsOf(op))
      /\ pc \in [LoopsOf(op) -> {"select", "sending", "flushing", "done"}]
      /\ todo \in [LoopsOf(op) -> Seq(SendsOf(op))]
  BY <1>1, <1>2 DEF Ctl, GotOK, PcOK
<1>5. ASSUME todo[1] # <<>>, Head(todo[1]).to = Out1
      PROVE  Append(Out("out"), Head(todo[1]).what) \in Seq(Results(op))
  <2>1. PICK x \in SendsOf(op) : x = Head(todo[1])
    BY <1>4, <1>5, TailOf
  <2>2. x.what \in Results(op)
    BY <1>2, <1>5, <2>1, SendIn
  <2> QED BY <1>4, <2>1, <2>2
<1>6. Flow \in Seq(Results(op))
  BY <1>4, <1>5 DEF Flow
<1> QED BY <1>1, <1>2, <1>3, <1>4, <1>6

LEMMA CombineReceives ==
  ASSUME Ctl, Ctl', op \in Combining, NEW s \in SourcesOf(op), Receive(1, s, "values")
  PROVE  JoinsNext(s) /\ Len(todo'[1]) <= 1
<1>1. PICK v \in Item :
           /\ v = In(s)[Pos(s) + 1] /\ v.n = Pos(s) + 1 /\ Pos(s) < Len(In(s)) /\ Fine(op, v)
           /\ v = Head(left[s]["values"]) /\ Pos(s)' = Pos(s) + 1 /\ mem' = OnValue(mem, s, v).mem
           /\ \A t \in SourcesOf(op) \ {s} : Pos(t)' = Pos(t)
  BY CombineIs, ReceivesNext
<1>2. PICK r, n, d : r = OnValue(mem, s, v) /\ n = Latest(mem, s, v) /\ d = HeldHeads(n)
  OBVIOUS
<1>3. /\ r.mem = n /\ (~AllHeld(n) => r.sends = <<>>)
      /\ AllHeld(n) => r.sends = <<Must(Out1, d)>> \/ r.sends = <<Wait(Out1, d)>>
  BY <1>2 DEF OnValue, Combining, CombineLatest2, CombineLatest3, CombineLatest4, Emit, Keep, Then,
       Out1
<1>4. pc[1] = "select" /\ Enter(1, r) /\ got' = got /\ ctxDone' = ctxDone /\ op' = op
  BY <1>1, <1>2 DEF Receive, inputs
<1>5. todo[1] = <<>> /\ todo'[1] = r.sends
  BY <1>4, CombineIs DEF Enter, Ctl, PcOK
<1>6. Flow = Out("out") /\ Out("out")' = Out("out")
  BY <1>4, <1>5 DEF Flow, Out
<1>7. /\ Must(Out1, d).to = Out1 /\ Must(Out1, d).what = d /\ Wait(Out1, d).to = Out1
      /\ Wait(Out1, d).what = d
  BY DEF Must, Wait
<1>8. ASSUME NEW x, r.sends = <<x>>, x.to = Out1, x.what = d
      PROVE  Flow' = Append(Flow, d) /\ Len(todo'[1]) <= 1
  <2>1. todo'[1] # <<>> /\ Head(todo'[1]) = x /\ Len(todo'[1]) = 1
    BY <1>5, <1>8
  <2>2. Out1' = Out1
    BY DEF Out1
  <2> QED BY <1>6, <1>8, <2>1, <2>2 DEF Flow
<1>9. AllHeld(n) => Flow' = Append(Flow, d) /\ Len(todo'[1]) <= 1
  BY <1>3, <1>7, <1>8
<1>10. ~AllHeld(n) => Flow' = Flow /\ Len(todo'[1]) <= 1
  <2>1. Len(<<>>) <= 1
    OBVIOUS
  <2> QED BY <1>3, <1>5, <1>6, <2>1 DEF Flow
<1>11. mem' = n
  BY <1>1, <1>2, <1>3
<1> QED BY <1>1, <1>2, <1>4, <1>9, <1>10, <1>11 DEF JoinsNext

LEMMA CombineElse ==
  ASSUME Ctl, Ctl', OneSend, op \in Combining, [Next]_vars,
         ~\E s \in SourcesOf(op) : Receive(1, s, "values")
  PROVE  FlowStays /\ Len(todo'[1]) <= 1 /\ (ctxDone => ctxDone')
<1>0. op' = op /\ Len(todo[1]) <= 1 /\ Out1' = Out1
  BY SteadyStep DEF Steady, OneSend, Out1
<1>1. ASSUME todo' = todo, got' = got PROVE FlowStays /\ Len(todo'[1]) <= 1
  BY <1>0, <1>1 DEF FlowStays, Flow, Out
<1>2. CASE CloseOutputs \/ Cancel \/ IntervalPasses \/ UNCHANGED vars
  <2>1. todo' = todo /\ got' = got /\ (ctxDone => ctxDone')
    BY <1>2 DEF CloseOutputs, Cancel, IntervalPasses, vars
  <2> QED BY <1>1, <2>1
<1>3. ASSUME NEW s \in SourcesOf(op), Receive(1, s, "errors")
      PROVE  FlowStays /\ Len(todo'[1]) <= 1 /\ ctxDone' = ctxDone
  <2>1. PICK r, e : r = OnError(mem, e) /\ Enter(1, r) /\ pc[1] = "select" /\ got' = got /\ ctxDone' = ctxDone
    BY <1>3 DEF Receive
  <2>2. PICK x : x = Must(Errors("out"), e)
    OBVIOUS
  <2>3. r.sends = <<x>> /\ x.to # Out1
    BY <2>1, <2>2 DEF OnError, Combining, Fail, Then, Must, Errors, Out1, Values
  <2>4. todo[1] = <<>> /\ todo'[1] = <<x>>
    BY <2>1, <2>3, CombineIs DEF Enter, Ctl, PcOK
  <2>5. Head(<<x>>) = x /\ Len(<<x>>) = 1 /\ <<x>> # <<>>
    OBVIOUS
  <2>6. Flow' = Flow
    BY <1>0, <2>1, <2>3, <2>4, <2>5 DEF Flow, Out
  <2> QED BY <2>1, <2>4, <2>5, <2>6 DEF FlowStays
<1>4. ASSUME pc[1] = "select", todo'[1] = <<>>, got' = got PROVE FlowStays /\ Len(todo'[1]) <= 1
  <2>1. todo[1] = <<>>
    BY <1>4, CombineIs DEF Ctl, PcOK
  <2>2. Len(<<>>) <= 1
    OBVIOUS
  <2> QED BY <1>0, <1>4, <2>1, <2>2 DEF FlowStays, Flow, Out
<1>5. ASSUME NEW s \in SourcesOf(op), NEW k \in Kinds, SourceClosed(1, s, k)
      PROVE  FlowStays /\ Len(todo'[1]) <= 1 /\ ctxDone' = ctxDone
  <2>1. todo'[1] = <<>> /\ pc[1] = "select" /\ got' = got
    BY <1>5, CombineIs DEF SourceClosed, Enter, Keep, Then, Combining
  <2> QED BY <1>4, <1>5, <2>1 DEF SourceClosed
<1>6. ~TimerFires(1)
  BY DEF TimerFires, Combining
<1>7. ASSUME LoopEnds(1) PROVE FlowStays /\ Len(todo'[1]) <= 1 /\ ctxDone' = ctxDone
  <2>1. todo'[1] = <<>> /\ pc[1] = "select" /\ got' = got
    BY <1>7, CombineIs DEF LoopEnds, Keep, Then, Combining
  <2> QED BY <1>4, <1>7, <2>1 DEF LoopEnds
<1>8. ASSUME Cancelled(1) PROVE FlowStays /\ Len(todo'[1]) <= 1 /\ ctxDone' = ctxDone
  BY <1>1, <1>8 DEF Cancelled
<1>9. ASSUME Sending(1), todo'[1] = <<>>, got' = got, ctxDone' PROVE FlowStays /\ Len(todo'[1]) <= 1
  <2>1. Len(<<>>) <= 1
    OBVIOUS
  <2> QED BY <1>0, <1>9, <2>1 DEF FlowStays, Flow, Out
<1>10. ASSUME Sending(1), Advance(1)
       PROVE  /\ todo'[1] = <<>> /\ Head(todo[1]) \in SendsOf(op) /\ todo[1] # <<>>
  <2>1. todo[1] # <<>> /\ todo[1] \in Seq(SendsOf(op)) /\ todo'[1] = Tail(todo[1])
    BY <1>10, CombineIs DEF Sending, Advance, Ctl, PcOK
  <2>2. Len(Tail(todo[1])) = Len(todo[1]) - 1 /\ Len(todo[1]) \in Nat \ {0}
          /\ Tail(todo[1]) \in Seq(SendsOf(op))
        /\ Head(todo[1]) \in SendsOf(op)
    BY <2>1, TailOf, EmptySeq
  <2>3. Len(Tail(todo[1])) = 0
    <3>1. PICK n, d : n = Len(todo[1]) /\ d = Len(Tail(todo[1]))
      OBVIOUS
    <3>2. n \in Nat \ {0} /\ d = n - 1 /\ n <= 1
      BY <1>0, <2>2, <3>1
    <3>3. d = 0
      BY ONLY <3>2
    <3> QED BY <3>1, <3>3, Zenon
  <2> QED BY <2>1, <2>2, <2>3, EmptySeq
<1>11. ASSUME Send(1) PROVE FlowStays /\ Len(todo'[1]) <= 1 /\ ctxDone' = ctxDone
  <2>1. Sending(1) /\ Advance(1) /\ ctxDone' = ctxDone
        /\ got' = [got EXCEPT ![Head(todo[1]).to] = Append(@, Head(todo[1]).what)]
    BY <1>11 DEF Send
  <2>2. todo'[1] = <<>> /\ todo[1] # <<>> /\ Len(<<>>) <= 1
    BY <1>10, <2>1
  <2>3. PICK x \in SendsOf(op) : x = Head(todo[1])
    BY <1>10, <2>1
  <2>4. got' = [got EXCEPT ![x.to] = Append(got[x.to], x.what)] /\ DOMAIN got = ChannelsOf(op)
    BY <2>1, <2>3 DEF Ctl, GotOK
  <2>5. Out("out")' = got'[Out1] /\ got[Out1] = Out("out") /\ Out1 \in ChannelsOf(op)
    BY CombineIs DEF Out, Out1
  <2>6. CASE x.to = Out1
    <3>1. got'[Out1] = Append(Out("out"), x.what)
      BY <2>4, <2>5, <2>6
    <3>2. Flow' = Append(Out("out"), x.what) /\ Flow = Append(Out("out"), x.what)
      BY <2>2, <2>3, <2>5, <2>6, <3>1 DEF Flow
    <3> QED BY <2>1, <2>2, <3>2 DEF FlowStays
  <2>7. CASE x.to # Out1
    <3>1. got'[Out1] = Out("out")
      BY <2>4, <2>5, <2>7
    <3>2. Flow' = Out("out") /\ Flow = Out("out")
      BY <2>2, <2>3, <2>5, <2>7, <3>1 DEF Flow
    <3> QED BY <2>1, <2>2, <3>2 DEF FlowStays
  <2> QED BY <2>6, <2>7
<1>12. ASSUME Drop(1) PROVE FlowStays /\ Len(todo'[1]) <= 1 /\ ctxDone' = ctxDone
  <2>1. Sending(1) /\ Advance(1) /\ ctxDone' = ctxDone /\ got' = got /\ ~Head(todo[1]).wait
    BY <1>12 DEF Drop
  <2>2. todo'[1] = <<>> /\ todo[1] # <<>> /\ Len(<<>>) <= 1
    BY <1>10, <2>1
  <2>3. PICK x \in SendsOf(op) : x = Head(todo[1])
    BY <1>10, <2>1
  <2>4. x.to[1] = "errors"
    BY <2>1, <2>3 DEF SendsOf
  <2>5. x.to # Out1
    BY <2>4 DEF Out1, Values
  <2> QED BY <2>1, <2>2, <2>3, <2>5 DEF FlowStays, Flow, Out
<1>13. ASSUME GiveUp(1) PROVE FlowStays /\ Len(todo'[1]) <= 1 /\ ctxDone' = ctxDone
  <2>1. Sending(1) /\ ctxDone /\ ctxDone' = ctxDone /\ got' = got
    BY <1>13 DEF GiveUp
  <2>2. todo'[1] = <<>>
    <3>1. CASE Advance(1)
      BY <1>10, <2>1, <3>1
    <3>2. CASE Quits(1)
      BY <3>2, CombineIs DEF Quits
    <3> QED BY <1>13, <3>1, <3>2, GiveUpIs
  <2> QED BY <1>9, <2>1, <2>2
<1>14. Loop(1) => FlowStays /\ Len(todo'[1]) <= 1 /\ ctxDone' = ctxDone
  BY <1>3, <1>5, <1>6, <1>7, <1>8, <1>11, <1>12, <1>13 DEF Loop, Kinds
<1> QED BY <1>2, <1>14, CombineIs DEF Next

-----------------------------------------------------------------------------
(* Each tuple has the newest value of every source; no source goes back.     *)
HeldNow == \A s \in SourcesOf(op) : mem.held[s] = IF Pos(s) = 0 THEN <<>> ELSE <<In(s)[Pos(s)]>>
Bounded(f) == \A i \in 1..Len(f), s \in SourcesOf(op) : f[i][s].n <= Pos(s)
Climbs(f) == \A i \in 1..(Len(f) - 1), s \in SourcesOf(op) : f[i][s].n <= f[i + 1][s].n
Advances(f) == \A i \in 1..(Len(f) - 1) : Newer(f[i], f[i + 1])
Newest(f) ==
  /\ f = <<>> => ~AllHeld(mem)
  /\ f # <<>> => AllHeld(mem) /\ f[Len(f)] = HeldHeads(mem)
CombineInv ==
  op \in Combining =>
    /\ HeldNow /\ Bounded(Flow) /\ Climbs(Flow)
    /\ ~ctxDone => Newest(Flow) /\ Advances(Flow)

LEMMA CombineInit == ASSUME Init, Ctl PROVE OneSend /\ CombineInv
<1> SUFFICES ASSUME op \in Combining
             PROVE  Len(todo[1]) <= 1 /\ HeldNow /\ Bounded(Flow) /\ Climbs(Flow) /\ Newest(Flow)
                      /\ Advances(Flow)
  BY DEF OneSend, CombineInv
<1>1. todo[1] = <<>> /\ Out("out") = <<>> /\ left = input /\ mem.held = [s \in SourcesOf(op) |-> <<>>] /\ 1 \in SourcesOf(op)
  BY CombineIs DEF Init, Out, Out1
<1>2. Len(<<>>) = 0 /\ Flow = <<>>
  BY <1>1 DEF Flow
<1>3. HeldNow
  <2>1. \A s \in SourcesOf(op) : Pos(s) = 0
    <3>1. \A s \in SourcesOf(op) : Len(input[s]["values"]) \in Nat
      BY ItemsIn DEF In
    <3> QED BY <1>1, <3>1 DEF Pos
  <2> QED BY <1>1, <2>1 DEF HeldNow
<1>4. ~AllHeld(mem)
  BY <1>1 DEF AllHeld
<1> QED BY <1>1, <1>2, <1>3, <1>4 DEF Bounded, Climbs, Newest, Advances

\* The tuple at each position of its sources.
LEMMA HeadsAre ==
  ASSUME Ctl, op \in Combining, HeldNow, AllHeld(mem)
  PROVE  /\ HeldHeads(mem) \in [SourcesOf(op) -> Item]
         /\ \A s \in SourcesOf(op) : HeldHeads(mem)[s] = In(s)[Pos(s)] /\ HeldHeads(mem)[s].n = Pos(s) /\ Pos(s) # 0
<1>1. mem \in MemOf(op) /\ op \in Joining
  BY CombineIs DEF Ctl
<1>2. HeldHeads(mem) \in [SourcesOf(op) -> Item] /\ DOMAIN mem.held = SourcesOf(op)
  BY <1>1, HeldIs
<1>3. ASSUME NEW s \in SourcesOf(op)
      PROVE HeldHeads(mem)[s] = In(s)[Pos(s)] /\ HeldHeads(mem)[s].n = Pos(s) /\ Pos(s) # 0
  <2>1. mem.held[s] # <<>> /\ HeldHeads(mem)[s] = Head(mem.held[s])
    BY <1>2 DEF AllHeld, HeldHeads
  <2>2. Pos(s) # 0 /\ mem.held[s] = <<In(s)[Pos(s)]>>
    BY <2>1 DEF HeldNow
  <2>3. HeldHeads(mem)[s] = In(s)[Pos(s)]
    BY <2>1, <2>2
  <2>4. Pos(s) \in 1..Len(In(s)) /\ "values" \in Kinds /\ In(s) = input[s]["values"]
    BY <2>2, PosIs DEF Kinds, In
  <2>5. In(s)[Pos(s)].n = Pos(s)
    BY <2>4 DEF Ctl, InputOK, Placed
  <2> QED BY <2>2, <2>3, <2>5
<1> QED BY <1>2, <1>3

LEMMA JoinTuple ==
  ASSUME Ctl, op \in Combining, HeldNow, NEW s \in SourcesOf(op), NEW v \in Item, NEW n, NEW p,
         v = In(s)[Pos(s) + 1], v.n = Pos(s) + 1, Pos(s) < Len(In(s)), n = Latest(mem, s, v),
         p = [t \in SourcesOf(op) |-> IF t = s THEN Pos(s) + 1 ELSE Pos(t)]
  PROVE  /\ \A t \in SourcesOf(op) : n.held[t] = IF p[t] = 0 THEN <<>> ELSE <<In(t)[p[t]]>>
         /\ AllHeld(n) => \A t \in SourcesOf(op) : HeldHeads(n)[t].n = p[t]
         /\ AllHeld(mem) => AllHeld(n) /\ Newer(HeldHeads(mem), HeldHeads(n))
<1>1. mem \in MemOf(op) /\ op \in Joining /\ mem.held \in [SourcesOf(op) -> Seq(Item)]
  BY CombineIs, HeldIs DEF Ctl
<1>2. n.held = [mem.held EXCEPT ![s] = <<v>>] /\ DOMAIN n.held = SourcesOf(op)
  BY <1>1 DEF Latest, MemOf
<1>3. n.held[s] = <<v>> /\ \A t \in SourcesOf(op) : t # s => n.held[t] = mem.held[t]
  BY <1>1, <1>2
<1>4. Pos(s) \in Nat /\ p[s] = Pos(s) + 1 /\ p[s] # 0
        /\ \A t \in SourcesOf(op) : t # s => p[t] = Pos(t)
  BY PosIs
<1>5. \A t \in SourcesOf(op) : n.held[t] = IF p[t] = 0 THEN <<>> ELSE <<In(t)[p[t]]>>
  BY <1>3, <1>4 DEF HeldNow
<1>6. Head(<<v>>) = v
  OBVIOUS
<1>7. \A t \in SourcesOf(op) : HeldHeads(n)[t] = Head(n.held[t])
  BY <1>2 DEF HeldHeads
<1>8. ASSUME AllHeld(n), NEW t \in SourcesOf(op) PROVE HeldHeads(n)[t].n = p[t]
  <2>1. CASE t = s
    BY <1>3, <1>4, <1>6, <1>7, <2>1
  <2>2. CASE t # s
    <3>1. n.held[t] # <<>>
      BY <1>2, <1>8 DEF AllHeld
    <3>2. Pos(t) # 0 /\ n.held[t] = <<In(t)[Pos(t)]>>
      BY <1>4, <1>5, <2>2, <3>1
    <3>3. HeldHeads(n)[t] = In(t)[Pos(t)]
      BY <1>7, <3>2
    <3>4. Pos(t) \in 1..Len(In(t)) /\ "values" \in Kinds /\ In(t) = input[t]["values"]
      BY <3>2, PosIs DEF Kinds, In
    <3>5. In(t)[Pos(t)].n = Pos(t)
      BY <3>4 DEF Ctl, InputOK, Placed
    <3> QED BY <1>4, <2>2, <3>3, <3>5
  <2> QED BY <2>1, <2>2
<1>9. ASSUME AllHeld(mem) PROVE AllHeld(n) /\ Newer(HeldHeads(mem), HeldHeads(n))
  <2>1. DOMAIN mem.held = SourcesOf(op)
    BY <1>1
  <2>2. AllHeld(n)
    BY <1>2, <1>3, <1>9, <2>1 DEF AllHeld
  <2>3. PICK a, b : a = HeldHeads(mem) /\ b = HeldHeads(n)
    OBVIOUS
  <2>4. a \in [SourcesOf(op) -> Item] /\ a[s].n = Pos(s)
    BY <1>9, <2>3, HeadsAre
  <2>5. b = [t \in SourcesOf(op) |-> Head(n.held[t])]
          /\ a = [t \in SourcesOf(op) |-> Head(mem.held[t])]
    BY <1>2, <2>1, <2>3 DEF HeldHeads
  <2>6. b = [a EXCEPT ![s] = v]
    BY <1>3, <1>6, <2>5
  <2>7. b = [a EXCEPT ![s] = In(s)[a[s].n + 1]]
    BY <2>4, <2>6
  <2>8. s \in DOMAIN a /\ a[s].n < Len(In(s))
    BY <2>4
  <2>9. Newer(a, b)
    BY <2>7, <2>8 DEF Newer
  <2> QED BY <2>2, <2>3, <2>9
<1> QED BY <1>5, <1>8, <1>9

-----------------------------------------------------------------------------
LEMMA TupleNumbers ==
  ASSUME Ctl, op \in Combining
  PROVE  \A i \in 1..Len(Flow), s \in SourcesOf(op) : Flow[i][s].n \in Nat
<1>1. PICK f, R : f = Flow /\ R = Results(op)
  OBVIOUS
<1>2. f \in Seq(R) /\ \A t \in R : t \in Seq(Item) /\ DOMAIN t = SourcesOf(op)
  BY <1>1, CombineIs
<1>3. ASSUME NEW i \in 1..Len(f), NEW s \in SourcesOf(op) PROVE f[i][s].n \in Nat
  <2>1. PICK t \in R : t = f[i]
    BY <1>2
  <2>2. t \in Seq(Item) /\ s \in DOMAIN t
    BY <1>2
  <2>3. t[s] \in Item
    BY <2>2
  <2> QED BY <2>1, <2>3, NumberOf
<1> QED BY <1>1, <1>3

LEMMA JoinStep ==
  ASSUME Ctl, CombineInv, op \in Combining, op' = op, input' = input, NEW s \in SourcesOf(op),
         JoinsNext(s)
  PROVE  CombineInv'
<1>1. PICK v \in Item :
    /\ v = In(s)[Pos(s) + 1] /\ v.n = Pos(s) + 1 /\ Pos(s) < Len(In(s)) /\ Pos(s)' = Pos(s) + 1
    /\ \A t \in SourcesOf(op) \ {s} : Pos(t)' = Pos(t)
    /\ mem' = Latest(mem, s, v) /\ ctxDone' = ctxDone
    /\ Flow' = IF AllHeld(Latest(mem, s, v)) THEN Append(Flow, HeldHeads(Latest(mem, s, v))) ELSE Flow
  BY DEF JoinsNext
<1>2. PICK n, d, p : /\ n = Latest(mem, s, v) /\ d = HeldHeads(n)
                     /\ p = [t \in SourcesOf(op) |-> IF t = s THEN Pos(s) + 1 ELSE Pos(t)]
  OBVIOUS
<1>3. HeldNow /\ Bounded(Flow) /\ Climbs(Flow) /\ (~ctxDone => Newest(Flow) /\ Advances(Flow))
  BY DEF CombineInv
<1>4. /\ \A t \in SourcesOf(op) : n.held[t] = IF p[t] = 0 THEN <<>> ELSE <<In(t)[p[t]]>>
      /\ AllHeld(n) => \A t \in SourcesOf(op) : d[t].n = p[t]
      /\ AllHeld(mem) => AllHeld(n) /\ Newer(HeldHeads(mem), d)
  BY <1>1, <1>2, <1>3, JoinTuple
<1>5. mem' = n
        /\ (\A t \in SourcesOf(op) : Pos(t)' = p[t] /\ Pos(t) \in Nat /\ p[t] \in Nat /\ Pos(t) <= p[t])
      /\ Flow' = IF AllHeld(n) THEN Append(Flow, d) ELSE Flow
  BY <1>1, <1>2, PosIs
<1>6. HeldNow'
  <2>1. \A t : In(t)' = In(t)
    BY DEF In
  <2> QED BY <1>4, <1>5, <2>1 DEF HeldNow
<1>7. \A t, u : Newer(t, u)' <=> Newer(t, u)
  BY DEF Newer, In
<1>8. PICK f, R : f = Flow /\ R = Results(op)
  OBVIOUS
<1>9. f \in Seq(R) /\ \A i \in 1..Len(f), t \in SourcesOf(op) : f[i][t].n \in Nat
        /\ f[i][t].n <= p[t]
  <2>1. f \in Seq(R)
    BY <1>8, CombineIs
  <2>2. ASSUME NEW i \in 1..Len(f), NEW t \in SourcesOf(op)
        PROVE  f[i][t].n \in Nat /\ f[i][t].n <= p[t]
    <3>1. f[i][t].n \in Nat
      BY <1>8, TupleNumbers
    <3>2. f[i][t].n <= Pos(t)
      BY <1>3, <1>8 DEF Bounded
    <3>3. Pos(t) \in Nat /\ p[t] \in Nat /\ Pos(t) <= p[t]
      BY <1>5
    <3> QED BY <3>1, <3>2, <3>3
  <2> QED BY <2>1, <2>2
<1>10. CASE ~AllHeld(n)
  <2>1. Flow' = f /\ ~AllHeld(mem)
    BY <1>4, <1>5, <1>8, <1>10
  <2>2. Bounded(f)' /\ Climbs(f)'
    BY <1>3, <1>5, <1>8, <1>9 DEF Bounded, Climbs
  <2>3. ~ctxDone' => Newest(f)' /\ Advances(f)'
    BY <1>1, <1>3, <1>5, <1>7, <1>8, <1>10, <2>1 DEF Newest, Advances
  <2>4. Bounded(Flow)' /\ Climbs(Flow)' /\ (~ctxDone' => Newest(Flow)' /\ Advances(Flow)')
    BY <2>1, <2>2, <2>3 DEF Bounded, Climbs, Newest, Advances
  <2> QED BY <1>6, <2>4 DEF CombineInv
<1>11. CASE AllHeld(n)
  <2>1. PICK g : g = Append(f, d)
    OBVIOUS
  <2>2. Flow' = g
    BY <1>5, <1>8, <1>11, <2>1
  <2>3. /\ Len(f) \in Nat /\ Len(g) = Len(f) + 1 /\ g # <<>> /\ g[Len(g)] = d /\ g[Len(f) + 1] = d
        /\ \A i \in 1..Len(f) : g[i] = f[i]
    BY <1>9, <2>1
  <2>4. \A t \in SourcesOf(op) : d[t].n = p[t] /\ p[t] \in Nat
    BY <1>4, <1>5, <1>11
  <2>5. ASSUME NEW i \in 1..Len(g), NEW t \in SourcesOf(op) PROVE g[i][t].n <= p[t]
    <3>1. CASE i \in 1..Len(f)
      BY <1>9, <2>3, <3>1
    <3>2. CASE i = Len(f) + 1
      BY <2>3, <2>4, <3>2
    <3> QED BY <2>3, <3>1, <3>2
  <2>6. ASSUME NEW i \in 1..(Len(g) - 1), NEW t \in SourcesOf(op) PROVE g[i][t].n <= g[i + 1][t].n
    <3>1. i \in 1..Len(f)
      BY <2>3
    <3>2. CASE i = Len(f)
      <4>1. f[i][t].n <= p[t]
        BY <1>9, <3>1
      <4> QED BY <2>3, <2>4, <3>1, <3>2, <4>1
    <3>3. CASE i # Len(f)
      <4>1. i \in 1..(Len(f) - 1) /\ i + 1 \in 1..Len(f)
        BY <2>3, <3>1, <3>3
      <4>2. f[i][t].n <= f[i + 1][t].n
        BY <1>3, <1>8, <4>1 DEF Climbs
      <4> QED BY <2>3, <3>1, <4>1, <4>2
    <3> QED BY <3>2, <3>3
  <2>7. ASSUME ~ctxDone, NEW i \in 1..(Len(g) - 1) PROVE Newer(g[i], g[i + 1])
    <3>1. i \in 1..Len(f)
      BY <2>3
    <3>2. CASE i = Len(f)
      <4>1. AllHeld(mem) /\ f[i] = HeldHeads(mem)
        BY <1>3, <1>8, <2>7, <3>1, <3>2 DEF Newest
      <4> QED BY <1>4, <2>3, <3>1, <3>2, <4>1
    <3>3. CASE i # Len(f)
      <4>1. i \in 1..(Len(f) - 1) /\ i + 1 \in 1..Len(f)
        BY <2>3, <3>1, <3>3
      <4>2. Newer(f[i], f[i + 1])
        BY <1>3, <1>8, <2>7, <4>1 DEF Advances
      <4> QED BY <2>3, <3>1, <4>1, <4>2
    <3> QED BY <3>2, <3>3
  <2>8. Bounded(g)' /\ Climbs(g)'
    BY <1>5, <2>5, <2>6 DEF Bounded, Climbs
  <2>9. ~ctxDone' => Newest(g)' /\ Advances(g)'
    BY <1>1, <1>2, <1>5, <1>7, <1>11, <2>3, <2>7 DEF Newest, Advances
  <2>10. Bounded(Flow)' /\ Climbs(Flow)' /\ (~ctxDone' => Newest(Flow)' /\ Advances(Flow)')
    BY <2>2, <2>8, <2>9 DEF Bounded, Climbs, Newest, Advances
  <2> QED BY <1>6, <2>10 DEF CombineInv
<1> QED BY <1>10, <1>11

LEMMA LoseStep ==
  ASSUME Ctl, CombineInv, op \in Combining, op' = op, input' = input, FlowStays,
         ctxDone => ctxDone',
         mem'.held = mem.held, \A s \in SourcesOf(op) : Pos(s)' = Pos(s)
  PROVE  CombineInv'
<1>1. HeldNow /\ Bounded(Flow) /\ Climbs(Flow) /\ (~ctxDone => Newest(Flow) /\ Advances(Flow))
  BY DEF CombineInv
<1>2. HeldNow'
  BY <1>1 DEF HeldNow, In
<1>3. \A t, u : Newer(t, u)' <=> Newer(t, u)
  BY DEF Newer, In
<1>4. PICK f, R : f = Flow /\ R = Results(op)
  OBVIOUS
<1>5. CASE Flow' = f
  <2>1. Bounded(f)' /\ Climbs(f)'
    BY <1>1, <1>4 DEF Bounded, Climbs
  <2>2. (AllHeld(mem)' <=> AllHeld(mem)) /\ HeldHeads(mem)' = HeldHeads(mem)
    BY DEF AllHeld, HeldHeads
  <2>3. ~ctxDone' => Newest(f)' /\ Advances(f)'
    BY <1>1, <1>3, <1>4, <2>2 DEF Newest, Advances
  <2>4. Bounded(Flow)' /\ Climbs(Flow)' /\ (~ctxDone' => Newest(Flow)' /\ Advances(Flow)')
    BY <1>5, <2>1, <2>3 DEF Bounded, Climbs, Newest, Advances
  <2> QED BY <1>2, <2>4 DEF CombineInv
<1>6. CASE Flow' = Out("out") /\ ctxDone'
  <2>1. PICK g : g = Out("out")
    OBVIOUS
  <2>2. g \in Seq(R) /\ f \in Seq(R)
    BY <1>4, <2>1, CombineIs
  <2>3. Len(g) \in Nat /\ Len(f) \in Nat /\ Len(g) <= Len(f)
          /\ \A i \in 1..Len(g) : i \in 1..Len(f) /\ g[i] = f[i]
    <3>1. PICK x : f = g \/ f = Append(g, x)
      BY <1>4, <2>1 DEF Flow
    <3>2. CASE f = g
      BY <2>2, <3>2
    <3>3. CASE f = Append(g, x)
      BY <2>2, <3>3
    <3> QED BY <3>1, <3>2, <3>3
  <2>4. ASSUME NEW i \in 1..Len(g), NEW s \in SourcesOf(op) PROVE g[i][s].n <= Pos(s)
    BY <1>1, <1>4, <2>3 DEF Bounded
  <2>5. ASSUME NEW i \in 1..(Len(g) - 1), NEW s \in SourcesOf(op) PROVE g[i][s].n <= g[i + 1][s].n
    <3>1. i \in 1..(Len(f) - 1) /\ i \in 1..Len(g) /\ i + 1 \in 1..Len(g)
      BY <2>3
    <3>2. f[i][s].n <= f[i + 1][s].n
      BY <1>1, <1>4, <3>1 DEF Climbs
    <3> QED BY <2>3, <3>1, <3>2
  <2>6. Flow' = g
    BY <1>6, <2>1
  <2>7. Bounded(Flow)' /\ Climbs(Flow)'
    BY <2>4, <2>5, <2>6 DEF Bounded, Climbs
  <2> QED BY <1>2, <1>6, <2>7 DEF CombineInv
<1> QED BY <1>4, <1>5, <1>6 DEF FlowStays

LEMMA CombineStep ==
  ASSUME Ctl, Ctl', OneSend, CombineInv, [Next]_vars
  PROVE  OneSend' /\ CombineInv'
<1>0. op' = op /\ input' = input
  BY SteadyStep DEF Steady
<1>1. CASE op \notin Combining
  BY <1>0, <1>1 DEF OneSend, CombineInv
<1>2. ASSUME op \in Combining, NEW s \in SourcesOf(op), Receive(1, s, "values")
      PROVE  OneSend' /\ CombineInv'
  BY <1>0, <1>2, CombineReceives, JoinStep DEF OneSend
<1>3. ASSUME op \in Combining, ~\E s \in SourcesOf(op) : Receive(1, s, "values")
      PROVE  OneSend' /\ CombineInv'
  <2>1. SameValues /\ ByTimer
    BY <1>3, CombineIs, MemStep
  <2>2. mem'.held = mem.held
    BY <1>3, <2>1 DEF ByTimer, Combining, Ctl, MemOf
  <2>3. \A s \in SourcesOf(op) : Pos(s)' = Pos(s)
    BY <1>0, <2>1 DEF SameValues, Pos
  <2>4. FlowStays /\ Len(todo'[1]) <= 1 /\ (ctxDone => ctxDone')
    BY <1>3, CombineElse
  <2> QED BY <1>0, <1>3, <2>2, <2>3, <2>4, LoseStep DEF OneSend
<1> QED BY <1>1, <1>2, <1>3

-----------------------------------------------------------------------------
LEMMA CombineJoins ==
  ASSUME Ctl, CombineInv, op \in Combining
  PROVE  /\ ~ctxDone => \A i \in 1..Len(Out("out")) - 1 : Newer(Out("out")[i], Out("out")[i + 1])
         /\ \A i \in 1..Len(Out("out")) - 1, s \in SourcesOf(op) :
              Out("out")[i][s].n <= Out("out")[i + 1][s].n
         /\ Ended /\ (\A s \in SourcesOf(op) : In(s) # <<>>) =>
              Out("out") # <<>> /\ Last(Out("out")) = [s \in SourcesOf(op) |-> Last(In(s))]
<1>1. HeldNow /\ Climbs(Flow) /\ (~ctxDone => Newest(Flow) /\ Advances(Flow))
  BY DEF CombineInv
<1>2. PICK f, g, R : f = Flow /\ g = Out("out") /\ R = Results(op)
  OBVIOUS
<1>3. f \in Seq(R) /\ g \in Seq(R)
  BY <1>2, CombineIs
<1>4. Len(g) \in Nat /\ Len(f) \in Nat /\ Len(g) <= Len(f) /\ \A i \in 1..Len(g) : i \in 1..Len(f)
        /\ g[i] = f[i]
  <2>1. PICK x : f = g \/ f = Append(g, x)
    BY <1>2 DEF Flow
  <2>2. CASE f = g
    BY <1>3, <2>2
  <2>3. CASE f = Append(g, x)
    BY <1>3, <2>3
  <2> QED BY <2>1, <2>2, <2>3
<1>5. ASSUME NEW i \in 1..Len(g) - 1
      PROVE  /\ \A s \in SourcesOf(op) : g[i][s].n <= g[i + 1][s].n
             /\ ~ctxDone => Newer(g[i], g[i + 1])
  <2>1. i \in 1..(Len(f) - 1) /\ i \in 1..Len(g) /\ i + 1 \in 1..Len(g)
    BY <1>4
  <2>2. \A s \in SourcesOf(op) : f[i][s].n <= f[i + 1][s].n
    BY <1>1, <1>2, <2>1 DEF Climbs
  <2>3. ~ctxDone => Newer(f[i], f[i + 1])
    BY <1>1, <1>2, <2>1 DEF Advances
  <2> QED BY <1>4, <2>1, <2>2, <2>3
<1>6. ASSUME Ended, \A s \in SourcesOf(op) : In(s) # <<>>
      PROVE  g # <<>> /\ Last(g) = [s \in SourcesOf(op) |-> Last(In(s))]
  <2>1. \A s \in SourcesOf(op) : left[s]["values"] = <<>>
    BY <1>6, AtEnd DEF Kinds
  <2>2. todo[1] = <<>> /\ ~ctxDone
    BY <1>6, AtEnd, CombineIs DEF Kinds, Ended
  <2>3. g = f /\ Newest(f)
    BY <1>1, <1>2, <2>2 DEF Flow
  <2>4. \A s \in SourcesOf(op) : Pos(s) = Len(In(s)) /\ Pos(s) # 0 /\ Last(In(s)) = In(s)[Pos(s)]
    BY <1>6, <2>1, PosIs, EmptySeq DEF Last
  <2>5. ASSUME NEW s \in SourcesOf(op) PROVE mem.held[s] # <<>>
    <3>1. PICK x : x = In(s)[Pos(s)]
      OBVIOUS
    <3>2. mem.held[s] = <<x>>
      BY <1>1, <2>4, <3>1 DEF HeldNow
    <3> QED BY <3>2
  <2>6. DOMAIN mem.held = SourcesOf(op)
    BY CombineIs, HeldIs DEF Ctl
  <2>7. AllHeld(mem)
    BY <2>5, <2>6 DEF AllHeld
  <2>8. g # <<>> /\ g[Len(g)] = HeldHeads(mem)
    BY <2>3, <2>7 DEF Newest
  <2>9. PICK d : d = HeldHeads(mem)
    OBVIOUS
  <2>10. d \in [SourcesOf(op) -> Item] /\ \A s \in SourcesOf(op) : d[s] = Last(In(s))
    BY <1>1, <2>4, <2>7, <2>9, HeadsAre
  <2>11. d = [s \in SourcesOf(op) |-> Last(In(s))]
    BY <2>10
  <2> QED BY <2>8, <2>9, <2>11 DEF Last
<1> QED BY <1>2, <1>5, <1>6

LEMMA JoinsHolds ==
  ASSUME Ctl, SlideInv, LanesInv, EmptyInv, CombineInv
  PROVE  Joins
<1>1. op = "zip" =>
        Delivers(Out("out"), [i \in 1..Min({Len(In(1)), Len(In(2))}) |-> <<In(1)[i], In(2)[i]>>])
  BY ZipDelivers
<1>2. op \in {"combineLatest2", "combineLatest3", "combineLatest4"} =>
       /\ ~ctxDone => \A i \in 1..Len(Out("out")) - 1 : Newer(Out("out")[i], Out("out")[i + 1])
       /\ \A i \in 1..Len(Out("out")) - 1, s \in SourcesOf(op) :
            Out("out")[i][s].n <= Out("out")[i + 1][s].n
       /\ Ended /\ (\A s \in SourcesOf(op) : In(s) # <<>>) =>
            Out("out") # <<>> /\ Last(Out("out")) = [s \in SourcesOf(op) |-> Last(In(s))]
  BY CombineJoins DEF Combining
<1> QED BY <1>1, <1>2 DEF Joins

LEMMA QuietWhenClosed == ASSUME Ctl PROVE NoSendOnClosed
<1>1. \A l \in LoopsOf(op) : closed => pc[l] = "done"
  BY DEF Ctl, PcOK
<1> QED BY <1>1 DEF NoSendOnClosed, Ctl, PcOK

\* All of it.
StreamInv ==
  /\ Ctl /\ SlideInv /\ LanesInv /\ EmptyInv
  /\ BriefInv /\ OrdersInv /\ FreshInv /\ FirstInv /\ LongInv
  /\ OneSend /\ CombineInv

LEMMA StreamInvInit == Init => StreamInv
<1> SUFFICES ASSUME Init PROVE StreamInv
  OBVIOUS
<1>1. Ctl
  BY CtlInit
<1>2. SlideInv /\ EmptyInv /\ BriefInv /\ LongInv
  BY <1>1, SlideInit, EmptyInit, BriefInit, LongInit
<1>3. LanesInv /\ OrdersInv /\ FreshInv /\ FirstInv /\ OneSend /\ CombineInv
  BY <1>1, <1>2, LanesInit, OrdersInit, FreshInit, CombineInit
<1> QED BY <1>1, <1>2, <1>3 DEF StreamInv

LEMMA StreamInvStep == ASSUME StreamInv, [Next]_vars PROVE StreamInv'
<1>1. /\ Ctl /\ SlideInv /\ LanesInv /\ EmptyInv /\ BriefInv /\ OrdersInv /\ FreshInv /\ FirstInv
      /\ LongInv
      /\ OneSend /\ CombineInv
  BY DEF StreamInv
<1>2. Ctl'
  BY <1>1, CtlStep
<1>3. SlideInv' /\ EmptyInv' /\ BriefInv' /\ LongInv'
  BY <1>1, <1>2, SlideStep, EmptyStep, BriefStep, LongStep
<1>4. LanesInv' /\ OrdersInv'
  BY <1>1, <1>2, LanesStep, OrdersStep
<1>5. FreshInv'
  BY <1>1, <1>2, FreshStep
<1>6. FirstInv'
  <2>1. op = "throttle" => InOrder(Out1, "values", Itself)
    BY <1>1 DEF OrdersInv, IsPath, ItemPath, Out1
  <2>2. op # "throttle" => FirstInv'
    <3>1. op' = op
      BY SteadyStep DEF Steady
    <3> QED BY <3>1 DEF FirstInv
  <2> QED BY <1>1, <1>2, <2>1, <2>2, FirstStep
<1>7. OneSend' /\ CombineInv'
  BY <1>1, <1>2, CombineStep
<1> QED BY <1>2, <1>3, <1>4, <1>5, <1>6, <1>7 DEF StreamInv

LEMMA StreamInvSays == ASSUME StreamInv PROVE OutputsAsDocumented
<1>1. /\ Ctl /\ SlideInv /\ LanesInv /\ EmptyInv /\ BriefInv /\ OrdersInv /\ FreshInv /\ FirstInv
      /\ LongInv
      /\ OneSend /\ CombineInv
  BY DEF StreamInv
<1> QED BY <1>1, PassesOnHolds, HoldsBackHolds, JoinsHolds, KeepsErrorsHolds, AnswersHolds,
     QuietWhenClosed DEF OutputsAsDocumented

\* Whatever operator or adapter runs, on however many items and however the
\* channels are served: what comes out is what its documentation says of its
\* inputs as a whole, nothing lost, repeated or reordered but where it says so,
\* and nothing is left to send when the outputs are closed (the select loops
\* of stream/transform.go, route.go, time.go, combine.go and fanout.go).
THEOREM OutputsAsDocumentedHolds == Spec => []OutputsAsDocumented
<1>1. Spec => []StreamInv
  BY StreamInvInit, StreamInvStep, PTL DEF Spec
<1> QED BY <1>1, StreamInvSays, PTL

=============================================================================
