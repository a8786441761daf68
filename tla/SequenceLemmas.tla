--------------------------- MODULE SequenceLemmas ---------------------------
EXTENDS Naturals, Sequences, SequencesExt, SequenceTheorems, WellFoundedInduction, TLAPS

(* Sequences of sequences joined into one, and what the items of a sequence *)
(* stand for, one after the other.  What FlattenSeq makes of any sequence   *)
(* follows by induction on its length: a set of numbers that is not all of  *)
(* Nat leaves out a least one.                                              *)

\* The least of a set of numbers.
LEMMA Least ==
  ASSUME NEW T, T \subseteq Nat, T # {}
  PROVE  \E m \in T : \A k \in T : m <= k
<1>1. PICK m \in T : \A y \in T : ~ (<<y, m>> \in OpToRel(<, Nat))
  BY NatLessThanWellFounded, WFMin
<1>2. \A x, y \in Nat : y < x => <<y, x>> \in OpToRel(<, Nat)
  BY DEF OpToRel
<1>3. \A y \in T : y \in Nat /\ ~(y < m)
  <2>1. T \subseteq Nat /\ m \in Nat
    OBVIOUS
  <2> QED BY <1>1, <1>2, <2>1, Zenon
<1>4. m \in Nat
  OBVIOUS
<1>5. \A y \in Nat : ~(y < m) => m <= y
  BY <1>4
<1> QED BY <1>3, <1>5

\* What holds of 0 and passes from a number to the next holds of all of them.
LEMMA Induct ==
  ASSUME NEW T, 0 \in T, \A n \in Nat : n \in T => n + 1 \in T
  PROVE  Nat \subseteq T
<1> DEFINE U == {n \in Nat : n \notin T}
<1>1. ASSUME U # {} PROVE FALSE
  <2>1. PICK m \in U : \A k \in U : m <= k
    BY <1>1, Least
  <2>2. m \in Nat /\ m # 0
    OBVIOUS
  <2>3. m - 1 \in Nat /\ m - 1 \notin U /\ (m - 1) + 1 = m
    BY <2>1, <2>2
  <2>4. m - 1 \in T
    BY <2>3
  <2>5. m \in T
    BY <2>3, <2>4
  <2> QED BY <2>5
<1> QED BY <1>1

\* f joins the first n sequences of q, one after the other.
Flat(f, q, n) == f = [i \in 1..n |-> IF i = 1 THEN q[i] ELSE f[i-1] \o q[i]]

LEMMA FlatExists == \A q : \A n \in Nat : \E f : Flat(f, q, n)
<1> SUFFICES ASSUME NEW q PROVE \A n \in Nat : \E f : Flat(f, q, n)
  OBVIOUS
<1> DEFINE T == {n \in Nat : \E f : Flat(f, q, n)}
<1>1. 0 \in T
  <2>1. Flat([i \in 1..0 |-> 0], q, 0)
    BY DEF Flat
  <2> QED BY <2>1
<1>2. ASSUME NEW n \in Nat, n \in T PROVE n + 1 \in T
  <2>1. PICK f : Flat(f, q, n)
    BY <1>2
  <2> DEFINE g == [i \in 1..(n + 1) |-> IF i = n + 1 THEN IF n = 0 THEN q[1] ELSE f[n] \o q[i] ELSE f[i]]
  <2>2. ASSUME NEW i \in 1..(n + 1)
        PROVE  g[i] = IF i = 1 THEN q[i] ELSE g[i - 1] \o q[i]
    <3>1. \A j \in 1..n : f[j] = IF j = 1 THEN q[j] ELSE f[j-1] \o q[j]
      BY <2>1 DEF Flat
    <3>2. CASE i = n + 1
      BY <3>2
    <3>3. CASE i # n + 1
      <4>1. i \in 1..n /\ i - 1 # n + 1 /\ (i # 1 => i - 1 \in 1..(n + 1))
        BY <3>3
      <4> QED BY <3>1, <4>1
    <3> QED BY <3>2, <3>3
  <2>3. Flat(g, q, n + 1)
    BY <2>2, Zenon DEF Flat
  <2> QED BY <2>3
<1> HIDE DEF T
<1>3. Nat \subseteq T
  BY <1>1, <1>2, Induct
<1> QED BY <1>3 DEF T

Joined(f, q, i) == f[i] = IF i = 1 THEN q[i] ELSE f[i-1] \o q[i]
Agree(f, g, n) == \A i \in 1..n : f[i] = g[i]

LEMMA FlatAt ==
  ASSUME NEW f, NEW q, NEW n \in Nat, Flat(f, q, n), NEW i \in 1..n
  PROVE  Joined(f, q, i)
<1>1. f = [j \in 1..n |-> IF j = 1 THEN q[j] ELSE f[j-1] \o q[j]]
  BY DEF Flat
<1>2. f[i] = IF i = 1 THEN q[i] ELSE f[i-1] \o q[i]
  BY <1>1
<1> QED BY <1>2 DEF Joined

LEMMA FlatAgree ==
  ASSUME NEW f, NEW g, NEW q, NEW r, NEW n \in Nat, NEW m \in Nat, n <= m,
         Flat(f, q, n), Flat(g, r, m), Agree(q, r, n)
  PROVE  Agree(f, g, n)
<1> DEFINE T == {k \in Nat : k \in 1..n => f[k] = g[k]}
<1>1. 0 \in T
  OBVIOUS
<1>2. ASSUME NEW k \in Nat, k \in T PROVE k + 1 \in T
  <2>1. SUFFICES ASSUME k + 1 \in 1..n PROVE f[k + 1] = g[k + 1]
    OBVIOUS
  <2>a. k + 1 \in 1..m
    BY <2>1
  <2>2. Joined(f, q, k + 1) /\ Joined(g, r, k + 1)
    BY <2>1, <2>a, FlatAt
  <2>3. (k + 1) - 1 = k /\ (k + 1 # 1 => f[k] = g[k])
    BY <1>2, <2>1
  <2>4. q[k + 1] = r[k + 1]
    BY <2>1 DEF Agree
  <2> QED BY <2>2, <2>3, <2>4, Zenon DEF Joined
<1> HIDE DEF T
<1>3. Nat \subseteq T
  BY <1>1, <1>2, Induct
<1> QED BY <1>3 DEF T, Agree

Chosen(q) == CHOOSE f : Flat(f, q, Len(q))

LEMMA FlattenIs == \A q : FlattenSeq(q) = IF Len(q) = 0 THEN q ELSE Chosen(q)[Len(q)]
BY Zenon DEF FlattenSeq, Chosen, Flat

LEMMA ChosenIs ==
  ASSUME NEW q, Len(q) \in Nat
  PROVE  Flat(Chosen(q), q, Len(q))
BY FlatExists, Zenon DEF Chosen

\* A sequence more is put at the end.
LEMMA FlattenOne ==
  ASSUME NEW T, NEW q \in Seq(Seq(T)), NEW s \in Seq(T)
  PROVE  FlattenSeq(Append(q, s)) = FlattenSeq(q) \o s
<1> DEFINE r == Append(q, s)
           n == Len(q)
<1>1. Len(q) \in Nat /\ Len(r) = n + 1 /\ r[n + 1] = s /\ \A i \in 1..n : r[i] = q[i]
  OBVIOUS
<1> HIDE DEF r
<1>2. Flat(Chosen(r), r, n + 1) /\ Flat(Chosen(q), q, n)
  <2>1. Len(r) \in Nat
    BY <1>1
  <2> QED BY <1>1, <2>1, ChosenIs
<1>3. FlattenSeq(r) = Chosen(r)[n + 1]
  BY <1>1, FlattenIs
<1>4. Joined(Chosen(r), r, n + 1) /\ (n + 1) - 1 = n
  <2>1. n + 1 \in Nat /\ n + 1 \in 1..(n + 1)
    BY <1>1
  <2> QED BY <1>2, <2>1, FlatAt
<1>5. CASE n = 0
  <2>1. q = <<>> /\ FlattenSeq(q) = <<>>
    <3>1. q = <<>> BY <1>5
    <3> QED BY <1>5, <3>1, FlattenIs
  <2>2. <<>> \o s = s
    BY ConcatEmptySeq
  <2> QED BY <1>1, <1>3, <1>4, <1>5, <2>1, <2>2 DEF r, Joined
<1>6. CASE n # 0
  <2>1. FlattenSeq(q) = Chosen(q)[n]
    BY <1>6, FlattenIs
  <2>2. Agree(Chosen(q), Chosen(r), n)
    <3>1. n \in Nat /\ n + 1 \in Nat /\ n <= n + 1
      BY <1>1
    <3>2. Agree(q, r, n)
      BY <1>1 DEF Agree
    <3> HIDE DEF n
    <3> QED BY <1>2, <3>1, <3>2, FlatAgree
  <2>3. Chosen(q)[n] = Chosen(r)[n]
    BY <1>1, <1>6, <2>2 DEF Agree
  <2>4. n + 1 # 1
    BY <1>1, <1>6
  <2> QED BY <1>1, <1>3, <1>4, <2>1, <2>3, <2>4, Zenon DEF r, Joined
<1> QED BY <1>5, <1>6

\* Two sequences are one.
Same(w, v) == w = v

LEMMA SeqCat == ASSUME NEW T, NEW a \in Seq(T), NEW b \in Seq(T) PROVE a \o b \in Seq(T)
OBVIOUS

LEMMA SeqNone == ASSUME NEW T PROVE <<>> \in Seq(T)
OBVIOUS

LEMMA NoneCat == ASSUME NEW T, NEW a \in Seq(T) PROVE Same(a \o <<>>, a) /\ Same(<<>> \o a, a)
BY ConcatEmptySeq DEF Same

LEMMA CatCat ==
  ASSUME NEW T, NEW a \in Seq(T), NEW b \in Seq(T), NEW c \in Seq(T)
  PROVE  Same((a \o b) \o c, a \o (b \o c))
BY ConcatAssociative DEF Same

\* What a sequence of sequences joins to: nothing of nothing, and then with
\* one more at either end.
LEMMA FlattenNone == FlattenSeq(<<>>) = <<>>
BY FlattenIs

LEMMA FlattenLast ==
  ASSUME NEW T, NEW q \in Seq(Seq(T)), NEW s \in Seq(T)
  PROVE  Same(FlattenSeq(Append(q, s)), FlattenSeq(q) \o s)
BY FlattenOne DEF Same

\* Every sequence but the empty one is another one and its last item.
HasLast(s, T, n) == \E t \in Seq(T), x \in T : Len(t) = n /\ s = Append(t, x)
LEMMA LastOff ==
  ASSUME NEW T, NEW s \in Seq(T), NEW n \in Nat, Len(s) = n + 1
  PROVE  HasLast(s, T, n)
<1>1. SubSeq(s, 1, n) \in Seq(T) /\ s[n + 1] \in T /\ Len(SubSeq(s, 1, n)) = n
  OBVIOUS
<1>2. Append(SubSeq(s, 1, n), s[n + 1]) \in Seq(T) /\ Len(Append(SubSeq(s, 1, n), s[n + 1])) = n + 1
  BY <1>1
<1>3. \A i \in 1..(n + 1) : Append(SubSeq(s, 1, n), s[n + 1])[i] = s[i]
  BY <1>1
<1>4. s = Append(SubSeq(s, 1, n), s[n + 1])
  BY <1>2, <1>3, SeqEqual
<1> QED BY <1>1, <1>4 DEF HasLast

LEMMA FirstOfAppend ==
  ASSUME NEW T, NEW t \in Seq(T), NEW x \in T, t # <<>>
  PROVE  /\ Head(Append(t, x)) = Head(t)
         /\ Same(Tail(Append(t, x)), Append(Tail(t), x))
<1>1. Len(t) \in Nat \ {0}
  BY EmptySeq
<1>2. Head(Append(t, x)) = Head(t)
  BY <1>1
<1>3. /\ Tail(Append(t, x)) \in Seq(T) /\ Append(Tail(t), x) \in Seq(T)
      /\ Len(Tail(Append(t, x))) = Len(t) /\ Len(Append(Tail(t), x)) = Len(t)
  BY <1>1
<1>4. \A i \in 1..Len(t) : Tail(Append(t, x))[i] = Append(Tail(t), x)[i]
  <2>1. ASSUME NEW i \in 1..Len(t) PROVE Tail(Append(t, x))[i] = Append(Tail(t), x)[i]
    <3>1. Tail(Append(t, x))[i] = Append(t, x)[i + 1]
      BY <1>1
    <3>2. CASE i = Len(t)
      BY <1>1, <3>1, <3>2
    <3>3. CASE i # Len(t)
      BY <1>1, <3>1, <3>3
    <3> QED BY <3>2, <3>3
  <2> QED BY <2>1
<1> QED BY <1>2, <1>3, <1>4, SeqEqual DEF Same

FlatFirst(q) == FlattenSeq(q) = Head(q) \o FlattenSeq(Tail(q))

LEMMA FlattenType ==
  ASSUME NEW T, NEW q \in Seq(Seq(T))
  PROVE  FlattenSeq(q) \in Seq(T)
<1> DEFINE Ls == {n \in Nat : \A r \in Seq(Seq(T)) : Len(r) = n => FlattenSeq(r) \in Seq(T)}
<1>1. 0 \in Ls
  <2>1. ASSUME NEW r \in Seq(Seq(T)), Len(r) = 0 PROVE FlattenSeq(r) \in Seq(T)
    <3>1. r = <<>>
      BY <2>1, EmptySeq
    <3> QED BY <3>1, FlattenNone, SeqNone
  <2> QED BY <2>1
<1>2. ASSUME NEW n \in Nat, n \in Ls PROVE n + 1 \in Ls
  <2>1. ASSUME NEW r \in Seq(Seq(T)), Len(r) = n + 1 PROVE FlattenSeq(r) \in Seq(T)
    <3>0. HasLast(r, Seq(T), n)
      BY <2>1, LastOff
    <3>1. PICK t \in Seq(Seq(T)), x \in Seq(T) : Len(t) = n /\ r = Append(t, x)
      BY <3>0 DEF HasLast
    <3>2. FlattenSeq(t) \in Seq(T)
      BY <1>2, <3>1
    <3>3. Same(FlattenSeq(r), FlattenSeq(t) \o x)
      BY <3>1, FlattenLast
    <3>4. FlattenSeq(t) \o x \in Seq(T)
      BY <3>2, SeqCat
    <3> QED BY <3>3, <3>4 DEF Same
  <2> QED BY <2>1
<1> HIDE DEF Ls
<1>3. Nat \subseteq Ls
  BY <1>1, <1>2, Induct
<1>4. Len(q) \in Ls
  BY <1>3
<1> QED BY <1>4 DEF Ls

LEMMA FlattenFirst ==
  ASSUME NEW T, NEW q \in Seq(Seq(T)), q # <<>>
  PROVE  FlatFirst(q)
<1> DEFINE Ls == {n \in Nat : \A r \in Seq(Seq(T)) : Len(r) = n /\ r # <<>> => FlatFirst(r)}
<1>1. 0 \in Ls
  BY EmptySeq
<1>2. ASSUME NEW n \in Nat, n \in Ls PROVE n + 1 \in Ls
  <2>1. ASSUME NEW r \in Seq(Seq(T)), Len(r) = n + 1 PROVE FlatFirst(r)
    <3>0. HasLast(r, Seq(T), n)
      BY <2>1, LastOff
    <3>1. PICK t \in Seq(Seq(T)), x \in Seq(T) : Len(t) = n /\ r = Append(t, x)
      BY <3>0 DEF HasLast
    <3>2. Same(FlattenSeq(r), FlattenSeq(t) \o x)
      BY <3>1, FlattenLast
    <3>3. CASE t = <<>>
      <4>1. Head(r) = x /\ Tail(r) = <<>>
        BY <3>1, <3>3
      <4>2. Same(<<>> \o x, x) /\ Same(x \o <<>>, x)
        BY NoneCat
      <4> QED BY <3>2, <3>3, <4>1, <4>2, FlattenNone, Zenon DEF Same, FlatFirst
    <3>4. CASE t # <<>>
      <4>1. FlatFirst(t)
        BY <1>2, <3>1, <3>4
      <4>2. Head(r) = Head(t) /\ Same(Tail(r), Append(Tail(t), x))
        BY <3>1, <3>4, FirstOfAppend
      <4>3. Head(t) \in Seq(T) /\ Tail(t) \in Seq(Seq(T))
        BY <3>4
      <4>4. Same(FlattenSeq(Append(Tail(t), x)), FlattenSeq(Tail(t)) \o x)
        BY <4>3, FlattenLast
      <4>5. FlattenSeq(Tail(t)) \in Seq(T)
        BY <4>3, FlattenType
      <4>6. Same((Head(t) \o FlattenSeq(Tail(t))) \o x, Head(t) \o (FlattenSeq(Tail(t)) \o x))
        BY <4>3, <4>5, CatCat
      <4> QED BY <3>2, <4>1, <4>2, <4>4, <4>6, Zenon DEF Same, FlatFirst
    <3> QED BY <3>3, <3>4
  <2> QED BY <2>1
<1> HIDE DEF Ls
<1>3. Nat \subseteq Ls
  BY <1>1, <1>2, Induct
<1>4. Len(q) \in Ls
  BY <1>3
<1> QED BY <1>4 DEF Ls

-----------------------------------------------------------------------------
(* What the items of a sequence stand for, one after the other.             *)
Images(s, h) == [i \in DOMAIN s |-> h[s[i]]]
Gather(s, h) == FlattenSeq(Images(s, h))

LEMMA ListIsSeq == ASSUME NEW S, NEW n \in Nat, NEW f \in [1..n -> S] PROVE f \in Seq(S)
OBVIOUS

Imaged(s, h, Y) == Images(s, h) \in Seq(Seq(Y)) /\ Len(Images(s, h)) = Len(s)
LEMMA ImagesSeq ==
  ASSUME NEW X, NEW Y, NEW h \in [X -> Seq(Y)], NEW s \in Seq(X)
  PROVE  Imaged(s, h, Y)
<1>1. DOMAIN s = 1..Len(s) /\ Len(s) \in Nat /\ \A i \in 1..Len(s) : s[i] \in X
  OBVIOUS
<1>2. \A i \in 1..Len(s) : h[s[i]] \in Seq(Y)
  BY <1>1
<1>3. Images(s, h) \in [1..Len(s) -> Seq(Y)]
  BY <1>1, <1>2 DEF Images
<1>4. Images(s, h) \in Seq(Seq(Y))
  BY <1>1, <1>3, ListIsSeq
<1>5. Len(Images(s, h)) = Len(s)
  BY <1>1, <1>3, <1>4, LenProperties
<1> QED BY <1>4, <1>5 DEF Imaged

LEMMA GatherType ==
  ASSUME NEW X, NEW Y, NEW h \in [X -> Seq(Y)], NEW s \in Seq(X)
  PROVE  Gather(s, h) \in Seq(Y)
BY ImagesSeq, FlattenType DEF Imaged, Gather

LEMMA GatherNone == \A h : Gather(<<>>, h) = <<>>
<1> SUFFICES ASSUME NEW h PROVE FlattenSeq([i \in DOMAIN <<>> |-> h[<<>>[i]]]) = <<>>
  BY DEF Gather, Images
<1>1. [i \in DOMAIN <<>> |-> h[<<>>[i]]] = <<>>
  OBVIOUS
<1> QED BY <1>1, FlattenNone

LEMMA GatherLast ==
  ASSUME NEW X, NEW Y, NEW h \in [X -> Seq(Y)], NEW s \in Seq(X), NEW x \in X
  PROVE  Same(Gather(Append(s, x), h), Gather(s, h) \o h[x])
<1> DEFINE a == Images(s, h)
           b == Images(Append(s, x), h)
<1>1. a \in Seq(Seq(Y)) /\ b \in Seq(Seq(Y)) /\ Len(a) = Len(s) /\ Len(b) = Len(s) + 1 /\ h[x] \in Seq(Y)
  <2>1. Append(s, x) \in Seq(X) /\ Len(Append(s, x)) = Len(s) + 1 /\ h[x] \in Seq(Y)
    OBVIOUS
  <2>2. PICK z \in Seq(X) : z = Append(s, x) /\ Len(z) = Len(s) + 1
    BY <2>1
  <2>3. Imaged(s, h, Y) /\ Imaged(z, h, Y)
    BY ImagesSeq
  <2> QED BY <2>1, <2>2, <2>3 DEF Imaged
<1>2. /\ \A i \in 1..Len(s) : a[i] = h[s[i]] /\ b[i] = h[s[i]]
      /\ b[Len(s) + 1] = h[x]
  BY DEF Images
<1> HIDE DEF a, b
<1>3. /\ Append(a, h[x]) \in Seq(Seq(Y)) /\ Len(Append(a, h[x])) = Len(s) + 1
      /\ \A i \in 1..(Len(s) + 1) : Append(a, h[x])[i] = b[i]
  BY <1>1, <1>2
<1>4. Append(a, h[x]) = b
  BY <1>1, <1>3, SeqEqual
<1>5. Same(FlattenSeq(Append(a, h[x])), FlattenSeq(a) \o h[x])
  BY <1>1, FlattenLast
<1> QED BY <1>4, <1>5, Zenon DEF a, b, Gather

LEMMA GatherFirst ==
  ASSUME NEW X, NEW Y, NEW h \in [X -> Seq(Y)], NEW s \in Seq(X), s # <<>>
  PROVE  Same(Gather(s, h), h[Head(s)] \o Gather(Tail(s), h))
<1> DEFINE a == Images(s, h)
           b == Images(Tail(s), h)
<1>0. Len(s) \in Nat \ {0} /\ Tail(s) \in Seq(X) /\ Len(Tail(s)) = Len(s) - 1
  BY EmptySeq
<1>1. a \in Seq(Seq(Y)) /\ b \in Seq(Seq(Y)) /\ Len(a) = Len(s) /\ Len(b) = Len(s) - 1
  <2>2. PICK z \in Seq(X) : z = Tail(s) /\ Len(z) = Len(s) - 1
    BY <1>0
  <2>3. Imaged(s, h, Y) /\ Imaged(z, h, Y)
    BY ImagesSeq
  <2> QED BY <2>2, <2>3 DEF Imaged
<1>2. /\ a[1] = h[Head(s)]
      /\ \A i \in 1..(Len(s) - 1) : a[i + 1] = h[s[i + 1]] /\ b[i] = h[s[i + 1]]
  BY <1>0 DEF Images
<1> HIDE DEF a, b
<1>3. a # <<>> /\ Head(a) = h[Head(s)]
  BY <1>0, <1>1, <1>2
<1>4. /\ Tail(a) \in Seq(Seq(Y)) /\ Len(Tail(a)) = Len(s) - 1
      /\ \A i \in 1..(Len(s) - 1) : Tail(a)[i] = b[i]
  BY <1>0, <1>1, <1>2, <1>3
<1>5. Tail(a) = b
  BY <1>1, <1>4, SeqEqual
<1>6. FlatFirst(a)
  BY <1>1, <1>3, FlattenFirst
<1> QED BY <1>3, <1>5, <1>6, Zenon DEF a, b, Gather, FlatFirst, Same
=============================================================================
